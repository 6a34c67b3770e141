----------------------------- MODULE KeysProofs -----------------------------
(***************************************************************************)
(* Keys, for every configuration that validateCfg accepts, whole seconds   *)
(* or not, and every start time: the ranges of encoded keys are windows.   *)
(***************************************************************************)
EXTENDS Keys, WellFoundedInduction, TLAPS

-----------------------------------------------------------------------------
(* Numbers. *)

\* Every set of naturals that is not empty has a least element: induction without an
\* operator.
LEMMA LeastNatural ==
    ASSUME NEW T \in SUBSET Nat, T # {}
    PROVE  \E n \in T : \A m \in T : n <= m
<1> DEFINE R == OpToRel(<, Nat)
<1>1. IsWellFoundedOn(R, Nat)
  BY NatLessThanWellFounded, Zenon
<1>2. \A m, n \in Nat : m < n => <<m, n>> \in R
  BY Zenon DEF OpToRel
<1> HIDE DEF R
<1>3. PICK n \in T : \A m \in T : ~(<<m, n>> \in R)
  BY <1>1, WFMin, Zenon
<1>4. \A m \in T : ~(m < n)
  BY <1>2, <1>3, Zenon
<1> QED
  BY <1>4

\* Sorted neighbours are sorted.
LEMMA Sorted ==
    ASSUME NEW s \in Seq(Int), Len(s) # 0,
           \A i \in 1 .. Len(s) - 1 : s[i] <= s[i + 1]
    PROVE  \A i \in 1 .. Len(s) : s[1] <= s[i] /\ s[i] <= s[Len(s)]
<1>0. Len(s) \in Nat /\ \A i \in 1 .. Len(s) : s[i] \in Int
  OBVIOUS
<1>1. \A i \in 1 .. Len(s) : s[1] <= s[i]
  <2> DEFINE T == {i \in 1 .. Len(s) : ~(s[1] <= s[i])}
  <2> SUFFICES ASSUME T # {} PROVE FALSE
    BY Zenon
  <2>1. T \in SUBSET Nat
    BY <1>0
  <2> HIDE DEF T
  <2>2. PICK n \in T : \A m \in T : n <= m
    BY <2>1, LeastNatural, Zenon
  <2>3. n \in 2 .. Len(s) /\ ~(s[1] <= s[n])
    BY <1>0 DEF T
  <2>4. n - 1 \in 1 .. Len(s) - 1 /\ n - 1 \notin T
    BY <1>0, <2>1, <2>2, <2>3
  <2>5. s[1] <= s[n - 1]
    BY <1>0, <2>4 DEF T
  <2>6. s[n - 1] <= s[n]
    BY <1>0, <2>3, <2>4
  <2> QED
    BY <1>0, <2>3, <2>4, <2>5, <2>6
<1>2. \A i \in 1 .. Len(s) : s[i] <= s[Len(s)]
  <2> DEFINE T == {j \in 0 .. Len(s) - 1 : ~(s[Len(s) - j] <= s[Len(s)])}
  <2>0. SUFFICES ASSUME T # {} PROVE FALSE
    <3>1. ASSUME NEW i \in 1 .. Len(s) PROVE s[i] <= s[Len(s)]
      <4>1. Len(s) - i \in 0 .. Len(s) - 1 /\ Len(s) - (Len(s) - i) = i
        BY <1>0
      <4> QED
        BY <2>0, <4>1, Zenon
    <3> QED
      BY <3>1, Zenon
  <2>1. T \in SUBSET Nat
    BY <1>0
  <2> HIDE DEF T
  <2>2. PICK n \in T : \A m \in T : n <= m
    BY <2>0, <2>1, LeastNatural, Zenon
  <2>3. n \in 1 .. Len(s) - 1 /\ ~(s[Len(s) - n] <= s[Len(s)])
    BY <1>0 DEF T
  <2>4. n - 1 \in 0 .. Len(s) - 1 /\ n - 1 \notin T
    BY <1>0, <2>1, <2>2, <2>3
  <2>5. s[Len(s) - (n - 1)] <= s[Len(s)]
    BY <1>0, <2>4, Zenon DEF T
  <2>6. Len(s) - n \in 1 .. Len(s) - 1 /\ (Len(s) - n) + 1 = Len(s) - (n - 1)
    BY <1>0, <2>3
  <2>7. s[Len(s) - n] <= s[Len(s) - (n - 1)]
    BY <2>6, Zenon
  <2> QED
    BY <1>0, <2>3, <2>4, <2>5, <2>6, <2>7, SMTT(30)
<1> QED
  BY <1>1, <1>2, Zenon

-----------------------------------------------------------------------------
(* Division. *)

\* Division with remainder.
LEMMA DivMod ==
    ASSUME NEW a \in Nat, NEW d \in Nat \ {0}
    PROVE  /\ a % d \in Nat /\ a % d < d /\ a \div d \in Nat
           /\ a = d * (a \div d) + (a % d)
<1>1. a % d \in Nat /\ a \div d \in Int /\ a = d * (a \div d) + (a % d) /\ a % d < d
  BY Z3
<1>2. a \div d >= 0
  <2> SUFFICES ASSUME a \div d <= -1 PROVE FALSE
    BY <1>1
  <2>1. d * (a \div d) <= -d
    BY <1>1, Z3
  <2> QED
    BY <1>1, <2>1
<1> QED
  BY <1>1, <1>2

\* Multiples are ordered as their factors.
LEMMA ProductLess ==
    ASSUME NEW p \in Nat, NEW q \in Nat, NEW d \in Nat \ {0}, d * p < d * q
    PROVE  p < q
<1> SUFFICES ASSUME q <= p PROVE FALSE
  OBVIOUS
<1>1. d * q <= d * p
  BY Z3
<1>2. d * p \in Int /\ d * q \in Int
  OBVIOUS
<1> QED
  BY <1>1, <1>2

\* Two different multiples are at least the divisor apart.
LEMMA ProductNext ==
    ASSUME NEW p \in Nat, NEW q \in Nat, NEW d \in Nat \ {0}, p < q
    PROVE  d * p + d <= d * q
<1>1. d * (p + 1) <= d * q
  BY Z3
<1>2. d * (p + 1) = d * p + d
  BY Z3
<1> QED
  BY <1>1, <1>2, Zenon

\* Numbers that are a divisor apart have different quotients, and in order.
LEMMA QuotientApart ==
    ASSUME NEW a \in Nat, NEW b \in Nat, NEW d \in Nat \ {0}, a + d <= b
    PROVE  a \div d < b \div d
<1>1. /\ a \div d \in Nat /\ a % d \in Nat /\ a = d * (a \div d) + (a % d)
      /\ b \div d \in Nat /\ b % d \in Nat /\ b % d < d /\ b = d * (b \div d) + (b % d)
  BY DivMod, Zenon
<1>2. d * (a \div d) < d * (b \div d)
  <2> DEFINE p == d * (a \div d)
             q == d * (b \div d)
             r == a % d
             u == b % d
  <2>1. p \in Int /\ q \in Int /\ r \in Nat /\ u \in Nat /\ u < d /\ a = p + r /\ b = q + u
    BY <1>1
  <2> HIDE DEF p, q, r, u
  <2>2. p < q
    BY <2>1
  <2> QED
    BY <2>2, Zenon DEF p, q
<1> QED
  BY <1>1, <1>2, ProductLess, Zenon

\* A product is divisible by its factor.
LEMMA QuotientOfProduct ==
    ASSUME NEW q \in Nat, NEW d \in Nat \ {0}
    PROVE  (q * d) \div d = q /\ (q * d) % d = 0
<1> DEFINE a == q * d
<1>1. a \in Nat
  BY Z3
<1>2. a \div d \in Nat /\ a % d \in Nat /\ a % d < d /\ a = d * (a \div d) + (a % d)
  BY <1>1, DivMod, Zenon
<1>3. a = d * q
  BY Z3
<1> HIDE DEF a
<1>4. a \div d = q
  <2>1. ASSUME a \div d < q PROVE FALSE
    <3>1. d * (a \div d) + d <= d * q
      BY <1>2, <2>1, ProductNext, Zenon
    <3>2. d * (a \div d) \in Int
      BY <1>2
    <3> QED
      BY <1>1, <1>2, <1>3, <3>1, <3>2
  <2>2. ASSUME q < a \div d PROVE FALSE
    <3>1. d * q + d <= d * (a \div d)
      BY <1>2, <2>2, ProductNext, Zenon
    <3>2. d * (a \div d) \in Int
      BY <1>2
    <3> QED
      BY <1>1, <1>2, <1>3, <3>1, <3>2
  <2> QED
    BY <1>2, <2>1, <2>2
<1>5. a % d = 0
  <2>1. d * (a \div d) = a
    BY <1>3, <1>4, Zenon
  <2>2. a = a + (a % d)
    BY <1>2, <2>1, Zenon
  <2> QED
    BY <1>1, <1>2, <2>2
<1> QED
  BY <1>4, <1>5, Zenon DEF a

\* A later boundary of an interval is at least one interval later.
LEMMA NextMultiple ==
    ASSUME NEW a \in Nat, NEW b \in Nat, NEW d \in Nat \ {0}, a % d = 0, b % d = 0, a < b
    PROVE  a + d <= b
<1>1. /\ a \div d \in Nat /\ a = d * (a \div d)
      /\ b \div d \in Nat /\ b = d * (b \div d)
  BY DivMod
<1>2. a \div d < b \div d
  BY <1>1, ProductLess, Zenon
<1> QED
  BY <1>1, <1>2, ProductNext, Zenon

\* Sums and differences of boundaries are boundaries.
LEMMA SumOfMultiples ==
    ASSUME NEW a \in Nat, NEW b \in Nat, NEW d \in Nat \ {0}, a % d = 0, b % d = 0
    PROVE  (a + b) % d = 0 /\ (b <= a => (a - b) % d = 0)
<1>1. /\ a \div d \in Nat /\ a = d * (a \div d)
      /\ b \div d \in Nat /\ b = d * (b \div d)
  BY DivMod
<1> DEFINE p == a \div d
           q == b \div d
<1>2. p \in Nat /\ q \in Nat /\ a = d * p /\ b = d * q
  BY <1>1, Zenon
<1> HIDE DEF p, q
<1>3. a + b = (p + q) * d
  BY <1>2, Z3
<1>4. ASSUME b <= a PROVE (a - b) % d = 0
  <2>1. q <= p
    <3> SUFFICES ASSUME p < q PROVE FALSE
      BY <1>2
    <3> QED
      BY <1>2, <1>4, ProductNext
  <2>2. a - b = (p - q) * d /\ p - q \in Nat
    BY <1>2, <2>1, Z3
  <2> QED
    BY <2>2, QuotientOfProduct, Zenon
<1> QED
  BY <1>2, <1>3, <1>4, QuotientOfProduct

\* A boundary of an interval is one of every interval that divides it.
LEMMA MultipleOfMultiple ==
    ASSUME NEW a \in Nat, NEW b \in Nat \ {0}, NEW d \in Nat \ {0}, a % b = 0, b % d = 0
    PROVE  a % d = 0
<1>1. /\ a \div b \in Nat /\ a = b * (a \div b)
      /\ b \div d \in Nat /\ b = d * (b \div d)
  BY DivMod
<1> DEFINE p == a \div b
           q == b \div d
<1>2. p \in Nat /\ q \in Nat /\ a = b * p /\ b = d * q
  BY <1>1, Zenon
<1> HIDE DEF p, q
<1>3. a = (q * p) * d /\ q * p \in Nat
  BY <1>2, Z3
<1> QED
  BY <1>3, QuotientOfProduct, Zenon

\* time.Time.Truncate gives the last boundary that has passed.
LEMMA TruncateBounds ==
    ASSUME NEW t \in Nat, NEW d \in Nat \ {0}
    PROVE  /\ Truncate(t, d) \in Nat /\ Truncate(t, d) % d = 0
           /\ Truncate(t, d) <= t /\ t < Truncate(t, d) + d
<1>1. t % d \in Nat /\ t % d < d /\ t \div d \in Nat /\ t = d * (t \div d) + (t % d)
  BY DivMod, Zenon
<1> DEFINE q == t \div d
           r == t % d
<1>2. r \in Nat /\ r < d /\ q \in Nat /\ t = d * q + r /\ Truncate(t, d) = t - r
  BY <1>1, Zenon DEF Truncate
<1> HIDE DEF q, r
<1>3. q * d \in Nat /\ d * q = q * d
  BY <1>2, Z3
<1>4. t - r = q * d
  BY <1>2, <1>3
<1>5. (q * d) % d = 0
  BY <1>2, QuotientOfProduct, Zenon
<1>6. Truncate(t, d) = q * d
  BY <1>2, <1>4, Zenon
<1>7. q * d <= t /\ t < q * d + d
  BY <1>2, <1>3, <1>4
<1> QED
  BY <1>3, <1>5, <1>6, <1>7, Zenon

-----------------------------------------------------------------------------
(* The inductive invariant. *)

\* A key of an interval of the configuration, at the start of a window of it.
IsKey(k) ==
    /\ k = [ivl |-> k.ivl, pt |-> k.pt, id |-> k.id, part |-> k.part]
    /\ k.ivl \in Ivls
    /\ k.pt \in Nat /\ k.pt % k.ivl = 0
    /\ k.id \in Nat /\ k.part \in Nat

\* The configuration is one that validateCfg accepts.
ValidCfg == cfg \in Configs /\ ValidateCfg(cfg)

\* The stored keys are those of the windows that the processing time is in, and the
\* delivered ones those of windows that have ended.
KeysInv ==
    /\ ValidCfg
    /\ now \in Nat /\ now % Lowest(cfg) = 0
    /\ \A k \in stored : IsKey(k) /\ k.pt <= now /\ now < k.pt + k.ivl
    /\ \A d \in delivered :
          IsKey(d.of) /\ d.of.pt + d.of.ivl <= now /\ d.key = Unmarshal(Marshal(d.of))
    /\ db = {Marshal(k) : k \in stored}

\* validateCfg bounds the intervals by a second and by 18 hours, and makes all of them
\* multiples of the lowest.
LEMMA IvlBounds ==
    ASSUME ValidCfg
    PROVE  /\ Lowest(cfg) \in Nat \ {0} /\ TicksPerSecond <= Lowest(cfg)
           /\ \A ivl \in Ivls : /\ ivl \in Nat \ {0} /\ TicksPerSecond <= ivl
                                /\ ivl <= MaxInterval
                                /\ ivl % Lowest(cfg) = 0
<1> DEFINE s == cfg.intervals
<1>0. s \in Seq(Int) /\ Len(s) # 0 /\ \A i \in 1 .. Len(s) - 1 : s[i] <= s[i + 1]
  BY KeysAssumption, Zenon DEF ValidCfg, ValidateCfg
<1>1. \A i \in 1 .. Len(s) : s[1] <= s[i] /\ s[i] <= s[Len(s)]
  BY <1>0, Sorted, Zenon
<1>2. /\ s[1] \in Int /\ s[1] >= TicksPerSecond /\ s[Len(s)] <= MaxInterval
      /\ TicksPerSecond \in Nat \ {0} /\ MaxInterval \in Nat
  BY <1>0, KeysAssumption DEF ValidCfg, ValidateCfg, Lowest, Highest
<1>3. Lowest(cfg) = s[1] /\ s[1] \in Nat \ {0}
  BY <1>2 DEF Lowest
<1>4. ASSUME NEW i \in 1 .. Len(s)
      PROVE  /\ s[i] \in Nat \ {0} /\ TicksPerSecond <= s[i]
             /\ s[i] <= MaxInterval /\ s[i] % s[1] = 0
  <2>1. s[i] \in Int /\ s[Len(s)] \in Int
    BY <1>0
  <2>2. s[i] \in Nat \ {0} /\ TicksPerSecond <= s[i] /\ s[i] <= MaxInterval
    BY <1>1, <1>2, <2>1
  <2>3. CASE i = 1
    <3>1. s[1] = 1 * s[1]
      BY <1>3
    <3>2. (1 * s[1]) % s[1] = 0
      BY <1>3, QuotientOfProduct, Zenon
    <3> QED
      BY <2>2, <2>3, <3>1, <3>2, Zenon
  <2>4. CASE i # 1
    <3>1. i \in 2 .. Len(s)
      BY <1>0, <2>4
    <3> QED
      BY <1>3, <2>2, <3>1, Zenon DEF ValidCfg, ValidateCfg
  <2> QED
    BY <2>3, <2>4, Zenon
<1>5. DOMAIN s = 1 .. Len(s)
  BY <1>0
<1> QED
  BY <1>2, <1>3, <1>4, <1>5, Zenon DEF Ivls

\* The seconds of an interval fit into the two bytes of MarshalBinaryToSizedBuffer.
LEMMA FieldOfIvl ==
    ASSUME ValidCfg, NEW ivl \in Ivls
    PROVE  /\ ivl \div TicksPerSecond \in Nat
           /\ (ivl \div TicksPerSecond) % IvlFieldSize = ivl \div TicksPerSecond
<1> DEFINE T == TicksPerSecond
           F == IvlFieldSize
           n == ivl \div T
<1>1. T \in Nat \ {0} /\ F \in Nat \ {0} /\ MaxInterval \in Nat /\ MaxInterval < F * T
  BY KeysAssumption, Zenon
<1>2. ivl \in Nat /\ ivl <= MaxInterval
  BY IvlBounds, Zenon
<1>3. n \in Nat /\ ivl % T \in Nat /\ ivl = T * n + (ivl % T)
  BY <1>1, <1>2, DivMod, Zenon
<1> HIDE DEF n
<1>4. T * n < T * F
  <2>1. T * n \in Int /\ T * F \in Int /\ T * F = F * T
    BY <1>1, <1>3, Z3
  <2> QED
    BY <1>1, <1>2, <1>3, <2>1
<1>5. n < F
  BY <1>1, <1>3, <1>4, ProductLess, Zenon
<1>6. n % F = n
  <2>1. n % F \in Nat /\ n \div F \in Nat /\ n = F * (n \div F) + (n % F)
    BY <1>1, <1>3, DivMod, Zenon
  <2>2. ASSUME 0 < n \div F PROVE FALSE
    <3>1. F * 0 + F <= F * (n \div F)
      BY <1>1, <2>1, <2>2, ProductNext, Zenon
    <3>2. F * 0 = 0 /\ F * (n \div F) \in Int
      BY <1>1, <2>1, Z3
    <3> QED
      BY <1>1, <1>3, <1>5, <2>1, <3>1, <3>2
  <2>3. n \div F = 0
    BY <2>1, <2>2
  <2>4. F * 0 = 0
    BY <1>1
  <2> QED
    BY <2>1, <2>3, <2>4
<1> QED
  BY <1>3, <1>6, Zenon DEF n

\* Two intervals of a configuration differ in whole seconds: they are multiples of a
\* lowest interval of at least a second.
LEMMA SameField ==
    ASSUME ValidCfg, NEW i \in Ivls, NEW j \in Ivls, i \div TicksPerSecond = j \div TicksPerSecond
    PROVE  i = j
<1>0. TicksPerSecond \in Nat \ {0}
  BY KeysAssumption, Zenon
<1>1. /\ Lowest(cfg) \in Nat \ {0} /\ TicksPerSecond <= Lowest(cfg)
      /\ i \in Nat /\ j \in Nat /\ i % Lowest(cfg) = 0 /\ j % Lowest(cfg) = 0
  BY IvlBounds, Zenon
<1>2. ASSUME NEW a \in Ivls, NEW b \in Ivls, a \in Nat, b \in Nat, a % Lowest(cfg) = 0,
             b % Lowest(cfg) = 0, a < b
      PROVE  a \div TicksPerSecond < b \div TicksPerSecond
  <2>1. a + Lowest(cfg) <= b
    BY <1>1, <1>2, NextMultiple, Zenon
  <2>2. a + TicksPerSecond <= b
    BY <1>0, <1>1, <1>2, <2>1
  <2> QED
    BY <1>0, <1>2, <2>2, QuotientApart, Zenon
<1>3. i \div TicksPerSecond \in Nat /\ j \div TicksPerSecond \in Nat
  BY FieldOfIvl, Zenon
<1> QED
  BY <1>1, <1>2, <1>3

\* The fields of an encoded key.
LEMMA MarshalKey ==
    ASSUME ValidCfg, NEW k, k.ivl \in Ivls, k.pt \in Nat
    PROVE  /\ Marshal(k) = <<k.ivl \div TicksPerSecond, k.pt \div TicksPerSecond, k.id, k.part>>
           /\ k.ivl \div TicksPerSecond \in Nat
           /\ k.pt \div TicksPerSecond \in Nat
BY FieldOfIvl, DivMod, KeysAssumption, Zenon DEF Marshal

\* The order of keys against a bound.
LEMMA LessBound ==
    ASSUME NEW a \in Nat, NEW b \in Nat, NEW c \in Nat, NEW d \in Nat, NEW x \in Nat, NEW y \in Nat
    PROVE  Less(<<a, b, c, d>>, <<x, y, 0, 0>>) <=> a < x \/ (a = x /\ b < y)
<1> DEFINE p == <<a, b, c, d>>
           q == <<x, y, 0, 0>>
<1>1. /\ p[1] = a /\ p[2] = b /\ p[3] = c /\ p[4] = d
      /\ q[1] = x /\ q[2] = y /\ q[3] = 0 /\ q[4] = 0
  BY Zenon
<1> HIDE DEF p, q
<1>2. ASSUME NEW i \in 1 .. 4, p[i] < q[i], \A j \in 1 .. i - 1 : p[j] = q[j]
      PROVE  a < x \/ (a = x /\ b < y)
  <2>1. i = 1 \/ i = 2
    BY <1>1, <1>2
  <2> QED
    BY <1>1, <1>2, <2>1
<1>3. ASSUME a < x \/ (a = x /\ b < y)
      PROVE  \E i \in 1 .. 4 : p[i] < q[i] /\ \A j \in 1 .. i - 1 : p[j] = q[j]
  <2>1. CASE a < x
    BY <1>1, <2>1
  <2>2. CASE a = x /\ b < y
    BY <1>1, <2>2
  <2> QED
    BY <1>3, <2>1, <2>2, Zenon
<1> QED
  BY <1>2, <1>3, Zenon DEF Less, p, q

-----------------------------------------------------------------------------
(* Windows and ranges. *)

\* The window of the key is open.
Current(k) == IsKey(k) /\ k.pt <= now /\ now < k.pt + k.ivl

\* The interval of a window is due when the window ends, and not before.
LEMMA DueAtEnd ==
    ASSUME KeysInv, NEW k, Current(k)
    PROVE  LET end == now + Lowest(cfg) IN
           /\ end \in Nat /\ end <= k.pt + k.ivl
           /\ end % k.ivl = 0 <=> end = k.pt + k.ivl
<1> DEFINE L == Lowest(cfg)
           end == now + L
           last == k.pt + k.ivl
<1>1. L \in Nat \ {0} /\ k.ivl \in Nat \ {0} /\ k.ivl % L = 0
  BY IvlBounds, Zenon DEF KeysInv, Current, IsKey
<1>2. now \in Nat /\ now % L = 0 /\ k.pt \in Nat /\ k.pt % k.ivl = 0 /\ k.pt <= now /\ now < last
  BY Zenon DEF KeysInv, Current, IsKey
<1>3. k.pt % L = 0
  BY <1>1, <1>2, MultipleOfMultiple, Zenon
<1>4. last \in Nat /\ last % L = 0
  BY <1>1, <1>2, <1>3, SumOfMultiples
<1>5. end <= last
  BY <1>1, <1>2, <1>4, NextMultiple, Zenon
<1>6. k.ivl % k.ivl = 0
  <2>1. (1 * k.ivl) % k.ivl = 0
    BY <1>1, QuotientOfProduct, Zenon
  <2>2. 1 * k.ivl = k.ivl
    BY <1>1
  <2> QED
    BY <2>1, <2>2, Zenon
<1>7. last % k.ivl = 0
  BY <1>1, <1>2, <1>6, SumOfMultiples, Zenon
<1>8. ASSUME end % k.ivl = 0 PROVE end = last
  <2>1. end \in Nat /\ k.pt < end
    BY <1>1, <1>2
  <2>2. k.pt + k.ivl <= end
    BY <1>1, <1>2, <1>8, <2>1, NextMultiple, Zenon
  <2> QED
    BY <1>1, <1>2, <1>4, <1>5, <2>1, <2>2
<1> QED
  BY <1>1, <1>2, <1>5, <1>7, <1>8

\* The range of encoded keys of an interval that is due holds the current keys of the
\* interval, and no other ones.
LEMMA RangeOfDue ==
    ASSUME KeysInv, NEW k, Current(k), NEW ivl \in DueIvls(now + Lowest(cfg))
    PROVE  InRange(Marshal(k), ivl, now + Lowest(cfg)) <=> k.ivl = ivl
<1> DEFINE T == TicksPerSecond
           end == now + Lowest(cfg)
<1>0. T \in Nat \ {0} /\ ValidCfg
  BY KeysAssumption, Zenon DEF KeysInv
<1>1. /\ ivl \in Ivls /\ ivl \in Nat \ {0} /\ T <= ivl /\ end % ivl = 0
      /\ Lowest(cfg) \in Nat \ {0} /\ now \in Nat
  BY <1>0, IvlBounds, Zenon DEF DueIvls, KeysInv
<1>2. end \in Nat /\ ivl <= end
  <2>1. end \in Nat /\ 0 < end
    BY <1>1
  <2>2. 0 % ivl = 0
    <3>1. (0 * ivl) % ivl = 0 /\ 0 * ivl = 0
      BY <1>1, QuotientOfProduct
    <3> QED
      BY <3>1, Zenon
  <2>3. 0 + ivl <= end
    BY <1>1, <2>1, <2>2, NextMultiple
  <2> QED
    BY <1>1, <2>1, <2>3
<1>3. end - ivl \in Nat
  BY <1>1, <1>2
<1> HIDE DEF end
<1>4. /\ Bound(ivl, end - ivl) = <<ivl \div T, (end - ivl) \div T, 0, 0>>
      /\ Bound(ivl, end) = <<ivl \div T, end \div T, 0, 0>>
      /\ ivl \div T \in Nat /\ (end - ivl) \div T \in Nat /\ end \div T \in Nat
  <2>1. /\ ivl \div T \in Nat /\ (ivl \div T) % IvlFieldSize = ivl \div T
    BY <1>0, <1>1, FieldOfIvl, Zenon
  <2>2. (end - ivl) \div T \in Nat /\ end \div T \in Nat
    BY <1>0, <1>2, <1>3, DivMod, Zenon
  <2> QED
    BY <2>1, <2>2, Zenon DEF Bound, Marshal
<1>5. /\ Marshal(k) = <<k.ivl \div T, k.pt \div T, k.id, k.part>>
      /\ k.ivl \div T \in Nat /\ k.pt \div T \in Nat /\ k.id \in Nat /\ k.part \in Nat
      /\ k.ivl \in Ivls
  BY <1>0, MarshalKey, Zenon DEF Current, IsKey
<1>6. InRange(Marshal(k), ivl, end) <=>
         /\ ~(k.ivl \div T < ivl \div T \/ (k.ivl \div T = ivl \div T /\ k.pt \div T < (end - ivl) \div T))
         /\ k.ivl \div T < ivl \div T \/ (k.ivl \div T = ivl \div T /\ k.pt \div T < end \div T)
  <2> DEFINE a == k.ivl \div T
             b == k.pt \div T
             x == ivl \div T
             y == (end - ivl) \div T
             z == end \div T
             c == k.id
             d == k.part
  <2>1. /\ Marshal(k) = <<a, b, c, d>>
        /\ Bound(ivl, end - ivl) = <<x, y, 0, 0>>
        /\ Bound(ivl, end) = <<x, z, 0, 0>>
    BY <1>4, <1>5, Zenon
  <2>2. a \in Nat /\ b \in Nat /\ c \in Nat /\ d \in Nat /\ x \in Nat /\ y \in Nat /\ z \in Nat
    BY <1>4, <1>5, Zenon
  <2> HIDE DEF a, b, c, d, x, y, z
  <2>3. Less(<<a, b, c, d>>, <<x, y, 0, 0>>) <=> a < x \/ (a = x /\ b < y)
    BY <2>2, LessBound, SMTT(30)
  <2>4. Less(<<a, b, c, d>>, <<x, z, 0, 0>>) <=> a < x \/ (a = x /\ b < z)
    BY <2>2, LessBound, SMTT(30)
  <2>5. InRange(Marshal(k), ivl, end) <=>
           /\ ~(a < x \/ (a = x /\ b < y))
           /\ a < x \/ (a = x /\ b < z)
    BY <2>1, <2>3, <2>4, Zenon DEF InRange
  <2> QED
    BY <2>5, Zenon DEF a, b, x, y, z
<1>7. ASSUME InRange(Marshal(k), ivl, end) PROVE k.ivl = ivl
  <2>1. k.ivl \div T = ivl \div T
    BY <1>4, <1>5, <1>6, <1>7, Zenon
  <2> QED
    BY <1>0, <1>1, <1>5, <2>1, SameField, Zenon
<1>8. ASSUME k.ivl = ivl PROVE InRange(Marshal(k), ivl, end)
  <2>1. end = k.pt + ivl
    BY <1>1, <1>8, DueAtEnd, Zenon DEF end
  <2>2. k.pt \in Nat
    BY Zenon DEF Current, IsKey
  <2>3. end - ivl = k.pt /\ k.pt + T <= end
    BY <1>0, <1>1, <2>1, <2>2
  <2>4. k.pt \div T < end \div T
    BY <1>0, <1>2, <2>2, <2>3, QuotientApart, Zenon
  <2> QED
    BY <1>4, <1>5, <1>6, <1>8, <2>3, <2>4
<1> QED
  BY <1>7, <1>8, Zenon DEF end

\* The keys that a harvest takes.
Due(k) == k.ivl \in DueIvls(now + Lowest(cfg))

\* The ranges that a harvest iterates over and deletes hold the keys that are due and
\* no others.
LEMMA HarvestTakesDue ==
    ASSUME KeysInv
    PROVE  LET end == now + Lowest(cfg)
               taken == {b \in db : \E ivl \in DueIvls(end) : InRange(b, ivl, end)} IN
           /\ \A k \in stored : Marshal(k) \in taken <=> Due(k)
           /\ \A k \in stored : Due(k) => k.pt + k.ivl = end
           /\ {k \in stored : ~(k.ivl \in DueIvls(end) /\ InWindow(k, end))}
                 = {k \in stored : ~Due(k)}
           /\ db \ taken = {Marshal(k) : k \in {l \in stored : ~Due(l)}}
<1> DEFINE end == now + Lowest(cfg)
           taken == {b \in db : \E ivl \in DueIvls(end) : InRange(b, ivl, end)}
<1>0. db = {Marshal(k) : k \in stored} /\ \A k \in stored : Current(k)
  BY Zenon DEF KeysInv, Current
<1>1. ASSUME NEW k \in stored PROVE Marshal(k) \in taken <=> Due(k)
  <2>1. Marshal(k) \in db
    BY <1>0, Zenon
  <2>2. \A ivl \in DueIvls(end) : InRange(Marshal(k), ivl, end) <=> k.ivl = ivl
    BY <1>0, RangeOfDue, Zenon
  <2> QED
    BY <2>1, <2>2, Zenon DEF Due
<1>2. ASSUME NEW k \in stored, Due(k)
      PROVE  k.pt + k.ivl = end /\ InWindow(k, end)
  <2>1. k.pt + k.ivl = end
    BY <1>0, <1>2, DueAtEnd, Zenon DEF Due, DueIvls
  <2>2. k.pt \in Nat /\ k.ivl \in Nat \ {0}
    BY <1>0, IvlBounds, Zenon DEF Current, IsKey, KeysInv
  <2> QED
    BY <2>1, <2>2 DEF InWindow
<1> HIDE DEF taken, end
<1>3. {k \in stored : ~(k.ivl \in DueIvls(end) /\ InWindow(k, end))} = {k \in stored : ~Due(k)}
  BY <1>2, Zenon DEF Due, end
<1>4. db \ taken = {Marshal(k) : k \in {l \in stored : ~Due(l)}}
  BY <1>0, <1>1, Zenon
<1> QED
  BY <1>1, <1>2, <1>3, <1>4, Zenon DEF end, taken

\* A new aggregator has stored nothing.
LEMMA KeysInit ==
    ASSUME Init
    PROVE  KeysInv
<1>1. ValidCfg
  BY Zenon DEF Init, ValidCfg
<1>2. Lowest(cfg) \in Nat \ {0}
  BY <1>1, IvlBounds, Zenon
<1>3. PICK t \in Starts : now = Truncate(t, Lowest(cfg))
  BY Zenon DEF Init
<1>4. t \in Nat
  BY KeysAssumption, Zenon
<1>5. now \in Nat /\ now % Lowest(cfg) = 0
  BY <1>2, <1>3, <1>4, TruncateBounds, Zenon
<1> QED
  BY <1>1, <1>5, Zenon DEF Init, KeysInv

\* Aggregating and harvesting keep the invariant.
LEMMA KeysStep ==
    ASSUME KeysInv, [Next]_vars
    PROVE  KeysInv'
<1>0. /\ ValidCfg /\ now \in Nat /\ now % Lowest(cfg) = 0
      /\ \A k \in stored : Current(k)
      /\ \A d \in delivered :
            IsKey(d.of) /\ d.of.pt + d.of.ivl <= now /\ d.key = Unmarshal(Marshal(d.of))
      /\ db = {Marshal(k) : k \in stored}
  BY Zenon DEF KeysInv, Current
<1>1. CASE UNCHANGED vars
  BY <1>1 DEF vars, KeysInv, ValidCfg, Ivls, IsKey
<1>2. ASSUME NEW id \in IDs, NEW part \in 0 .. cfg.partitions - 1, Aggregate(id, part)
      PROVE  KeysInv'
  <2> DEFINE key(ivl) == [ivl |-> ivl, pt |-> Truncate(now, ivl), id |-> id, part |-> part]
             keys == {key(ivl) : ivl \in Ivls}
  <2>1. /\ stored' = stored \cup keys
        /\ db' = db \cup {Marshal(k) : k \in keys}
        /\ UNCHANGED <<cfg, now, delivered>>
    BY <1>2, Zenon DEF Aggregate
  <2>2. ASSUME NEW ivl \in Ivls PROVE Current(key(ivl))
    <3>1. ivl \in Nat \ {0}
      BY <1>0, IvlBounds, Zenon
    <3>2. /\ Truncate(now, ivl) \in Nat /\ Truncate(now, ivl) % ivl = 0
          /\ Truncate(now, ivl) <= now /\ now < Truncate(now, ivl) + ivl
      BY <1>0, <3>1, TruncateBounds, Zenon
    <3>3. id \in Nat /\ part \in Nat
      BY <1>0, KeysAssumption DEF ValidCfg
    <3> QED
      BY <3>2, <3>3, Zenon DEF Current, IsKey
  <2>3. \A k \in keys : Current(k)
    BY <2>2, Zenon
  <2> HIDE DEF keys, key
  <2>4. \A k \in stored' : Current(k)
    BY <1>0, <2>1, <2>3, Zenon
  <2>5. db' = {Marshal(k) : k \in stored'}
    BY <1>0, <2>1, Zenon
  <2>6. Ivls' = Ivls
    BY <2>1, Zenon DEF Ivls
  <2> QED
    BY <1>0, <2>1, <2>4, <2>5, <2>6, Zenon DEF KeysInv, Current, ValidCfg, IsKey
<1>3. CASE Harvest
  <2> DEFINE end == now + Lowest(cfg)
             taken == {b \in db : \E ivl \in DueIvls(end) : InRange(b, ivl, end)}
             given == {[key |-> Unmarshal(Marshal(k)), of |-> k] :
                       k \in {l \in stored : Marshal(l) \in taken}}
  <2>1. /\ now' = end /\ db' = db \ taken /\ UNCHANGED cfg
        /\ stored' = {k \in stored : ~(k.ivl \in DueIvls(end) /\ InWindow(k, end))}
        /\ delivered' = delivered \cup given
    BY <1>3, Zenon DEF Harvest
  <2>2. /\ \A k \in stored : Marshal(k) \in taken <=> Due(k)
        /\ \A k \in stored : Due(k) => k.pt + k.ivl = end
        /\ {k \in stored : ~(k.ivl \in DueIvls(end) /\ InWindow(k, end))} = {k \in stored : ~Due(k)}
        /\ db \ taken = {Marshal(k) : k \in {l \in stored : ~Due(l)}}
    BY HarvestTakesDue, Zenon
  <2>3. stored' = {k \in stored : ~Due(k)} /\ db' = {Marshal(k) : k \in stored'}
    BY <2>1, <2>2, Zenon
  <2>4. Lowest(cfg) \in Nat \ {0} /\ end \in Nat /\ end % Lowest(cfg) = 0 /\ now <= end
    <3>1. Lowest(cfg) \in Nat \ {0}
      BY <1>0, IvlBounds, Zenon
    <3>2. Lowest(cfg) % Lowest(cfg) = 0
      <4>1. (1 * Lowest(cfg)) % Lowest(cfg) = 0 /\ 1 * Lowest(cfg) = Lowest(cfg)
        BY <3>1, QuotientOfProduct
      <4> QED
        BY <4>1, Zenon
    <3> QED
      BY <1>0, <3>1, <3>2, SumOfMultiples
  <2>5. ASSUME NEW k \in stored'
        PROVE  IsKey(k) /\ k.pt <= end /\ end < k.pt + k.ivl
    <3>1. k \in stored /\ ~Due(k) /\ Current(k)
      BY <1>0, <2>3, Zenon
    <3>2. end <= k.pt + k.ivl /\ (end % k.ivl = 0 <=> end = k.pt + k.ivl)
      BY <3>1, DueAtEnd, Zenon
    <3>3. k.ivl \in Ivls /\ k.pt \in Nat /\ k.pt <= now
      BY <3>1, Zenon DEF Current, IsKey
    <3>4. end # k.pt + k.ivl
      BY <3>1, <3>2, <3>3, Zenon DEF Due, DueIvls
    <3>5. k.ivl \in Nat
      BY <1>0, <3>3, IvlBounds, Zenon
    <3> QED
      BY <1>0, <2>4, <3>1, <3>2, <3>3, <3>4, <3>5 DEF Current
  <2>6. ASSUME NEW d \in given
        PROVE  IsKey(d.of) /\ d.of.pt + d.of.ivl <= end /\ d.key = Unmarshal(Marshal(d.of))
    <3>1. PICK k \in stored : Marshal(k) \in taken /\ d = [key |-> Unmarshal(Marshal(k)), of |-> k]
      BY Zenon
    <3>2. k.pt + k.ivl = end /\ IsKey(k)
      BY <1>0, <2>2, <3>1, Zenon DEF Current
    <3> QED
      BY <2>4, <3>1, <3>2
  <2>7. ASSUME NEW d \in delivered PROVE d.of.pt + d.of.ivl <= end
    <3>1. d.of.pt + d.of.ivl <= now /\ d.of.pt \in Nat /\ d.of.ivl \in Nat
      BY <1>0, IvlBounds, Zenon DEF IsKey
    <3> QED
      BY <1>0, <2>4, <3>1
  <2> HIDE DEF given, taken, end
  <2>8. Ivls' = Ivls /\ Lowest(cfg)' = Lowest(cfg) /\ ValidCfg'
    BY <1>0, <2>1, Zenon DEF Ivls, ValidCfg
  <2> QED
    BY <1>0, <2>1, <2>3, <2>4, <2>5, <2>6, <2>7, <2>8, Zenon DEF KeysInv, IsKey
<1> QED
  BY <1>1, <1>2, <1>3, Zenon DEF Next

\* In every state the stored keys are of open windows, the delivered ones of windows
\* that are over, and the database holds the encodings of the stored keys: the
\* invariant behind the three results that follow.
THEOREM SpecKeysInv == Spec => []KeysInv
<1>1. Init => KeysInv
  BY KeysInit, Zenon
<1>2. KeysInv /\ [Next]_vars => KeysInv'
  BY KeysStep, Zenon
<1> QED
  BY <1>1, <1>2, PTL DEF Spec

\* For every accepted configuration, the database holds the encodings of exactly the
\* keys that are not harvested, each under an encoding of its own: the ranges of
\* harvestForInterval are the windows of its interval and touch no other interval, also
\* when intervals are no whole seconds.
THEOREM SpecRangesAreWindows == Spec => []RangesAreWindows
<1>1. KeysInv => RangesAreWindows
  <2> SUFFICES ASSUME KeysInv, NEW k \in stored, NEW l \in stored, Marshal(k) = Marshal(l)
               PROVE  k = l
    BY Zenon DEF RangesAreWindows, KeysInv
  <2>1. Current(k) /\ Current(l) /\ ValidCfg
    BY Zenon DEF KeysInv, Current
  <2>2. /\ Marshal(k) = <<k.ivl \div TicksPerSecond, k.pt \div TicksPerSecond, k.id, k.part>>
        /\ Marshal(l) = <<l.ivl \div TicksPerSecond, l.pt \div TicksPerSecond, l.id, l.part>>
    BY <2>1, MarshalKey, Zenon DEF Current, IsKey
  <2>3. k.ivl \div TicksPerSecond = l.ivl \div TicksPerSecond /\ k.id = l.id /\ k.part = l.part
    <3>1. \A a, b, c, e, p, q, r, t :
             <<a, b, c, e>> = <<p, q, r, t>> => a = p /\ c = r /\ e = t
      BY Zenon
    <3>2. <<k.ivl \div TicksPerSecond, k.pt \div TicksPerSecond, k.id, k.part>>
             = <<l.ivl \div TicksPerSecond, l.pt \div TicksPerSecond, l.id, l.part>>
      BY <2>2, Zenon
    <3> QED
      BY <3>1, <3>2, Zenon
  <2>4. k.ivl = l.ivl
    BY <2>1, <2>3, SameField, Zenon DEF Current, IsKey
  <2>5. /\ k.ivl \in Nat \ {0} /\ k.pt \in Nat /\ l.pt \in Nat /\ now \in Nat
        /\ k.pt % k.ivl = 0 /\ l.pt % k.ivl = 0
        /\ k.pt <= now /\ now < k.pt + k.ivl /\ l.pt <= now /\ now < l.pt + k.ivl
    BY <2>1, <2>4, IvlBounds, Zenon DEF Current, IsKey, KeysInv
  <2>6. k.pt = l.pt
    <3>1. ~(k.pt < l.pt)
      <4> SUFFICES ASSUME k.pt < l.pt PROVE FALSE
        BY Zenon
      <4>1. k.pt + k.ivl <= l.pt
        BY <2>5, NextMultiple, Zenon
      <4> QED
        BY <2>5, <4>1
    <3>2. ~(l.pt < k.pt)
      <4> SUFFICES ASSUME l.pt < k.pt PROVE FALSE
        BY Zenon
      <4>1. l.pt + k.ivl <= k.pt
        BY <2>5, NextMultiple, Zenon
      <4> QED
        BY <2>5, <4>1
    <3> QED
      BY <2>5, <3>1, <3>2
  <2> QED
    BY <2>1, <2>3, <2>4, <2>6, Zenon DEF Current, IsKey
<1> QED
  BY <1>1, SpecKeysInv, PTL

\* For every accepted configuration, nothing is aggregated under the encoded key of
\* combined metrics that the Processor was already given.
THEOREM SpecWindowsApart == Spec => []WindowsApart
<1>1. KeysInv => WindowsApart
  <2> SUFFICES ASSUME KeysInv, NEW k \in stored, NEW d \in delivered, Marshal(d.of) = Marshal(k)
               PROVE  FALSE
    BY Zenon DEF WindowsApart
  <2> DEFINE o == d.of
             T == TicksPerSecond
  <2>1. Current(k) /\ IsKey(o) /\ o.pt + o.ivl <= now /\ ValidCfg /\ now \in Nat
    BY Zenon DEF KeysInv, Current
  <2> HIDE DEF o
  <2>2. /\ Marshal(k) = <<k.ivl \div T, k.pt \div T, k.id, k.part>>
        /\ Marshal(o) = <<o.ivl \div T, o.pt \div T, o.id, o.part>>
        /\ k.pt \div T \in Nat /\ o.pt \div T \in Nat
    BY <2>1, MarshalKey, Zenon DEF Current, IsKey
  <2>3. k.ivl \div T = o.ivl \div T /\ k.pt \div T = o.pt \div T
    BY <2>2 DEF o
  <2>4. k.ivl = o.ivl
    BY <2>1, <2>3, SameField, Zenon DEF Current, IsKey
  <2>5. /\ k.ivl \in Nat \ {0} /\ T \in Nat \ {0} /\ T <= k.ivl /\ k.pt \in Nat /\ o.pt \in Nat
        /\ k.pt % k.ivl = 0 /\ o.pt % k.ivl = 0 /\ now < k.pt + k.ivl /\ o.pt + k.ivl <= now
    BY <2>1, <2>4, IvlBounds, KeysAssumption, Zenon DEF Current, IsKey
  <2>6. o.pt < k.pt
    BY <2>1, <2>5
  <2>7. o.pt + k.ivl <= k.pt
    BY <2>5, <2>6, NextMultiple, Zenon
  <2>8. o.pt + T <= k.pt
    BY <2>5, <2>7
  <2>9. o.pt \div T < k.pt \div T
    BY <2>5, <2>8, QuotientApart, Zenon
  <2> QED
    BY <2>2, <2>3, <2>9
<1> QED
  BY <1>1, SpecKeysInv, PTL

\* For every accepted configuration, the key given to the Processor encodes to the key
\* it was harvested from, and is that key when intervals are whole seconds.
THEOREM SpecKeysDecoded == Spec => []KeysDecoded
<1>1. KeysInv => KeysDecoded
  <2> SUFFICES ASSUME KeysInv, NEW d \in delivered
               PROVE  /\ Marshal(d.key) = Marshal(d.of)
                      /\ (\A ivl \in Ivls : ivl % TicksPerSecond = 0) => d.key = d.of
    BY Zenon DEF KeysDecoded
  <2> DEFINE o == d.of
             T == TicksPerSecond
             i == o.ivl \div T
             p == o.pt \div T
  <2>1. IsKey(o) /\ d.key = Unmarshal(Marshal(o)) /\ ValidCfg
    BY Zenon DEF KeysInv
  <2> HIDE DEF o
  <2>2. /\ Marshal(o) = <<i, p, o.id, o.part>> /\ i \in Nat /\ p \in Nat
        /\ i % IvlFieldSize = i /\ T \in Nat \ {0} /\ o.ivl \in Nat \ {0} /\ o.pt \in Nat
    BY <2>1, MarshalKey, FieldOfIvl, IvlBounds, KeysAssumption, Zenon DEF IsKey
  <2>3. d.key = [ivl |-> i * T, pt |-> p * T, id |-> o.id, part |-> o.part]
    BY <2>1, <2>2 DEF Unmarshal
  <2>4. (i * T) \div T = i /\ (p * T) \div T = p
    BY <2>2, QuotientOfProduct, Zenon
  <2>5. Marshal(d.key) = Marshal(o)
    BY <2>2, <2>3, <2>4 DEF Marshal
  <2>6. ASSUME \A ivl \in Ivls : ivl % T = 0 PROVE d.key = o
    <3>1. o.ivl % T = 0
      BY <2>1, <2>6, Zenon DEF IsKey
    <3>2. o.pt % T = 0
      BY <2>1, <2>2, <3>1, MultipleOfMultiple, Zenon DEF IsKey
    <3>3. o.ivl = T * i + (o.ivl % T) /\ o.pt = T * p + (o.pt % T)
      BY <2>2, DivMod, Zenon
    <3>4. T * i = i * T /\ T * p = p * T /\ T * i \in Int /\ T * p \in Int
      BY <2>2, Z3
    <3>5. o.ivl = i * T /\ o.pt = p * T
      BY <3>1, <3>2, <3>3, <3>4
    <3> QED
      BY <2>1, <2>3, <3>5, Zenon DEF IsKey
  <2> QED
    BY <2>5, <2>6, Zenon DEF o
<1> QED
  BY <1>1, SpecKeysInv, PTL
=============================================================================
