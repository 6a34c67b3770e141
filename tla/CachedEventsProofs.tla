------------------------- MODULE CachedEventsProofs -------------------------
(***************************************************************************)
(* No addition to cachedEventsMap is lost or lands in the wrong counter,   *)
(* for any number of goroutines, intervals, IDs and counters.              *)
(*                                                                         *)
(* StoredExact is not inductive: it depends on the counters of the pool,   *)
(* of the map and of the calls in progress being different ones (Owned),   *)
(* and on the counter that a call has found staying in the map until it    *)
(* was added to (Steps), which holds because loadAndDelete waits for the   *)
(* calls of add.                                                           *)
(*                                                                         *)
(* CountBounded follows from Bounds, which relates what is stored to what  *)
(* was added at the end of every call of add.                              *)
(***************************************************************************)
EXTENDS CachedEvents, TLAPS

\* A counter is owned once: by the pool, by one key, or by one call of add.
Owned ==
    /\ \A k, l \in Key : m[k] = m[l] /\ m[k] # NoPtr => k = l
    /\ \A a, b \in Adders : mine[a] = mine[b] /\ mine[a] # NoPtr => a = b
    /\ \A k \in Key : m[k] \notin pool
    /\ \A a \in Adders : mine[a] \notin pool
    /\ \A a \in Adders, k \in Key : mine[a] # NoPtr => mine[a] # m[k]

\* What a call of add holds at each of its steps.
Steps ==
    \A a \in Adders :
       /\ pc[a] = "idle" <=> mine[a] = NoPtr
       /\ pc[a] = "add" => old[a] # NoPtr /\ old[a] = m[key[a]]

Inv == TypeOK /\ Owned /\ Steps /\ StoredExact

\* uint64(n * math.MaxUint16) drops less than one scaled unit, and nothing of a whole count.
LEMMA ScaledBounds ==
  ASSUME NEW n \in Nat
  PROVE  /\ Scaled(n) \in Nat
         /\ Scaled(n) * Den <= n * Scale
         /\ n * Scale <= Scaled(n) * Den + Den
         /\ n % Den = 0 => n * Scale = Scaled(n) * Den
<1>1. Scale \in Nat \ {0} /\ Den \in Nat \ {0}
  BY ConstantsAssumption, Zenon
<1> DEFINE q == n * Scale
<1>2. q \in Nat
  BY <1>1, Z3
<1> HIDE DEF q
<1>3. q \div Den \in Nat /\ q % Den \in 0 .. Den - 1 /\ q = Den * (q \div Den) + (q % Den)
  BY <1>1, <1>2, Z3
<1> DEFINE d == q \div Den
           r == q % Den
<1>4. d \in Nat /\ r \in 0 .. Den - 1 /\ q = Den * d + r /\ Scaled(n) = d
  BY <1>3, Zenon DEF Scaled, q
<1> HIDE DEF d, r
<1>5. Den * d = d * Den /\ d * Den \in Nat
  BY <1>1, <1>4, Z3
<1>6. ASSUME n % Den = 0 PROVE q = d * Den
  <2>1. n \div Den \in Nat /\ n = Den * (n \div Den)
    <3>1. n \div Den \in Nat /\ n % Den \in Nat /\ n = Den * (n \div Den) + (n % Den)
      BY <1>1, Z3
    <3>2. Den * (n \div Den) \in Nat
      BY <1>1, <3>1, Z3
    <3> QED BY <1>6, <3>1, <3>2
  <2> DEFINE k == (n \div Den) * Scale
  <2>2. k \in Nat /\ q = Den * k
    BY <1>1, <2>1, Z3 DEF q
  <2> HIDE DEF k
  <2>3. ASSUME k < d PROVE FALSE
    <3>1. Den * k + Den <= Den * d
      BY <1>1, <1>4, <2>2, <2>3, Z3
    <3> QED BY <1>1, <1>2, <1>4, <1>5, <2>2, <3>1
  <2>4. ASSUME d < k PROVE FALSE
    <3>1. Den * d + Den <= Den * k
      BY <1>1, <1>4, <2>2, <2>4, Z3
    <3> QED BY <1>1, <1>2, <1>4, <1>5, <2>2, <3>1
  <2>5. k = d
    BY <1>4, <2>2, <2>3, <2>4
  <2> QED BY <1>5, <2>2, <2>5, Zenon
<1> QED BY <1>1, <1>2, <1>4, <1>5, <1>6 DEF q

\* The map and the pool are empty at first.
LEMMA InvInit == Init => Inv
<1> SUFFICES ASSUME Init PROVE Inv
  BY Zenon
<1>1. (CHOOSE k \in Key : TRUE) \in Key
  BY ConstantsAssumption, Zenon
<1> QED BY <1>1, ConstantsAssumption, Zenon DEF Init, Inv, TypeOK, Owned, Steps, StoredExact

\* The counter that add takes from the pool, or allocates, is held by no other
\* goroutine.
LEMMA InvGet ==
  ASSUME Inv, NEW a \in Adders, NEW k \in Key, NEW n \in Amounts, NEW p \in Ptrs, Get(a, k, n, p)
  PROVE  Inv'
<1> USE DEF Inv
<1>1. TypeOK'
  <2>1. Scaled(n) \in Nat /\ n \in Nat
    BY ScaledBounds, ConstantsAssumption, Zenon
  <2> QED BY <2>1 DEF Get, TypeOK
<1>2. p # NoPtr /\ (\A l \in Key : m[l] # p) /\ (\A b \in Adders : mine[b] # p)
  BY ConstantsAssumption DEF Get, Fresh, InMap, Owned, TypeOK
<1>3. Owned'
  BY <1>2, Zenon DEF Get, Owned, TypeOK
<1>4. Steps'
  BY <1>2, Zenon DEF Get, Steps, TypeOK
<1>5. StoredExact'
  BY <1>2, Zenon DEF Get, StoredExact, TypeOK
<1> QED BY <1>1, <1>3, <1>4, <1>5, Zenon

\* The counter that add finds is the one the map has for its key.
LEMMA InvLoadKey == ASSUME Inv, NEW a \in Adders, LoadKey(a) PROVE Inv'
<1> USE DEF Inv
<1>1. TypeOK'
  BY Zenon DEF LoadKey, TypeOK
<1>2. Owned' /\ StoredExact'
  BY Zenon DEF LoadKey, Owned, StoredExact
<1>3. Steps'
  BY Zenon DEF LoadKey, Steps, TypeOK
<1> QED BY <1>1, <1>2, <1>3, Zenon

\* LoadOrStore puts the own counter into the map only when the key has none.
LEMMA InvLoadOrStore == ASSUME Inv, NEW a \in Adders, LoadOrStore(a) PROVE Inv'
<1> USE DEF Inv
<1>0. key[a] \in Key /\ mine[a] \in Ptrs
  BY DEF LoadOrStore, TypeOK, Steps
<1>1. CASE m[key[a]] = NoPtr
  <2>1. TypeOK'
    <3>1. exact[key[a]] + amount[a] \in Nat /\ lossy[key[a]] + 1 \in Nat /\ heap[mine[a]] \in Nat
      BY <1>0 DEF TypeOK
    <3> QED BY <1>0, <1>1, <3>1 DEF LoadOrStore, Record, TypeOK
  <2>2. Owned'
    <3>1. /\ \A l \in Key : m'[l] = IF l = key[a] THEN mine[a] ELSE m[l]
          /\ \A b \in Adders : mine'[b] = IF b = a THEN NoPtr ELSE mine[b]
          /\ pool' = pool
      BY <1>0, <1>1, Zenon DEF LoadOrStore, TypeOK
    <3>2. NoPtr \notin pool
      BY ConstantsAssumption, Zenon DEF TypeOK
    <3>3. mine[a] # NoPtr
      BY <1>0, ConstantsAssumption, Zenon
    <3> QED
      BY <1>0, <3>1, <3>2, <3>3 DEF Owned
  <2>3. Steps'
    <3> SUFFICES ASSUME NEW b \in Adders
                 PROVE  /\ pc'[b] = "idle" <=> mine'[b] = NoPtr
                        /\ pc'[b] = "add" => old'[b] # NoPtr /\ old'[b] = m'[key'[b]]
      BY Zenon DEF Steps
    <3>1. CASE b = a
      BY <1>0, <1>1, <3>1, Zenon DEF LoadOrStore, TypeOK
    <3>2. CASE b # a
      BY <1>0, <1>1, <3>2 DEF LoadOrStore, Steps, TypeOK
    <3> QED BY <3>1, <3>2, Zenon
  <2>4. StoredExact'
    <3>1. mine[a] # NoPtr
      BY <1>0, ConstantsAssumption, Zenon
    <3> QED BY <1>0, <1>1, <3>1 DEF LoadOrStore, StoredExact, TypeOK
  <2> QED BY <2>1, <2>2, <2>3, <2>4, Zenon
<1>2. CASE m[key[a]] # NoPtr
  <2>1. TypeOK'
    BY <1>0, <1>2, Zenon DEF LoadOrStore, TypeOK
  <2>2. Owned' /\ StoredExact'
    BY <1>2 DEF LoadOrStore, Owned, StoredExact
  <2>3. Steps'
    BY <1>0, <1>2 DEF LoadOrStore, Steps, TypeOK
  <2> QED BY <2>1, <2>2, <2>3, Zenon
<1> QED BY <1>1, <1>2, Zenon

\* The addition is to the counter the map has for the key, and the own one goes back.
LEMMA InvAddUint64 == ASSUME Inv, NEW a \in Adders, AddUint64(a) PROVE Inv'
<1> USE DEF Inv
<1>0. key[a] \in Key /\ mine[a] \in Ptrs /\ old[a] \in Ptrs /\ old[a] = m[key[a]]
  BY DEF AddUint64, TypeOK, Steps
<1>1. TypeOK'
  <2>1. heap[mine[a]] \in Nat /\ heap[old[a]] + heap[mine[a]] \in Nat
        /\ stored[key[a]] + heap[mine[a]] \in Nat
        /\ exact[key[a]] + amount[a] \in Nat /\ lossy[key[a]] + 1 \in Nat
    BY <1>0 DEF TypeOK
  <2> QED BY <1>0, <2>1, Zenon DEF AddUint64, Record, TypeOK
<1>2. Owned'
  BY <1>0, ConstantsAssumption DEF AddUint64, Owned, TypeOK
<1>3. Steps'
  BY <1>0, Zenon DEF AddUint64, Steps, TypeOK
<1>4. StoredExact'
  <2> SUFFICES ASSUME NEW k \in Key
               PROVE  stored'[k] = IF m'[k] = NoPtr THEN 0 ELSE heap'[m'[k]]
    BY Zenon DEF StoredExact
  <2>1. m' = m /\ old[a] # NoPtr
    BY <1>0, ConstantsAssumption, Zenon DEF AddUint64
  <2>2. CASE k = key[a]
    BY <1>0, <2>1, <2>2, Zenon DEF AddUint64, StoredExact, TypeOK
  <2>3. CASE k # key[a]
    <3>1. m[k] # NoPtr => m[k] # old[a]
      BY <1>0, <2>1, <2>3, Zenon DEF Owned
    <3> QED BY <1>0, <2>1, <2>3, <3>1, Zenon DEF AddUint64, StoredExact, TypeOK
  <2> QED BY <2>2, <2>3, Zenon
<1> QED BY <1>1, <1>2, <1>3, <1>4, Zenon

\* A harvest takes the counters of the due keys out of the map and returns their
\* counts.
LEMMA InvLoadAndDelete == ASSUME Inv, NEW end \in Ends, LoadAndDelete(end) PROVE Inv'
<1> USE DEF Inv
<1> DEFINE D == DueKeys(end)
<1>0. D \subseteq Key /\ \A k \in D : m[k] \in Ptrs
  BY Zenon DEF DueKeys, TypeOK
<1>1. /\ m' = [k \in Key |-> IF k \in D THEN NoPtr ELSE m[k]]
      /\ stored' = [k \in Key |-> IF k \in D THEN 0 ELSE stored[k]]
      /\ exact' = [k \in Key |-> IF k \in D THEN 0 ELSE exact[k]]
      /\ lossy' = [k \in Key |-> IF k \in D THEN 0 ELSE lossy[k]]
      /\ pool' = pool \cup {m[k] : k \in D}
      /\ UNCHANGED <<heap, pc, key, amount, mine, old, adds>>
      /\ \A a \in Adders : pc[a] = "idle"
  BY Zenon DEF LoadAndDelete
<1> HIDE DEF D
<1>2. TypeOK'
  BY <1>0, <1>1 DEF TypeOK
<1>3. Owned'
  <2>1. \A a \in Adders : mine[a] = NoPtr
    BY <1>1, Zenon DEF Steps
  <2>2. NoPtr \notin pool'
    BY <1>0, <1>1, ConstantsAssumption DEF TypeOK
  <2> QED BY <1>0, <1>1, <2>1, <2>2 DEF Owned
<1>4. Steps'
  BY <1>1, Zenon DEF Steps
<1>5. StoredExact'
  BY <1>0, <1>1, Zenon DEF StoredExact
<1> QED BY <1>2, <1>3, <1>4, <1>5, Zenon

\* Every step keeps the invariant.
LEMMA InvNext == Inv /\ [Next]_vars => Inv'
<1> SUFFICES ASSUME Inv, [Next]_vars PROVE Inv'
  BY Zenon
<1>1. ASSUME NEW a \in Adders, AddStep(a) PROVE Inv'
  BY <1>1, InvGet, InvLoadKey, InvLoadOrStore, InvAddUint64, Zenon DEF AddStep
<1>2. ASSUME NEW end \in Ends, LoadAndDelete(end) PROVE Inv'
  BY <1>2, InvLoadAndDelete, Zenon
<1>3. CASE UNCHANGED vars
  BY <1>3 DEF vars, Inv, TypeOK, Owned, Steps, StoredExact
<1> QED BY <1>1, <1>2, <1>3, Zenon DEF Next

\* The counter of a key always holds what was added to the key since loadAndDelete last
\* took it, however the atomic operations of concurrent calls of add are interleaved
\* and whichever counters the pool hands out.
THEOREM CachedEventsStoredExact == Spec => []StoredExact
<1>1. Inv => StoredExact
  BY Zenon DEF Inv
<1> QED BY <1>1, InvInit, InvNext, PTL DEF Spec

-----------------------------------------------------------------------------
(* What is counted, in events. *)

\* A call of add holds its count, scaled, in a counter that nobody else writes.
Held == \A a \in Adders : pc[a] # "idle" => heap[mine[a]] = Scaled(amount[a])

\* What is stored for a key is what was added to it, less what scaling has dropped.
Bounded(s, e, l) == s * Den <= e * Scale /\ e * Scale <= s * Den + l * Den

Bounds == \A k \in Key : Bounded(stored[k], exact[k], lossy[k])

\* One more count keeps the bounds.
LEMMA BoundedAdd ==
  ASSUME NEW s \in Nat, NEW e \in Nat, NEW l \in Nat, NEW n \in Nat, Bounded(s, e, l)
  PROVE  Bounded(s + Scaled(n), e + n, IF n % Den = 0 THEN l ELSE l + 1)
<1>1. Scale \in Nat \ {0} /\ Den \in Nat \ {0}
  BY ConstantsAssumption, Zenon
<1> DEFINE h == Scaled(n)
<1>2. h \in Nat /\ h * Den <= n * Scale /\ n * Scale <= h * Den + Den
      /\ (n % Den = 0 => n * Scale = h * Den)
  BY ScaledBounds, Zenon
<1> HIDE DEF h
<1>3. /\ (s + h) * Den = s * Den + h * Den /\ (e + n) * Scale = e * Scale + n * Scale
      /\ (l + 1) * Den = l * Den + Den
  BY <1>1, <1>2, Z3
<1>4. s * Den \in Nat /\ h * Den \in Nat /\ e * Scale \in Nat /\ n * Scale \in Nat /\ l * Den \in Nat
  BY <1>1, <1>2, Z3
<1>5. s * Den <= e * Scale /\ e * Scale <= s * Den + l * Den
  BY Zenon DEF Bounded
<1>6. (s + h) * Den <= (e + n) * Scale
  BY <1>2, <1>3, <1>4, <1>5
<1>7. CASE n % Den = 0
  <2>1. (e + n) * Scale <= (s + h) * Den + l * Den
    BY <1>2, <1>3, <1>4, <1>5, <1>7
  <2> QED BY <1>6, <1>7, <2>1, Zenon DEF Bounded, h
<1>8. CASE n % Den # 0
  <2>1. (e + n) * Scale <= (s + h) * Den + (l + 1) * Den
    BY <1>1, <1>2, <1>3, <1>4, <1>5
  <2> QED BY <1>6, <1>8, <2>1, Zenon DEF Bounded, h
<1> QED BY <1>7, <1>8, Zenon

\* float64(vscaled / math.MaxUint16) drops less than one event.
LEMMA BoundedUnscaled ==
  ASSUME NEW s \in Nat, NEW e \in Nat, NEW l \in Nat, Bounded(s, e, l)
  PROVE  /\ Unscaled(s) * Den <= e
         /\ e * Scale < (Unscaled(s) + 1) * Scale * Den + l * Den
<1>1. Scale \in Nat \ {0} /\ Den \in Nat \ {0}
  BY ConstantsAssumption, Zenon
<1>2. s \div Scale \in Nat /\ s % Scale \in 0 .. Scale - 1 /\ s = Scale * (s \div Scale) + (s % Scale)
  BY <1>1, Z3
<1> DEFINE v == s \div Scale
           r == s % Scale
<1>3. v \in Nat /\ r \in 0 .. Scale - 1 /\ s = Scale * v + r /\ Unscaled(s) = v
  BY <1>2, Zenon DEF Unscaled
<1> HIDE DEF v, r
<1>4. v * Scale \in Nat /\ Scale * v = v * Scale /\ (v + 1) * Scale = v * Scale + Scale
  BY <1>1, <1>3, Z3
<1>5. v * Scale <= s /\ s < (v + 1) * Scale
  BY <1>1, <1>3, <1>4
<1>6. v * Den <= e
  <2> SUFFICES ASSUME e < v * Den PROVE FALSE
    BY <1>1, <1>3, Z3
  <2>1. (v * Scale) * Den <= s * Den
    BY <1>1, <1>4, <1>5, Z3
  <2>2. e * Scale < (v * Den) * Scale
    BY <1>1, <1>3, Z3
  <2>3. (v * Den) * Scale = (v * Scale) * Den
    BY <1>1, <1>3, Z3
  <2>4. s * Den \in Int /\ e * Scale \in Int /\ (v * Scale) * Den \in Int
    BY <1>1, <1>3, <1>4, Z3
  <2> QED BY <2>1, <2>2, <2>3, <2>4 DEF Bounded
<1>7. e * Scale < (v + 1) * Scale * Den + l * Den
  <2> DEFINE w == (v + 1) * Scale
  <2>1. w \in Nat /\ s < w
    BY <1>4, <1>5, <1>1
  <2> HIDE DEF w
  <2>2. s * Den < w * Den
    BY <1>1, <2>1, Z3
  <2>3. s * Den \in Int /\ e * Scale \in Int /\ w * Den \in Int /\ l * Den \in Int
    BY <1>1, <2>1, Z3
  <2>4. e * Scale < w * Den + l * Den
    BY <2>2, <2>3 DEF Bounded
  <2> QED BY <2>4, Zenon DEF w
<1> QED BY <1>3, <1>6, <1>7, Zenon

CountInv == Held /\ Bounds /\ CountBounded

\* Get writes to a counter that nobody holds.
LEMMA CountGet ==
  ASSUME Inv, CountInv, NEW a \in Adders, NEW k \in Key, NEW n \in Amounts, NEW p \in Ptrs,
         Get(a, k, n, p)
  PROVE  CountInv'
<1> USE DEF Inv, CountInv
<1>1. \A b \in Adders : mine[b] # p
  BY ConstantsAssumption DEF Get, Fresh, Owned, TypeOK
<1>2. Held'
  <2> SUFFICES ASSUME NEW b \in Adders, pc'[b] # "idle"
               PROVE  heap'[mine'[b]] = Scaled(amount'[b])
    BY Zenon DEF Held
  <2>1. CASE b = a
    BY <2>1, Zenon DEF Get, TypeOK
  <2>2. CASE b # a
    <3>1. pc[b] # "idle" /\ mine'[b] = mine[b] /\ amount'[b] = amount[b]
          /\ heap'[mine[b]] = heap[mine[b]]
      BY <1>1, <2>2 DEF Get, TypeOK
    <3> QED BY <3>1, Zenon DEF Held
  <2> QED BY <2>1, <2>2, Zenon
<1>3. Bounds' /\ CountBounded'
  BY Zenon DEF Get, Bounds, CountBounded
<1> QED BY <1>2, <1>3, Zenon

\* Load and a LoadOrStore that loads leave the counters alone.
LEMMA CountLoad ==
  ASSUME Inv, CountInv, NEW a \in Adders, LoadKey(a) \/ (LoadOrStore(a) /\ m[key[a]] # NoPtr)
  PROVE  CountInv'
<1>1. /\ UNCHANGED <<heap, mine, amount, stored, exact, lossy, loaded>>
      /\ \A b \in Adders : pc[b] = "idle" => pc'[b] = "idle" \/ b = a
      /\ pc[a] # "idle"
  BY Zenon DEF LoadKey, LoadOrStore, Inv, TypeOK
<1> QED BY <1>1, Zenon DEF CountInv, Held, Bounds, CountBounded

\* A call that ends has added what it held to its key.
LEMMA CountEnd ==
  ASSUME Inv, CountInv, NEW a \in Adders, pc[a] # "idle", Record(a),
         stored' = [stored EXCEPT ![key[a]] = @ + heap[mine[a]]]
  PROVE  Bounds'
<1>1. key[a] \in Key /\ amount[a] \in Nat /\ heap[mine[a]] = Scaled(amount[a])
  BY Zenon DEF Inv, TypeOK, CountInv, Held
<1> SUFFICES ASSUME NEW k \in Key PROVE Bounded(stored'[k], exact'[k], lossy'[k])
  BY Zenon DEF Bounds
<1>2. stored[k] \in Nat /\ exact[k] \in Nat /\ lossy[k] \in Nat /\ Bounded(stored[k], exact[k], lossy[k])
  BY Zenon DEF Inv, TypeOK, CountInv, Bounds
<1>3. CASE k = key[a]
  <2>1. /\ stored'[k] = stored[k] + Scaled(amount[a]) /\ exact'[k] = exact[k] + amount[a]
        /\ lossy'[k] = IF amount[a] % Den = 0 THEN lossy[k] ELSE lossy[k] + 1
    BY <1>1, <1>3, Zenon DEF Record, Inv, TypeOK
  <2> QED BY <1>1, <1>2, <2>1, BoundedAdd, Zenon
<1>4. CASE k # key[a]
  <2>1. stored'[k] = stored[k] /\ exact'[k] = exact[k] /\ lossy'[k] = lossy[k]
    BY <1>1, <1>4, Zenon DEF Record, Inv, TypeOK
  <2> QED BY <1>2, <2>1, Zenon
<1> QED BY <1>3, <1>4, Zenon

\* The counter that LoadOrStore stores is the count of its call.
LEMMA CountStore ==
  ASSUME Inv, CountInv, NEW a \in Adders, LoadOrStore(a), m[key[a]] = NoPtr
  PROVE  CountInv'
<1>1. /\ UNCHANGED <<heap, amount, loaded>> /\ pc[a] # "idle" /\ pc'[a] = "idle" /\ Record(a)
      /\ \A b \in Adders : b # a => mine'[b] = mine[b] /\ pc'[b] = pc[b]
      /\ stored' = [stored EXCEPT ![key[a]] = heap[mine[a]]]
  BY Zenon DEF LoadOrStore, Inv, TypeOK
<1>2. key[a] \in Key /\ stored[key[a]] = 0 /\ heap[mine[a]] \in Nat
  BY DEF Inv, TypeOK, StoredExact, Steps, LoadOrStore
<1>3. stored' = [stored EXCEPT ![key[a]] = @ + heap[mine[a]]]
  <2>1. stored[key[a]] + heap[mine[a]] = heap[mine[a]]
    BY <1>2
  <2> QED BY <1>1, <2>1, Zenon
<1>4. Bounds'
  BY <1>1, <1>3, CountEnd, Zenon
<1>5. Held'
  BY <1>1, Zenon DEF CountInv, Held
<1>6. CountBounded'
  BY <1>1, Zenon DEF CountInv, CountBounded
<1> QED BY <1>4, <1>5, <1>6, Zenon DEF CountInv

\* AddUint64 writes to a counter of the map, which no other call holds.
LEMMA CountAdd ==
  ASSUME Inv, CountInv, NEW a \in Adders, AddUint64(a)
  PROVE  CountInv'
<1>1. /\ UNCHANGED <<amount, loaded>> /\ pc[a] # "idle" /\ pc'[a] = "idle" /\ Record(a)
      /\ \A b \in Adders : b # a => mine'[b] = mine[b] /\ pc'[b] = pc[b]
      /\ stored' = [stored EXCEPT ![key[a]] = @ + heap[mine[a]]]
      /\ heap' = [heap EXCEPT ![old[a]] = @ + heap[mine[a]]]
  BY Zenon DEF AddUint64, Inv, TypeOK
<1>2. key[a] \in Key /\ old[a] = m[key[a]]
  BY Zenon DEF AddUint64, Inv, TypeOK, Steps
<1>3. Bounds'
  BY <1>1, CountEnd, Zenon
<1>4. Held'
  <2> SUFFICES ASSUME NEW b \in Adders, pc'[b] # "idle"
               PROVE  heap'[mine'[b]] = Scaled(amount'[b])
    BY Zenon DEF Held
  <2>1. b # a /\ pc[b] # "idle" /\ mine'[b] = mine[b] /\ amount' = amount
    BY <1>1, Zenon
  <2>2. mine[b] \in Ptrs /\ mine[b] # NoPtr
    BY <2>1, Zenon DEF Inv, TypeOK, Steps
  <2>3. mine[b] # old[a]
    BY <1>2, <2>2, Zenon DEF Inv, Owned
  <2>4. heap'[mine[b]] = heap[mine[b]]
    BY <1>1, <2>2, <2>3, Zenon DEF Inv, TypeOK
  <2> QED BY <2>1, <2>4, Zenon DEF CountInv, Held
<1>5. CountBounded'
  BY <1>1, Zenon DEF CountInv, CountBounded
<1> QED BY <1>3, <1>4, <1>5, Zenon DEF CountInv

\* loadAndDelete unscales what was stored for the keys that are due.
LEMMA CountLoadAndDelete ==
  ASSUME Inv, CountInv, NEW end \in Ends, LoadAndDelete(end)
  PROVE  CountInv'
<1>1. Held'
  BY Zenon DEF LoadAndDelete, CountInv, Held
<1>2. Bounds'
  <2> SUFFICES ASSUME NEW k \in Key PROVE Bounded(stored'[k], exact'[k], lossy'[k])
    BY Zenon DEF Bounds
  <2>1. CASE k \in DueKeys(end)
    <3>1. stored'[k] = 0 /\ exact'[k] = 0 /\ lossy'[k] = 0
      BY <2>1, Zenon DEF LoadAndDelete
    <3>2. Bounded(0, 0, 0)
      BY ConstantsAssumption DEF Bounded
    <3> QED BY <3>1, <3>2, Zenon
  <2>2. CASE k \notin DueKeys(end)
    <3>1. stored'[k] = stored[k] /\ exact'[k] = exact[k] /\ lossy'[k] = lossy[k]
      BY <2>2, Zenon DEF LoadAndDelete
    <3> QED BY <3>1, Zenon DEF CountInv, Bounds
  <2> QED BY <2>1, <2>2, Zenon
<1>3. CountBounded'
  <2> SUFFICES ASSUME NEW l \in loaded'
               PROVE  /\ l.value * Den <= l.exact
                      /\ l.exact * Scale < (l.value + 1) * Scale * Den + l.lossy * Den
    BY Zenon DEF CountBounded
  <2>1. PICK k \in DueKeys(end) :
           l = [k |-> k, value |-> Unscaled(heap[m[k]]), exact |-> exact[k], lossy |-> lossy[k]]
    BY Zenon DEF LoadAndDelete
  <2>2. k \in Key /\ heap[m[k]] = stored[k]
    BY Zenon DEF DueKeys, Inv, StoredExact
  <2>3. stored[k] \in Nat /\ exact[k] \in Nat /\ lossy[k] \in Nat /\ Bounded(stored[k], exact[k], lossy[k])
    BY <2>2, Zenon DEF Inv, TypeOK, CountInv, Bounds
  <2>4. l.value = Unscaled(stored[k]) /\ l.exact = exact[k] /\ l.lossy = lossy[k]
    BY <2>1, <2>2, Zenon
  <2> QED BY <2>3, <2>4, BoundedUnscaled, Zenon
<1> QED BY <1>1, <1>2, <1>3, Zenon DEF CountInv

\* What loadAndDelete returns is never more than the events that were added, and less than
\* one event short of them apart from what scaling drops in each call of add with a
\* fraction, for any scale, counts, goroutines, intervals and IDs.
THEOREM CachedEventsCountBounded == Spec => []CountBounded
<1>1. Init => CountInv
  <2> SUFFICES ASSUME Init PROVE CountInv
    BY Zenon
  <2>1. Bounded(0, 0, 0)
    BY ConstantsAssumption DEF Bounded
  <2> QED BY <2>1, Zenon DEF Init, CountInv, Held, Bounds, CountBounded
<1>2. Inv /\ CountInv /\ [Next]_vars => CountInv'
  <2> SUFFICES ASSUME Inv, CountInv, [Next]_vars PROVE CountInv'
    BY Zenon
  <2>1. ASSUME NEW a \in Adders, AddStep(a) PROVE CountInv'
    BY <2>1, CountGet, CountLoad, CountStore, CountAdd, Zenon DEF AddStep
  <2>2. ASSUME NEW end \in Ends, LoadAndDelete(end) PROVE CountInv'
    BY <2>2, CountLoadAndDelete, Zenon
  <2>3. CASE UNCHANGED vars
    BY <2>3, Zenon DEF vars, CountInv, Held, Bounds, CountBounded
  <2> QED BY <2>1, <2>2, <2>3, Zenon DEF Next
<1>3. CountInv => CountBounded
  BY Zenon DEF CountInv
<1> QED BY <1>1, <1>2, <1>3, InvInit, InvNext, PTL DEF Spec
=============================================================================
