--------------------------- MODULE ConverterProofs ---------------------------
(***************************************************************************)
(* For every value of the constants, a builder of EventToCombinedMetrics   *)
(* has one owner, the callbacks of a conversion make up one event, and     *)
(* each gets all that the event is worth in its partition and no more.     *)
(***************************************************************************)
EXTENDS Converter, TLAPS

-----------------------------------------------------------------------------
(* Sequences. *)

\* The elements of a sequence that is not empty are its head and those of its tail.
LEMMA RangeTail ==
  ASSUME NEW S, NEW s \in Seq(S), s # <<>>
  PROVE  /\ Head(s) \in S /\ Tail(s) \in Seq(S)
         /\ Range(s) = {Head(s)} \cup Range(Tail(s))
<1>1. /\ Len(s) \in Nat \ {0} /\ DOMAIN s = 1 .. Len(s) /\ Head(s) = s[1] /\ Head(s) \in S
      /\ Tail(s) \in Seq(S) /\ Len(Tail(s)) = Len(s) - 1
      /\ \A i \in 1 .. Len(s) - 1 : Tail(s)[i] = s[i + 1]
  OBVIOUS
<1>2. DOMAIN Tail(s) = 1 .. Len(s) - 1
  BY <1>1
<1>3. ASSUME NEW i \in DOMAIN s PROVE s[i] \in {Head(s)} \cup Range(Tail(s))
  <2>1. CASE i = 1
    BY <1>1, <2>1, Zenon
  <2>2. CASE i # 1
    <3>1. i - 1 \in 1 .. Len(s) - 1 /\ (i - 1) + 1 = i
      BY <1>1, <2>2
    <3>2. Tail(s)[i - 1] = s[i]
      BY <1>1, <3>1, Zenon
    <3> QED BY <1>2, <3>1, <3>2, Zenon DEF Range
  <2> QED BY <2>1, <2>2, Zenon
<1>4. ASSUME NEW i \in DOMAIN Tail(s) PROVE Tail(s)[i] \in Range(s)
  <2>1. i + 1 \in DOMAIN s
    BY <1>1, <1>2
  <2> QED BY <1>1, <1>2, <2>1, Zenon DEF Range
<1>5. Head(s) \in Range(s)
  BY <1>1 DEF Range
<1> QED BY <1>1, <1>3, <1>4, <1>5 DEF Range

\* The elements of a sequence that grows.
LEMMA RangeAppend ==
  ASSUME NEW S, NEW s \in Seq(S), NEW x \in S
  PROVE  /\ Append(s, x) \in Seq(S) /\ Len(s) \in Nat /\ Len(Append(s, x)) = Len(s) + 1
         /\ DOMAIN s = 1 .. Len(s) /\ DOMAIN Append(s, x) = 1 .. Len(s) + 1
         /\ \A i \in 1 .. Len(s) : Append(s, x)[i] = s[i]
         /\ Append(s, x)[Len(s) + 1] = x
         /\ Range(Append(s, x)) = Range(s) \cup {x}
<1>1. /\ Append(s, x) \in Seq(S) /\ Len(s) \in Nat /\ Len(Append(s, x)) = Len(s) + 1
      /\ DOMAIN s = 1 .. Len(s) /\ DOMAIN Append(s, x) = 1 .. Len(s) + 1
      /\ \A i \in 1 .. Len(s) : Append(s, x)[i] = s[i]
      /\ Append(s, x)[Len(s) + 1] = x
  OBVIOUS
<1>2. 1 .. Len(s) + 1 = (1 .. Len(s)) \cup {Len(s) + 1}
  BY <1>1
<1>3. ASSUME NEW i \in DOMAIN Append(s, x) PROVE Append(s, x)[i] \in Range(s) \cup {x}
  BY <1>1, <1>2, Zenon DEF Range
<1>4. ASSUME NEW i \in DOMAIN s PROVE s[i] \in Range(Append(s, x))
  <2>1. i \in DOMAIN Append(s, x) /\ Append(s, x)[i] = s[i]
    BY <1>1, <1>2, Zenon
  <2> QED BY <2>1, Zenon DEF Range
<1>5. x \in Range(Append(s, x))
  <2>1. Len(s) + 1 \in DOMAIN Append(s, x)
    BY <1>1, <1>2, Zenon
  <2> QED BY <1>1, <2>1, Zenon DEF Range
<1>6. Range(Append(s, x)) = Range(s) \cup {x}
  BY <1>3, <1>4, <1>5, Zenon DEF Range
<1> QED BY <1>1, <1>6, Zenon

-----------------------------------------------------------------------------
(* Types. *)

Conversion ==
  [pc : {"idle", "process"}, event : Events \cup {None}, pmb : Pmbs \cup {None},
   todo : Seq(MetricSet), next : Nat]

CallbackSet ==
  [part : Partitions, total : Nat, metrics : {Contents(b) : b \in BuilderSet}]

Busy(p) == conv[p].pc = "process"

TypeInv ==
  /\ hash \in Hashes
  /\ mem \in [Builders -> BuilderSet \cup {None}]
  /\ pool \subseteq Builders
  /\ held \in [Pmbs -> Seq(Builders)]
  /\ pmbPool \subseteq Pmbs
  /\ conv \in [Procs -> Conversion]
  /\ seen \in [Procs -> Seq(CallbackSet)]
  /\ \A p \in Procs : Busy(p) => conv[p].event \in Events /\ conv[p].pmb \in Pmbs

\* Objects have one owner, and those in a pool are clean.
OwnInv ==
  /\ \A p \in Procs : Busy(p) => conv[p].pmb \notin pmbPool
  /\ \A p, q \in Procs : Busy(p) /\ Busy(q) /\ conv[p].pmb = conv[q].pmb => p = q
  /\ \A m \in pmbPool : held[m] = <<>>
  /\ \A b \in pool : mem[b] # None
  /\ \A m \in Pmbs : \A b \in Range(held[m]) : mem[b] # None
  /\ BuildersOwned

PartOf(m, i) == mem[held[m][i]].part

Left(p) == {hash[x.key] : x \in Range(conv[p].todo)}

EventParts(e) == {hash[x.key] : x \in Range(Metrics(e))}

\* What a conversion has done and has left to do make up the event.
Whole(p) ==
  LET c == conv[p] IN
     /\ \A i, j \in DOMAIN held[c.pmb] : PartOf(c.pmb, i) = PartOf(c.pmb, j) => i = j
     /\ {PartOf(c.pmb, i) : i \in DOMAIN held[c.pmb]} \cup Left(p) = EventParts(c.event)
     /\ c.next \in 1 .. Len(held[c.pmb]) + 1 /\ Len(seen[p]) = c.next - 1
     /\ c.todo # <<>> => c.next = 1
     /\ \A i \in DOMAIN seen[p] :
           seen[p][i].part = PartOf(c.pmb, i) /\ seen[p][i].total = Len(held[c.pmb])

WholeInv == \A p \in Procs : Busy(p) => Whole(p)

Pending(todo, kind) == \E x \in Range(todo) : x.kind = kind

\* How many metrics of an event were added when todo is left.
Done(e, todo) == Len(Metrics(e)) - Len(todo)

\* A builder has what the event is worth in its partition, but for what is left to do.
Exact(h, b, e, todo) ==
  /\ b.txns = 1 <=> IsTxn(e) /\ h[e.txn] = b.part /\ ~ Pending(todo, "txn")
  /\ b.txns = 1 => b.txnKey = e.txn /\ b.histSet = TRUE
  /\ b.histSet = TRUE => b.hist = Recorded(e)
  /\ b.svctxns = 1 <=> IsTxn(e) /\ h[e.svctxn] = b.part /\ ~ Pending(todo, "svctxn")
  /\ b.svctxns = 1 => b.svctxnKey = e.svctxn /\ b.hist = Recorded(e) /\ b.outcomes = Outcomes(e)
  /\ Listed(b.spans, e, SpansAt(h, e, b.part) \cap (1 .. Done(e, todo)))

\* The metrics left are the last ones of the event.
TodoOf(todo, e) ==
  /\ Len(todo) <= Len(Metrics(e))
  /\ \A i \in DOMAIN todo : todo[i] = Metrics(e)[Done(e, todo) + i]

Filled(p) ==
  LET c == conv[p] IN
     /\ TodoOf(c.todo, c.event)
     /\ \A k \in 1 .. Done(c.event, c.todo) :
           \E i \in DOMAIN held[c.pmb] : PartOf(c.pmb, i) = hash[Metrics(c.event)[k].key]
     /\ \A b \in Range(held[c.pmb]) : Exact(hash, mem[b], c.event, c.todo)

FilledInv == \A p \in Procs : Busy(p) => Filled(p)

\* processEvent adds metrics of the five kinds.
LEMMA MetricsType ==
  ASSUME NEW e \in Events
  PROVE  Metrics(e) \in Seq(MetricSet)
<1>1. /\ e.txn \in Keys /\ e.svctxn \in Keys /\ e.spans \in Seq(Keys) /\ Summary \in Keys
      /\ e.type = "span" /\ e.target => e.spans # <<>>
      /\ e.rep \in Counts /\ 0 \in Counts
  BY EventsAssumption, Zenon DEF Counts
<1>2. \A k \in {"txn", "svctxn", "dropped", "span", "summary"}, x \in Keys, n \in Counts :
         Metric(k, x, n) \in MetricSet
  BY Zenon DEF Metric, MetricSet
<1>3. [i \in DOMAIN e.spans |-> Metric("dropped", e.spans[i], e.rep)] \in Seq(MetricSet)
  <2>1. \A i \in DOMAIN e.spans : Metric("dropped", e.spans[i], e.rep) \in MetricSet
    BY <1>1, <1>2
  <2>2. DOMAIN e.spans = 1 .. Len(e.spans) /\ Len(e.spans) \in Nat
    BY <1>1
  <2> QED BY <2>1, <2>2
<1>4. <<Metric("txn", e.txn, e.rep), Metric("svctxn", e.svctxn, e.rep)>> \in Seq(MetricSet)
  <2>1. Metric("txn", e.txn, e.rep) \in MetricSet /\ Metric("svctxn", e.svctxn, e.rep) \in MetricSet
    BY <1>1, <1>2, Zenon
  <2> QED BY <2>1
<1>5. <<Metric("txn", e.txn, e.rep), Metric("svctxn", e.svctxn, e.rep)>>
         \o [i \in DOMAIN e.spans |-> Metric("dropped", e.spans[i], e.rep)] \in Seq(MetricSet)
  BY <1>3, <1>4
<1>6. e.type = "span" /\ e.target => <<Metric("span", e.spans[1], e.rep)>> \in Seq(MetricSet)
  <2>1. e.type = "span" /\ e.target => e.spans[1] \in Keys
    BY <1>1
  <2>2. e.type = "span" /\ e.target => Metric("span", e.spans[1], e.rep) \in MetricSet
    BY <1>1, <1>2, <2>1, Zenon
  <2> QED BY <2>2
<1>7. <<Metric("summary", Summary, 0)>> \in Seq(MetricSet)
  <2>1. Metric("summary", Summary, 0) \in MetricSet
    BY <1>1, <1>2, Zenon
  <2> QED BY <2>1
<1>8. <<>> \in Seq(MetricSet)
  OBVIOUS
<1> QED BY <1>5, <1>6, <1>7, <1>8, Zenon DEF Metrics

\* A key has a partition.
LEMMA HashType ==
  ASSUME TypeInv, NEW x \in MetricSet
  PROVE  hash[x.key] \in Partitions
BY EventsAssumption DEF TypeInv, MetricSet, Partitions

\* A builder that has no metrics.
Fresh(b, part) ==
  b.part = part /\ b.histSet = FALSE /\ b.txns = 0 /\ b.svctxns = 0 /\ b.spans = <<>>

\* A builder has no metrics when it is made and when it is reset.
LEMMA ResetType ==
  ASSUME NEW part \in Partitions
  PROVE  /\ NewBuilder(part) \in BuilderSet /\ Fresh(NewBuilder(part), part)
         /\ \A b \in BuilderSet : Reset(b, part) \in BuilderSet /\ Fresh(Reset(b, part), part)
<1>1. NoCounts \in OutcomeCounts
  BY Zenon DEF NoCounts, OutcomeCounts, Counts
<1>2. <<>> \in SpanMetrics
  BY DEF SpanMetrics
<1>3. NewBuilder(part) \in BuilderSet /\ Fresh(NewBuilder(part), part)
  <2>1. NewBuilder(part) \in BuilderSet
    BY <1>1, <1>2, Zenon DEF NewBuilder, BuilderSet
  <2>2. Fresh(NewBuilder(part), part)
    BY Zenon DEF NewBuilder, Fresh
  <2> QED BY <2>1, <2>2, Zenon
<1>4. ASSUME NEW b \in BuilderSet PROVE Reset(b, part) \in BuilderSet /\ Fresh(Reset(b, part), part)
  <2> DEFINE b1 == [b EXCEPT !.part = part, !.outcomes = NoCounts]
             b2 == [b1 EXCEPT !.histSet = FALSE, !.txns = 0]
             b3 == [b2 EXCEPT !.svctxns = 0]
             b4 == [b3 EXCEPT !.spans = <<>>]
  <2>1. b1 \in BuilderSet /\ b1.part = part
    BY <1>1, Zenon DEF BuilderSet
  <2>2. Reset(b, part) = b4
    BY Zenon DEF Reset
  <2> HIDE DEF b1
  <2>3. b2 \in BuilderSet /\ b2.part = part /\ b2.histSet = FALSE /\ b2.txns = 0
    BY <2>1, Zenon DEF BuilderSet
  <2> HIDE DEF b2
  <2>4. b3 \in BuilderSet /\ b3.part = part /\ b3.histSet = FALSE /\ b3.txns = 0 /\ b3.svctxns = 0
    BY <2>3, Zenon DEF BuilderSet
  <2> HIDE DEF b3
  <2>5. b4 \in BuilderSet
    BY <1>2, <2>4, Zenon DEF BuilderSet
  <2>6. b4.part = part /\ b4.histSet = FALSE /\ b4.txns = 0 /\ b4.svctxns = 0 /\ b4.spans = <<>>
    BY <2>4, Zenon DEF BuilderSet
  <2> HIDE DEF b4
  <2> QED BY <2>2, <2>5, <2>6, Zenon DEF Fresh
<1> QED BY <1>3, <1>4, Zenon

\* Adding a metric to a builder leaves its partition.
LEMMA AddToType ==
  ASSUME NEW b \in BuilderSet, NEW x \in MetricSet, NEW e \in Events
  PROVE  AddTo(b, x, e) \in BuilderSet /\ AddTo(b, x, e).part = b.part
<1>1. /\ x.key \in Keys /\ x.n \in Counts
      /\ Recorded(e) \in Histograms
  BY Zenon DEF MetricSet, Recorded, Histograms, Counts
<1>2. Outcomes(e) \in OutcomeCounts
  BY Zenon DEF Outcomes, NoCounts, OutcomeCounts, Counts
<1>3. /\ b.spans \in SpanMetrics
      /\ Append(b.spans, [key |-> x.key, n |-> x.n]) \in SpanMetrics
  BY <1>1 DEF BuilderSet, SpanMetrics
<1>4. CASE x.kind = "txn"
  <2>1. AddTo(b, x, e) =
          [part |-> b.part, hist |-> Recorded(e), histSet |-> TRUE, txnKey |-> x.key, txns |-> 1,
           svctxnKey |-> b.svctxnKey, outcomes |-> b.outcomes, svctxns |-> b.svctxns, spans |-> b.spans]
    BY <1>4, Zenon DEF AddTo, BuilderSet
  <2> QED BY <1>1, <2>1 DEF BuilderSet
<1>5. CASE x.kind = "svctxn"
  <2>1. AddTo(b, x, e) =
          [part |-> b.part, hist |-> IF b.histSet THEN b.hist ELSE Recorded(e), histSet |-> b.histSet,
           txnKey |-> b.txnKey, txns |-> b.txns, svctxnKey |-> x.key, outcomes |-> Outcomes(e),
           svctxns |-> 1, spans |-> b.spans]
    BY <1>5, Zenon DEF AddTo, BuilderSet
  <2> QED BY <1>1, <1>2, <2>1 DEF BuilderSet
<1>6. CASE x.kind = "dropped"
  BY <1>3, <1>6, Zenon DEF AddTo, BuilderSet
<1>7. CASE x.kind = "span"
  BY <1>3, <1>7, Zenon DEF AddTo, BuilderSet
<1>8. CASE x.kind = "summary"
  BY <1>8, Zenon DEF AddTo
<1> QED BY <1>4, <1>5, <1>6, <1>7, <1>8, Zenon DEF MetricSet

\* What an add does to the record of the conversion.
LEMMA AddConv ==
  ASSUME TypeInv, NEW p \in Procs, Add(p)
  PROVE  /\ conv'[p].pc = conv[p].pc /\ conv'[p].pmb = conv[p].pmb /\ conv'[p].event = conv[p].event
         /\ conv'[p].next = conv[p].next /\ conv'[p].todo = Tail(conv[p].todo)
         /\ conv[p].pc = "process" /\ hash' = hash /\ seen' = seen
<1>1. conv' = [conv EXCEPT ![p].todo = Tail(@)] /\ hash' = hash /\ seen' = seen
  BY Zenon DEF Add
<1>2. conv[p].pc = "process"
  BY Zenon DEF Add
<1>3. conv \in [Procs -> Conversion] /\ conv[p] \in Conversion
  BY Zenon DEF TypeInv
<1>4. /\ conv'[p].pc = conv[p].pc /\ conv'[p].pmb = conv[p].pmb /\ conv'[p].event = conv[p].event
      /\ conv'[p].next = conv[p].next /\ conv'[p].todo = Tail(conv[p].todo)
  BY <1>1, <1>3 DEF Conversion
<1> QED BY <1>1, <1>2, <1>4, Zenon

\* What an add does to the memory of builders: that of one builder changes, to a builder for
\* the partition.
LEMMA AddMem ==
  ASSUME TypeInv, OwnInv, NEW p \in Procs, Add(p)
  PROVE  LET c == conv[p]
             part == hash[Head(c.todo).key]
             old == Existing(c.pmb, part) IN
           /\ c.pmb \in Pmbs /\ c.event \in Events /\ c.todo \in Seq(MetricSet) /\ c.todo # <<>>
           /\ Head(c.todo) \in MetricSet /\ part \in Partitions
           /\ \E b \in Builders :
                 /\ mem' \in [Builders -> BuilderSet \cup {None}]
                 /\ mem'[b] \in BuilderSet /\ mem'[b].part = part
                 /\ \A a \in Builders : a # b => mem'[a] = mem[a]
                 /\ \E b0 \in BuilderSet :
                       /\ mem'[b] = AddTo(b0, Head(c.todo), c.event) /\ b0.part = part
                       /\ (b \in old /\ b0 = mem[b]) \/ (old = {} /\ Fresh(b0, part))
                 /\ \/ /\ b \in old /\ mem[b].part = part /\ UNCHANGED <<pool, held>>
                    \/ /\ old = {} /\ (b \in pool \/ mem[b] = None) /\ pool' = pool \ {b}
                       /\ held' = [held EXCEPT ![c.pmb] = Append(@, b)]
<1> DEFINE c == conv[p]
           x == Head(c.todo)
           part == hash[x.key]
           old == Existing(c.pmb, part)
<1>1. /\ c \in Conversion /\ Busy(p) /\ c.todo # <<>>
      /\ c.pmb \in Pmbs /\ c.event \in Events /\ c.todo \in Seq(MetricSet)
  BY Zenon DEF TypeInv, Add, Busy, Conversion
<1>2. x \in MetricSet
  BY <1>1, RangeTail, Zenon DEF Range
<1>3. part \in Partitions
  BY <1>2, HashType, Zenon
<1>4. PICK b \in Builders :
        \/ /\ b \in old
           /\ mem' = [mem EXCEPT ![b] = AddTo(@, x, c.event)]
           /\ UNCHANGED <<pool, held>>
        \/ /\ old = {} /\ b \in pool
           /\ mem' = [mem EXCEPT ![b] = AddTo(Reset(@, part), x, c.event)]
           /\ pool' = pool \ {b}
           /\ held' = [held EXCEPT ![c.pmb] = Append(@, b)]
        \/ /\ old = {} /\ mem[b] = None
           /\ mem' = [mem EXCEPT ![b] = AddTo(NewBuilder(part), x, c.event)]
           /\ held' = [held EXCEPT ![c.pmb] = Append(@, b)]
           /\ UNCHANGED pool
  BY Zenon DEF Add
<1>5. mem \in [Builders -> BuilderSet \cup {None}] /\ None \notin BuilderSet
  BY NoneAssumption, Zenon DEF TypeInv
<1> HIDE DEF c, x, part, old
<1>6. CASE b \in old /\ mem' = [mem EXCEPT ![b] = AddTo(@, x, c.event)] /\ UNCHANGED <<pool, held>>
  <2>1. mem[b] # None /\ mem[b].part = part
    BY <1>1, <1>6, Zenon DEF old, Existing, OwnInv
  <2>2. mem[b] \in BuilderSet
    BY <1>5, <2>1, Zenon
  <2>3. AddTo(mem[b], x, c.event) \in BuilderSet /\ AddTo(mem[b], x, c.event).part = part
    BY <1>1, <1>2, <2>1, <2>2, AddToType, Zenon
  <2>4. /\ mem' \in [Builders -> BuilderSet \cup {None}] /\ mem'[b] = AddTo(mem[b], x, c.event)
        /\ \A a \in Builders : a # b => mem'[a] = mem[a]
    BY <1>5, <1>6, <2>3, Zenon
  <2> QED BY <1>1, <1>2, <1>3, <1>6, <2>1, <2>2, <2>3, <2>4, Zenon DEF c, x, part, old
<1>7. CASE /\ old = {} /\ b \in pool
           /\ mem' = [mem EXCEPT ![b] = AddTo(Reset(@, part), x, c.event)]
           /\ pool' = pool \ {b} /\ held' = [held EXCEPT ![c.pmb] = Append(@, b)]
  <2>1. mem[b] \in BuilderSet
    BY <1>5, <1>7, Zenon DEF OwnInv
  <2>2. /\ Reset(mem[b], part) \in BuilderSet /\ Reset(mem[b], part).part = part
        /\ Fresh(Reset(mem[b], part), part)
    BY <1>3, <2>1, ResetType, Zenon DEF Fresh
  <2>3. /\ AddTo(Reset(mem[b], part), x, c.event) \in BuilderSet
        /\ AddTo(Reset(mem[b], part), x, c.event).part = part
    BY <1>1, <1>2, <2>2, AddToType, Zenon
  <2>4. /\ mem' \in [Builders -> BuilderSet \cup {None}]
        /\ mem'[b] = AddTo(Reset(mem[b], part), x, c.event)
        /\ \A a \in Builders : a # b => mem'[a] = mem[a]
    BY <1>5, <1>7, <2>3, Zenon
  <2> QED BY <1>1, <1>2, <1>3, <1>7, <2>2, <2>3, <2>4, Zenon DEF c, x, part, old
<1>8. CASE /\ old = {} /\ mem[b] = None
           /\ mem' = [mem EXCEPT ![b] = AddTo(NewBuilder(part), x, c.event)]
           /\ held' = [held EXCEPT ![c.pmb] = Append(@, b)] /\ UNCHANGED pool
  <2>1. /\ NewBuilder(part) \in BuilderSet /\ NewBuilder(part).part = part
        /\ Fresh(NewBuilder(part), part)
    BY <1>3, ResetType, Zenon DEF Fresh
  <2>2. /\ AddTo(NewBuilder(part), x, c.event) \in BuilderSet
        /\ AddTo(NewBuilder(part), x, c.event).part = part
    BY <1>1, <1>2, <2>1, AddToType, Zenon
  <2>3. /\ mem' \in [Builders -> BuilderSet \cup {None}]
        /\ mem'[b] = AddTo(NewBuilder(part), x, c.event)
        /\ \A a \in Builders : a # b => mem'[a] = mem[a]
    BY <1>5, <1>8, <2>2, Zenon
  <2>4. pool' = pool \ {b}
    BY <1>8, Zenon DEF OwnInv
  <2> QED BY <1>1, <1>2, <1>3, <1>8, <2>1, <2>2, <2>3, <2>4, Zenon DEF c, x, part, old
<1> QED BY <1>4, <1>6, <1>7, <1>8, Zenon

\* The builder that a callback is for was made.
LEMMA CallbackBuilder ==
  ASSUME TypeInv, OwnInv, NEW p \in Procs, Callback(p), conv[p].next # 0
  PROVE  LET c == conv[p] IN
           /\ c.pmb \in Pmbs /\ c.next \in DOMAIN held[c.pmb] /\ held[c.pmb] \in Seq(Builders)
           /\ mem[held[c.pmb][c.next]] \in BuilderSet
<1> DEFINE c == conv[p]
<1>1. /\ c.pmb \in Pmbs /\ c.next \in Nat /\ c.next <= Len(held[c.pmb])
      /\ held[c.pmb] \in Seq(Builders)
  BY Zenon DEF TypeInv, Callback, Busy, Conversion
<1> HIDE DEF c
<1>2. c.next \in DOMAIN held[c.pmb]
  BY <1>1 DEF c
<1>3. held[c.pmb][c.next] \in Range(held[c.pmb]) /\ held[c.pmb][c.next] \in Builders
  BY <1>1, <1>2 DEF Range
<1>4. mem[held[c.pmb][c.next]] # None
  BY <1>1, <1>3, Zenon DEF OwnInv
<1>5. mem[held[c.pmb][c.next]] \in BuilderSet
  BY <1>3, <1>4, Zenon DEF TypeInv
<1> QED BY <1>1, <1>2, <1>5, Zenon DEF c

\* The types are kept.
LEMMA TypeNext ==
  ASSUME TypeInv, OwnInv, WholeInv, [Next]_vars
  PROVE  TypeInv'
<1>1. CASE UNCHANGED vars
  BY <1>1, Zenon DEF TypeInv, vars, Busy
<1>2. ASSUME NEW p \in Procs, NEW e \in Events, Start(p, e) PROVE TypeInv'
  <2>1. PICK m \in pmbPool :
          /\ pmbPool' = pmbPool \ {m}
          /\ conv' = [conv EXCEPT ![p] =
                        [pc |-> "process", event |-> e, pmb |-> m, todo |-> Metrics(e), next |-> 1]]
    BY <1>2, Zenon DEF Start
  <2>2. [pc |-> "process", event |-> e, pmb |-> m, todo |-> Metrics(e), next |-> 1] \in Conversion
    BY MetricsType, Zenon DEF Conversion, TypeInv
  <2>3. conv' \in [Procs -> Conversion] /\ pmbPool' \subseteq Pmbs
    BY <2>1, <2>2, Zenon DEF TypeInv
  <2>4. seen' \in [Procs -> Seq(CallbackSet)]
    BY <1>2 DEF Start, TypeInv
  <2>5. \A q \in Procs : Busy(q)' => conv'[q].event \in Events /\ conv'[q].pmb \in Pmbs
    BY <2>1, Zenon DEF TypeInv, Busy
  <2> QED BY <1>2, <2>3, <2>4, <2>5, Zenon DEF Start, TypeInv
<1>3. ASSUME NEW p \in Procs, Add(p) PROVE TypeInv'
  <2> DEFINE c == conv[p]
  <2>1. /\ c.pmb \in Pmbs /\ c \in Conversion /\ c.todo \in Seq(MetricSet) /\ c.todo # <<>>
        /\ mem' \in [Builders -> BuilderSet \cup {None}]
        /\ \E b \in Builders :
              \/ UNCHANGED <<pool, held>>
              \/ pool' = pool \ {b} /\ held' = [held EXCEPT ![c.pmb] = Append(@, b)]
    BY <1>3, AddMem, Zenon DEF TypeInv
  <2> HIDE DEF c
  <2>2. PICK b \in Builders :
           \/ UNCHANGED <<pool, held>>
           \/ pool' = pool \ {b} /\ held' = [held EXCEPT ![c.pmb] = Append(@, b)]
    BY <2>1, Zenon
  <2>3. pool' \subseteq Builders /\ held' \in [Pmbs -> Seq(Builders)]
    <3>1. held[c.pmb] \in Seq(Builders) /\ Append(held[c.pmb], b) \in Seq(Builders)
      BY <2>1, <2>2 DEF TypeInv
    <3>2. held \in [Pmbs -> Seq(Builders)] /\ pool \subseteq Builders
      BY Zenon DEF TypeInv
    <3>3. CASE held' = [held EXCEPT ![c.pmb] = Append(@, b)] /\ pool' = pool \ {b}
      BY <2>1, <3>1, <3>2, <3>3, Zenon
    <3> QED BY <2>2, <3>2, <3>3, Zenon
  <2>4. Tail(c.todo) \in Seq(MetricSet)
    BY <2>1, RangeTail, Zenon
  <2>5. conv' = [conv EXCEPT ![p].todo = Tail(@)] /\ UNCHANGED <<hash, pmbPool, seen, count>>
    BY <1>3, Zenon DEF Add
  <2>6. [c EXCEPT !.todo = Tail(@)] \in Conversion
    BY <2>1, <2>4, Zenon DEF Conversion
  <2>7. conv' \in [Procs -> Conversion]
    BY <2>5, <2>6, Zenon DEF TypeInv, c
  <2>8. \A q \in Procs : Busy(q)' => conv'[q].event \in Events /\ conv'[q].pmb \in Pmbs
    BY <2>5 DEF TypeInv, Busy, Conversion
  <2> QED BY <2>1, <2>3, <2>5, <2>7, <2>8, Zenon DEF TypeInv
<1>4. ASSUME NEW p \in Procs, Callback(p) PROVE TypeInv'
  <2> DEFINE c == conv[p]
             b == mem[held[c.pmb][c.next]]
             x == [part |-> b.part, total |-> Len(held[c.pmb]), metrics |-> Contents(b)]
  <2>1. /\ seen' = [seen EXCEPT ![p] = Append(@, x)]
        /\ conv' = [conv EXCEPT ![p].next = @ + 1]
        /\ UNCHANGED <<hash, mem, pool, held, pmbPool, count>>
    BY <1>4, Zenon DEF Callback
  <2>2. c.next # 0
    <3>1. c.next \in 1 .. Len(held[c.pmb]) + 1
      BY <1>4, Zenon DEF WholeInv, Whole, Callback, Busy
    <3> HIDE DEF c
    <3> QED BY <3>1
  <2>3. b \in BuilderSet /\ held[c.pmb] \in Seq(Builders)
    BY <1>4, <2>2, CallbackBuilder, Zenon
  <2>4. x \in CallbackSet
    <3> DEFINE h == held[c.pmb]
    <3>1. b.part \in Partitions
      BY <2>3, Zenon DEF BuilderSet
    <3>2. h \in Seq(Builders)
      BY <2>3, Zenon
    <3>3. Len(h) \in Nat
      <4> HIDE DEF h
      <4> QED BY <3>2
    <3> QED BY <2>3, <3>1, <3>3, Zenon DEF CallbackSet
  <2> HIDE DEF x, b
  <2>5. seen' \in [Procs -> Seq(CallbackSet)]
    BY <2>1, <2>4 DEF TypeInv
  <2>6. [c EXCEPT !.next = @ + 1] \in Conversion
    <3>1. c \in Conversion
      BY Zenon DEF TypeInv
    <3> HIDE DEF c
    <3>2. c.next + 1 \in Nat
      BY <3>1 DEF Conversion
    <3> QED BY <3>1, <3>2, Zenon DEF Conversion
  <2>7. conv' \in [Procs -> Conversion]
    BY <2>1, <2>6, Zenon DEF TypeInv
  <2>8. \A q \in Procs : Busy(q)' => conv'[q].event \in Events /\ conv'[q].pmb \in Pmbs
    BY <2>1 DEF TypeInv, Busy, Conversion
  <2> QED BY <2>1, <2>5, <2>7, <2>8, Zenon DEF TypeInv
<1>5. ASSUME NEW p \in Procs, Release(p) PROVE TypeInv'
  <2>1. conv[p].pmb \in Pmbs /\ conv[p].event \in Events /\ held[conv[p].pmb] \in Seq(Builders)
    BY <1>5, Zenon DEF TypeInv, Release, Busy
  <2>2. Range(held[conv[p].pmb]) \subseteq Builders
    BY <2>1 DEF Range
  <2>3. [Idle EXCEPT !.event = conv[p].event] \in Conversion
    <3>1. Idle \in Conversion
      BY DEF Idle, Conversion
    <3> QED BY <2>1, <3>1, Zenon DEF Conversion
  <2>4. conv' \in [Procs -> Conversion]
    BY <1>5, <2>3, Zenon DEF TypeInv, Release
  <2>5. \A q \in Procs : Busy(q)' => conv'[q].event \in Events /\ conv'[q].pmb \in Pmbs
    BY <1>5, Zenon DEF TypeInv, Busy, Release, Idle
  <2>6. pool' \subseteq Builders /\ held' \in [Pmbs -> Seq(Builders)] /\ pmbPool' \subseteq Pmbs
    BY <1>5, <2>1, <2>2 DEF TypeInv, Release
  <2> QED BY <1>5, <2>4, <2>5, <2>6, Zenon DEF TypeInv, Release
<1> QED BY <1>1, <1>2, <1>3, <1>4, <1>5, Zenon DEF Next

\* A builder that is in the pool or was never made belongs to no conversion.
LEMMA FreeBuilder ==
  ASSUME TypeInv, OwnInv, NEW b \in Builders, b \in pool \/ mem[b] = None, NEW m \in Pmbs
  PROVE  b \notin Range(held[m])
BY Zenon DEF OwnInv, BuildersOwned

\* Objects keep one owner.
LEMMA OwnNext ==
  ASSUME TypeInv, OwnInv, [Next]_vars
  PROVE  OwnInv'
<1>1. CASE UNCHANGED vars
  BY <1>1, Zenon DEF OwnInv, BuildersOwned, vars, Busy
<1>2. ASSUME NEW p \in Procs, NEW e \in Events, Start(p, e) PROVE OwnInv'
  <2>1. PICK m \in pmbPool :
          /\ pmbPool' = pmbPool \ {m}
          /\ conv' = [conv EXCEPT ![p] =
                        [pc |-> "process", event |-> e, pmb |-> m, todo |-> Metrics(e), next |-> 1]]
    BY <1>2, Zenon DEF Start
  <2>2. conv'[p].pmb = m /\ \A q \in Procs : q # p => conv'[q] = conv[q]
    BY <2>1, Zenon DEF TypeInv
  <2>3. UNCHANGED <<mem, pool, held>>
    BY <1>2, Zenon DEF Start
  <2>4. \A q \in Procs : Busy(q)' => conv'[q].pmb \notin pmbPool'
    BY <2>1, <2>2 DEF OwnInv, Busy
  <2>5. \A q, r \in Procs : Busy(q)' /\ Busy(r)' /\ conv'[q].pmb = conv'[r].pmb => q = r
    BY <2>1, <2>2 DEF OwnInv, Busy
  <2>6. BuildersOwned'
    BY <2>3, Zenon DEF OwnInv, BuildersOwned
  <2> QED BY <2>1, <2>3, <2>4, <2>5, <2>6, Zenon DEF OwnInv
<1>3. ASSUME NEW p \in Procs, Add(p) PROVE OwnInv'
  <2> DEFINE m == conv[p].pmb
             old == Existing(m, hash[Head(conv[p].todo).key])
  <2>1. /\ m \in Pmbs
        /\ \E b \in Builders :
              /\ mem'[b] \in BuilderSet
              /\ \A a \in Builders : a # b => mem'[a] = mem[a]
              /\ \/ b \in old /\ UNCHANGED <<pool, held>>
                 \/ /\ b \in pool \/ mem[b] = None
                    /\ pool' = pool \ {b} /\ held' = [held EXCEPT ![m] = Append(@, b)]
    BY <1>3, AddMem, Zenon
  <2> HIDE DEF old
  <2>2. PICK b \in Builders :
              /\ mem'[b] \in BuilderSet
              /\ \A a \in Builders : a # b => mem'[a] = mem[a]
              /\ \/ b \in old /\ UNCHANGED <<pool, held>>
                 \/ /\ b \in pool \/ mem[b] = None
                    /\ pool' = pool \ {b} /\ held' = [held EXCEPT ![m] = Append(@, b)]
    BY <2>1, Zenon
  <2>3. conv' = [conv EXCEPT ![p].todo = Tail(@)] /\ UNCHANGED pmbPool
    BY <1>3, Zenon DEF Add
  <2>4. \A q \in Procs : conv'[q].pc = conv[q].pc /\ conv'[q].pmb = conv[q].pmb
    BY <2>3, Zenon DEF TypeInv, Conversion
  <2>5. Busy(p) /\ m \notin pmbPool
    BY <1>3, Zenon DEF Add, Busy, OwnInv
  <2>6. /\ \A q \in Procs : Busy(q)' => conv'[q].pmb \notin pmbPool'
        /\ \A q, r \in Procs : Busy(q)' /\ Busy(r)' /\ conv'[q].pmb = conv'[r].pmb => q = r
    BY <2>3, <2>4 DEF OwnInv, Busy
  <2>7. \A a \in Builders : mem[a] # None => mem'[a] # None
    BY <2>2, NoneAssumption, Zenon
  <2>8. mem'[b] # None
    BY <2>2, NoneAssumption, Zenon
  <2> HIDE DEF m
  <2>9. CASE UNCHANGED <<pool, held>>
    <3>1. \A a \in pool' : mem'[a] # None
      BY <2>7, <2>9, Zenon DEF OwnInv, TypeInv
    <3>2. \A n \in Pmbs : \A a \in Range(held'[n]) : mem'[a] # None
      BY <2>7, <2>9 DEF OwnInv, TypeInv, Range
    <3>3. BuildersOwned' /\ \A n \in pmbPool' : held'[n] = <<>>
      BY <2>3, <2>9, Zenon DEF OwnInv, BuildersOwned
    <3> QED BY <2>6, <3>1, <3>2, <3>3, Zenon DEF OwnInv
  <2>10. CASE /\ b \in pool \/ mem[b] = None
              /\ pool' = pool \ {b} /\ held' = [held EXCEPT ![m] = Append(@, b)]
    <3>1. \A n \in Pmbs : b \notin Range(held[n])
      BY <2>10, FreeBuilder, Zenon
    <3>2. held[m] \in Seq(Builders) /\ \A n \in Pmbs : n # m => held'[n] = held[n]
      BY <2>1, <2>10, Zenon DEF TypeInv
    <3>3. held'[m] = Append(held[m], b)
      BY <2>1, <2>10, Zenon DEF TypeInv
    <3>4. Range(held'[m]) = Range(held[m]) \cup {b}
      BY <3>2, <3>3, RangeAppend
    <3>5. \A n \in Pmbs : Range(held[n]) \subseteq Builders
      BY DEF TypeInv, Range
    <3>6. \A a \in pool' : mem'[a] # None
      BY <2>7, <2>10, Zenon DEF OwnInv, TypeInv
    <3>7. ASSUME NEW n \in Pmbs, NEW a \in Range(held'[n]) PROVE mem'[a] # None
      <4>1. a = b \/ a \in Range(held[n])
        BY <3>2, <3>4, Zenon
      <4> QED BY <2>7, <2>8, <3>5, <4>1, Zenon DEF OwnInv
    <3>8. \A n \in pmbPool' : held'[n] = <<>>
      BY <2>3, <2>5, <3>2, Zenon DEF OwnInv, TypeInv, m
    <3>9. ASSUME NEW n \in Pmbs PROVE Range(held'[n]) \cap pool' = {}
      BY <2>10, <3>2, <3>4, Zenon DEF OwnInv, BuildersOwned
    <3>10. ASSUME NEW n \in Pmbs, NEW k \in Pmbs, n # k
           PROVE  Range(held'[n]) \cap Range(held'[k]) = {}
      BY <3>1, <3>2, <3>4, <3>10 DEF OwnInv, BuildersOwned
    <3>11. BuildersOwned'
      BY <3>9, <3>10, Zenon DEF BuildersOwned
    <3> QED BY <2>6, <3>6, <3>7, <3>8, <3>11, Zenon DEF OwnInv
  <2> QED BY <2>2, <2>9, <2>10, Zenon
<1>4. ASSUME NEW p \in Procs, Callback(p) PROVE OwnInv'
  <2>1. conv' = [conv EXCEPT ![p].next = @ + 1] /\ UNCHANGED <<mem, pool, held, pmbPool>>
    BY <1>4, Zenon DEF Callback
  <2>2. \A q \in Procs : conv'[q].pc = conv[q].pc /\ conv'[q].pmb = conv[q].pmb
    BY <2>1, Zenon DEF TypeInv, Conversion
  <2>3. BuildersOwned'
    BY <2>1, Zenon DEF OwnInv, BuildersOwned
  <2> QED BY <2>1, <2>2, <2>3 DEF OwnInv, Busy
<1>5. ASSUME NEW p \in Procs, Release(p) PROVE OwnInv'
  <2> DEFINE m == conv[p].pmb
  <2>1. /\ m \in Pmbs /\ Busy(p) /\ UNCHANGED mem
        /\ pool' = pool \cup Range(held[m]) /\ held' = [held EXCEPT ![m] = <<>>]
        /\ pmbPool' = pmbPool \cup {m}
        /\ conv' = [conv EXCEPT ![p] = [Idle EXCEPT !.event = conv[p].event]]
    BY <1>5, Zenon DEF Release, Busy, TypeInv
  <2>2. ~ Busy(p)' /\ \A q \in Procs : q # p => conv'[q] = conv[q]
    BY <2>1, Zenon DEF TypeInv, Busy, Idle
  <2>3. \A q \in Procs : Busy(q)' => conv'[q].pmb \notin pmbPool'
    BY <2>1, <2>2 DEF OwnInv, Busy
  <2>4. \A q, r \in Procs : Busy(q)' /\ Busy(r)' /\ conv'[q].pmb = conv'[r].pmb => q = r
    BY <2>2, Zenon DEF OwnInv, Busy
  <2> HIDE DEF m
  <2>5. held'[m] = <<>> /\ \A n \in Pmbs : n # m => held'[n] = held[n]
    BY <2>1, Zenon DEF TypeInv
  <2>6. Range(<<>>) = {}
    BY DEF Range
  <2>7. \A n \in pmbPool' : held'[n] = <<>>
    BY <2>1, <2>5, Zenon DEF OwnInv, TypeInv
  <2>8. \A a \in pool' : mem'[a] # None
    BY <2>1, Zenon DEF OwnInv
  <2>9. \A n \in Pmbs : \A a \in Range(held'[n]) : mem'[a] # None
    BY <2>1, <2>5, <2>6, Zenon DEF OwnInv
  <2>10. \A n \in Pmbs : Range(held'[n]) \cap pool' = {}
    BY <2>1, <2>5, <2>6, Zenon DEF OwnInv, BuildersOwned
  <2>11. \A n, k \in Pmbs : n # k => Range(held'[n]) \cap Range(held'[k]) = {}
    BY <2>5, <2>6, Zenon DEF OwnInv, BuildersOwned
  <2>12. BuildersOwned'
    BY <2>10, <2>11, Zenon DEF BuildersOwned
  <2> QED BY <2>3, <2>4, <2>7, <2>8, <2>9, <2>12, Zenon DEF OwnInv
<1> QED BY <1>1, <1>2, <1>3, <1>4, <1>5, Zenon DEF Next

-----------------------------------------------------------------------------
(* What a step of one conversion leaves of another. *)

Step(p) == (\E e \in Events : Start(p, e)) \/ Add(p) \/ Callback(p) \/ Release(p)

Kept(q) ==
  /\ conv'[q] = conv[q] /\ seen'[q] = seen[q] /\ hash' = hash
  /\ held'[conv[q].pmb] = held[conv[q].pmb]
  /\ \A i \in DOMAIN held[conv[q].pmb] : mem'[held[conv[q].pmb][i]] = mem[held[conv[q].pmb][i]]

\* A step of one goroutine changes nothing of the record of another.
LEMMA StepAlone ==
  ASSUME TypeInv, NEW p \in Procs, Step(p), NEW q \in Procs, q # p
  PROVE  conv'[q] = conv[q] /\ seen'[q] = seen[q] /\ hash' = hash
<1>1. ASSUME NEW e \in Events, Start(p, e) PROVE conv'[q] = conv[q] /\ seen'[q] = seen[q] /\ hash' = hash
  BY <1>1, Zenon DEF Start, TypeInv
<1>2. CASE Add(p)
  BY <1>2, Zenon DEF Add, TypeInv
<1>3. CASE Callback(p)
  BY <1>3, Zenon DEF Callback, TypeInv
<1>4. CASE Release(p)
  BY <1>4, Zenon DEF Release, TypeInv
<1> QED BY <1>1, <1>2, <1>3, <1>4, Zenon DEF Step

\* A step of one conversion touches no builder of another.
LEMMA OthersKept ==
  ASSUME TypeInv, OwnInv, NEW p \in Procs, Step(p), NEW q \in Procs, q # p, Busy(q)
  PROVE  Kept(q)
<1> DEFINE m == conv[q].pmb
<1>1. conv'[q] = conv[q] /\ seen'[q] = seen[q] /\ hash' = hash
  BY StepAlone, Zenon
<1>2. m \in Pmbs /\ held[m] \in Seq(Builders)
  BY Zenon DEF TypeInv
<1>3. ASSUME NEW e \in Events, Start(p, e) PROVE UNCHANGED <<held, mem>>
  BY <1>3, Zenon DEF Start
<1>4. CASE Callback(p)
  BY <1>1, <1>4, Zenon DEF Callback, Kept
<1>5. CASE Release(p)
  <2>1. conv[p].pmb # m
    BY <1>5, Zenon DEF OwnInv, Release, Busy
  <2>2. held'[m] = held[m] /\ mem' = mem
    BY <1>2, <1>5, <2>1, Zenon DEF Release, TypeInv
  <2> QED BY <1>1, <2>2, Zenon DEF Kept
<1>6. CASE Add(p)
  <2>1. conv[p].pmb # m /\ conv[p].pmb \in Pmbs
    BY <1>6, Zenon DEF OwnInv, Add, Busy, TypeInv
  <2> DEFINE n == conv[p].pmb
             old == Existing(n, hash[Head(conv[p].todo).key])
  <2>2. \E b \in Builders :
           /\ \A a \in Builders : a # b => mem'[a] = mem[a]
           /\ \/ b \in old /\ UNCHANGED <<pool, held>>
              \/ (b \in pool \/ mem[b] = None) /\ held' = [held EXCEPT ![n] = Append(@, b)]
    BY <1>6, AddMem, Zenon
  <2>3. old \subseteq Range(held[n])
    BY Zenon DEF Existing
  <2> HIDE DEF old, n, m
  <2>4. PICK b \in Builders :
           /\ \A a \in Builders : a # b => mem'[a] = mem[a]
           /\ \/ b \in old /\ UNCHANGED <<pool, held>>
              \/ (b \in pool \/ mem[b] = None) /\ held' = [held EXCEPT ![n] = Append(@, b)]
    BY <2>2, Zenon
  <2>5. b \notin Range(held[m])
    <3>1. CASE b \in old
      BY <1>2, <2>1, <2>3, <3>1, Zenon DEF OwnInv, BuildersOwned, n
    <3>2. CASE b \in pool \/ mem[b] = None
      BY <1>2, <3>2, FreeBuilder, Zenon
    <3> QED BY <2>4, <3>1, <3>2, Zenon
  <2>6. held'[m] = held[m]
    BY <1>2, <2>1, <2>4, Zenon DEF TypeInv, n
  <2>7. \A i \in DOMAIN held[m] : held[m][i] \in Builders /\ held[m][i] \in Range(held[m])
    BY <1>2 DEF Range
  <2>8. \A i \in DOMAIN held[m] : mem'[held[m][i]] = mem[held[m][i]]
    BY <2>4, <2>5, <2>7, Zenon
  <2> QED BY <1>1, <2>6, <2>8, Zenon DEF Kept, m
<1>7. CASE UNCHANGED <<held, mem>>
  BY <1>1, <1>7, Zenon DEF Kept
<1> QED BY <1>3, <1>4, <1>5, <1>6, <1>7, Zenon DEF Step

\* A conversion of which nothing changed stays whole.
LEMMA WholeKept ==
  ASSUME TypeInv, NEW q \in Procs, Busy(q), Whole(q), Kept(q)
  PROVE  Whole(q)'
<1> DEFINE c == conv[q]
<1>1. \A i \in DOMAIN held[c.pmb] : PartOf(c.pmb, i)' = PartOf(c.pmb, i)
  BY Zenon DEF Kept, PartOf
<1>2. Left(q)' = Left(q) /\ EventParts(c.event)' = EventParts(c.event)
  BY Zenon DEF Kept, Left, EventParts
<1>3. c.next \in 1 .. Len(held[c.pmb]) + 1 /\ Len(seen[q]) = c.next - 1
  BY Zenon DEF Whole
<1>4. c.pmb \in Pmbs /\ held[c.pmb] \in Seq(Builders) /\ c.next \in Nat /\ seen[q] \in Seq(CallbackSet)
  BY Zenon DEF TypeInv, Conversion
<1>5. DOMAIN seen[q] \subseteq DOMAIN held[c.pmb]
  BY <1>3, <1>4, SMTT(30)
<1> QED BY <1>1, <1>2, <1>5, SMTT(30) DEF Whole, Kept

\* A conversion that starts has everything left to do.
LEMMA WholeStart ==
  ASSUME TypeInv, OwnInv, NEW p \in Procs, NEW e \in Events, Start(p, e)
  PROVE  Whole(p)'
<1>1. PICK m \in pmbPool :
        conv' = [conv EXCEPT ![p] =
                   [pc |-> "process", event |-> e, pmb |-> m, todo |-> Metrics(e), next |-> 1]]
  BY Zenon DEF Start
<1>2. /\ conv'[p].pmb = m /\ conv'[p].event = e /\ conv'[p].todo = Metrics(e) /\ conv'[p].next = 1
  BY <1>1, Zenon DEF TypeInv
<1>3. seen'[p] = <<>> /\ held' = held /\ hash' = hash
  BY Zenon DEF Start, TypeInv
<1>4. held'[m] = <<>>
  BY <1>3, Zenon DEF OwnInv
<1>5. DOMAIN held'[m] = {} /\ DOMAIN seen'[p] = {} /\ Len(held'[m]) = 0 /\ Len(seen'[p]) = 0
  BY <1>3, <1>4
<1>6. Left(p)' = EventParts(e)'
  BY <1>2, Zenon DEF Left, EventParts
<1> QED BY <1>2, <1>5, <1>6 DEF Whole

\* An add takes one metric from what is left to what is done.
LEMMA WholeAdd ==
  ASSUME TypeInv, OwnInv, NEW p \in Procs, Add(p), Whole(p)
  PROVE  Whole(p)'
<1> DEFINE c == conv[p]
           m == c.pmb
           x == Head(c.todo)
           part == hash[x.key]
           old == Existing(m, part)
<1>1. /\ m \in Pmbs /\ c.event \in Events /\ c.todo \in Seq(MetricSet) /\ c.todo # <<>>
      /\ \E b \in Builders :
            /\ mem'[b].part = part
            /\ \A a \in Builders : a # b => mem'[a] = mem[a]
            /\ \/ b \in old /\ mem[b].part = part /\ UNCHANGED <<pool, held>>
               \/ /\ old = {} /\ (b \in pool \/ mem[b] = None)
                  /\ held' = [held EXCEPT ![m] = Append(@, b)]
  BY AddMem, Zenon
<1>2. PICK b \in Builders :
            /\ mem'[b].part = part
            /\ \A a \in Builders : a # b => mem'[a] = mem[a]
            /\ \/ b \in old /\ mem[b].part = part /\ UNCHANGED <<pool, held>>
               \/ /\ old = {} /\ (b \in pool \/ mem[b] = None)
                  /\ held' = [held EXCEPT ![m] = Append(@, b)]
  BY <1>1, Zenon
<1>3. /\ conv'[p].pmb = m /\ conv'[p].event = c.event /\ conv'[p].next = c.next
      /\ conv'[p].todo = Tail(c.todo)
      /\ hash' = hash /\ seen' = seen
  BY AddConv, Zenon
<1>4. /\ held[m] \in Seq(Builders) /\ c.next \in Nat /\ seen[p] \in Seq(CallbackSet)
      /\ c.next = 1 /\ Len(seen[p]) = 0
  <2>1. held[m] \in Seq(Builders) /\ conv[p] \in Conversion /\ seen[p] \in Seq(CallbackSet)
    BY <1>1, Zenon DEF TypeInv
  <2>2. c.next \in Nat /\ c.next = 1 /\ Len(seen[p]) = c.next - 1
    BY <1>1, <2>1, Zenon DEF Conversion, Whole
  <2> QED BY <2>1, <2>2
<1>5. /\ DOMAIN seen[p] = {} /\ Len(held[m]) \in Nat
      /\ c.next \in 1 .. Len(held[m]) + 1 /\ c.next \in 1 .. (Len(held[m]) + 1) + 1
      /\ Len(seen[p]) = c.next - 1
  BY <1>4
<1>6. Range(c.todo) = {x} \cup Range(Tail(c.todo))
  BY <1>1, RangeTail, Zenon
<1>7. Left(p) = Left(p)' \cup {part} /\ EventParts(c.event)' = EventParts(c.event)
  BY <1>3, <1>6, Zenon DEF Left, EventParts
<1>8. \A i \in DOMAIN held[m] : held[m][i] \in Builders /\ held[m][i] \in Range(held[m])
  BY <1>4 DEF Range
<1>9. /\ \A i, j \in DOMAIN held[m] : PartOf(m, i) = PartOf(m, j) => i = j
      /\ {PartOf(m, i) : i \in DOMAIN held[m]} \cup Left(p) = EventParts(c.event)
  BY Zenon DEF Whole
<1> HIDE DEF m, c, part, old, x
<1>10. CASE b \in old /\ mem[b].part = part /\ UNCHANGED <<pool, held>>
  <2>1. \A i \in DOMAIN held[m] : mem'[held[m][i]].part = mem[held[m][i]].part
    BY <1>2, <1>8, <1>10, Zenon
  <2>2. PICK k \in DOMAIN held[m] : held[m][k] = b
    BY <1>10, Zenon DEF old, Existing, Range
  <2>3. PartOf(m, k) = part
    BY <1>10, <2>2, Zenon DEF PartOf
  <2>4. held'[m] = held[m] /\ \A i \in DOMAIN held[m] : mem'[held'[m][i]].part = PartOf(m, i)
    BY <1>10, <2>1, Zenon DEF PartOf
  <2>5. /\ \A i, j \in DOMAIN held'[m] : mem'[held'[m][i]].part = mem'[held'[m][j]].part => i = j
        /\ {mem'[held'[m][i]].part : i \in DOMAIN held'[m]} \cup Left(p)' = EventParts(c.event)'
    <3>1. {mem'[held'[m][i]].part : i \in DOMAIN held'[m]} = {PartOf(m, i) : i \in DOMAIN held[m]}
      BY <2>4, Zenon
    <3>2. part \in {PartOf(m, i) : i \in DOMAIN held[m]}
      BY <2>3, Zenon
    <3> QED BY <1>7, <1>9, <2>4, <3>1, <3>2
  <2> DEFINE d == conv'[p]
  <2>6. /\ \A i, j \in DOMAIN held'[d.pmb] : mem'[held'[d.pmb][i]].part = mem'[held'[d.pmb][j]].part => i = j
        /\ {mem'[held'[d.pmb][i]].part : i \in DOMAIN held'[d.pmb]} \cup Left(p)' = EventParts(c.event)'
    BY <1>3, <2>5
  <2>7. d.next \in 1 .. Len(held'[d.pmb]) + 1 /\ Len(seen'[p]) = d.next - 1
    BY <1>3, <1>5, <2>4, Zenon
  <2>8. d.next = 1 /\ DOMAIN seen'[p] = {}
    BY <1>3, <1>4, <1>5, Zenon
  <2> QED BY <2>6, <2>7, <2>8, Zenon DEF Whole, PartOf, c
<1>11. CASE /\ old = {} /\ (b \in pool \/ mem[b] = None)
            /\ held' = [held EXCEPT ![m] = Append(@, b)]
  <2>1. held'[m] = Append(held[m], b) /\ b \notin Range(held[m])
    BY <1>1, <1>11, FreeBuilder, Zenon DEF TypeInv
  <2>2. /\ Len(held'[m]) = Len(held[m]) + 1 /\ DOMAIN held'[m] = DOMAIN held[m] \cup {Len(held[m]) + 1}
        /\ held'[m][Len(held[m]) + 1] = b /\ Len(held[m]) + 1 \notin DOMAIN held[m]
        /\ \A i \in DOMAIN held[m] : held'[m][i] = held[m][i]
    BY <1>4, <1>5, <2>1, SMTT(30)
  <2>3. \A i \in DOMAIN held[m] : mem'[held'[m][i]].part = PartOf(m, i)
    BY <1>2, <1>8, <2>1, <2>2, Zenon DEF PartOf
  <2>4. \A i \in DOMAIN held[m] : PartOf(m, i) # part
    BY <1>8, <1>11, Zenon DEF old, Existing, PartOf
  <2>5. \A i, j \in DOMAIN held'[m] : mem'[held'[m][i]].part = mem'[held'[m][j]].part => i = j
    BY <1>2, <1>9, <2>2, <2>3, <2>4, SMTT(30)
  <2>6. {mem'[held'[m][i]].part : i \in DOMAIN held'[m]} = {PartOf(m, i) : i \in DOMAIN held[m]} \cup {part}
    BY <1>2, <2>2, <2>3
  <2>7. {mem'[held'[m][i]].part : i \in DOMAIN held'[m]} \cup Left(p)' = EventParts(c.event)'
    BY <1>7, <1>9, <2>6, Zenon
  <2> DEFINE d == conv'[p]
  <2>8. /\ \A i, j \in DOMAIN held'[d.pmb] : mem'[held'[d.pmb][i]].part = mem'[held'[d.pmb][j]].part => i = j
        /\ {mem'[held'[d.pmb][i]].part : i \in DOMAIN held'[d.pmb]} \cup Left(p)' = EventParts(c.event)'
    BY <1>3, <2>5, <2>7
  <2>9. d.next \in 1 .. Len(held'[d.pmb]) + 1 /\ Len(seen'[p]) = d.next - 1
    BY <1>3, <1>5, <2>2, Zenon
  <2>10. d.next = 1 /\ DOMAIN seen'[p] = {}
    BY <1>3, <1>4, <1>5, Zenon
  <2> QED BY <2>8, <2>9, <2>10, Zenon DEF Whole, PartOf, c
<1> QED BY <1>2, <1>10, <1>11, Zenon

\* A callback is for the next builder, with its partition and the number of builders.
LEMMA WholeCallback ==
  ASSUME TypeInv, OwnInv, NEW p \in Procs, Callback(p), Whole(p)
  PROVE  Whole(p)'
<1> DEFINE c == conv[p]
           m == c.pmb
           b == mem[held[m][c.next]]
           x == [part |-> b.part, total |-> Len(held[m]), metrics |-> Contents(b)]
<1>1. /\ seen'[p] = Append(seen[p], x)
      /\ UNCHANGED <<hash, mem, held>>
  BY Zenon DEF Callback, TypeInv
<1>2. /\ conv'[p].pmb = m /\ conv'[p].event = c.event /\ conv'[p].next = c.next + 1
      /\ conv'[p].todo = <<>> /\ c.todo = <<>>
  BY Zenon DEF Callback, TypeInv, Conversion
<1>3. c.next # 0 /\ Len(seen[p]) = c.next - 1 /\ c.next \in Nat
  BY SMTT(30) DEF Whole, TypeInv, Conversion
<1>4. m \in Pmbs /\ c.next \in DOMAIN held[m] /\ held[m] \in Seq(Builders)
  BY <1>3, CallbackBuilder, Zenon
<1>5. seen[p] \in Seq(CallbackSet)
  BY Zenon DEF TypeInv
<1>6. x.part = PartOf(m, c.next) /\ x.total = Len(held[m])
  BY Zenon DEF PartOf
<1>7. /\ \A i, j \in DOMAIN held[m] : PartOf(m, i) = PartOf(m, j) => i = j
      /\ {PartOf(m, i) : i \in DOMAIN held[m]} \cup Left(p) = EventParts(c.event)
      /\ \A i \in DOMAIN seen[p] : seen[p][i].part = PartOf(m, i) /\ seen[p][i].total = Len(held[m])
  BY Zenon DEF Whole
<1>8. /\ Left(p)' = Left(p) /\ EventParts(c.event)' = EventParts(c.event)
      /\ \A i : PartOf(m, i)' = PartOf(m, i)
  BY <1>1, <1>2, Zenon DEF Left, EventParts, PartOf
<1> HIDE DEF x, b, m, c
<1>9. /\ Len(seen'[p]) = c.next /\ DOMAIN seen'[p] = DOMAIN seen[p] \cup {c.next}
      /\ seen'[p][c.next] = x /\ \A i \in DOMAIN seen[p] : seen'[p][i] = seen[p][i]
  BY <1>1, <1>3, <1>5, SMTT(30)
<1>10. \A i \in DOMAIN seen'[p] : seen'[p][i].part = PartOf(m, i) /\ seen'[p][i].total = Len(held[m])
  BY <1>6, <1>7, <1>9, Zenon
<1>11. c.next + 1 \in 1 .. Len(held[m]) + 1 /\ Len(seen'[p]) = (c.next + 1) - 1
  BY <1>3, <1>4, <1>9, SMTT(30)
<1> DEFINE d == conv'[p]
<1>12. /\ \A i, j \in DOMAIN held'[d.pmb] : mem'[held'[d.pmb][i]].part = mem'[held'[d.pmb][j]].part => i = j
       /\ {mem'[held'[d.pmb][i]].part : i \in DOMAIN held'[d.pmb]} \cup Left(p)' = EventParts(c.event)'
  BY <1>1, <1>2, <1>7, <1>8 DEF PartOf
<1>13. d.next \in 1 .. Len(held'[d.pmb]) + 1 /\ Len(seen'[p]) = d.next - 1 /\ d.todo = <<>>
  BY <1>1, <1>2, <1>11, Zenon
<1>14. \A i \in DOMAIN seen'[p] :
          seen'[p][i].part = mem'[held'[d.pmb][i]].part /\ seen'[p][i].total = Len(held'[d.pmb])
  BY <1>1, <1>2, <1>10, Zenon DEF PartOf
<1> QED BY <1>12, <1>13, <1>14, Zenon DEF Whole, PartOf, c

\* Every conversion stays whole.
LEMMA WholeNext ==
  ASSUME TypeInv, OwnInv, WholeInv, [Next]_vars
  PROVE  WholeInv'
<1>1. CASE UNCHANGED vars
  <2>1. ASSUME NEW q \in Procs, Busy(q)' PROVE Whole(q)'
    <3>1. Busy(q) /\ Kept(q)
      BY <1>1, <2>1, Zenon DEF vars, Kept, Busy
    <3> QED BY <3>1, WholeKept, Zenon DEF WholeInv
  <2> QED BY <2>1, Zenon DEF WholeInv
<1>2. ASSUME NEW p \in Procs, Step(p) PROVE WholeInv'
  <2> SUFFICES ASSUME NEW q \in Procs, Busy(q)' PROVE Whole(q)'
    BY Zenon DEF WholeInv
  <2>1. CASE q # p
    <3>1. Busy(q)
      BY <1>2, <2>1, StepAlone, Zenon DEF Busy
    <3>2. Kept(q)
      BY <1>2, <2>1, <3>1, OthersKept, Zenon
    <3> QED BY <3>1, <3>2, WholeKept, Zenon DEF WholeInv
  <2>2. CASE q = p
    <3>1. ASSUME NEW e \in Events, Start(p, e) PROVE Whole(p)'
      BY <3>1, WholeStart, Zenon
    <3>2. CASE Add(p)
      <4>1. Whole(p)
        BY <3>2, Zenon DEF WholeInv, Add, Busy
      <4> QED BY <2>2, <3>2, <4>1, WholeAdd, Zenon
    <3>3. CASE Callback(p)
      <4>1. Whole(p)
        BY <3>3, Zenon DEF WholeInv, Callback, Busy
      <4> QED BY <2>2, <3>3, <4>1, WholeCallback, Zenon
    <3>4. CASE Release(p)
      BY <2>2, <3>4, Zenon DEF Release, Busy, Idle, TypeInv
    <3> QED BY <1>2, <2>2, <3>1, <3>2, <3>3, <3>4, Zenon DEF Step
  <2> QED BY <2>1, <2>2, Zenon
<1> QED BY <1>1, <1>2, Zenon DEF Next, Step

Ended(p) ==
  conv[p].pc = "idle" /\ conv[p].event # None =>
    /\ {seen[p][i].part : i \in DOMAIN seen[p]} = EventParts(conv[p].event)
    /\ \A i, j \in DOMAIN seen[p] : seen[p][i].part = seen[p][j].part => i = j
    /\ \A i \in DOMAIN seen[p] : seen[p][i].total = Len(seen[p])

\* When the last callback is done, those of the conversion add up to the event.
LEMMA EndedRelease ==
  ASSUME TypeInv, NEW p \in Procs, Release(p), Whole(p)
  PROVE  Ended(p)'
<1> DEFINE c == conv[p]
           m == c.pmb
<1>1. /\ conv'[p].event = c.event /\ seen' = seen /\ hash' = hash
      /\ m \in Pmbs /\ held[m] \in Seq(Builders) /\ seen[p] \in Seq(CallbackSet)
      /\ c.todo = <<>> /\ c.next > Len(held[m]) /\ c.next \in Nat
  BY Zenon DEF Release, TypeInv, Busy, Idle, Conversion
<1>2. /\ \A i, j \in DOMAIN held[m] : PartOf(m, i) = PartOf(m, j) => i = j
      /\ {PartOf(m, i) : i \in DOMAIN held[m]} \cup Left(p) = EventParts(c.event)
      /\ c.next \in 1 .. Len(held[m]) + 1 /\ Len(seen[p]) = c.next - 1
      /\ \A i \in DOMAIN seen[p] : seen[p][i].part = PartOf(m, i) /\ seen[p][i].total = Len(held[m])
  BY Zenon DEF Whole
<1>3. EventParts(c.event)' = EventParts(c.event)
  BY <1>1, Zenon DEF EventParts
<1>4. Left(p) = {}
  BY <1>1 DEF Left, Range
<1> HIDE DEF m
<1>5. Len(seen[p]) = Len(held[m]) /\ DOMAIN seen[p] = DOMAIN held[m]
  <2>1. Len(held[m]) \in Nat /\ Len(seen[p]) \in Nat
    BY <1>1
  <2>2. Len(seen[p]) = Len(held[m])
    BY <1>1, <1>2, <2>1, SMTT(30)
  <2> QED BY <1>1, <2>2
<1>6. {seen[p][i].part : i \in DOMAIN seen[p]} = {PartOf(m, i) : i \in DOMAIN held[m]}
  BY <1>2, <1>5
<1>7. /\ {seen[p][i].part : i \in DOMAIN seen[p]} = EventParts(c.event)
      /\ \A i, j \in DOMAIN seen[p] : seen[p][i].part = seen[p][j].part => i = j
      /\ \A i \in DOMAIN seen[p] : seen[p][i].total = Len(seen[p])
  BY <1>2, <1>4, <1>5, <1>6, Zenon
<1> QED BY <1>1, <1>3, <1>7, SMTT(30) DEF Ended

\* The conversions that ended stay whole.
LEMMA EndedNext ==
  ASSUME TypeInv, OwnInv, WholeInv, EventWhole, [Next]_vars
  PROVE  EventWhole'
<1>1. \A q \in Procs : Ended(q)
  BY Zenon DEF EventWhole, Ended, EventParts
<1>2. ASSUME UNCHANGED vars, NEW q \in Procs PROVE Ended(q)'
  <2>1. conv' = conv /\ seen' = seen /\ hash' = hash
    BY <1>2, Zenon DEF vars
  <2>2. EventParts(conv[q].event)' = EventParts(conv[q].event)
    BY <2>1, Zenon DEF EventParts
  <2> QED BY <1>1, <2>1, <2>2 DEF Ended
<1>3. ASSUME NEW p \in Procs, Step(p), NEW q \in Procs PROVE Ended(q)'
  <2>1. CASE q # p
    <3>1. conv'[q] = conv[q] /\ seen'[q] = seen[q] /\ hash' = hash
      BY <1>3, <2>1, StepAlone, Zenon
    <3>2. EventParts(conv[q].event)' = EventParts(conv[q].event)
      BY <3>1, Zenon DEF EventParts
    <3> QED BY <1>1, <3>1, <3>2, SMTT(30) DEF Ended
  <2>2. CASE q = p
    <3>1. ASSUME NEW e \in Events, Start(p, e) PROVE Ended(p)'
      BY <3>1 DEF Start, Ended, TypeInv
    <3>2. CASE Add(p)
      BY <2>2, <3>2, AddConv DEF Ended
    <3>3. CASE Callback(p)
      BY <2>2, <3>3, Zenon DEF Callback, Ended, TypeInv, Conversion
    <3>4. CASE Release(p)
      <4>1. Whole(p)
        BY <3>4, Zenon DEF WholeInv, Release, Busy
      <4> QED BY <2>2, <3>4, <4>1, EndedRelease, Zenon
    <3> QED BY <1>3, <2>2, <3>1, <3>2, <3>3, <3>4, Zenon DEF Step
  <2> QED BY <2>1, <2>2, Zenon
<1>4. ASSUME \A q \in Procs : Ended(q)' PROVE EventWhole'
  BY <1>4, Zenon DEF EventWhole, Ended, EventParts
<1> QED BY <1>2, <1>3, <1>4, Zenon DEF Next, Step

-----------------------------------------------------------------------------
(* What the builders of a conversion hold. *)

\* The metrics of the transaction and of the service transaction come first, that of a span
\* is alone.
LEMMA MetricsOf ==
  ASSUME NEW e \in Events
  PROVE  /\ \A k \in DOMAIN Metrics(e) :
               /\ Metrics(e)[k].kind = "txn" => IsTxn(e) /\ Metrics(e)[k].key = e.txn /\ k = 1
               /\ Metrics(e)[k].kind = "svctxn" => IsTxn(e) /\ Metrics(e)[k].key = e.svctxn /\ k = 2
               /\ Metrics(e)[k].kind = "span" => k = 1
         /\ IsTxn(e) => /\ 1 \in DOMAIN Metrics(e) /\ 2 \in DOMAIN Metrics(e)
                        /\ Metrics(e)[1] = Metric("txn", e.txn, e.rep)
                        /\ Metrics(e)[2] = Metric("svctxn", e.svctxn, e.rep)
<1> DEFINE s == Metrics(e)
           a == Metric("txn", e.txn, e.rep)
           b == Metric("svctxn", e.svctxn, e.rep)
           d == [i \in DOMAIN e.spans |-> Metric("dropped", e.spans[i], e.rep)]
<1>1. e.rep \in Int /\ e.spans \in Seq(Keys)
  BY EventsAssumption, Zenon
<1>2. CASE IsTxn(e)
  <2>1. s = <<a, b>> \o d
    BY <1>1, <1>2 DEF Metrics, IsTxn
  <2>2. a.kind = "txn" /\ a.key = e.txn /\ b.kind = "svctxn" /\ b.key = e.svctxn
    BY Zenon DEF Metric
  <2>3. \A i \in DOMAIN e.spans : d[i].kind = "dropped"
    BY Zenon DEF Metric
  <2>4. DOMAIN e.spans = 1 .. Len(e.spans) /\ Len(e.spans) \in Nat
    BY <1>1
  <2>5. d \in Seq({d[i] : i \in DOMAIN e.spans}) /\ Len(d) = Len(e.spans)
    BY <2>4
  <2> DEFINE n == Len(e.spans)
             S == {a, b} \cup {d[i] : i \in DOMAIN e.spans}
  <2>6. <<a, b>> \in Seq(S) /\ d \in Seq(S) /\ Len(<<a, b>>) = 2 /\ <<a, b>>[1] = a /\ <<a, b>>[2] = b
    BY <2>5
  <2> HIDE DEF a, b, d, s
  <2>7. /\ s \in Seq(S) /\ Len(s) = n + 2 /\ DOMAIN s = 1 .. n + 2
        /\ s[1] = a /\ s[2] = b
        /\ \A i \in 3 .. n + 2 : s[i] = d[i - 2] /\ i - 2 \in DOMAIN e.spans
    BY <2>1, <2>4, <2>5, <2>6
  <2>8. \A i \in 3 .. n + 2 : s[i].kind = "dropped"
    BY <2>3, <2>7, Zenon
  <2>9. \A i \in DOMAIN s : i = 1 \/ i = 2 \/ i \in 3 .. n + 2
    BY <2>4, <2>7
  <2>10. \A i \in DOMAIN s : /\ s[i].kind = "txn" => i = 1
                             /\ s[i].kind = "svctxn" => i = 2
                             /\ s[i].kind = "span" => i = 1
    BY <2>2, <2>7, <2>8, <2>9, Zenon
  <2>11. 1 \in DOMAIN s /\ 2 \in DOMAIN s
    BY <2>4, <2>7
  <2> QED BY <1>2, <2>2, <2>7, <2>10, <2>11, Zenon DEF s, a, b
<1>3. CASE ~ IsTxn(e)
  <2>1. \/ s = <<>>
        \/ s = <<Metric("span", e.spans[1], e.rep)>>
        \/ s = <<Metric("summary", Summary, 0)>>
    BY <1>1, <1>3 DEF Metrics, IsTxn
  <2>2. \A i \in DOMAIN s : s[i].kind \notin {"txn", "svctxn"} /\ i = 1
    BY <2>1 DEF Metric
  <2> HIDE DEF s
  <2> QED BY <1>3, <2>2, Zenon DEF s
<1> QED BY <1>2, <1>3, Zenon

\* What is left when a metric is taken: no other of its kind if it is that of the transaction
\* or of the service transaction.
LEMMA TodoTail ==
  ASSUME NEW e \in Events, NEW todo \in Seq(MetricSet), todo # <<>>, TodoOf(todo, e)
  PROVE  /\ TodoOf(Tail(todo), e)
         /\ Done(e, todo) \in Nat /\ Done(e, Tail(todo)) = Done(e, todo) + 1
         /\ Done(e, todo) + 1 \in DOMAIN Metrics(e) /\ Head(todo) = Metrics(e)[Done(e, todo) + 1]
         /\ \A kind \in {"txn", "svctxn"} :
               Pending(todo, kind) <=> Pending(Tail(todo), kind) \/ Head(todo).kind = kind
         /\ \A kind \in {"txn", "svctxn"} : Head(todo).kind = kind => ~ Pending(Tail(todo), kind)
<1> DEFINE n == Len(Metrics(e))
           l == Len(todo)
           k == Done(e, todo)
<1>1. /\ Tail(todo) \in Seq(MetricSet) /\ Range(todo) = {Head(todo)} \cup Range(Tail(todo))
      /\ Head(todo) = todo[1] /\ 1 \in DOMAIN todo
      /\ l \in Nat /\ l # 0 /\ Len(Tail(todo)) = l - 1
      /\ DOMAIN Tail(todo) = 1 .. l - 1
      /\ \A i \in 1 .. l - 1 : i + 1 \in DOMAIN todo /\ Tail(todo)[i] = todo[i + 1]
  BY RangeTail
<1>2. n \in Nat /\ DOMAIN Metrics(e) = 1 .. n
  BY MetricsType
<1>3. l <= n /\ k = n - l /\ \A i \in DOMAIN todo : todo[i] = Metrics(e)[k + i]
  BY Zenon DEF TodoOf, Done
<1>4. Done(e, Tail(todo)) = n - (l - 1)
  BY <1>1, Zenon DEF Done
<1> HIDE DEF n, l, k
<1>5. k \in Nat /\ Done(e, Tail(todo)) = k + 1 /\ k + 1 \in 1 .. n /\ l - 1 <= n
  BY <1>1, <1>2, <1>3, <1>4
<1>6. Head(todo) = Metrics(e)[k + 1]
  BY <1>1, <1>3, Zenon
<1>7. ASSUME NEW i \in 1 .. l - 1
      PROVE  Tail(todo)[i] = Metrics(e)[(k + 1) + i] /\ (k + 1) + i \in 1 .. n /\ (k + 1) + i # k + 1
  <2>1. k + (i + 1) = (k + 1) + i /\ (k + 1) + i \in 1 .. n /\ (k + 1) + i # k + 1
    BY <1>1, <1>2, <1>3, <1>5
  <2>2. Tail(todo)[i] = Metrics(e)[k + (i + 1)]
    BY <1>1, <1>3, Zenon
  <2> QED BY <2>1, <2>2, Zenon
<1>8. TodoOf(Tail(todo), e)
  BY <1>1, <1>5, <1>7, Zenon DEF TodoOf, n
<1>9. ASSUME NEW kind \in {"txn", "svctxn"}, Head(todo).kind = kind, Pending(Tail(todo), kind)
      PROVE  FALSE
  <2>1. PICK i \in 1 .. l - 1 : Tail(todo)[i].kind = kind
    BY <1>1, <1>9, Zenon DEF Pending, Range
  <2>2. Metrics(e)[k + 1].kind = kind /\ Metrics(e)[(k + 1) + i].kind = kind
    BY <1>6, <1>7, <1>9, <2>1, Zenon
  <2>3. k + 1 \in DOMAIN Metrics(e) /\ (k + 1) + i \in DOMAIN Metrics(e) /\ (k + 1) + i # k + 1
    BY <1>2, <1>5, <1>7, Zenon
  <2>4. /\ \A j \in DOMAIN Metrics(e) : Metrics(e)[j].kind = "txn" => j = 1
        /\ \A j \in DOMAIN Metrics(e) : Metrics(e)[j].kind = "svctxn" => j = 2
    BY MetricsOf, Zenon
  <2>5. kind = "txn" \/ kind = "svctxn"
    BY <1>9, Zenon
  <2> QED BY <2>2, <2>3, <2>4, <2>5, Zenon
<1>10. \A kind : Pending(todo, kind) <=> Pending(Tail(todo), kind) \/ Head(todo).kind = kind
  BY <1>1, Zenon DEF Pending
<1> QED BY <1>2, <1>5, <1>6, <1>8, <1>9, <1>10, Zenon DEF k

\* A metric that was not added is left.
LEMMA NotDone ==
  ASSUME NEW e \in Events, NEW todo \in Seq(MetricSet), TodoOf(todo, e),
         NEW k \in DOMAIN Metrics(e), k \notin 1 .. Done(e, todo)
  PROVE  Metrics(e)[k] \in Range(todo)
<1> DEFINE n == Len(Metrics(e))
           i == k - Done(e, todo)
<1>1. n \in Nat /\ DOMAIN Metrics(e) = 1 .. n
  BY MetricsType
<1>2. Len(todo) \in Nat /\ DOMAIN todo = 1 .. Len(todo)
  OBVIOUS
<1>3. Len(todo) <= n /\ Done(e, todo) = n - Len(todo)
  BY Zenon DEF TodoOf, Done
<1> HIDE DEF n
<1>4. i \in DOMAIN todo /\ Done(e, todo) + i = k
  BY <1>1, <1>2, <1>3
<1> QED BY <1>4, Zenon DEF TodoOf, Range

\* When a metric is taken, its place joins those of the span metrics of its partition.
PlacesStep(h, e, part, todo) ==
  LET x == Head(todo)
      k == Done(e, todo) + 1
      at == SpansAt(h, e, part) \cap (1 .. Done(e, todo))
      after == SpansAt(h, e, part) \cap (1 .. Done(e, Tail(todo))) IN
  /\ \A j \in at : j \in Nat /\ j < k
  /\ x.kind \in {"dropped", "span"} /\ h[x.key] = part => after = at \cup {k}
  /\ ~ (x.kind \in {"dropped", "span"} /\ h[x.key] = part) => after = at

\* The places of the span metrics that were added when a metric is taken.
LEMMA AtTail ==
  ASSUME NEW e \in Events, NEW todo \in Seq(MetricSet), todo # <<>>, TodoOf(todo, e), NEW h, NEW part
  PROVE  PlacesStep(h, e, part, todo)
<1> DEFINE x == Head(todo)
           d == Done(e, todo)
           k == d + 1
<1>1. /\ d \in Nat /\ Done(e, Tail(todo)) = k
      /\ k \in DOMAIN Metrics(e) /\ x = Metrics(e)[k]
  BY TodoTail, Zenon
<1>2. k \in SpansAt(h, e, part) <=> x.kind \in {"dropped", "span"} /\ h[x.key] = part
  BY <1>1, Zenon DEF SpansAt
<1> HIDE DEF d, x
<1>3. 1 .. k = (1 .. d) \cup {k} /\ \A j \in 1 .. d : j \in Nat /\ j < k
  BY <1>1
<1> HIDE DEF k
<1> QED BY <1>1, <1>2, <1>3, Zenon DEF PlacesStep, d, k, x

\* A span metric is listed after those before it, if there is room.
LEMMA ListedMore ==
  ASSUME NEW e, NEW spans \in SpanMetrics, NEW at, NEW k \in Nat,
         \A j \in at : j \in Nat /\ j < k,
         Listed(spans, e, at), Len(spans) # MaxSpans,
         NEW y \in [key : Keys, n : Counts], y = [key |-> Metrics(e)[k].key, n |-> Metrics(e)[k].n]
  PROVE  Listed(Append(spans, y), e, at \cup {k})
<1> DEFINE t == Append(spans, y)
           l == Len(spans)
<1>1. PICK f \in [DOMAIN spans -> at] :
          /\ \A i \in DOMAIN spans : spans[i] = [key |-> Metrics(e)[f[i]].key, n |-> Metrics(e)[f[i]].n]
          /\ \A i, j \in DOMAIN spans : i < j => f[i] < f[j]
          /\ \A m \in at \ Range(f) : Len(spans) = MaxSpans /\ \A i \in DOMAIN spans : f[i] < m
  BY Zenon DEF Listed
<1>2. /\ l \in Nat /\ Len(t) = l + 1 /\ DOMAIN spans = 1 .. l /\ DOMAIN t = 1 .. l + 1
      /\ \A i \in 1 .. l : t[i] = spans[i]
      /\ t[l + 1] = y
  <2> DEFINE S == [key : Keys, n : Counts]
  <2>1. spans \in Seq(S) /\ y \in S
    BY Zenon DEF SpanMetrics
  <2> HIDE DEF S
  <2> QED BY <2>1, RangeAppend
<1> HIDE DEF t, l
<1>3. /\ 1 .. l + 1 = (1 .. l) \cup {l + 1} /\ l + 1 \notin 1 .. l
      /\ \A i, j \in 1 .. l + 1 : i < j => i \in 1 .. l
  BY <1>2
<1> DEFINE g == [i \in 1 .. l + 1 |-> IF i \in 1 .. l THEN f[i] ELSE k]
<1>4. /\ \A i \in 1 .. l : i \in 1 .. l + 1 /\ g[i] = f[i] /\ f[i] \in at
      /\ l + 1 \in 1 .. l + 1 /\ g[l + 1] = k
  BY <1>1, <1>2, <1>3, Zenon
<1>5. g \in [DOMAIN t -> at \cup {k}] /\ DOMAIN g = 1 .. l + 1
  BY <1>2, <1>3, <1>4, Zenon
<1> HIDE DEF g
<1>6. ASSUME NEW i \in DOMAIN t PROVE t[i] = [key |-> Metrics(e)[g[i]].key, n |-> Metrics(e)[g[i]].n]
  <2>1. CASE i \in 1 .. l
    BY <1>1, <1>2, <1>4, <2>1, Zenon
  <2>2. CASE i = l + 1
    BY <1>2, <1>4, <2>2, Zenon
  <2> QED BY <1>2, <1>3, <2>1, <2>2, Zenon
<1>7. ASSUME NEW i \in DOMAIN t, NEW j \in DOMAIN t, i < j PROVE g[i] < g[j]
  <2>1. i \in 1 .. l /\ (j \in 1 .. l \/ j = l + 1)
    BY <1>2, <1>3, <1>7, Zenon
  <2>2. CASE j \in 1 .. l
    BY <1>1, <1>2, <1>4, <1>7, <2>1, <2>2, Zenon
  <2>3. CASE j = l + 1
    BY <1>4, <2>1, <2>3, Zenon
  <2> QED BY <2>1, <2>2, <2>3, Zenon
<1>8. (at \cup {k}) \ Range(g) = {}
  <2>1. at \subseteq Range(f)
    BY <1>1, Zenon
  <2>2. ASSUME NEW m \in Range(f) PROVE m \in Range(g)
    <3>1. PICK i \in 1 .. l : m = f[i]
      BY <1>1, <1>2, <2>2, Zenon DEF Range
    <3> QED BY <1>4, <1>5, <3>1, Zenon DEF Range
  <2>3. k \in Range(g)
    BY <1>4, <1>5, Zenon DEF Range
  <2> QED BY <2>1, <2>2, <2>3, Zenon
<1>9. Len(t) <= MaxSpans
  <2>1. l <= MaxSpans /\ l # MaxSpans
    BY Zenon DEF Listed, l
  <2> QED BY <1>2, <2>1, MaxSpansAssumption
<1> QED BY <1>5, <1>6, <1>7, <1>8, <1>9, Zenon DEF Listed, t

\* A span metric is discarded if there is no room for it.
LEMMA ListedFull ==
  ASSUME NEW e, NEW spans \in SpanMetrics, NEW at, NEW k \in Nat,
         \A j \in at : j \in Nat /\ j < k, Listed(spans, e, at), Len(spans) = MaxSpans
  PROVE  Listed(spans, e, at \cup {k})
<1>1. PICK f \in [DOMAIN spans -> at] :
          /\ \A i \in DOMAIN spans : spans[i] = [key |-> Metrics(e)[f[i]].key, n |-> Metrics(e)[f[i]].n]
          /\ \A i, j \in DOMAIN spans : i < j => f[i] < f[j]
          /\ \A m \in at \ Range(f) : Len(spans) = MaxSpans /\ \A i \in DOMAIN spans : f[i] < m
  BY Zenon DEF Listed
<1>2. f \in [DOMAIN spans -> at \cup {k}]
  BY <1>1, Zenon
<1>3. \A m \in (at \cup {k}) \ Range(f) : Len(spans) = MaxSpans /\ \A i \in DOMAIN spans : f[i] < m
  BY <1>1, Zenon
<1> QED BY <1>1, <1>2, <1>3, Zenon DEF Listed

\* There is room as long as no span metric was added.
LEMMA ListedNone ==
  ASSUME NEW e, NEW spans \in SpanMetrics, Listed(spans, e, {})
  PROVE  Len(spans) # MaxSpans
<1>1. DOMAIN spans = {}
  BY Zenon DEF Listed
<1>2. Len(spans) = 0
  BY <1>1 DEF SpanMetrics
<1> QED BY <1>2, MaxSpansAssumption

\* The builder that a metric is added to has what the event is worth, but for what is left.
LEMMA AddExact ==
  ASSUME TypeInv, NEW b \in BuilderSet, NEW e \in Events, NEW todo \in Seq(MetricSet), todo # <<>>,
         TodoOf(todo, e), b.part = hash[Head(todo).key], Exact(hash, b, e, todo)
  PROVE  Exact(hash, AddTo(b, Head(todo), e), e, Tail(todo))
<1> DEFINE x == Head(todo)
           r == AddTo(b, x, e)
           k == Done(e, todo) + 1
           at == SpansAt(hash, e, b.part) \cap (1 .. Done(e, todo))
           after == SpansAt(hash, e, b.part) \cap (1 .. Done(e, Tail(todo)))
<1>1. /\ \A kind \in {"txn", "svctxn"} : Pending(todo, kind) <=> Pending(Tail(todo), kind) \/ x.kind = kind
      /\ \A kind \in {"txn", "svctxn"} : x.kind = kind => ~ Pending(Tail(todo), kind)
      /\ Done(e, todo) \in Nat /\ k \in DOMAIN Metrics(e) /\ x = Metrics(e)[k]
  BY TodoTail
<1>2. x \in MetricSet
  BY RangeTail, Zenon
<1>3. /\ x.kind = "txn" => IsTxn(e) /\ x.key = e.txn
      /\ x.kind = "svctxn" => IsTxn(e) /\ x.key = e.svctxn
      /\ x.kind = "span" => k = 1
  BY <1>1, MetricsOf, SMTT(30)
<1>4. /\ \A j \in at : j \in Nat /\ j < k
      /\ x.kind \in {"dropped", "span"} => after = at \cup {k}
      /\ x.kind \notin {"dropped", "span"} => after = at
  <2>1. PlacesStep(hash, e, b.part, todo)
    BY AtTail, Zenon
  <2> QED BY <2>1, Zenon DEF PlacesStep
<1>5. Listed(b.spans, e, at) /\ b.spans \in SpanMetrics
  BY Zenon DEF Exact, BuilderSet
<1>6. r.part = b.part
  BY <1>2, AddToType, Zenon
<1> HIDE DEF x, k, at, after
<1>7. CASE x.kind = "txn"
  <2>1. /\ r.txns = 1 /\ r.txnKey = x.key /\ r.histSet = TRUE /\ r.hist = Recorded(e)
        /\ r.svctxns = b.svctxns /\ r.svctxnKey = b.svctxnKey /\ r.outcomes = b.outcomes
        /\ r.spans = b.spans
    BY <1>7, Zenon DEF AddTo, BuilderSet
  <2> HIDE DEF r
  <2>2. ~ Pending(Tail(todo), "txn") /\ (Pending(Tail(todo), "svctxn") <=> Pending(todo, "svctxn"))
    BY <1>1, <1>7, Zenon
  <2>3. Listed(r.spans, e, after)
    BY <1>4, <1>5, <1>7, <2>1, Zenon
  <2> QED BY <1>3, <1>6, <1>7, <2>1, <2>2, <2>3, Zenon DEF Exact, x, r, after
<1>8. CASE x.kind = "svctxn"
  <2>1. /\ r.svctxns = 1 /\ r.svctxnKey = x.key /\ r.outcomes = Outcomes(e)
        /\ r.hist = IF b.histSet THEN b.hist ELSE Recorded(e)
        /\ r.histSet = b.histSet /\ r.txns = b.txns /\ r.txnKey = b.txnKey /\ r.spans = b.spans
    BY <1>8, Zenon DEF AddTo, BuilderSet
  <2>2. b.histSet \in BOOLEAN
    BY Zenon DEF BuilderSet
  <2> HIDE DEF r
  <2>3. ~ Pending(Tail(todo), "svctxn") /\ (Pending(Tail(todo), "txn") <=> Pending(todo, "txn"))
    BY <1>1, <1>8, Zenon
  <2>4. r.hist = Recorded(e)
    BY <2>1, <2>2, Zenon DEF Exact
  <2>5. Listed(r.spans, e, after)
    BY <1>4, <1>5, <1>8, <2>1, Zenon
  <2> QED BY <1>3, <1>6, <1>8, <2>1, <2>3, <2>4, <2>5, Zenon DEF Exact, x, r, after
<1>9. CASE x.kind \in {"dropped", "span", "summary"}
  <2>1. /\ Pending(Tail(todo), "svctxn") <=> Pending(todo, "svctxn")
        /\ Pending(Tail(todo), "txn") <=> Pending(todo, "txn")
    BY <1>1, <1>9, Zenon
  <2>2. /\ r.txns = b.txns /\ r.txnKey = b.txnKey /\ r.histSet = b.histSet /\ r.hist = b.hist
        /\ r.svctxns = b.svctxns /\ r.svctxnKey = b.svctxnKey /\ r.outcomes = b.outcomes
    BY <1>9, Zenon DEF AddTo, BuilderSet
  <2>3. /\ x.kind = "summary" => r.spans = b.spans
        /\ x.kind = "dropped" /\ Len(b.spans) = MaxSpans => r.spans = b.spans
        /\ x.kind = "dropped" /\ Len(b.spans) # MaxSpans =>
              r.spans = Append(b.spans, [key |-> x.key, n |-> x.n])
        /\ x.kind = "span" => r.spans = Append(b.spans, [key |-> x.key, n |-> x.n])
    BY Zenon DEF AddTo, BuilderSet
  <2> HIDE DEF r
  <2>4. x.kind = "span" => Len(b.spans) # MaxSpans
    <3>1. x.kind = "span" => at = {}
      BY <1>1, <1>3 DEF at, k
    <3> QED BY <1>5, <3>1, ListedNone, Zenon
  <2>5. k \in Nat /\ [key |-> x.key, n |-> x.n] \in [key : Keys, n : Counts]
    BY <1>1, <1>2 DEF k, MetricSet
  <2>6. Listed(r.spans, e, after)
    <3>1. CASE x.kind = "summary"
      BY <1>4, <1>5, <2>3, <3>1, Zenon
    <3>2. CASE x.kind = "dropped" /\ Len(b.spans) = MaxSpans
      BY <1>4, <1>5, <2>3, <2>5, <3>2, ListedFull
    <3>3. CASE x.kind \in {"dropped", "span"} /\ Len(b.spans) # MaxSpans
      <4>1. r.spans = Append(b.spans, [key |-> x.key, n |-> x.n]) /\ after = at \cup {k}
        BY <1>4, <2>3, <3>3, Zenon
      <4> DEFINE y == [key |-> x.key, n |-> x.n]
      <4>2. y = [key |-> Metrics(e)[k].key, n |-> Metrics(e)[k].n] /\ y \in [key : Keys, n : Counts]
        BY <1>1, <2>5, Zenon
      <4> HIDE DEF y
      <4>3. Listed(Append(b.spans, y), e, at \cup {k})
        <5>1. b.spans \in SpanMetrics /\ k \in Nat /\ \A j \in at : j \in Nat /\ j < k
          BY <1>4, <1>5, <2>5, Zenon
        <5> QED BY <1>5, <3>3, <4>2, <5>1, ListedMore, Zenon
      <4> QED BY <4>1, <4>3, Zenon DEF y
    <3> QED BY <1>9, <2>4, <3>1, <3>2, <3>3, Zenon
  <2> QED BY <1>6, <2>1, <2>2, <2>6, Zenon DEF Exact, r, x, after
<1> QED BY <1>2, <1>7, <1>8, <1>9, Zenon DEF MetricSet, x

\* A metric of another partition makes no difference to a builder.
LEMMA OtherExact ==
  ASSUME TypeInv, NEW b, NEW e \in Events, NEW todo \in Seq(MetricSet), todo # <<>>,
         TodoOf(todo, e), b.part # hash[Head(todo).key], Exact(hash, b, e, todo)
  PROVE  Exact(hash, b, e, Tail(todo))
<1>1. /\ \A kind \in {"txn", "svctxn"} :
            Pending(todo, kind) <=> Pending(Tail(todo), kind) \/ Head(todo).kind = kind
      /\ Done(e, todo) + 1 \in DOMAIN Metrics(e) /\ Head(todo) = Metrics(e)[Done(e, todo) + 1]
  BY TodoTail, Zenon
<1>2. /\ Head(todo).kind = "txn" => Head(todo).key = e.txn
      /\ Head(todo).kind = "svctxn" => Head(todo).key = e.svctxn
  BY <1>1, MetricsOf, Zenon
<1>3. SpansAt(hash, e, b.part) \cap (1 .. Done(e, Tail(todo)))
         = SpansAt(hash, e, b.part) \cap (1 .. Done(e, todo))
  <2>1. PlacesStep(hash, e, b.part, todo)
    BY AtTail, Zenon
  <2> QED BY <2>1, Zenon DEF PlacesStep
<1>4. /\ IsTxn(e) /\ hash[e.txn] = b.part => (Pending(todo, "txn") <=> Pending(Tail(todo), "txn"))
      /\ IsTxn(e) /\ hash[e.svctxn] = b.part => (Pending(todo, "svctxn") <=> Pending(Tail(todo), "svctxn"))
  BY <1>1, <1>2
<1> QED BY <1>3, <1>4, Zenon DEF Exact

\* A builder without metrics is right for a partition that no metric was added for.
LEMMA FreshExact ==
  ASSUME TypeInv, NEW b \in BuilderSet, NEW part, Fresh(b, part), NEW e \in Events,
         NEW todo \in Seq(MetricSet), TodoOf(todo, e),
         \A k \in 1 .. Done(e, todo) : hash[Metrics(e)[k].key] # part
  PROVE  Exact(hash, b, e, todo)
<1>1. \A k \in DOMAIN Metrics(e) : hash[Metrics(e)[k].key] = part => Metrics(e)[k] \in Range(todo)
  BY NotDone, Zenon
<1>2. IsTxn(e) /\ hash[e.txn] = part => Pending(todo, "txn")
  <2>1. Metric("txn", e.txn, e.rep).kind = "txn" /\ Metric("txn", e.txn, e.rep).key = e.txn
    BY Zenon DEF Metric
  <2> QED BY <1>1, <2>1, MetricsOf, Zenon DEF Pending
<1>3. IsTxn(e) /\ hash[e.svctxn] = part => Pending(todo, "svctxn")
  <2>1. /\ Metric("svctxn", e.svctxn, e.rep).kind = "svctxn"
        /\ Metric("svctxn", e.svctxn, e.rep).key = e.svctxn
    BY Zenon DEF Metric
  <2> QED BY <1>1, <2>1, MetricsOf, Zenon DEF Pending
<1>4. SpansAt(hash, e, part) \cap (1 .. Done(e, todo)) = {}
  BY Zenon DEF SpansAt
<1>5. Listed(<<>>, e, {})
  <2>1. Len(<<>>) <= MaxSpans /\ DOMAIN <<>> = {} /\ <<>> \in [DOMAIN <<>> -> {}]
    BY MaxSpansAssumption
  <2> QED BY <2>1, Zenon DEF Listed
<1>6. b.part = part /\ b.histSet = FALSE /\ b.txns = 0 /\ b.svctxns = 0 /\ b.spans = <<>>
  BY Zenon DEF Fresh
<1>7. b.txns # 1 /\ b.svctxns # 1
  BY <1>6
<1> QED BY <1>2, <1>3, <1>4, <1>5, <1>6, <1>7, Zenon DEF Exact

\* A conversion of which nothing changed keeps what its builders hold.
LEMMA FilledKept ==
  ASSUME TypeInv, NEW q \in Procs, Busy(q), Filled(q), Kept(q)
  PROVE  Filled(q)'
<1> DEFINE c == conv[q]
           m == c.pmb
<1>1. conv'[q] = c /\ hash' = hash /\ held'[m] = held[m]
  BY Zenon DEF Kept
<1>2. \A i \in DOMAIN held[m] : mem'[held'[m][i]] = mem[held[m][i]]
  BY Zenon DEF Kept
<1>3. /\ TodoOf(c.todo, c.event)
      /\ \A k \in 1 .. Done(c.event, c.todo) :
            \E i \in DOMAIN held[m] : PartOf(m, i) = hash[Metrics(c.event)[k].key]
      /\ \A b \in Range(held[m]) : Exact(hash, mem[b], c.event, c.todo)
  BY Zenon DEF Filled
<1> HIDE DEF c, m
<1>4. \A b \in Range(held'[m]) : Exact(hash', mem'[b], c.event, c.todo)
  BY <1>1, <1>2, <1>3 DEF Range
<1>5. \A k \in 1 .. Done(c.event, c.todo) :
         \E i \in DOMAIN held'[m] : mem'[held'[m][i]].part = hash'[Metrics(c.event)[k].key]
  BY <1>1, <1>2, <1>3, SMTT(30) DEF PartOf
<1>6. conv'[q] = c /\ conv'[q].pmb = m
  BY <1>1, Zenon DEF m
<1> QED BY <1>3, <1>4, <1>5, <1>6, Zenon DEF Filled, PartOf

\* A conversion that starts has no builders.
LEMMA FilledStart ==
  ASSUME TypeInv, OwnInv, NEW p \in Procs, NEW e \in Events, Start(p, e)
  PROVE  Filled(p)'
<1>1. PICK m \in pmbPool :
        conv' = [conv EXCEPT ![p] =
                   [pc |-> "process", event |-> e, pmb |-> m, todo |-> Metrics(e), next |-> 1]]
  BY Zenon DEF Start
<1>2. conv'[p].pmb = m /\ conv'[p].event = e /\ conv'[p].todo = Metrics(e)
  BY <1>1, Zenon DEF TypeInv
<1>3. Range(held'[m]) = {}
  BY SMTT(30) DEF Start, OwnInv, Range
<1>4. Metrics(e) \in Seq(MetricSet)
  BY MetricsType, Zenon
<1>5. Done(e, Metrics(e)) = 0 /\ TodoOf(Metrics(e), e)
  BY <1>4 DEF Done, TodoOf
<1>6. 1 .. Done(e, Metrics(e)) = {}
  BY <1>5
<1> QED BY <1>2, <1>3, <1>5, <1>6, Zenon DEF Filled

\* An add puts the metric in the builder of its partition and in no other.
LEMMA FilledAdd ==
  ASSUME TypeInv, OwnInv, NEW p \in Procs, Add(p), Whole(p), Filled(p)
  PROVE  Filled(p)'
<1> DEFINE c == conv[p]
           m == c.pmb
           x == Head(c.todo)
           part == hash[x.key]
           old == Existing(m, part)
           d == Done(c.event, c.todo)
<1>1. /\ m \in Pmbs /\ c.event \in Events /\ c.todo \in Seq(MetricSet) /\ c.todo # <<>>
      /\ \E b \in Builders :
            /\ mem'[b].part = part
            /\ \A a \in Builders : a # b => mem'[a] = mem[a]
            /\ \E b0 \in BuilderSet :
                  /\ mem'[b] = AddTo(b0, x, c.event) /\ b0.part = part
                  /\ (b \in old /\ b0 = mem[b]) \/ (old = {} /\ Fresh(b0, part))
            /\ \/ b \in old /\ mem[b].part = part /\ UNCHANGED <<pool, held>>
               \/ /\ old = {} /\ (b \in pool \/ mem[b] = None)
                  /\ held' = [held EXCEPT ![m] = Append(@, b)]
  BY AddMem, Zenon
<1>2. /\ conv'[p].pmb = m /\ conv'[p].event = c.event /\ conv'[p].todo = Tail(c.todo) /\ hash' = hash
  BY AddConv, Zenon
<1>3. /\ TodoOf(c.todo, c.event)
      /\ \A k \in 1 .. d :
            \E i \in DOMAIN held[m] : PartOf(m, i) = hash[Metrics(c.event)[k].key]
      /\ \A b \in Range(held[m]) : Exact(hash, mem[b], c.event, c.todo)
  BY Zenon DEF Filled
<1>4. /\ TodoOf(Tail(c.todo), c.event) /\ d \in Nat /\ Done(c.event, Tail(c.todo)) = d + 1
      /\ x = Metrics(c.event)[d + 1]
  <2>1. c.event \in Events /\ c.todo \in Seq(MetricSet) /\ c.todo # <<>> /\ TodoOf(c.todo, c.event)
    BY <1>1, <1>3, Zenon
  <2> HIDE DEF c
  <2> QED BY <2>1, TodoTail
<1>5. held[m] \in Seq(Builders) /\ Range(held[m]) \subseteq Builders
  <2>1. held[m] \in Seq(Builders)
    BY <1>1, Zenon DEF TypeInv
  <2> QED BY <2>1 DEF Range
<1>6. \A i, j \in DOMAIN held[m] : PartOf(m, i) = PartOf(m, j) => i = j
  BY Zenon DEF Whole
<1>7. \A a \in Range(held[m]), b \in Range(held[m]) : mem[a].part = mem[b].part => a = b
  BY <1>6, Zenon DEF PartOf, Range
<1>8. old = {b \in Range(held[m]) : mem[b].part = part}
  BY Zenon DEF Existing
<1> HIDE DEF c, x, part, old, m, d
<1>9. PICK b \in Builders, b0 \in BuilderSet :
            /\ mem'[b].part = part
            /\ \A a \in Builders : a # b => mem'[a] = mem[a]
            /\ mem'[b] = AddTo(b0, x, c.event) /\ b0.part = part
            /\ (b \in old /\ b0 = mem[b]) \/ (old = {} /\ Fresh(b0, part))
            /\ \/ b \in old /\ mem[b].part = part /\ UNCHANGED <<pool, held>>
               \/ /\ old = {} /\ (b \in pool \/ mem[b] = None)
                  /\ held' = [held EXCEPT ![m] = Append(@, b)]
  BY <1>1, Zenon
<1>10. Exact(hash, b0, c.event, c.todo)
  <2>1. CASE b \in old /\ b0 = mem[b]
    BY <1>3, <1>8, <2>1, Zenon
  <2>2. CASE old = {} /\ Fresh(b0, part)
    <3>1. \A i \in DOMAIN held[m] : PartOf(m, i) # part
      BY <1>8, <2>2, Zenon DEF PartOf, Range
    <3>2. \A k \in 1 .. d : hash[Metrics(c.event)[k].key] # part
      BY <1>3, <3>1, Zenon
    <3> QED BY <1>1, <1>3, <2>2, <3>2, FreshExact, Zenon DEF d
  <2> QED BY <1>9, <2>1, <2>2, Zenon
<1>11. Exact(hash, mem'[b], c.event, Tail(c.todo))
  <2>1. c.event \in Events /\ c.todo \in Seq(MetricSet) /\ c.todo # <<>> /\ TodoOf(c.todo, c.event)
    BY <1>1, <1>3, Zenon
  <2>2. b0 \in BuilderSet /\ b0.part = hash[Head(c.todo).key]
    BY <1>9, Zenon DEF part, x
  <2>3. Exact(hash, AddTo(b0, Head(c.todo), c.event), c.event, Tail(c.todo))
    BY <1>10, <2>1, <2>2, AddExact, Zenon
  <2> QED BY <1>9, <2>3, Zenon DEF x
<1>12. Range(held'[m]) = Range(held[m]) \cup {b}
  <2>1. CASE b \in old /\ UNCHANGED held
    BY <1>8, <2>1, Zenon
  <2>2. CASE held' = [held EXCEPT ![m] = Append(@, b)]
    <3>1. held'[m] = Append(held[m], b)
      BY <1>1, <2>2, Zenon DEF TypeInv
    <3> QED BY <1>5, <3>1, RangeAppend, SMTT(30)
  <2> QED BY <1>9, <2>1, <2>2, Zenon
<1>13. ASSUME NEW a \in Range(held'[m]), a # b PROVE Exact(hash, mem'[a], c.event, Tail(c.todo))
  <2>1. a \in Range(held[m]) /\ mem'[a] = mem[a]
    BY <1>5, <1>9, <1>12, <1>13, Zenon
  <2>2. mem[a].part # part
    BY <1>7, <1>8, <1>9, <1>13, <2>1, Zenon
  <2> QED BY <1>1, <1>3, <2>1, <2>2, OtherExact, Zenon DEF part, x
<1>14. ASSUME NEW k \in 1 .. d + 1
       PROVE  \E a \in Range(held'[m]) : mem'[a].part = hash[Metrics(c.event)[k].key]
  <2>1. CASE k = d + 1
    BY <1>4, <1>9, <1>12, <2>1, Zenon DEF part
  <2>2. CASE k # d + 1
    <3>1. k \in 1 .. d
      BY <1>4, <2>2
    <3>2. PICK a \in Range(held[m]) : mem[a].part = hash[Metrics(c.event)[k].key]
      BY <1>3, <3>1, Zenon DEF PartOf, Range
    <3>3. mem'[a].part = mem[a].part
      <4>1. CASE a = b
        BY <1>8, <1>9, <3>2, <4>1, <1>5, FreeBuilder, <1>1, Zenon
      <4>2. CASE a # b
        BY <1>5, <1>9, <3>2, <4>2, Zenon
      <4> QED BY <4>1, <4>2, Zenon
    <3> QED BY <1>12, <3>2, <3>3, Zenon
  <2> QED BY <2>1, <2>2, Zenon
<1>15. ASSUME NEW k \in 1 .. Done(c.event, Tail(c.todo))
       PROVE  \E i \in DOMAIN held'[m] : mem'[held'[m][i]].part = hash'[Metrics(c.event)[k].key]
  BY <1>2, <1>4, <1>14, Zenon DEF Range
<1>16. \A a \in Range(held'[m]) : Exact(hash', mem'[a], c.event, Tail(c.todo))
  BY <1>2, <1>11, <1>13, Zenon
<1> QED BY <1>2, <1>4, <1>15, <1>16, Zenon DEF Filled, PartOf

\* Every conversion keeps what its builders hold.
LEMMA FilledNext ==
  ASSUME TypeInv, OwnInv, WholeInv, FilledInv, [Next]_vars
  PROVE  FilledInv'
<1>1. CASE UNCHANGED vars
  <2>1. ASSUME NEW q \in Procs, Busy(q)' PROVE Filled(q)'
    <3>1. Busy(q) /\ Kept(q)
      BY <1>1, <2>1, Zenon DEF vars, Kept, Busy
    <3> QED BY <3>1, FilledKept, Zenon DEF FilledInv
  <2> QED BY <2>1, Zenon DEF FilledInv
<1>2. ASSUME NEW p \in Procs, Step(p) PROVE FilledInv'
  <2> SUFFICES ASSUME NEW q \in Procs, Busy(q)' PROVE Filled(q)'
    BY Zenon DEF FilledInv
  <2>1. CASE q # p
    <3>1. Busy(q)
      BY <1>2, <2>1, StepAlone, Zenon DEF Busy
    <3>2. Kept(q)
      BY <1>2, <2>1, <3>1, OthersKept, Zenon
    <3> QED BY <3>1, <3>2, FilledKept, Zenon DEF FilledInv
  <2>2. CASE q = p
    <3>1. ASSUME NEW e \in Events, Start(p, e) PROVE Filled(p)'
      BY <3>1, FilledStart, Zenon
    <3>2. CASE Add(p)
      <4>1. Whole(p) /\ Filled(p)
        BY <3>2, Zenon DEF WholeInv, FilledInv, Add, Busy
      <4> QED BY <2>2, <3>2, <4>1, FilledAdd, Zenon
    <3>3. CASE Callback(p)
      <4>1. Filled(p)
        BY <3>3, Zenon DEF FilledInv, Callback, Busy
      <4>2. /\ conv'[p].pmb = conv[p].pmb /\ conv'[p].event = conv[p].event
            /\ conv'[p].todo = conv[p].todo /\ hash' = hash /\ mem' = mem /\ held' = held
        BY <3>3, Zenon DEF Callback, TypeInv, Conversion
      <4> DEFINE d == conv'[p]
      <4>3. /\ TodoOf(d.todo, d.event)
            /\ \A k \in 1 .. Done(d.event, d.todo) :
                  \E i \in DOMAIN held[d.pmb] : PartOf(d.pmb, i) = hash[Metrics(d.event)[k].key]
            /\ \A b \in Range(held[d.pmb]) : Exact(hash, mem[b], d.event, d.todo)
        BY <4>1, <4>2, Zenon DEF Filled
      <4>4. hash' = hash /\ mem' = mem /\ held' = held
        BY <4>2, Zenon
      <4> QED BY <2>2, <4>3, <4>4, Zenon DEF Filled, PartOf
    <3>4. CASE Release(p)
      BY <2>2, <3>4, Zenon DEF Release, Busy, Idle, TypeInv
    <3> QED BY <1>2, <2>2, <3>1, <3>2, <3>3, <3>4, Zenon DEF Step
  <2> QED BY <2>1, <2>2, Zenon
<1> QED BY <1>1, <1>2, Zenon DEF Next, Step

\* A builder with nothing left to add has what the callback is to get.
LEMMA ContentsOf ==
  ASSUME NEW b \in BuilderSet, NEW e \in Events, Exact(hash, b, e, <<>>)
  PROVE  Worth(hash, Contents(b), e, b.part)
<1>1. ~ Pending(<<>>, "txn") /\ ~ Pending(<<>>, "svctxn")
  BY DEF Pending, Range
<1>2. b.txns \in {0, 1} /\ b.svctxns \in {0, 1}
  BY Zenon DEF BuilderSet
<1>3. /\ Contents(b).txn = IF b.txns = 0 THEN None ELSE [key |-> b.txnKey, hist |-> b.hist]
      /\ Contents(b).svctxn = IF b.svctxns = 0 THEN None
                              ELSE [key |-> b.svctxnKey, hist |-> b.hist, outcomes |-> b.outcomes]
      /\ Contents(b).spans = b.spans
  BY Zenon DEF Contents
<1>4. Contents(b).txn = IF IsTxn(e) /\ hash[e.txn] = b.part
                        THEN [key |-> e.txn, hist |-> Recorded(e)] ELSE None
  BY <1>1, <1>2, <1>3, SMTT(30) DEF Exact
<1>5. Contents(b).svctxn = IF IsTxn(e) /\ hash[e.svctxn] = b.part
                           THEN [key |-> e.svctxn, hist |-> Recorded(e), outcomes |-> Outcomes(e)]
                           ELSE None
  BY <1>1, <1>2, <1>3, SMTT(30) DEF Exact
<1>6. SpansAt(hash, e, b.part) \cap (1 .. Done(e, <<>>)) = SpansAt(hash, e, b.part)
  <2>1. DOMAIN Metrics(e) = 1 .. Done(e, <<>>)
    BY MetricsType DEF Done
  <2> QED BY <2>1, Zenon DEF SpansAt
<1>7. Listed(Contents(b).spans, e, SpansAt(hash, e, b.part))
  BY <1>3, <1>6, Zenon DEF Exact
<1> QED BY <1>4, <1>5, <1>7, Zenon DEF Worth

\* The callbacks are made with what the event is worth.
LEMMA CallbacksNext ==
  ASSUME TypeInv, OwnInv, WholeInv, FilledInv, CallbacksExact, [Next]_vars
  PROVE  CallbacksExact'
<1>1. \A q \in Procs : \A i \in DOMAIN seen[q] : Worth(hash, seen[q][i].metrics, conv[q].event, seen[q][i].part)
  BY Zenon DEF CallbacksExact
<1>2. ASSUME \A q \in Procs : \A i \in DOMAIN seen'[q] : Worth(hash', seen'[q][i].metrics, conv'[q].event, seen'[q][i].part)
      PROVE  CallbacksExact'
  BY <1>2, Zenon DEF CallbacksExact
<1>3. CASE UNCHANGED vars
  BY <1>1, <1>2, <1>3, Zenon DEF vars
<1>4. ASSUME NEW p \in Procs, Step(p), NEW q \in Procs, NEW i \in DOMAIN seen'[q]
      PROVE  Worth(hash', seen'[q][i].metrics, conv'[q].event, seen'[q][i].part)
  <2>1. CASE q # p
    BY <1>1, <1>4, <2>1, StepAlone, Zenon
  <2>2. ASSUME NEW e \in Events, Start(p, e), q = p PROVE FALSE
    BY <1>4, <2>2 DEF Start, TypeInv
  <2>3. CASE q = p /\ Add(p)
    BY <1>1, <1>4, <2>3, AddConv, Zenon
  <2>4. CASE q = p /\ Release(p)
    BY <1>1, <1>4, <2>4, Zenon DEF Release, TypeInv, Idle
  <2>5. CASE q = p /\ Callback(p)
    <3> DEFINE c == conv[p]
               b == mem[held[c.pmb][c.next]]
               x == [part |-> b.part, total |-> Len(held[c.pmb]), metrics |-> Contents(b)]
    <3>1. /\ Busy(p) /\ seen'[p] = Append(seen[p], x) /\ hash' = hash /\ c.todo = <<>>
          /\ conv'[p].event = c.event /\ seen[p] \in Seq(CallbackSet)
      BY <2>5, Zenon DEF Callback, TypeInv, Busy, Conversion
    <3>2. Whole(p) /\ Filled(p)
      BY <3>1, Zenon DEF WholeInv, FilledInv
    <3>3. c.next # 0
      BY <3>2, SMTT(30) DEF Whole
    <3>4. c.next \in DOMAIN held[c.pmb] /\ b \in BuilderSet
      BY <2>5, <3>3, CallbackBuilder, Zenon
    <3>5. held[c.pmb][c.next] \in Range(held[c.pmb])
      BY <3>4, Zenon DEF Range
    <3>6. Exact(hash, b, c.event, <<>>)
      BY <3>1, <3>2, <3>5, Zenon DEF Filled
    <3>7. Worth(hash, x.metrics, c.event, x.part)
      <4>1. c.event \in Events /\ x.metrics = Contents(b) /\ x.part = b.part
        BY <3>1, Zenon DEF TypeInv
      <4> QED BY <3>4, <3>6, <4>1, ContentsOf, Zenon
    <3> HIDE DEF x, b
    <3>8. (i \in DOMAIN seen[p] /\ seen'[p][i] = seen[p][i]) \/ seen'[p][i] = x
      BY <1>4, <2>5, <3>1
    <3> QED BY <1>1, <2>5, <3>1, <3>7, <3>8, Zenon
  <2> QED BY <1>4, <2>1, <2>2, <2>3, <2>4, <2>5, Zenon DEF Step
<1> QED BY <1>2, <1>3, <1>4, Zenon DEF Next, Step

\* Everything is clean at the start.
LEMMA ConverterInit ==
  ASSUME Init
  PROVE  TypeInv /\ OwnInv /\ WholeInv /\ EventWhole /\ FilledInv /\ CallbacksExact
<1>1. Idle \in Conversion /\ Idle.pc = "idle" /\ Idle.event = None
  BY DEF Idle, Conversion
<1>2. \A p \in Procs : conv[p] = Idle /\ seen[p] = <<>>
  BY Zenon DEF Init
<1>3. \A p \in Procs : ~ Busy(p)
  BY <1>1, <1>2, Zenon DEF Busy
<1>4. TypeInv
  <2>1. conv \in [Procs -> Conversion]
    BY <1>1, Zenon DEF Init
  <2>2. seen \in [Procs -> Seq(CallbackSet)] /\ held \in [Pmbs -> Seq(Builders)]
    BY DEF Init
  <2> QED BY <1>3, <2>1, <2>2, Zenon DEF TypeInv, Init
<1>5. \A m \in Pmbs : Range(held[m]) = {} /\ held[m] = <<>>
  BY DEF Init, Range
<1>6. OwnInv
  BY <1>3, <1>5, Zenon DEF OwnInv, BuildersOwned, Init
<1>7. CallbacksExact
  BY <1>2 DEF CallbacksExact
<1> QED BY <1>1, <1>2, <1>3, <1>4, <1>6, <1>7, Zenon DEF WholeInv, FilledInv, EventWhole

-----------------------------------------------------------------------------
(* Theorems. *)

\* The invariant holds in every reachable state.
LEMMA ConverterInv ==
  Spec => [](TypeInv /\ OwnInv /\ WholeInv /\ EventWhole /\ FilledInv /\ CallbacksExact)
<1> DEFINE I == TypeInv /\ OwnInv /\ WholeInv /\ EventWhole /\ FilledInv /\ CallbacksExact
<1>1. Init => I
  BY ConverterInit, Zenon
<1>2. I /\ [Next]_vars => I'
  BY TypeNext, OwnNext, WholeNext, EndedNext, FilledNext, CallbacksNext, Zenon
<1> QED BY <1>1, <1>2, PTL DEF Spec

\* eventMetricsBuilderPool and partitionedMetricsBuilderPool share nothing: whatever sync.Pool
\* returns, a builder is used by one conversion at a time or it is in the pool.
THEOREM ConverterOwned == Spec => []BuildersOwned
<1>1. OwnInv => BuildersOwned
  BY Zenon DEF OwnInv
<1> QED BY <1>1, ConverterInv, PTL

\* EventToCombinedMetrics calls back once for each partition that has metrics of the event,
\* with shares of EventsTotal that add up to one event, for every hash function, every number
\* of goroutines and every event.
THEOREM ConverterWhole == Spec => []EventWhole
BY ConverterInv, PTL

\* Whatever event a builder was used for before and whatever other goroutines do, the callback
\* gets the transaction and service transaction metrics of its event, with the histogram and
\* the outcomes of that event, and each span metric of its partition once and in order, up to
\* the limit at which addDroppedSpanStatsMetrics discards the rest.
THEOREM ConverterCallbacks == Spec => []CallbacksExact
BY ConverterInv, PTL
=============================================================================
