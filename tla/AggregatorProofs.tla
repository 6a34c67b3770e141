-------------------------- MODULE AggregatorProofs --------------------------
(***************************************************************************)
(* Proofs about Aggregator for every value of its constants and for all    *)
(* failures: the types, the mutual exclusion of the harvests, and the      *)
(* counts of events in cachedEvents, with a harvest and published.         *)
(***************************************************************************)
EXTENDS Aggregator, TLAPS

-----------------------------------------------------------------------------
(* Multiples, and the constants. *)

\* Division with remainder.
LEMMA DivMod ==
  ASSUME NEW a \in Nat, NEW d \in Nat \ {0}
  PROVE  /\ a % d \in Nat /\ a % d < d /\ a \div d \in Nat
         /\ a = d * (a \div d) + (a % d)
<1>1. a % d \in Nat /\ a \div d \in Int /\ a = d * (a \div d) + (a % d) /\ a % d < d
  BY Z3
<1>2. a \div d >= 0
  <2> SUFFICES ASSUME a \div d <= -1 PROVE FALSE
    BY <1>1
  <2>1. d * (a \div d) <= -d
    BY <1>1, Z3
  <2> QED BY <1>1, <2>1
<1> QED BY <1>1, <1>2

\* Multiples are ordered as their factors.
LEMMA ProductLess ==
  ASSUME NEW p \in Nat, NEW q \in Nat, NEW d \in Nat \ {0}, d * p < d * q
  PROVE  p < q
<1> SUFFICES ASSUME q <= p PROVE FALSE
  OBVIOUS
<1>1. d * q <= d * p
  BY Z3
<1>2. d * p \in Int /\ d * q \in Int
  OBVIOUS
<1> QED BY <1>1, <1>2

\* Two different multiples are at least the divisor apart.
LEMMA ProductNext ==
  ASSUME NEW p \in Nat, NEW q \in Nat, NEW d \in Nat \ {0}, p < q
  PROVE  d * p + d <= d * q
<1>1. d * (p + 1) <= d * q
  BY Z3
<1>2. d * (p + 1) = d * p + d
  BY Z3
<1> QED BY <1>1, <1>2, Zenon

\* A product is divisible by its factor.
LEMMA QuotientOfProduct ==
  ASSUME NEW q \in Nat, NEW d \in Nat \ {0}
  PROVE  (q * d) \div d = q /\ (q * d) % d = 0
<1> DEFINE a == q * d
<1>1. a \in Nat
  BY Z3
<1>2. a \div d \in Nat /\ a % d \in Nat /\ a % d < d /\ a = d * (a \div d) + (a % d)
  BY <1>1, DivMod, Zenon
<1>3. a = d * q
  BY Z3
<1> HIDE DEF a
<1>4. a \div d = q
  <2>1. ASSUME a \div d < q PROVE FALSE
    <3>1. d * (a \div d) + d <= d * q
      BY <1>2, <2>1, ProductNext, Zenon
    <3>2. d * (a \div d) \in Int
      BY <1>2
    <3> QED BY <1>1, <1>2, <1>3, <3>1, <3>2
  <2>2. ASSUME q < a \div d PROVE FALSE
    <3>1. d * q + d <= d * (a \div d)
      BY <1>2, <2>2, ProductNext, Zenon
    <3>2. d * (a \div d) \in Int
      BY <1>2
    <3> QED BY <1>1, <1>2, <1>3, <3>1, <3>2
  <2> QED BY <1>2, <2>1, <2>2
<1>5. a % d = 0
  <2>1. d * (a \div d) = a
    BY <1>3, <1>4, Zenon
  <2>2. a = a + (a % d)
    BY <1>2, <2>1, Zenon
  <2> QED BY <1>1, <1>2, <2>2
<1> QED BY <1>4, <1>5, Zenon DEF a

\* A later boundary of an interval is at least one interval later.
LEMMA NextMultiple ==
  ASSUME NEW a \in Nat, NEW b \in Nat, NEW d \in Nat \ {0}, a % d = 0, b % d = 0, a < b
  PROVE  a + d <= b
<1>1. /\ a \div d \in Nat /\ a = d * (a \div d)
      /\ b \div d \in Nat /\ b = d * (b \div d)
  BY DivMod
<1>2. a \div d < b \div d
  BY <1>1, ProductLess, Zenon
<1> QED BY <1>1, <1>2, ProductNext, Zenon

\* Sums and differences of boundaries are boundaries.
LEMMA SumOfMultiples ==
  ASSUME NEW a \in Nat, NEW b \in Nat, NEW d \in Nat \ {0}, a % d = 0, b % d = 0
  PROVE  (a + b) % d = 0 /\ (b <= a => (a - b) % d = 0)
<1>1. /\ a \div d \in Nat /\ a = d * (a \div d)
      /\ b \div d \in Nat /\ b = d * (b \div d)
  BY DivMod
<1> DEFINE p == a \div d
           q == b \div d
<1>2. p \in Nat /\ q \in Nat /\ a = d * p /\ b = d * q
  BY <1>1, Zenon
<1> HIDE DEF p, q
<1>3. a + b = (p + q) * d
  BY <1>2, Z3
<1>4. ASSUME b <= a PROVE (a - b) % d = 0
  <2>1. q <= p
    <3> SUFFICES ASSUME p < q PROVE FALSE
      BY <1>2
    <3> QED BY <1>2, <1>4, ProductNext
  <2>2. a - b = (p - q) * d /\ p - q \in Nat
    BY <1>2, <2>1, Z3
  <2> QED BY <2>2, QuotientOfProduct, Zenon
<1> QED BY <1>2, <1>3, <1>4, QuotientOfProduct

\* A boundary of an interval is one of every interval that divides it.
LEMMA MultipleOfMultiple ==
  ASSUME NEW a \in Nat, NEW b \in Nat \ {0}, NEW d \in Nat \ {0}, a % b = 0, b % d = 0
  PROVE  a % d = 0
<1>1. /\ a \div b \in Nat /\ a = b * (a \div b)
      /\ b \div d \in Nat /\ b = d * (b \div d)
  BY DivMod
<1> DEFINE p == a \div b
           q == b \div d
<1>2. p \in Nat /\ q \in Nat /\ a = b * p /\ b = d * q
  BY <1>1, Zenon
<1> HIDE DEF p, q
<1>3. a = (q * p) * d /\ q * p \in Nat
  BY <1>2, Z3
<1> QED BY <1>3, QuotientOfProduct, Zenon

\* time.Time.Truncate gives the last boundary that has passed.
LEMMA TruncateBounds ==
  ASSUME NEW t \in Nat, NEW d \in Nat \ {0}
  PROVE  /\ Truncate(t, d) \in Nat /\ Truncate(t, d) % d = 0
         /\ Truncate(t, d) <= t /\ t < Truncate(t, d) + d
<1>1. t % d \in Nat /\ t % d < d /\ t \div d \in Nat /\ t = d * (t \div d) + (t % d)
  BY DivMod, Zenon
<1> DEFINE q == t \div d
           r == t % d
<1>2. r \in Nat /\ r < d /\ q \in Nat /\ t = d * q + r /\ Truncate(t, d) = t - r
  BY <1>1, Zenon DEF Truncate
<1> HIDE DEF q, r
<1>3. q * d \in Nat /\ d * q = q * d
  BY <1>2, Z3
<1>4. t - r = q * d
  BY <1>2, <1>3
<1>5. (q * d) % d = 0
  BY <1>2, QuotientOfProduct, Zenon
<1>6. Truncate(t, d) = q * d
  BY <1>2, <1>4, Zenon
<1>7. q * d <= t /\ t < q * d + d
  BY <1>2, <1>3, <1>4
<1> QED BY <1>3, <1>5, <1>6, <1>7, Zenon

\* A time that Truncate leaves alone is a boundary.
LEMMA TruncateFixed ==
  ASSUME NEW t \in Nat, NEW d \in Nat \ {0}, t - (t % d) = t
  PROVE  t % d = 0
<1>1. PICK r \in Int : r = t % d
  BY Z3
<1>2. t - r = t
  BY <1>1, Zenon
<1>3. r = 0
  BY <1>2
<1> QED BY <1>1, <1>3, Zenon

\* What validateCfg ensures of the intervals: they are positive, and each index has
\* one.
LEMMA IntervalsNat ==
  /\ Intervals \subseteq Nat \ {0}
  /\ Lowest \in Nat \ {0}
  /\ Len(AggregationIntervals) \in Nat
  /\ DOMAIN AggregationIntervals = 1 .. Len(AggregationIntervals)
  /\ \A i \in DOMAIN AggregationIntervals : AggregationIntervals[i] \in Intervals
BY IntervalsAssumption DEF Intervals, Lowest

\* Every interval has an index, and the indices begin at one.
LEMMA IntervalIndex ==
  ASSUME NEW ivl \in Intervals
  PROVE  \E i \in DOMAIN AggregationIntervals : 1 <= i /\ ivl = AggregationIntervals[i]
<1>1. PICK i \in DOMAIN AggregationIntervals : ivl = AggregationIntervals[i]
  BY IntervalsAssumption, Zenon DEF Intervals
<1>2. 1 <= i
  BY IntervalsNat
<1> QED BY <1>1, <1>2, Zenon

\* A harvest that has passed the index i has not passed the indices above it.
LEMMA IndexPast ==
  \A i, j \in Nat : i <= j /\ i # j => i + 1 <= j
OBVIOUS

\* A harvest whose index is not one of an interval has passed every interval.
LEMMA IndexOver ==
  \A i \in 1 .. Len(AggregationIntervals) + 1, j \in DOMAIN AggregationIntervals :
     i \notin DOMAIN AggregationIntervals => ~(i <= j)
BY IntervalsNat

\* The processing time of a key is not before the epoch.
LEMMA KeyTimeNat ==
  ASSUME TypeOK, NEW ivl \in Intervals
  PROVE  KeyTime(ivl) \in Nat
BY TruncateBounds, IntervalsNat, Zenon DEF TypeOK, KeyTime

\* AggregateBatch writes well-formed items.
LEMMA BatchOpsType ==
  ASSUME TypeOK, NEW id \in IDs, NEW evs \in SUBSET Events
  PROVE  BatchOps(id, evs) \subseteq Item
<1>1. \A ivl \in Intervals : KeyTime(ivl) \in Nat
  BY KeyTimeNat, Zenon
<1>2. \A e \in evs : PartitionsOf(e) \subseteq Partitions
  BY ConstantsAssumption, Zenon DEF PartitionsOf
<1> QED BY <1>1, <1>2, Zenon DEF BatchOps, Item

-----------------------------------------------------------------------------
(* Type correctness. *)

\* harvest is at an interval when it deletes, Close is at one when it harvests.
IndexInv ==
  /\ \A p \in Procs : pc[p] = "delete" => hIdx[p] \in DOMAIN AggregationIntervals
  /\ \A c \in Closers :
        pc[c] \in {"harvest", "delete"} => closeIdx[c] \in DOMAIN AggregationIntervals

\* New leaves the variables with their types.
LEMMA TypeInit == Init => TypeOK /\ IndexInv
<1> SUFFICES ASSUME Init PROVE TypeOK /\ IndexInv
  BY Zenon
<1>1. Truncate(now, Lowest) \in Nat
  BY TruncateBounds, IntervalsNat, ConstantsAssumption, Zenon DEF Init
<1>2. /\ pc \in [Procs -> RunnerPCs \cup CloserPCs]
      /\ pc[Runner] \in RunnerPCs
      /\ \A c \in Closers : pc[c] \in CloserPCs
  BY Zenon DEF Init, Procs, RunnerPCs, CloserPCs
<1>3. closed \in BOOLEAN /\ dbOpen \in BOOLEAN /\ failed \in [Closers -> BOOLEAN]
  BY Zenon DEF Init
<1>4. now \in Nat /\ mu \in Closers \cup {Free} /\ processingTime \in Nat /\ to \in Nat
  BY <1>1, ConstantsAssumption, Zenon DEF Init
<1>5. /\ hEnd \in [Procs -> Nat]
      /\ hSnap \in [Procs -> SUBSET Item]
      /\ hStats \in [Procs -> SUBSET Stat]
      /\ hIdx \in [Procs -> 1 .. Len(AggregationIntervals) + 1]
      /\ closeIdx \in [Closers -> 1 .. Len(AggregationIntervals) + 1]
  BY IntervalsNat DEF Init
<1>6. IndexInv
  BY Zenon DEF Init, IndexInv, Procs
<1> QED
  BY <1>2, <1>3, <1>4, <1>5, <1>6, Zenon DEF TypeOK, Init

\* The steps of harvest keep the types, and the index among those of the intervals.
LEMMA TypeHarvest ==
  ASSUME TypeOK, IndexInv, NEW p \in Procs, HarvestStep(p)
  PROVE  TypeOK' /\ IndexInv'
<1> USE DEF TypeOK, RunnerPCs, CloserPCs, Procs, closeVars, outputVars, inputVars
<1>1. CASE HarvestSkip(p)
  <2>1. TypeOK'
    BY <1>1, IntervalsNat, SMTT(30) DEF HarvestSkip
  <2>2. IndexInv'
    BY <1>1, Zenon DEF HarvestSkip, IndexInv
  <2> QED BY <2>1, <2>2, Zenon
<1>2. CASE HarvestForInterval(p)
  <2> Window(p) \subseteq Item
    BY Zenon DEF Window
  <2>1. PICK good, bad \in SUBSET Item :
           /\ redelivered' = redelivered \cup (good \cap delivered)
           /\ delivered' = delivered \cup good
           /\ dropped' = dropped \cup bad
    BY <1>2, Zenon DEF HarvestForInterval
  <2>2. failed' \in [Closers -> BOOLEAN]
    BY <1>2, Zenon DEF HarvestForInterval
  <2>3. eventsTotal' \subseteq Stat /\ hStats' \in [Procs -> SUBSET Stat]
    BY <1>2, Zenon DEF HarvestForInterval
  <2>4. /\ pc' \in [Procs -> RunnerPCs \cup CloserPCs]
        /\ pc'[Runner] \in RunnerPCs
        /\ \A c \in Closers : pc'[c] \in CloserPCs
    BY <1>2, Zenon DEF HarvestForInterval
  <2>5. IndexInv'
    BY <1>2, Zenon DEF HarvestForInterval, IndexInv
  <2> QED
    BY <1>2, <2>1, <2>2, <2>3, <2>4, <2>5, Zenon DEF HarvestForInterval
<1>3. CASE DeleteRange(p)
  <2>1. hIdx[p] \in DOMAIN AggregationIntervals
    BY <1>3, Zenon DEF DeleteRange, Remaining, IndexInv
  <2>2. failed' \in [Closers -> BOOLEAN]
    BY <1>3, Zenon DEF DeleteRange, Remaining
  <2>3. db' \subseteq Item
    BY <1>3, Zenon DEF DeleteRange, Remaining
  <2>4. hIdx' \in [Procs -> 1 .. Len(AggregationIntervals) + 1]
    BY <1>3, <2>1, IntervalsNat, SMTT(30) DEF DeleteRange, Remaining
  <2>5. /\ pc' \in [Procs -> RunnerPCs \cup CloserPCs]
        /\ pc'[Runner] \in RunnerPCs
        /\ \A c \in Closers : pc'[c] \in CloserPCs
    BY <1>3, Zenon DEF DeleteRange, Remaining
  <2>6. IndexInv'
    BY <1>3, Zenon DEF DeleteRange, Remaining, IndexInv
  <2> QED BY <1>3, <2>2, <2>3, <2>4, <2>5, <2>6, Zenon DEF DeleteRange, Remaining
<1> QED BY <1>1, <1>2, <1>3, Zenon DEF HarvestStep

\* The steps of Run keep the types.
LEMMA TypeRun ==
  ASSUME TypeOK, IndexInv, Run \/ RunStep
  PROVE  TypeOK' /\ IndexInv'
<1> USE DEF TypeOK, IndexInv, RunnerPCs, CloserPCs, Procs, harvestVars, closeVars,
            outputVars, inputVars
<1> Runner \notin Closers
  BY ConstantsAssumption, Zenon
<1>1. CASE Run
  BY <1>1, IntervalsNat, SMTT(30) DEF Run
<1>2. CASE RunReturn
  BY <1>2, Zenon DEF RunReturn
<1>3. CASE RunTimer
  BY <1>3, Zenon DEF RunTimer
<1>4. CASE RunSwap
  BY <1>4, Zenon DEF RunSwap, Loaded
<1>5. CASE RunCommit
  BY <1>5, Zenon DEF RunCommit
<1>6. CASE RunSnapshot
  <2>1. hSnap' \in [Procs -> SUBSET Item]
    BY <1>6, Zenon DEF RunSnapshot
  <2>2. hIdx' \in [Procs -> 1 .. Len(AggregationIntervals) + 1]
    BY <1>6, IntervalsNat DEF RunSnapshot
  <2>3. /\ pc' \in [Procs -> RunnerPCs \cup CloserPCs]
        /\ pc'[Runner] \in RunnerPCs
        /\ \A d \in Closers : pc'[d] \in CloserPCs
    BY <1>6, Zenon DEF RunSnapshot
  <2>4. IndexInv'
    BY <1>6, Zenon DEF RunSnapshot
  <2> QED BY <1>6, <2>1, <2>2, <2>3, <2>4, Zenon DEF RunSnapshot
<1>7. CASE RunNext
  BY <1>7, IntervalsNat, SMTT(30) DEF RunNext, HarvestOver
<1>8. CASE HarvestStep(Runner)
  BY <1>8, TypeHarvest, Zenon
<1> QED BY <1>1, <1>2, <1>3, <1>4, <1>5, <1>6, <1>7, <1>8, Zenon DEF RunStep

\* The steps of Close keep the types.
LEMMA TypeClose ==
  ASSUME TypeOK, IndexInv, NEW c \in Closers, CloseBegin(c) \/ CloseStep(c)
  PROVE  TypeOK' /\ IndexInv'
<1> USE DEF TypeOK, IndexInv, RunnerPCs, CloserPCs, Procs, harvestVars, closeVars,
            outputVars, inputVars
<1> Runner \notin Closers
  BY ConstantsAssumption, Zenon
<1>1. CASE CloseBegin(c)
  BY <1>1, Zenon DEF CloseBegin
<1>2. CASE CloseRunStopped(c)
  BY <1>2, Zenon DEF CloseRunStopped
<1>3. CASE CloseCtxDone(c)
  BY <1>3, Zenon DEF CloseCtxDone
<1>4. CASE CloseAgain(c)
  BY <1>4, Zenon DEF CloseAgain
<1>5. CASE CloseCommit(c)
  BY <1>5, Zenon DEF CloseCommit
<1>6. CASE CloseHarvest(c)
  <2> DEFINE end == FinalEnd(AggregationIntervals[closeIdx[c]])
  <2>1. end \in Nat
    <3>1. PICK ivl \in Intervals : ivl = AggregationIntervals[closeIdx[c]]
      BY <1>6, IntervalsNat, Zenon DEF CloseHarvest
    <3>2. KeyTime(ivl) \in Nat
      BY KeyTimeNat, Zenon
    <3> QED BY <3>1, <3>2, IntervalsNat, SMTT(30) DEF FinalEnd
  <2> HIDE DEF end
  <2>2. 1 \in 1 .. Len(AggregationIntervals) + 1
    BY IntervalsNat
  <2>3. Loaded(end) \subseteq cached
    BY Zenon DEF Loaded
  <2> QED BY <1>6, <2>1, <2>2, <2>3, Zenon DEF CloseHarvest, end
<1>7. CASE CloseNext(c)
  <2>1. closeIdx' \in [Closers -> 1 .. Len(AggregationIntervals) + 1]
    <3>1. closeIdx[c] \in 1 .. Len(AggregationIntervals) /\ closeIdx' = [closeIdx EXCEPT ![c] = @ + 1]
      BY <1>7, IntervalsNat, Zenon DEF CloseNext, HarvestOver
    <3> QED BY <3>1, IntervalsNat, SMTT(30)
  <2>2. /\ pc' \in [Procs -> RunnerPCs \cup CloserPCs]
        /\ pc'[Runner] \in RunnerPCs
        /\ \A d \in Closers : pc'[d] \in CloserPCs
    BY <1>7, Zenon DEF CloseNext
  <2>3. hSnap' \in [Procs -> SUBSET Item]
    BY <1>7, Zenon DEF CloseNext
  <2>4. IndexInv'
    BY <1>7, <2>2, Zenon DEF CloseNext
  <2> QED BY <1>7, <2>1, <2>2, <2>3, <2>4, Zenon DEF CloseNext
<1>8. CASE CloseReturn(c)
  BY <1>8, Zenon DEF CloseReturn
<1>9. CASE HarvestStep(c)
  BY <1>9, TypeHarvest, Zenon
<1> QED BY <1>1, <1>2, <1>3, <1>4, <1>5, <1>6, <1>7, <1>8, <1>9, Zenon DEF CloseStep

\* A write of items and counts keeps the types, whichever call makes it.
LEMMA TypeWrite ==
  ASSUME TypeOK, IndexInv, NEW ops \in SUBSET Item, NEW stats \in SUBSET Stat,
         Aggregate(ops), cached' = cached \cup stats, accepted' = accepted \cup stats,
         issued' = issued \cup ops,
         UNCHANGED <<now, mu, processingTime, closed, runStopped, dbOpen, pc, to, runBatch,
                     harvestVars, closeVars, outputVars>>
  PROVE  TypeOK' /\ IndexInv'
<1>1. batch' \subseteq Item /\ db' \subseteq Item
  BY Zenon DEF Aggregate, Flushable, TypeOK
<1> QED BY <1>1, Zenon DEF TypeOK, IndexInv, harvestVars, closeVars, outputVars

\* AggregateBatch keeps the types.
LEMMA TypeAggregateBatch ==
  ASSUME TypeOK, IndexInv, NEW id \in IDs, NEW evs \in SUBSET Events, AggregateBatch(id, evs)
  PROVE  TypeOK' /\ IndexInv'
<1>1. BatchOps(id, evs) \in SUBSET Item
  BY BatchOpsType, Zenon
<1>2. [ivl : Intervals, id : {id}, ev : evs] \in SUBSET Stat
  BY Zenon DEF Stat
<1> QED BY <1>1, <1>2, TypeWrite, Zenon DEF AggregateBatch

\* AggregateCombinedMetrics keeps the types.
LEMMA TypeAggregateCombinedMetrics ==
  ASSUME TypeOK, IndexInv,
         NEW o \in [ivl : Intervals, pt : 0 .. now, id : IDs, part : Partitions, ev : Events],
         AggregateCombinedMetrics(o)
  PROVE  TypeOK' /\ IndexInv'
<1>1. {o} \in SUBSET Item /\ {StatOf(o)} \in SUBSET Stat
  BY DEF Item, Stat, StatOf, TypeOK
<1> QED BY <1>1, TypeWrite, Zenon DEF AggregateCombinedMetrics

\* Every step of Run and Close keeps the types.
LEMMA TypeHarvesting ==
  ASSUME TypeOK, IndexInv, Harvesting
  PROVE  TypeOK' /\ IndexInv'
<1>1. CASE Tick
  BY <1>1 DEF Tick, TypeOK, IndexInv, harvestVars, closeVars, outputVars, inputVars
<1> QED BY <1>1, TypeRun, TypeClose, Zenon DEF Harvesting

\* So does a step that changes nothing.
LEMMA TypeStutter ==
  ASSUME TypeOK, IndexInv, UNCHANGED vars
  PROVE  TypeOK' /\ IndexInv'
BY Zenon DEF TypeOK, IndexInv, vars, harvestVars, closeVars, outputVars, inputVars

\* The l1 aggregator keeps the type of every variable, whatever the intervals,
\* the events, the callers and the failures are.
THEOREM L1TypeCorrect == L1Spec => []TypeOK
<1>1. TypeOK /\ IndexInv /\ [L1Next]_vars => (TypeOK /\ IndexInv)'
  BY TypeHarvesting, TypeAggregateBatch, TypeStutter, Zenon DEF L1Next
<1> QED BY <1>1, TypeInit, PTL DEF L1Spec

\* So does the l2 aggregator.
THEOREM L2TypeCorrect == L2Spec => []TypeOK
<1>1. TypeOK /\ IndexInv /\ [L2Next]_vars => (TypeOK /\ IndexInv)'
  BY TypeHarvesting, TypeAggregateCombinedMetrics, TypeStutter, Zenon DEF L2Next
<1> QED BY <1>1, TypeInit, PTL DEF L2Spec
-----------------------------------------------------------------------------
(* Mutual exclusion of the harvests. *)

\* Close holds a.mu exactly while it is inside the call, and touches the database
\* only when Run was never called or has returned.
LockInv ==
  /\ \A c \in Closers :
        mu = c <=> pc[c] \in {"wait", "commit", "final", "harvest", "delete"}
  /\ runStopped = "nil" <=> pc[Runner] = "idle"
  /\ runStopped = "closed" <=> pc[Runner] = "returned"
  /\ \A c \in Closers :
        pc[c] \in {"commit", "final", "harvest", "delete"} => pc[Runner] \in {"idle", "returned"}

\* No goroutine holds a.mu at first.
LEMMA LockInit == Init => LockInv
BY ProcsAssumption, ConstantsAssumption, Zenon DEF Init, LockInv, Procs

\* A harvest neither takes nor releases a.mu.
LEMMA LockHarvest ==
  ASSUME TypeOK, LockInv, NEW p \in Procs, HarvestStep(p)
  PROVE  LockInv'
<1> USE DEF TypeOK, LockInv, Procs
<1>1. CASE HarvestSkip(p)
  BY <1>1, Zenon DEF HarvestSkip
<1>2. CASE HarvestForInterval(p)
  BY <1>2, Zenon DEF HarvestForInterval
<1>3. CASE DeleteRange(p)
  BY <1>3, Zenon DEF DeleteRange, Remaining
<1> QED BY <1>1, <1>2, <1>3, Zenon DEF HarvestStep

\* Run sets a.runStopped when it starts and closes it when it returns, and does not start
\* while a Close holds a.mu.
LEMMA LockRun ==
  ASSUME TypeOK, LockInv, Run \/ RunStep
  PROVE  LockInv'
<1> USE DEF TypeOK, LockInv, Procs
<1> Runner \notin Closers /\ Free \notin Closers
  BY ConstantsAssumption, ProcsAssumption, Zenon
<1>1. CASE Run
  BY <1>1, Zenon DEF Run
<1>2. CASE RunReturn
  BY <1>2, Zenon DEF RunReturn
<1>3. CASE RunTimer
  BY <1>3, Zenon DEF RunTimer
<1>4. CASE RunSwap
  BY <1>4, Zenon DEF RunSwap
<1>5. CASE RunCommit
  BY <1>5, Zenon DEF RunCommit
<1>6. CASE RunSnapshot
  BY <1>6, Zenon DEF RunSnapshot
<1>7. CASE RunNext
  BY <1>7, Zenon DEF RunNext, HarvestOver
<1>8. CASE HarvestStep(Runner)
  BY <1>8, LockHarvest, Zenon
<1> QED BY <1>1, <1>2, <1>3, <1>4, <1>5, <1>6, <1>7, <1>8, Zenon DEF RunStep

\* A Close holds a.mu from its first step to its last, and waits for Run before it
\* harvests.
LEMMA LockClose ==
  ASSUME TypeOK, LockInv, NEW c \in Closers, CloseBegin(c) \/ CloseStep(c)
  PROVE  LockInv'
<1> USE DEF TypeOK, LockInv, Procs
<1> Runner \notin Closers /\ Free \notin Closers
  BY ConstantsAssumption, ProcsAssumption, Zenon
<1>1. CASE CloseBegin(c)
  BY <1>1, Zenon DEF CloseBegin, RunWasCalled
<1>2. CASE CloseRunStopped(c)
  BY <1>2, Zenon DEF CloseRunStopped
<1>3. CASE CloseCtxDone(c)
  BY <1>3, Zenon DEF CloseCtxDone
<1>4. CASE CloseAgain(c)
  BY <1>4, Zenon DEF CloseAgain
<1>5. CASE CloseCommit(c)
  BY <1>5, Zenon DEF CloseCommit
<1>6. CASE CloseHarvest(c)
  BY <1>6, Zenon DEF CloseHarvest
<1>7. CASE CloseNext(c)
  BY <1>7, Zenon DEF CloseNext, HarvestOver
<1>8. CASE CloseReturn(c)
  BY <1>8, Zenon DEF CloseReturn
<1>9. CASE HarvestStep(c)
  BY <1>9, LockHarvest, Zenon
<1> QED BY <1>1, <1>2, <1>3, <1>4, <1>5, <1>6, <1>7, <1>8, <1>9, Zenon DEF CloseStep

\* Every step of either aggregator keeps the invariant.
LEMMA LockNext ==
  ASSUME TypeOK, LockInv, [L1Next]_vars \/ [L2Next]_vars
  PROVE  LockInv'
<1>1. CASE Tick
  BY <1>1, Zenon DEF Tick, LockInv
<1>2. CASE UNCHANGED vars
  BY <1>2, Zenon DEF vars, LockInv
<1>3. ASSUME NEW id, NEW evs, AggregateBatch(id, evs) PROVE LockInv'
  BY <1>3, Zenon DEF AggregateBatch, LockInv
<1>4. ASSUME NEW o, AggregateCombinedMetrics(o) PROVE LockInv'
  BY <1>4, Zenon DEF AggregateCombinedMetrics, LockInv
<1> QED BY <1>1, <1>2, <1>3, <1>4, LockRun, LockClose, Zenon DEF L1Next, L2Next, Harvesting

\* With the lock invariant, two harvests cannot overlap.
LEMMA LockExcludes ==
  ASSUME TypeOK, LockInv
  PROVE  OneHarvester
<1> SUFFICES ASSUME NEW p \in Procs, NEW q \in Procs, Busy(p), Busy(q) PROVE p = q
  BY Zenon DEF OneHarvester
<1>1. \A c \in Closers : Busy(c) => mu = c /\ pc[Runner] \in {"idle", "returned"}
  BY Zenon DEF LockInv, Busy, TypeOK, CloserPCs
<1>2. CASE p \in Closers /\ q \in Closers
  BY <1>1, <1>2, Zenon
<1>3. CASE p = Runner \/ q = Runner
  BY <1>1, <1>3, Zenon DEF Busy, Procs
<1> QED BY <1>2, <1>3, Zenon DEF Procs

\* At most one goroutine harvests or commits outside of the writers' critical
\* sections, in the l1 aggregator: Close waits for Run and excludes other Closes.
THEOREM L1OneHarvester == L1Spec => []OneHarvester
<1>1. TypeOK /\ IndexInv /\ LockInv /\ [L1Next]_vars => (TypeOK /\ IndexInv /\ LockInv)'
  BY TypeHarvesting, TypeAggregateBatch, TypeStutter, LockNext, Zenon DEF L1Next
<1>2. TypeOK /\ LockInv => OneHarvester
  BY LockExcludes, Zenon
<1> QED BY <1>1, <1>2, TypeInit, LockInit, PTL DEF L1Spec

\* The same holds in the l2 aggregator.
THEOREM L2OneHarvester == L2Spec => []OneHarvester
<1>1. TypeOK /\ IndexInv /\ LockInv /\ [L2Next]_vars => (TypeOK /\ IndexInv /\ LockInv)'
  BY TypeHarvesting, TypeAggregateCombinedMetrics, TypeStutter, LockNext, Zenon DEF L2Next
<1>2. TypeOK /\ LockInv => OneHarvester
  BY LockExcludes, Zenon
<1> QED BY <1>1, <1>2, TypeInit, LockInit, PTL DEF L2Spec

-----------------------------------------------------------------------------
(* The counts of events. *)

\* The counts a harvest has loaded and not published belong to intervals that are due and
\* that the harvest has not come to.
StatsInv ==
  \A p \in Procs : \A s \in hStats[p] :
     /\ Due(hEnd[p], s.ivl)
     /\ \/ p = Runner /\ pc[p] \in {"commit", "snapshot", "panicked"}
        \/ /\ pc[p] = "harvest"
           /\ \E i \in DOMAIN AggregationIntervals : hIdx[p] <= i /\ s.ivl = AggregationIntervals[i]
        \/ /\ pc[p] = "delete"
           /\ \E i \in DOMAIN AggregationIntervals : hIdx[p] < i /\ s.ivl = AggregationIntervals[i]

\* CountsConserved for each count.
CountInv ==
  /\ \A s \in Stat :
        s \in accepted <=> s \in cached \/ s \in eventsTotal \/ \E p \in Procs : s \in hStats[p]
  /\ \A s \in Stat : ~(s \in cached /\ s \in eventsTotal)
  /\ \A p \in Procs : \A s \in hStats[p] : s \notin cached /\ s \notin eventsTotal

\* The invariant is CountsConserved, stated for each count.
LEMMA CountInvExact ==
  ASSUME TypeOK, CountInv
  PROVE  CountsConserved
<1>1. accepted = cached \cup eventsTotal \cup UNION {hStats[p] : p \in Procs}
  <2>1. \A s : s \in UNION {hStats[p] : p \in Procs} <=> \E p \in Procs : s \in hStats[p]
    BY Zenon
  <2>2. /\ \A s \in accepted : s \in Stat
        /\ \A s \in cached : s \in Stat
        /\ \A s \in eventsTotal : s \in Stat
        /\ \A p \in Procs : \A s \in hStats[p] : s \in Stat
    BY Zenon DEF TypeOK
  <2> QED BY <2>1, <2>2, Zenon DEF CountInv
<1>2. cached \cap eventsTotal = {}
  BY Zenon DEF CountInv, TypeOK
<1>3. \A p \in Procs : hStats[p] \cap (cached \cup eventsTotal) = {}
  BY Zenon DEF CountInv
<1> QED BY <1>1, <1>2, <1>3, Zenon DEF CountsConserved

\* Nothing is counted at first.
LEMMA CountInit == Init => StatsInv /\ CountInv
BY Zenon DEF Init, StatsInv, CountInv

\* Two harvests never hold counts at once, before a panic.
LEMMA OneHolder ==
  ASSUME TypeOK, LockInv, StatsInv, Alive, NEW p \in Procs, NEW q \in Procs, p # q, Busy(p)
  PROVE  hStats[q] = {}
<1>1. ~Busy(q)
  BY LockExcludes, Zenon DEF OneHarvester
<1>2. ASSUME NEW s \in hStats[q] PROVE FALSE
  BY <1>1, <1>2, Zenon DEF StatsInv, Busy, Alive
<1> QED BY <1>2, Zenon

-----------------------------------------------------------------------------
(* The steps. *)

\* A step that moves none of the counts.
LEMMA CountUnchanged ==
  ASSUME CountInv, UNCHANGED <<cached, hStats, eventsTotal, accepted>>
  PROVE  CountInv'
BY Zenon DEF CountInv

\* A harvest reports the counts of an interval in EventsTotal, and has none left of an
\* interval that it has passed.
LEMMA CountHarvest ==
  ASSUME TypeOK, IndexInv, LockInv, StatsInv, Alive, NEW p \in Procs, HarvestStep(p)
  PROVE  StatsInv' /\ (CountInv => CountInv')
<1>1. CASE HarvestSkip(p)
  <2>1. CountInv => CountInv'
    BY <1>1, CountUnchanged, Zenon DEF HarvestSkip, outputVars, inputVars
  <2>2. ASSUME NEW q \in Procs, NEW s \in hStats[q], q # p
        PROVE  /\ Due(hEnd[q], s.ivl)' /\ pc'[q] = pc[q] /\ hIdx'[q] = hIdx[q]
    BY <1>1, <2>2, Zenon DEF HarvestSkip, StatsInv, TypeOK, Due
  <2>3. ASSUME NEW s \in hStats[p]
        PROVE  \E i \in DOMAIN AggregationIntervals : hIdx'[p] <= i /\ s.ivl = AggregationIntervals[i]
    <3>1. pc[p] = "harvest" /\ Due(hEnd[p], s.ivl)
      BY <1>1, <2>3, Zenon DEF HarvestSkip, StatsInv
    <3>2. PICK i \in DOMAIN AggregationIntervals : hIdx[p] <= i /\ s.ivl = AggregationIntervals[i]
      BY <2>3, <3>1, Zenon DEF StatsInv
    <3>3. i # hIdx[p]
      BY <1>1, <3>1, <3>2, Zenon DEF HarvestSkip, HarvestIvl
    <3>4. hIdx'[p] = hIdx[p] + 1 /\ hIdx[p] \in Nat /\ i \in Nat
      BY <1>1, IntervalsNat, SMTT(30) DEF HarvestSkip, TypeOK
    <3> QED BY <3>2, <3>3, <3>4
  <2>4. pc' = pc /\ hStats' = hStats /\ hEnd' = hEnd /\ pc[p] = "harvest"
    BY <1>1, Zenon DEF HarvestSkip
  <2> QED BY <2>1, <2>2, <2>3, <2>4, SMTT(30) DEF StatsInv, Due
<1>2. CASE HarvestForInterval(p)
  <2> DEFINE published == {s \in hStats[p] : s.ivl = HarvestIvl(p)}
  <2>1. /\ eventsTotal' = eventsTotal \cup published
        /\ hStats' = [hStats EXCEPT ![p] = @ \ published]
        /\ pc[p] = "harvest" /\ pc' = [pc EXCEPT ![p] = "delete"]
        /\ UNCHANGED <<cached, accepted, hEnd, hIdx>>
    BY <1>2, Zenon DEF HarvestForInterval, inputVars
  <2>2. \A q \in Procs : q # p => hStats[q] = {} /\ hStats'[q] = {}
    BY <2>1, OneHolder, Zenon DEF Busy, TypeOK
  <2>3. hStats'[p] = hStats[p] \ published /\ pc'[p] = "delete"
    BY <2>1, Zenon DEF TypeOK
  <2>4. StatsInv'
    <3>1. SUFFICES ASSUME NEW s \in hStats[p], s \notin published
                   PROVE  /\ Due(hEnd[p], s.ivl)
                          /\ \E i \in DOMAIN AggregationIntervals :
                                hIdx[p] < i /\ s.ivl = AggregationIntervals[i]
      BY <2>1, <2>2, <2>3 DEF StatsInv, Due
    <3>2. PICK i \in DOMAIN AggregationIntervals : hIdx[p] <= i /\ s.ivl = AggregationIntervals[i]
      BY <2>1, <3>1, Zenon DEF StatsInv
    <3>3. i # hIdx[p]
      BY <3>1, <3>2, Zenon DEF HarvestIvl
    <3>4. hIdx[p] \in Nat /\ i \in Nat
      BY IntervalsNat DEF TypeOK
    <3> QED BY <3>1, <3>2, <3>3, <3>4 DEF StatsInv
  <2>5. CountInv => CountInv'
    BY <2>1, <2>2, <2>3, Zenon DEF CountInv
  <2> QED BY <2>4, <2>5, Zenon
<1>3. CASE DeleteRange(p)
  <2>1. CountInv => CountInv'
    BY <1>3, CountUnchanged, Zenon DEF DeleteRange, outputVars, inputVars
  <2>2. /\ hStats' = hStats /\ hEnd' = hEnd /\ pc[p] = "delete"
        /\ pc' = [pc EXCEPT ![p] = "harvest"] /\ hIdx' = [hIdx EXCEPT ![p] = @ + 1]
    BY <1>3, Zenon DEF DeleteRange
  <2>3. \A q \in Procs : q # p => hStats[q] = {}
    BY <2>2, OneHolder, Zenon DEF Busy
  <2>4. pc'[p] = "harvest" /\ hIdx'[p] = hIdx[p] + 1 /\ hIdx[p] \in Nat
    BY <2>2 DEF TypeOK
  <2>5. \A s \in hStats[p] :
           /\ Due(hEnd[p], s.ivl)
           /\ \E i \in DOMAIN AggregationIntervals : hIdx[p] < i /\ s.ivl = AggregationIntervals[i]
    BY <2>2, Zenon DEF StatsInv
  <2>6. \A i \in DOMAIN AggregationIntervals : hIdx[p] < i => hIdx'[p] <= i
    BY <2>4, IntervalsNat
  <2>7. StatsInv'
    BY <2>2, <2>3, <2>4, <2>5, <2>6 DEF StatsInv, Due
  <2> QED BY <2>1, <2>7, Zenon
<1> QED BY <1>1, <1>2, <1>3, Zenon DEF HarvestStep

\* cachedEvents.loadAndDelete at the beginning of a harvest.
LEMMA CountLoad ==
  ASSUME TypeOK, StatsInv, NEW p \in Procs, NEW end,
         hStats[p] = {}, hStats' = [hStats EXCEPT ![p] = Loaded(end)], cached' = cached \ Loaded(end),
         UNCHANGED <<eventsTotal, accepted>>
  PROVE  CountInv => CountInv'
<1>1. Loaded(end) \subseteq cached
  BY Zenon DEF Loaded
<1>2. hStats'[p] = Loaded(end) /\ \A q \in Procs : q # p => hStats'[q] = hStats[q]
  BY Zenon DEF TypeOK
<1>3. \A s \in Stat : s \in cached <=> s \in cached' \/ s \in Loaded(end)
  BY <1>1, Zenon
<1> QED BY <1>1, <1>2, <1>3, Zenon DEF CountInv, TypeOK

\* A harvest that has passed its last interval has published all it loaded.
LEMMA OverEmpty ==
  ASSUME TypeOK, StatsInv, NEW p \in Procs, HarvestOver(p)
  PROVE  hStats[p] = {}
<1>1. hIdx[p] = Len(AggregationIntervals) + 1 /\ pc[p] = "harvest"
  BY IntervalsNat DEF HarvestOver, TypeOK
<1>2. ASSUME NEW s \in hStats[p] PROVE FALSE
  <2>1. PICK i \in DOMAIN AggregationIntervals : hIdx[p] <= i
    BY <1>1, <1>2, Zenon DEF StatsInv
  <2> QED BY <1>1, <2>1, IntervalsNat
<1> QED BY <1>2, Zenon

\* Run loads the counts of the windows that end, and keeps them until they are
\* reported.
LEMMA CountRun ==
  ASSUME TypeOK, IndexInv, LockInv, StatsInv, Alive, Run \/ RunStep
  PROVE  StatsInv' /\ (CountInv => CountInv')
<1> Runner \in Procs /\ Runner \notin Closers
  BY ConstantsAssumption, Zenon DEF Procs
<1>1. CASE Run \/ RunReturn \/ RunTimer
  <2>1. pc[Runner] \in {"idle", "select"} /\ UNCHANGED <<cached, hStats, eventsTotal, accepted, hEnd, hIdx>>
    BY <1>1, Zenon DEF Run, RunReturn, RunTimer, harvestVars, outputVars, inputVars
  <2>2. \A q \in Procs : q # Runner => pc'[q] = pc[q]
    BY <1>1, Zenon DEF Run, RunReturn, RunTimer, TypeOK
  <2>3. hStats[Runner] = {}
    BY <2>1, Zenon DEF StatsInv
  <2>4. StatsInv'
    BY <2>1, <2>2, <2>3 DEF StatsInv, Due
  <2> QED BY <2>1, <2>4, CountUnchanged, Zenon
<1>2. CASE RunSwap
  <2>1. /\ pc[Runner] = "lock" /\ pc' = [pc EXCEPT ![Runner] = "commit"]
        /\ hEnd' = [hEnd EXCEPT ![Runner] = to] /\ hIdx' = hIdx
        /\ hStats' = [hStats EXCEPT ![Runner] = Loaded(to)] /\ cached' = cached \ Loaded(to)
        /\ UNCHANGED <<eventsTotal, accepted>>
    BY <1>2, Zenon DEF RunSwap, outputVars, inputVars
  <2>2. hStats[Runner] = {}
    BY <2>1, Zenon DEF StatsInv
  <2>3. CountInv => CountInv'
    BY <2>1, <2>2, CountLoad, Zenon
  <2>4. /\ pc'[Runner] = "commit" /\ hEnd'[Runner] = to /\ hStats'[Runner] = Loaded(to)
        /\ \A q \in Procs : q # Runner => pc'[q] = pc[q] /\ hEnd'[q] = hEnd[q] /\ hStats'[q] = hStats[q]
    BY <2>1, Zenon DEF TypeOK
  <2>5. \A s \in Loaded(to) : Due(to, s.ivl)
    BY Zenon DEF Loaded
  <2>6. StatsInv'
    BY <2>1, <2>4, <2>5 DEF StatsInv, Due
  <2> QED BY <2>3, <2>6, Zenon
<1>3. CASE RunCommit
  <2>1. /\ pc[Runner] = "commit" /\ pc' = [pc EXCEPT ![Runner] = "snapshot"]
        /\ UNCHANGED <<cached, hStats, eventsTotal, accepted, hEnd, hIdx>>
    BY <1>3, Zenon DEF RunCommit, harvestVars, inputVars
  <2>2. pc'[Runner] = "snapshot" /\ \A q \in Procs : q # Runner => pc'[q] = pc[q]
    BY <2>1, Zenon DEF TypeOK
  <2>3. StatsInv'
    BY <2>1, <2>2 DEF StatsInv, Due
  <2> QED BY <2>1, <2>3, CountUnchanged, Zenon
<1>4. CASE RunSnapshot
  <2>1. /\ pc[Runner] = "snapshot"
        /\ \/ pc' = [pc EXCEPT ![Runner] = "harvest"] /\ hIdx' = [hIdx EXCEPT ![Runner] = 1]
           \/ pc' = [pc EXCEPT ![Runner] = "panicked"] /\ hIdx' = hIdx
        /\ UNCHANGED <<cached, hStats, eventsTotal, accepted, hEnd>>
    BY <1>4, Zenon DEF RunSnapshot, outputVars, inputVars
  <2>2. /\ \/ pc'[Runner] = "harvest" /\ hIdx'[Runner] = 1
           \/ pc'[Runner] = "panicked"
        /\ \A q \in Procs : q # Runner => pc'[q] = pc[q] /\ hIdx'[q] = hIdx[q]
    BY <2>1, Zenon DEF TypeOK
  <2>3. \A s \in hStats[Runner] :
           Due(hEnd[Runner], s.ivl) /\ \E i \in DOMAIN AggregationIntervals : 1 <= i /\ s.ivl = AggregationIntervals[i]
    <3>1. \A s \in hStats[Runner] : s.ivl \in Intervals
      BY DEF TypeOK, Stat
    <3> QED BY <3>1, IntervalsNat DEF StatsInv, Intervals
  <2>4. StatsInv'
    BY <2>1, <2>2, <2>3 DEF StatsInv, Due
  <2> QED BY <2>1, <2>4, CountUnchanged, Zenon
<1>5. CASE RunNext
  <2>1. /\ HarvestOver(Runner) /\ pc' = [pc EXCEPT ![Runner] = "select"]
        /\ UNCHANGED <<cached, hStats, eventsTotal, accepted, hEnd, hIdx>>
    BY <1>5, Zenon DEF RunNext, outputVars, inputVars
  <2>2. hStats[Runner] = {}
    BY <2>1, OverEmpty, Zenon
  <2>3. \A q \in Procs : q # Runner => pc'[q] = pc[q]
    BY <2>1, Zenon DEF TypeOK
  <2>4. StatsInv'
    BY <2>1, <2>2, <2>3 DEF StatsInv, Due
  <2> QED BY <2>1, <2>4, CountUnchanged, Zenon
<1>6. CASE HarvestStep(Runner)
  BY <1>6, CountHarvest, Zenon
<1> QED BY <1>1, <1>2, <1>3, <1>4, <1>5, <1>6, Zenon DEF RunStep

\* Close loads the counts of each final harvest, after the last one has reported all of
\* its own.
LEMMA CountClose ==
  ASSUME TypeOK, IndexInv, LockInv, StatsInv, Alive,
         NEW c \in Closers, CloseBegin(c) \/ CloseStep(c)
  PROVE  StatsInv' /\ (CountInv => CountInv')
<1> c \in Procs /\ c # Runner
  BY ConstantsAssumption, Zenon DEF Procs
<1>1. CASE \/ CloseBegin(c) \/ CloseRunStopped(c) \/ CloseCtxDone(c) \/ CloseAgain(c) \/ CloseCommit(c)
           \/ CloseReturn(c)
  <2>1. /\ pc[c] \in {"idle", "wait", "commit", "final"}
        /\ UNCHANGED <<cached, hStats, eventsTotal, accepted, hEnd, hIdx>>
    BY <1>1, Zenon DEF CloseBegin, CloseRunStopped, CloseCtxDone, CloseAgain, CloseCommit, CloseReturn,
                harvestVars, outputVars, inputVars
  <2>2. \A q \in Procs : q # c => pc'[q] = pc[q]
    BY <1>1, Zenon DEF CloseBegin, CloseRunStopped, CloseCtxDone, CloseAgain, CloseCommit, CloseReturn, TypeOK
  <2>3. hStats[c] = {}
    BY <2>1, Zenon DEF StatsInv
  <2>4. StatsInv'
    BY <2>1, <2>2, <2>3 DEF StatsInv, Due
  <2> QED BY <2>1, <2>4, CountUnchanged, Zenon
<1>2. CASE CloseHarvest(c)
  <2> DEFINE end == FinalEnd(AggregationIntervals[closeIdx[c]])
  <2>1. /\ pc[c] = "final" /\ pc' = [pc EXCEPT ![c] = "harvest"]
        /\ hEnd' = [hEnd EXCEPT ![c] = end] /\ hIdx' = [hIdx EXCEPT ![c] = 1]
        /\ hStats' = [hStats EXCEPT ![c] = Loaded(end)] /\ cached' = cached \ Loaded(end)
        /\ UNCHANGED <<eventsTotal, accepted>>
    BY <1>2, Zenon DEF CloseHarvest, outputVars, inputVars
  <2> HIDE DEF end
  <2>2. hStats[c] = {}
    BY <2>1, Zenon DEF StatsInv
  <2>3. CountInv => CountInv'
    BY <2>1, <2>2, CountLoad, Zenon
  <2>4. /\ pc'[c] = "harvest" /\ hEnd'[c] = end /\ hIdx'[c] = 1 /\ hStats'[c] = Loaded(end)
        /\ \A q \in Procs : q # c => /\ pc'[q] = pc[q] /\ hEnd'[q] = hEnd[q] /\ hIdx'[q] = hIdx[q]
                                     /\ hStats'[q] = hStats[q]
    BY <2>1, Zenon DEF TypeOK
  <2>5. \A s \in Loaded(end) :
           Due(end, s.ivl) /\ \E i \in DOMAIN AggregationIntervals : 1 <= i /\ s.ivl = AggregationIntervals[i]
    <3>1. \A s \in Loaded(end) : Due(end, s.ivl) /\ s.ivl \in Intervals
      BY Zenon DEF Loaded, TypeOK, Stat
    <3> QED BY <3>1, IntervalIndex, Zenon
  <2>6. StatsInv'
    <3>1. \A s \in hStats'[c] :
             /\ Due(hEnd'[c], s.ivl)
             /\ \E i \in DOMAIN AggregationIntervals : hIdx'[c] <= i /\ s.ivl = AggregationIntervals[i]
      BY <2>4, <2>5, Zenon
    <3>2. ASSUME NEW q \in Procs, NEW s \in hStats'[q]
          PROVE  /\ Due(hEnd'[q], s.ivl)
                 /\ \/ q = Runner /\ pc'[q] \in {"commit", "snapshot", "panicked"}
                    \/ /\ pc'[q] = "harvest"
                       /\ \E i \in DOMAIN AggregationIntervals : hIdx'[q] <= i /\ s.ivl = AggregationIntervals[i]
                    \/ /\ pc'[q] = "delete"
                       /\ \E i \in DOMAIN AggregationIntervals : hIdx'[q] < i /\ s.ivl = AggregationIntervals[i]
      <4>1. CASE q = c
        BY <2>4, <3>1, <4>1, Zenon
      <4>2. CASE q # c
        <5>1. s \in hStats[q]
          BY <2>4, <4>2, Zenon
        <5>2. /\ Due(hEnd[q], s.ivl)
              /\ \/ q = Runner /\ pc[q] \in {"commit", "snapshot", "panicked"}
                 \/ /\ pc[q] = "harvest"
                    /\ \E i \in DOMAIN AggregationIntervals : hIdx[q] <= i /\ s.ivl = AggregationIntervals[i]
                 \/ /\ pc[q] = "delete"
                    /\ \E i \in DOMAIN AggregationIntervals : hIdx[q] < i /\ s.ivl = AggregationIntervals[i]
          BY <5>1, Zenon DEF StatsInv
        <5> QED BY <2>4, <4>2, <5>2, Zenon
      <4> QED BY <4>1, <4>2, Zenon
    <3> QED BY <3>2, Zenon DEF StatsInv, Due
  <2> QED BY <2>3, <2>6, Zenon
<1>3. CASE CloseNext(c)
  <2>1. /\ HarvestOver(c) /\ pc' = [pc EXCEPT ![c] = "final"]
        /\ UNCHANGED <<cached, hStats, eventsTotal, accepted, hEnd, hIdx>>
    BY <1>3, Zenon DEF CloseNext, outputVars, inputVars
  <2>2. hStats[c] = {}
    BY <2>1, OverEmpty, Zenon
  <2>3. \A q \in Procs : q # c => pc'[q] = pc[q]
    BY <2>1, Zenon DEF TypeOK
  <2>4. StatsInv'
    BY <2>1, <2>2, <2>3 DEF StatsInv, Due
  <2> QED BY <2>1, <2>4, CountUnchanged, Zenon
<1>4. CASE HarvestStep(c)
  BY <1>4, CountHarvest, Zenon
<1> QED BY <1>1, <1>2, <1>3, <1>4, Zenon DEF CloseStep

\* A writer counts events that were never counted before.
LEMMA CountWrite ==
  ASSUME TypeOK, StatsInv, NEW stats \in SUBSET Stat, \A s \in stats : s \notin accepted,
         cached' = cached \cup stats, accepted' = accepted \cup stats,
         UNCHANGED <<pc, harvestVars, outputVars>>
  PROVE  StatsInv' /\ (CountInv => CountInv')
<1>1. UNCHANGED <<pc, hEnd, hIdx, hStats, eventsTotal>>
  BY Zenon DEF harvestVars, outputVars
<1>2. StatsInv'
  BY <1>1 DEF StatsInv, Due
<1>3. CountInv => CountInv'
  <2>1. CountInv => \A s \in stats : s \notin eventsTotal /\ \A p \in Procs : s \notin hStats[p]
    BY Zenon DEF CountInv
  <2> QED BY <1>1, <2>1, Zenon DEF CountInv
<1> QED BY <1>2, <1>3, Zenon

\* AggregateBatch counts what it writes, once.
LEMMA CountAggregateBatch ==
  ASSUME TypeOK, StatsInv, NEW id \in IDs, NEW evs \in SUBSET Events, AggregateBatch(id, evs)
  PROVE  StatsInv' /\ (CountInv => CountInv')
<1> DEFINE stats == [ivl : Intervals, id : {id}, ev : evs]
<1>1. stats \in SUBSET Stat
  BY Zenon DEF Stat
<1>2. \A s \in stats : s \notin accepted
  BY Zenon DEF AggregateBatch
<1>3. /\ cached' = cached \cup stats /\ accepted' = accepted \cup stats
      /\ UNCHANGED <<pc, harvestVars, outputVars>>
  BY Zenon DEF AggregateBatch
<1> HIDE DEF stats
<1> QED BY <1>1, <1>2, <1>3, CountWrite, Zenon

\* AggregateCombinedMetrics counts what it writes, once.
LEMMA CountAggregateCombinedMetrics ==
  ASSUME TypeOK, StatsInv,
         NEW o \in [ivl : Intervals, pt : 0 .. now, id : IDs, part : Partitions, ev : Events],
         AggregateCombinedMetrics(o)
  PROVE  StatsInv' /\ (CountInv => CountInv')
<1>1. {StatOf(o)} \in SUBSET Stat
  BY DEF Stat, StatOf
<1>2. StatOf(o) \notin accepted
  BY Zenon DEF AggregateCombinedMetrics, StatOf
<1>3. /\ cached' = cached \cup {StatOf(o)} /\ accepted' = accepted \cup {StatOf(o)}
      /\ UNCHANGED <<pc, harvestVars, outputVars>>
  BY Zenon DEF AggregateCombinedMetrics
<1> QED BY <1>1, <1>2, <1>3, CountWrite, Zenon

\* Every step of Run and Close conserves the counts.
LEMMA CountHarvesting ==
  ASSUME TypeOK, IndexInv, LockInv, StatsInv, Alive, Harvesting
  PROVE  StatsInv' /\ (CountInv => CountInv')
<1>1. CASE Tick
  <2>1. UNCHANGED <<pc, cached, hEnd, hIdx, hStats, eventsTotal, accepted>>
    BY <1>1, Zenon DEF Tick, harvestVars, outputVars, inputVars
  <2> QED BY <2>1, CountUnchanged, Zenon DEF StatsInv, Due
<1> QED BY <1>1, CountRun, CountClose, Zenon DEF Harvesting

\* So does a step that changes nothing.
LEMMA CountStutter ==
  ASSUME StatsInv, UNCHANGED vars
  PROVE  StatsInv' /\ (CountInv => CountInv')
<1>1. UNCHANGED <<pc, cached, hEnd, hIdx, hStats, eventsTotal, accepted>>
  BY Zenon DEF vars, harvestVars, outputVars, inputVars
<1> QED BY <1>1, CountUnchanged, Zenon DEF StatsInv, Due

-----------------------------------------------------------------------------
(* The theorems. *)

CountsIInv == TypeOK /\ IndexInv /\ LockInv /\ StatsInv /\ CountInv

\* Every event the l1 aggregator has counted is in cachedEvents, with a harvest, or in
\* EventsTotal, and in one of these places: loadAndDelete, publication for each interval and
\* concurrent writers lose no count and publish none twice, whatever fails.
THEOREM L1CountsConserved == L1Spec => []CountsConserved
<1>1. Init => CountsIInv
  BY TypeInit, LockInit, CountInit, Zenon DEF CountsIInv
<1>2. CountsIInv /\ [L1Next]_vars => CountsIInv'
  <2> SUFFICES ASSUME CountsIInv, [L1Next]_vars PROVE CountsIInv'
    BY Zenon
  <2>1. TypeOK' /\ IndexInv'
    BY TypeHarvesting, TypeAggregateBatch, TypeStutter, Zenon DEF L1Next, CountsIInv
  <2>2. LockInv'
    BY LockNext, Zenon DEF CountsIInv
  <2>3. StatsInv' /\ CountInv'
    BY CountHarvesting, CountAggregateBatch, CountStutter, Zenon DEF L1Next, CountsIInv
  <2> QED BY <2>1, <2>2, <2>3, Zenon DEF CountsIInv
<1>3. CountsIInv => CountsConserved
  BY CountInvExact, Zenon DEF CountsIInv
<1> QED BY <1>1, <1>2, <1>3, PTL DEF L1Spec

\* The same holds of the events that the l2 aggregator counts from partial metrics.
THEOREM L2CountsConserved == L2Spec => []CountsConserved
<1>1. Init => CountsIInv
  BY TypeInit, LockInit, CountInit, Zenon DEF CountsIInv
<1>2. CountsIInv /\ [L2Next]_vars => CountsIInv'
  <2> SUFFICES ASSUME CountsIInv, [L2Next]_vars PROVE CountsIInv'
    BY Zenon
  <2>1. TypeOK' /\ IndexInv'
    BY TypeHarvesting, TypeAggregateCombinedMetrics, TypeStutter, Zenon DEF L2Next, CountsIInv
  <2>2. LockInv'
    BY LockNext, Zenon DEF CountsIInv
  <2>3. StatsInv' /\ CountInv'
    BY CountHarvesting, CountAggregateCombinedMetrics, CountStutter, Zenon DEF L2Next, CountsIInv
  <2> QED BY <2>1, <2>2, <2>3, Zenon DEF CountsIInv
<1>3. CountsIInv => CountsConserved
  BY CountInvExact, Zenon DEF CountsIInv
<1> QED BY <1>1, <1>2, <1>3, PTL DEF L2Spec
=============================================================================
