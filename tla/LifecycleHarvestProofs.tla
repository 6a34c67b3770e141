------------------------ MODULE LifecycleHarvestProofs -----------------------
(***************************************************************************)
(* For every value of the constants, Run harvests what is stored in every  *)
(* window that was open when New was called.                               *)
(***************************************************************************)
EXTENDS LifecycleProofs

-----------------------------------------------------------------------------
(* What is harvested: the invariant. *)

\* Processing times are boundaries of the lowest interval, keys are stamped with a boundary
\* of their interval, Run is one lowest interval ahead until it moves the processing time,
\* and it moves it the harvest delay late.
TimesInv ==
  /\ born \in Nat
  /\ processingTime % Lowest = 0
  /\ \A o \in issued : o.pt % o.ivl = 0
  /\ pc[Runner] \in {"select", "lock"} => to = processingTime + Lowest
  /\ pc[Runner] \in {"commit", "snapshot", "harvest", "delete"} => to = processingTime
  /\ processingTime = born \/ processingTime + HarvestDelay <= now

\* The harvest of Run has yet to come to the interval of o, whose window ends now.
Awaited(o) ==
  /\ o.pt + o.ivl = processingTime
  /\ \/ pc[Runner] \in {"commit", "snapshot"}
     \/ \E j \in DOMAIN AggregationIntervals :
           /\ o.ivl = AggregationIntervals[j]
           /\ \/ pc[Runner] = "harvest" /\ hIdx[Runner] <= j
              \/ pc[Runner] = "delete" /\ hIdx[Runner] < j

\* An item that is not settled belongs to a window that is open, that Run is about to
\* harvest, or that had ended when New was called.
StrandInv ==
  up => \A o \in Pending : processingTime < o.pt + o.ivl \/ Awaited(o) \/ o.pt + o.ivl <= born

\* The final harvest of c has yet to come to the interval of o.
ToFinish(c, o) ==
  \E j \in DOMAIN AggregationIntervals :
     /\ o.ivl = AggregationIntervals[j]
     /\ \/ closeIdx[c] < j
        \/ closeIdx[c] = j /\ pc[c] = "final"
        \/ closeIdx[c] = j /\ pc[c] = "harvest" /\ hIdx[c] <= j
        \/ closeIdx[c] = j /\ pc[c] = "delete" /\ hIdx[c] < j

\* Close goes through the current window of every interval.
FinalOf(c) ==
  /\ pc[c] # "idle" => closed
  /\ pc[c] \in {"idle", "wait", "commit"} => closeIdx[c] = 1
  /\ pc[c] \in {"final", "harvest", "delete"} =>
        /\ dbOpen /\ batch = {}
        /\ \A o \in db \ Settled : o.pt = KeyTime(o.ivl) => ToFinish(c, o)
  /\ pc[c] \in {"harvest", "delete"} => hEnd[c] = FinalEnd(AggregationIntervals[closeIdx[c]])

FinalInv == \A c \in Closers : FinalOf(c)

\* When Close has closed the database, Run has nothing to harvest there: it may be called
\* even then, and panics at the end of the current window.
ClosedInv ==
  up /\ ~dbOpen =>
     /\ closed /\ batch = {} /\ runBatch = {}
     /\ pc[Runner] \notin {"harvest", "delete"}
     /\ \A o \in db \ Settled :
           /\ ~Awaited(o)
           /\ pc[Runner] \in {"idle", "select", "lock", "returned"} => o.pt # KeyTime(o.ivl)

-----------------------------------------------------------------------------
(* What the steps leave alone. *)

\* Close leaves the clock, the batch of Run and the other goroutines alone.
LEMMA CloseLeaves ==
  ASSUME LifeBase, NEW c \in Closers, CloseBegin(c) \/ CloseStep(c)
  PROVE  /\ UNCHANGED <<now, processingTime, issued, to, runBatch>>
         /\ \A q \in Procs : q # c => pc'[q] = pc[q] /\ hIdx'[q] = hIdx[q]
         /\ \A d \in Closers : d # c => closeIdx'[d] = closeIdx[d]
         /\ pc'[Runner] = pc[Runner] /\ hIdx'[Runner] = hIdx[Runner]
<1> USE DEF LifeBase, TypeOK, Procs, harvestVars, closeVars, inputVars
<1> Runner \notin Closers
  BY ConstantsAssumption, Zenon
<1>1. CASE CloseBegin(c)
  BY <1>1, Zenon DEF CloseBegin
<1>2. CASE CloseRunStopped(c)
  BY <1>2, Zenon DEF CloseRunStopped
<1>3. CASE CloseCtxDone(c)
  BY <1>3, Zenon DEF CloseCtxDone
<1>4. CASE CloseAgain(c)
  BY <1>4, Zenon DEF CloseAgain
<1>5. CASE CloseCommit(c)
  BY <1>5, Zenon DEF CloseCommit
<1>6. CASE CloseHarvest(c)
  BY <1>6, Zenon DEF CloseHarvest
<1>7. CASE CloseNext(c)
  BY <1>7, Zenon DEF CloseNext
<1>8. CASE CloseReturn(c)
  BY <1>8, Zenon DEF CloseReturn
<1>9. CASE HarvestSkip(c)
  BY <1>9, Zenon DEF HarvestSkip
<1>10. CASE HarvestForInterval(c)
  BY <1>10, Zenon DEF HarvestForInterval
<1>11. CASE DeleteRange(c)
  BY <1>11, Zenon DEF DeleteRange
<1> QED
  BY <1>1, <1>2, <1>3, <1>4, <1>5, <1>6, <1>7, <1>8, <1>9, <1>10, <1>11, Zenon DEF CloseStep, HarvestStep

\* The harvest of Run leaves the clock, the batches and Close alone.
LEMMA RunHarvestLeaves ==
  ASSUME LifeBase, HarvestStep(Runner)
  PROVE  /\ UNCHANGED <<now, processingTime, issued, to, runBatch, batch, closed, dbOpen, closeIdx>>
         /\ pc[Runner] \in {"harvest", "delete"} /\ pc'[Runner] \in {"harvest", "delete"}
         /\ \A c \in Closers : pc'[c] = pc[c] /\ hIdx'[c] = hIdx[c] /\ hEnd'[c] = hEnd[c]
<1> USE DEF LifeBase, TypeOK, Procs, harvestVars, closeVars, inputVars
<1> Runner \notin Closers
  BY ConstantsAssumption, Zenon
<1>1. CASE HarvestSkip(Runner)
  BY <1>1, Zenon DEF HarvestSkip
<1>2. CASE HarvestForInterval(Runner)
  BY <1>2, Zenon DEF HarvestForInterval
<1>3. CASE DeleteRange(Runner)
  BY <1>3, Zenon DEF DeleteRange
<1> QED BY <1>1, <1>2, <1>3, Zenon DEF HarvestStep

\* The steps of Run between two harvests, and of the clock.
Between == Tick \/ Run \/ RunReturn \/ RunTimer \/ RunNext \/ UNCHANGED vars

\* They move neither the processing time nor an item, and Run is not harvesting after them.
LEMMA BetweenLeaves ==
  ASSUME LifeBase, Between
  PROVE  /\ UNCHANGED <<processingTime, issued, batch, runBatch, db, delivered, dropped, closed,
                        dbOpen, closeIdx, hIdx, hEnd>>
         /\ now' \in Nat /\ now <= now'
         /\ \A c \in Closers : pc'[c] = pc[c]
         /\ \/ pc'[Runner] = pc[Runner] /\ to' = to
            \/ pc[Runner] = "idle" /\ pc'[Runner] = "select" /\ to' = processingTime + Lowest
            \/ pc[Runner] = "select" /\ pc'[Runner] \in {"lock", "returned"} /\ to' = to
            \/ HarvestOver(Runner) /\ pc'[Runner] = "select" /\ to' = to + Lowest
<1> USE DEF LifeBase, TypeOK, Procs, harvestVars, closeVars, outputVars, inputVars
<1> Runner \notin Closers
  BY ConstantsAssumption, Zenon
<1>1. CASE Tick
  BY <1>1 DEF Tick
<1>2. CASE Run
  BY <1>2 DEF Run
<1>3. CASE RunReturn
  BY <1>3, SMTT(30) DEF RunReturn
<1>4. CASE RunTimer
  BY <1>4, SMTT(30) DEF RunTimer
<1>5. CASE RunNext
  BY <1>5 DEF RunNext, HarvestOver
<1>6. CASE UNCHANGED vars
  BY <1>6 DEF vars
<1> QED BY <1>1, <1>2, <1>3, <1>4, <1>5, <1>6, Zenon DEF Between

\* Run takes the batch and moves the processing time.
LEMMA SwapStep ==
  ASSUME LifeBase, RunSwap
  PROVE  /\ pc[Runner] = "lock" /\ pc'[Runner] = "commit" /\ processingTime' = to /\ mu = Free
         /\ runBatch' = batch /\ batch' = {}
         /\ \A c \in Closers : pc'[c] = pc[c] /\ hEnd'[c] = hEnd[c]
         /\ UNCHANGED <<now, to, issued, db, delivered, dropped, closed, dbOpen, closeIdx, hIdx>>
<1> USE DEF LifeBase, TypeOK, Procs, harvestVars, closeVars, outputVars, inputVars
<1> Runner \notin Closers
  BY ConstantsAssumption, Zenon
<1> QED BY Zenon DEF RunSwap

\* Run commits the batch that it has taken, or loses it, and takes the snapshot unless the
\* database is closed.
LEMMA CommitStep ==
  ASSUME LifeBase, RunCommit \/ RunSnapshot
  PROVE  /\ pc[Runner] \in {"commit", "snapshot"}
         /\ \/ pc'[Runner] = "snapshot" /\ hIdx' = hIdx
            \/ dbOpen /\ pc'[Runner] = "harvest" /\ hIdx'[Runner] = 1
            \/ ~dbOpen /\ pc'[Runner] = "panicked"
         /\ db' \subseteq db \cup runBatch /\ runBatch' \subseteq runBatch /\ Pending' \subseteq Pending
         /\ \A c \in Closers : pc'[c] = pc[c] /\ hIdx'[c] = hIdx[c]
         /\ UNCHANGED <<now, to, processingTime, issued, batch, closed, dbOpen, closeIdx, hEnd>>
<1> USE DEF LifeBase, TypeOK, Procs, harvestVars, closeVars, outputVars, inputVars
<1> Runner \notin Closers
  BY ConstantsAssumption, Zenon
<1>1. CASE RunCommit
  BY <1>1, Zenon DEF RunCommit, Pending, Settled
<1>2. CASE RunSnapshot
  BY <1>2, Zenon DEF RunSnapshot, Pending, Settled
<1> QED BY <1>1, <1>2, Zenon

\* The steps of a live aggregator, once more.
LEMMA LiveKinds ==
  ASSUME Live
  PROVE  /\ up /\ up' = up /\ born' = born
         /\ \/ Between
            \/ RunSwap \/ RunCommit \/ RunSnapshot \/ HarvestStep(Runner)
            \/ \E c \in Closers : CloseBegin(c) \/ CloseStep(c)
            \/ \E o \in [ivl : Intervals, pt : 0 .. now, id : IDs, part : Partitions, ev : Events] :
                  AggregateCombinedMetrics(o)
BY Zenon DEF Live, L2Next, Harvesting, RunStep, Between, lifeVars

-----------------------------------------------------------------------------
(* The clock. *)

\* An item is of one of the intervals, a multiple of the lowest one, and ends at a boundary
\* of both.
LEMMA ItemTimes ==
  ASSUME LifeBase, TimesInv, NEW o \in issued
  PROVE  /\ o \in Item /\ o.pt \in Nat /\ o.ivl \in Intervals /\ o.ivl \in Nat \ {0}
         /\ o.pt % o.ivl = 0 /\ (o.pt + o.ivl) % o.ivl = 0 /\ (o.pt + o.ivl) % Lowest = 0
<1>1. o \in Item
  BY Zenon DEF LifeBase, TypeOK
<1>2. o.ivl \in Intervals /\ o.pt \in Nat /\ o.ivl \in Nat \ {0} /\ o.pt % o.ivl = 0
  BY <1>1, IntervalsNat, Zenon DEF Item, TimesInv
<1>3. o.ivl % Lowest = 0 /\ Lowest \in Nat \ {0}
  BY <1>2, IntervalsAssumption, IntervalsNat, Zenon DEF Intervals
<1>4. o.ivl % o.ivl = 0
  BY <1>2, Z3
<1>5. (o.pt + o.ivl) % o.ivl = 0
  BY <1>2, <1>4, SumOfMultiples, Zenon
<1>6. o.pt + o.ivl \in Nat
  BY <1>2
<1>7. (o.pt + o.ivl) % Lowest = 0
  BY <1>2, <1>3, <1>5, <1>6, MultipleOfMultiple, Zenon
<1> QED BY <1>1, <1>2, <1>5, <1>7, Zenon

\* Only Run, one lowest interval at a time, and New move the processing time.
LEMMA TimesLive ==
  ASSUME LifeBase, PlacesInv, LateInv, TimesInv, Live
  PROVE  TimesInv'
<1>0. /\ processingTime \in Nat /\ now \in Nat /\ to \in Nat /\ HarvestDelay \in Nat
      /\ Lowest \in Nat \ {0} /\ Runner \in Procs /\ born' = born
  BY LiveKinds, IntervalsNat, ConstantsAssumption, Zenon DEF LifeBase, TypeOK, Procs
<1>1. ASSUME NEW c \in Closers, CloseBegin(c) \/ CloseStep(c) PROVE TimesInv'
  BY <1>0, <1>1, CloseLeaves, Zenon DEF TimesInv
<1>2. CASE HarvestStep(Runner)
  BY <1>0, <1>2, RunHarvestLeaves, Zenon DEF TimesInv
<1>3. CASE Between
  <2>1. /\ UNCHANGED <<processingTime, issued>> /\ now' \in Nat /\ now <= now'
        /\ \/ pc'[Runner] = pc[Runner] /\ to' = to
           \/ pc[Runner] = "idle" /\ pc'[Runner] = "select" /\ to' = processingTime + Lowest
           \/ pc[Runner] = "select" /\ pc'[Runner] \in {"lock", "returned"} /\ to' = to
           \/ pc[Runner] = "harvest" /\ pc'[Runner] = "select" /\ to' = to + Lowest
    BY <1>3, BetweenLeaves, Zenon DEF HarvestOver
  <2>2. processingTime = born \/ processingTime + HarvestDelay <= now'
    BY <1>0, <2>1 DEF TimesInv
  <2>3. pc'[Runner] \in {"select", "lock"} => to' = processingTime + Lowest
    BY <2>1 DEF TimesInv
  <2>4. pc'[Runner] \in {"commit", "snapshot", "harvest", "delete"} => to' = processingTime
    BY <2>1, Zenon DEF TimesInv
  <2> QED BY <1>0, <2>1, <2>2, <2>3, <2>4, Zenon DEF TimesInv
<1>4. CASE RunSwap
  <2>1. /\ to = processingTime + Lowest /\ processingTime' = to /\ UNCHANGED <<now, to, issued>>
        /\ pc[Runner] = "lock" /\ pc'[Runner] = "commit" /\ now >= to + HarvestDelay
    BY <1>4, SwapStep, Zenon DEF TimesInv, LateInv
  <2>2. Lowest % Lowest = 0
    BY <1>0, Z3
  <2>3. (processingTime + Lowest) % Lowest = 0
    BY <1>0, <2>2, SumOfMultiples, Zenon DEF TimesInv
  <2>4. processingTime' + HarvestDelay <= now'
    BY <1>0, <2>1, Zenon
  <2> QED BY <1>0, <2>1, <2>3, <2>4, Zenon DEF TimesInv
<1>5. CASE RunCommit \/ RunSnapshot
  <2>1. /\ UNCHANGED <<now, to, processingTime, issued>> /\ pc[Runner] \in {"commit", "snapshot"}
        /\ pc'[Runner] \in {"snapshot", "harvest", "panicked"}
    BY <1>5, CommitStep, Zenon
  <2> QED BY <1>0, <2>1, Zenon DEF TimesInv
<1>6. ASSUME NEW o \in [ivl : Intervals, pt : 0 .. now, id : IDs, part : Partitions, ev : Events],
             AggregateCombinedMetrics(o)
      PROVE  TimesInv'
  <2>1. issued' = issued \cup {o} /\ PeerItem(o) /\ UNCHANGED <<now, pc, to>>
    BY <1>6, WriteStep, Zenon
  <2>2. UNCHANGED processingTime /\ o.pt % o.ivl = 0
    BY <1>6, <2>1, Zenon DEF AggregateCombinedMetrics, PeerItem
  <2> QED BY <1>0, <2>1, <2>2, Zenon DEF TimesInv
<1> QED BY <1>1, <1>2, <1>3, <1>4, <1>5, <1>6, LiveKinds, Zenon

\* New takes the processing time from the clock; the end of a process leaves it.
LEMMA TimesNext ==
  ASSUME LifeBase, PlacesInv, LateInv, TimesInv, [LifeNext]_allVars
  PROVE  TimesInv'
<1>0. /\ processingTime \in Nat /\ now \in Nat /\ HarvestDelay \in Nat
      /\ Lowest \in Nat \ {0} /\ Runner \in Procs
  BY IntervalsNat, ConstantsAssumption, Zenon DEF LifeBase, TypeOK, Procs
<1>1. CASE Down \/ UNCHANGED allVars
  <2>1. /\ UNCHANGED <<processingTime, issued, pc, to, born>> /\ now' \in Nat /\ now <= now'
    BY <1>0, <1>1 DEF Down, Tick, allVars, vars, lifeVars, inputVars
  <2>2. processingTime = born \/ processingTime + HarvestDelay <= now'
    BY <1>0, <2>1 DEF TimesInv
  <2> QED BY <2>1, <2>2, Zenon DEF TimesInv
<1>2. CASE Crash
  <2>1. UNCHANGED <<now, processingTime, issued, born>> /\ pc'[Runner] = "idle"
    BY <1>0, <1>2, Zenon DEF Crash, inputVars
  <2> QED BY <2>1, Zenon DEF TimesInv
<1>3. CASE New
  <2>1. /\ UNCHANGED <<now, issued, pc, to>> /\ pc[Runner] = "idle"
        /\ processingTime' = Truncate(now, Lowest) /\ born' = processingTime'
    BY <1>0, <1>3, Zenon DEF New, inputVars, LifeBase, DownInv
  <2>2. processingTime' \in Nat /\ processingTime' % Lowest = 0
    BY <1>0, <2>1, TruncateBounds, Zenon
  <2> QED BY <2>1, <2>2, Zenon DEF TimesInv
<1> QED BY <1>1, <1>2, <1>3, TimesLive, Zenon DEF LifeNext

-----------------------------------------------------------------------------
(* What is not settled is ahead, awaited, or was behind when New was called. *)

\* The items an aggregator has were issued.
LEMMA PendingIssued ==
  ASSUME PlacesInv
  PROVE  Pending \subseteq issued /\ db \subseteq issued /\ (pc[Runner] # "commit" => runBatch = {})
BY Zenon DEF PlacesInv, Pending

\* What Run has yet to harvest depends on the processing time and on Run alone.
LEMMA AwaitedSame ==
  ASSUME UNCHANGED processingTime, pc'[Runner] = pc[Runner], hIdx'[Runner] = hIdx[Runner]
  PROVE  \A o : Awaited(o)' <=> Awaited(o)
BY Zenon DEF Awaited

\* Steps that bring no item and pass over none that Run has to harvest.
LEMMA StrandKept ==
  ASSUME StrandInv, up, UNCHANGED <<processingTime, born>>, Pending' \subseteq Pending,
         \A o \in Pending' : Awaited(o) => Awaited(o)'
  PROVE  StrandInv'
BY Zenon DEF StrandInv

\* A window that ends when Run harvests is one that this harvest covers.
LEMMA AwaitedCovered ==
  ASSUME LifeBase, TimesInv, LateInv, NEW o \in issued, o.pt + o.ivl = processingTime,
         pc[Runner] \in {"harvest", "delete"}
  PROVE  hEnd[Runner] = processingTime /\ Due(hEnd[Runner], o.ivl) /\ Covers(Runner, o)
<1>1. hEnd[Runner] = processingTime
  BY Zenon DEF TimesInv, LateInv
<1>2. /\ o.pt \in Nat /\ o.ivl \in Nat \ {0} /\ processingTime \in Nat
      /\ processingTime % o.ivl = 0
  BY ItemTimes, Zenon DEF LifeBase, TypeOK
<1>3. Due(processingTime, o.ivl)
  BY <1>2 DEF Due, Truncate
<1>4. processingTime - o.ivl <= o.pt /\ o.pt < processingTime
  BY <1>2
<1> QED BY <1>1, <1>3, <1>4, Zenon DEF Covers, InWindow

\* Run passes an interval only when no window of it ends now, or when it has delivered the
\* window or reported it lost.
LEMMA StrandHarvest ==
  ASSUME LifeBase, "iterate" \notin Faults, PlacesInv, LateInv, CoveredInv, TimesInv, StrandInv, up,
         born' = born, HarvestStep(Runner)
  PROVE  StrandInv'
<1>0. Runner \in Procs /\ hIdx[Runner] \in Nat /\ \A j \in DOMAIN AggregationIntervals : j \in Nat
  BY IntervalsNat DEF Procs, LifeBase, TypeOK
<1>1. /\ UNCHANGED <<processingTime, runBatch, batch>> /\ runBatch = {}
      /\ pc[Runner] \in {"harvest", "delete"}
  BY RunHarvestLeaves, PendingIssued, Zenon
<1>2. db' \subseteq db /\ Settled \subseteq Settled' /\ CoveredInv'
  <2>1. db' \subseteq db
    BY Zenon DEF HarvestStep, HarvestSkip, HarvestForInterval, DeleteRange, Remaining
  <2> QED BY <1>0, <2>1, CoveredHarvest, Zenon
<1>3. Pending' \subseteq Pending
  BY <1>1, <1>2, Zenon DEF Pending
<1>4. ASSUME NEW o \in Pending', Awaited(o) PROVE Awaited(o)'
  <2>1. o \in issued /\ o \notin Settled' /\ o.pt + o.ivl = processingTime
    BY <1>3, <1>4, PendingIssued, Zenon DEF Awaited, Pending
  <2>2. hEnd[Runner] = processingTime /\ Due(hEnd[Runner], o.ivl) /\ Covers(Runner, o)
    BY <1>1, <2>1, AwaitedCovered, Zenon
  <2>3. PICK j \in DOMAIN AggregationIntervals :
           /\ o.ivl = AggregationIntervals[j]
           /\ \/ pc[Runner] = "harvest" /\ hIdx[Runner] <= j
              \/ pc[Runner] = "delete" /\ hIdx[Runner] < j
    BY <1>1, <1>4, Zenon DEF Awaited
  <2>4. CASE HarvestSkip(Runner)
    <3>1. /\ pc[Runner] = "harvest" /\ pc'[Runner] = "harvest" /\ hIdx'[Runner] = hIdx[Runner] + 1
          /\ ~Due(hEnd[Runner], AggregationIntervals[hIdx[Runner]])
      BY <1>0, <2>4, Zenon DEF HarvestSkip, HarvestIvl, LifeBase, TypeOK
    <3>2. hIdx[Runner] # j /\ hIdx[Runner] <= j
      BY <2>2, <2>3, <3>1, Zenon
    <3>3. hIdx'[Runner] <= j
      BY <1>0, <3>1, <3>2, IndexPast, Zenon
    <3> QED BY <1>1, <2>1, <2>3, <3>1, <3>3, Zenon DEF Awaited
  <2>5. CASE HarvestForInterval(Runner)
    <3>1. pc[Runner] = "harvest" /\ pc'[Runner] = "delete" /\ UNCHANGED <<hIdx, hEnd, db>>
      BY <1>0, <2>5, Zenon DEF HarvestForInterval, LifeBase, TypeOK
    <3>2. o \in db
      <4>1. o \notin batch
        BY <1>1, <2>2, Zenon DEF LateInv
      <4> QED BY <1>1, <1>3, <4>1, Zenon DEF Pending
    <3>3. hIdx[Runner] # j
      <4> SUFFICES ASSUME hIdx[Runner] = j PROVE FALSE
        BY Zenon
      <4>1. HarvestIvl(Runner)' = o.ivl /\ InWindow(o, o.ivl, hEnd[Runner])
        BY <2>2, <2>3, <3>1, Zenon DEF HarvestIvl, Covers
      <4>2. InWindow(o, HarvestIvl(Runner), hEnd[Runner])'
        BY <3>1, <4>1, Zenon DEF InWindow
      <4> QED BY <1>0, <1>2, <2>1, <3>1, <3>2, <4>2, Zenon DEF CoveredInv
    <3>4. hIdx[Runner] < j
      BY <1>0, <2>3, <3>1, <3>3
    <3> QED BY <1>1, <2>1, <2>3, <3>1, <3>4, Zenon DEF Awaited
  <2>6. CASE DeleteRange(Runner)
    <3>1. pc[Runner] = "delete" /\ pc'[Runner] = "harvest" /\ hIdx'[Runner] = hIdx[Runner] + 1
      BY <1>0, <2>6, Zenon DEF DeleteRange, LifeBase, TypeOK
    <3>2. hIdx'[Runner] <= j
      BY <1>0, <2>3, <3>1
    <3> QED BY <1>1, <2>1, <2>3, <3>1, <3>2, Zenon DEF Awaited
  <2> QED BY <2>4, <2>5, <2>6, Zenon DEF HarvestStep
<1> QED BY <1>1, <1>3, <1>4, StrandKept, Zenon

\* When Run moves the processing time, the windows that end there are the ones it
\* harvests next.
LEMMA StrandSwap ==
  ASSUME LifeBase, PlacesInv, TimesInv, StrandInv, up, born' = born, RunSwap
  PROVE  StrandInv'
<1>1. /\ pc[Runner] = "lock" /\ pc'[Runner] = "commit" /\ processingTime' = processingTime + Lowest
      /\ Pending' = Pending
  BY SwapStep, PendingIssued, Zenon DEF TimesInv, Pending, Settled
<1>2. ASSUME NEW o \in Pending'
      PROVE  processingTime' < o.pt + o.ivl \/ Awaited(o)' \/ o.pt + o.ivl <= born'
  <2>1. o \in issued /\ ~Awaited(o)
    BY <1>1, PendingIssued, Zenon DEF Awaited
  <2>2. CASE o.pt + o.ivl <= born
    BY <2>2, Zenon
  <2>3. CASE processingTime < o.pt + o.ivl
    <3>1. o.pt + o.ivl \in Nat /\ (o.pt + o.ivl) % Lowest = 0
      BY <2>1, ItemTimes
    <3>2. processingTime \in Nat /\ Lowest \in Nat \ {0} /\ processingTime % Lowest = 0
      BY IntervalsNat, Zenon DEF TimesInv, LifeBase, TypeOK
    <3>3. processingTime + Lowest <= o.pt + o.ivl
      BY <2>3, <3>1, <3>2, NextMultiple, Zenon
    <3>4. processingTime' < o.pt + o.ivl \/ o.pt + o.ivl = processingTime'
      BY <1>1, <3>1, <3>2, <3>3
    <3> QED BY <1>1, <3>4, Zenon DEF Awaited
  <2> QED BY <1>1, <2>1, <2>2, <2>3, Zenon DEF StrandInv
<1> QED BY <1>2, Zenon DEF StrandInv

\* Run harvests every interval.
LEMMA StrandCommit ==
  ASSUME LifeBase, PlacesInv, TimesInv, StrandInv, ClosedInv, up, born' = born, RunCommit \/ RunSnapshot
  PROVE  StrandInv'
<1>1. /\ pc[Runner] \in {"commit", "snapshot"} /\ UNCHANGED <<processingTime, batch>>
      /\ Pending' \subseteq Pending
      /\ \/ pc'[Runner] = "snapshot"
         \/ dbOpen /\ pc'[Runner] = "harvest" /\ hIdx'[Runner] = 1
         \/ ~dbOpen /\ pc'[Runner] = "panicked"
  BY CommitStep, Zenon
<1>2. ASSUME NEW o \in Pending', Awaited(o) PROVE Awaited(o)'
  <2>1. o.pt + o.ivl = processingTime
    BY <1>2, Zenon DEF Awaited
  <2>2. CASE pc'[Runner] = "snapshot"
    BY <1>1, <2>1, <2>2, Zenon DEF Awaited
  <2>3. CASE pc'[Runner] = "harvest" /\ hIdx'[Runner] = 1
    <3>1. o.ivl \in Intervals
      BY <1>1, PendingIssued, ItemTimes, Zenon
    <3>2. PICK j \in DOMAIN AggregationIntervals : 1 <= j /\ o.ivl = AggregationIntervals[j]
      BY <3>1, IntervalIndex, Zenon
    <3> QED BY <1>1, <2>1, <2>3, <3>2, Zenon DEF Awaited
  <2>4. CASE ~dbOpen
    BY <1>1, <1>2, <2>4, Zenon DEF ClosedInv, Pending
  <2> QED BY <1>1, <2>2, <2>3, <2>4, Zenon
<1> QED BY <1>1, <1>2, StrandKept, Zenon

\* The final harvest settles what it deletes, and Run is not harvesting.
LEMMA StrandClose ==
  ASSUME LifeBase, "iterate" \notin Faults, CoveredInv, StrandInv, up, born' = born,
         NEW c \in Closers, CloseBegin(c) \/ CloseStep(c)
  PROVE  StrandInv'
<1> USE DEF outputVars
<1>1. \A o : Awaited(o)' <=> Awaited(o)
  BY CloseLeaves, AwaitedSame, Zenon
<1>2. Pending' \subseteq Pending
  <2>0. runBatch' = runBatch
    BY CloseLeaves, Zenon
  <2>1. CASE HarvestStep(c)
    <3>1. c \in Procs
      BY Zenon DEF Procs
    <3>2. db' \subseteq db /\ batch' = batch
      BY <2>1, Zenon DEF HarvestStep, HarvestSkip, HarvestForInterval, DeleteRange, Remaining
    <3> QED BY <2>0, <2>1, <3>1, <3>2, CoveredHarvest, Zenon DEF Pending
  <2>2. CASE CloseCommit(c)
    BY <2>2, Zenon DEF CloseCommit, Pending, Settled
  <2>3. CASE CloseBegin(c) \/ CloseRunStopped(c) \/ CloseCtxDone(c) \/ CloseAgain(c)
    <3>1. UNCHANGED <<batch, db, delivered, dropped>>
      BY <2>3, Zenon DEF CloseBegin, CloseRunStopped, CloseCtxDone, CloseAgain
    <3> QED BY <2>0, <3>1, Zenon DEF Pending, Settled
  <2>4. CASE CloseHarvest(c) \/ CloseNext(c) \/ CloseReturn(c)
    <3>1. UNCHANGED <<batch, db, delivered, dropped>>
      BY <2>4, Zenon DEF CloseHarvest, CloseNext, CloseReturn
    <3> QED BY <2>0, <3>1, Zenon DEF Pending, Settled
  <2> QED BY <2>1, <2>2, <2>3, <2>4, Zenon DEF CloseStep
<1> QED BY <1>1, <1>2, CloseLeaves, StrandKept, Zenon

\* What a peer sends is of a window that is open, or had ended when New was called: Run
\* moves the processing time the harvest delay late.
LEMMA StrandWrite ==
  ASSUME LifeBase, Punctual, PlacesInv, TimesInv, StrandInv, up, born' = born,
         NEW o \in [ivl : Intervals, pt : 0 .. now, id : IDs, part : Partitions, ev : Events],
         AggregateCombinedMetrics(o)
  PROVE  StrandInv'
<1>1. /\ o \in Item /\ PeerItem(o) /\ UNCHANGED <<pc, hIdx, runBatch, delivered, dropped>>
      /\ batch' \cup db' \subseteq batch \cup db \cup {o}
  BY WriteStep, Zenon
<1>2. UNCHANGED processingTime
  BY Zenon DEF AggregateCombinedMetrics
<1>3. Pending' \subseteq Pending \cup {o}
  BY <1>1, Zenon DEF Pending, Settled
<1>4. \A q : Awaited(q)' <=> Awaited(q)
  BY <1>1, <1>2, AwaitedSame, Zenon
<1>5. processingTime < o.pt + o.ivl \/ o.pt + o.ivl <= born
  <2>1. /\ processingTime \in Nat /\ now \in Nat /\ born \in Nat /\ o.pt \in Nat /\ o.ivl \in Nat
        /\ MaxLag \in Nat /\ HarvestDelay \in Nat /\ MaxLag < HarvestDelay
    BY <1>1, IntervalsNat, ConstantsAssumption, Zenon DEF LifeBase, TypeOK, TimesInv, Item, Punctual
  <2>2. now <= o.pt + o.ivl + MaxLag /\ (processingTime = born \/ processingTime + HarvestDelay <= now)
    BY <1>1, Zenon DEF PeerItem, TimesInv
  <2> QED BY <2>1, <2>2
<1> QED BY <1>2, <1>3, <1>4, <1>5, Zenon DEF StrandInv

\* Every step keeps the invariant: New begins with all that is stored ahead or behind.
LEMMA StrandNext ==
  ASSUME LifeBase, "iterate" \notin Faults, Punctual, PlacesInv, LateInv, CoveredInv, TimesInv,
         StrandInv, ClosedInv, [LifeNext]_allVars
  PROVE  StrandInv'
<1>0. Runner \in Procs /\ processingTime \in Nat /\ hIdx[Runner] \in 1 .. Len(AggregationIntervals) + 1
  BY Zenon DEF LifeBase, TypeOK, Procs
<1>1. CASE Live
  <2>1. up /\ up' = up /\ born' = born
    BY <1>1, LiveKinds, Zenon
  <2>2. CASE Between
    <3>1. /\ UNCHANGED <<processingTime, hIdx>> /\ Pending' = Pending
          /\ \/ pc'[Runner] = pc[Runner]
             \/ pc[Runner] \in {"idle", "select"}
             \/ HarvestOver(Runner)
      BY <2>2, BetweenLeaves, Zenon DEF Pending, Settled
    <3>2. CASE pc'[Runner] = pc[Runner]
      BY <2>1, <3>1, <3>2, AwaitedSame, StrandKept, Zenon
    <3>3. CASE pc[Runner] \in {"idle", "select"}
      BY <2>1, <3>1, <3>3, StrandKept, Zenon DEF Awaited
    <3>4. CASE HarvestOver(Runner)
      <4>1. pc[Runner] = "harvest" /\ \A j \in DOMAIN AggregationIntervals : ~(hIdx[Runner] <= j)
        BY <1>0, <3>4, IndexOver, Zenon DEF HarvestOver
      <4>2. \A o : ~Awaited(o)
        BY <4>1, Zenon DEF Awaited
      <4> QED BY <2>1, <3>1, <4>2, StrandKept, Zenon
    <3> QED BY <3>1, <3>2, <3>3, <3>4, Zenon
  <2> QED BY <1>1, <2>1, <2>2, LiveKinds, StrandSwap, StrandCommit, StrandHarvest, StrandClose, StrandWrite, Zenon
<1>2. CASE UNCHANGED allVars
  <2>1. UNCHANGED <<processingTime, pc, hIdx, batch, runBatch, db, delivered, dropped, up, born>>
    BY <1>2, Zenon DEF allVars, vars, lifeVars, harvestVars, outputVars
  <2>2. Pending' = Pending
    BY <2>1, Zenon DEF Pending, Settled
  <2>3. \A o : Awaited(o)' <=> Awaited(o)
    BY <2>1, AwaitedSame, Zenon
  <2> QED BY <2>1, <2>2, <2>3, Zenon DEF StrandInv
<1>3. CASE Down \/ Crash
  BY <1>3, Zenon DEF Down, Crash, lifeVars, StrandInv
<1>4. CASE New
  <2>1. /\ UNCHANGED <<batch, runBatch, db, delivered, dropped>>
        /\ processingTime' = Truncate(now, Lowest) /\ born' = processingTime'
    BY <1>4, Zenon DEF New, outputVars
  <2>2. Pending' = Pending
    BY <2>1, Zenon DEF Pending, Settled
  <2>3. processingTime' \in Nat
    BY <2>1, IntervalsNat, TruncateBounds, Zenon DEF LifeBase, TypeOK
  <2>4. ASSUME NEW o \in Pending' PROVE processingTime' < o.pt + o.ivl \/ o.pt + o.ivl <= born'
    <3>1. o.pt + o.ivl \in Nat
      BY <2>2, PendingIssued, ItemTimes
    <3> QED BY <2>1, <2>3, <3>1
  <2> QED BY <2>4, Zenon DEF StrandInv
<1> QED BY <1>1, <1>2, <1>3, <1>4, Zenon DEF LifeNext

-----------------------------------------------------------------------------
(* Close goes through the current windows. *)

\* A call of Close that harvests is alone, and Run is not harvesting.
LEMMA FinalAlone ==
  ASSUME LifeBase, NEW c \in Closers
  PROVE  /\ mu = Free => pc[c] \notin {"final", "harvest", "delete"}
         /\ \A d \in Closers : mu = d /\ d # c => pc[c] \notin {"final", "harvest", "delete"}
         /\ Busy(Runner) => pc[c] \notin {"final", "harvest", "delete"}
         /\ pc[c] \in {"final", "harvest", "delete"} => pc[Runner] \in {"idle", "returned"}
<1>1. Free \notin Closers
  BY ProcsAssumption, Zenon DEF Procs
<1> QED BY <1>1, Zenon DEF LifeBase, LockInv, Busy

\* The current window of an interval is the one that its final harvest covers.
LEMMA FinalCovered ==
  ASSUME LifeBase, NEW c \in Procs, NEW ivl \in Intervals, hEnd[c] = FinalEnd(ivl)
  PROVE  /\ Due(hEnd[c], ivl)
         /\ \A o : o.ivl = ivl /\ o.pt = KeyTime(ivl) => InWindow(o, ivl, hEnd[c])
<1> DEFINE pt == KeyTime(ivl)
<1>1. pt \in Nat /\ ivl \in Nat \ {0} /\ pt % ivl = 0 /\ hEnd[c] = pt + ivl
  BY IntervalsNat, TruncateBounds, Zenon DEF KeyTime, FinalEnd, LifeBase, TypeOK
<1>2. pt = KeyTime(ivl)
  BY Zenon
<1> HIDE DEF pt
<1>3. ivl % ivl = 0
  BY <1>1, Z3
<1>4. (pt + ivl) % ivl = 0
  BY <1>1, <1>3, SumOfMultiples, Zenon
<1>5. Due(hEnd[c], ivl)
  BY <1>1, <1>4 DEF Due, Truncate
<1>6. hEnd[c] - ivl <= pt /\ pt < hEnd[c]
  BY <1>1
<1>7. \A o : o.ivl = ivl /\ o.pt = pt => InWindow(o, ivl, hEnd[c])
  BY <1>6, Zenon DEF InWindow
<1> QED BY <1>2, <1>5, <1>7, Zenon

\* What is known of a call of Close does not change while another goroutine is at work, if
\* the calls of Close that harvest see no change.
LEMMA FinalKept ==
  ASSUME FinalInv, NEW c \in Closers, pc'[c] = pc[c], closeIdx'[c] = closeIdx[c], closed => closed',
         pc[c] \notin {"final", "harvest", "delete"}
  PROVE  FinalOf(c)'
BY Zenon DEF FinalInv, FinalOf

\* A harvest of Close settles the current window of its interval.
LEMMA FinalHarvest ==
  ASSUME LifeBase, "iterate" \notin Faults, CoveredInv, FinalInv, NEW c \in Closers, HarvestStep(c)
  PROVE  FinalOf(c)'
<1>0. /\ c \in Procs /\ pc \in [Procs -> RunnerPCs \cup CloserPCs] /\ hIdx[c] \in Nat
      /\ hIdx \in [Procs -> 1 .. Len(AggregationIntervals) + 1]
      /\ \A j \in DOMAIN AggregationIntervals : j \in Nat
  BY IntervalsNat, SMTT(30) DEF LifeBase, TypeOK, Procs
<1>1. /\ pc[c] \in {"harvest", "delete"} /\ pc'[c] \in {"harvest", "delete"}
      /\ UNCHANGED <<closed, batch, closeIdx, dbOpen, hEnd, processingTime>> /\ db' \subseteq db
  <2> USE DEF closeVars
  <2>1. CASE HarvestSkip(c)
    BY <1>0, <2>1, Zenon DEF HarvestSkip
  <2>2. CASE HarvestForInterval(c)
    BY <1>0, <2>2, Zenon DEF HarvestForInterval
  <2>3. CASE DeleteRange(c)
    BY <1>0, <2>3, Zenon DEF DeleteRange, Remaining
  <2> QED BY <2>1, <2>2, <2>3, Zenon DEF HarvestStep
<1>2. Settled \subseteq Settled' /\ CoveredInv'
  BY <1>0, CoveredHarvest, Zenon
<1>3. /\ closed' /\ dbOpen' /\ batch' = {}
      /\ hEnd[c] = FinalEnd(AggregationIntervals[closeIdx[c]])
  BY <1>1, Zenon DEF FinalInv, FinalOf
<1>4. hEnd'[c] = FinalEnd(AggregationIntervals[closeIdx[c]])'
  BY <1>1, <1>3, Zenon DEF FinalEnd, KeyTime
<1>5. closeIdx[c] \in DOMAIN AggregationIntervals
  BY <1>1, Zenon DEF LifeBase, IndexInv
<1>6. /\ Due(hEnd[c], AggregationIntervals[closeIdx[c]])
      /\ \A o : o.ivl = AggregationIntervals[closeIdx[c]] /\ o.pt = KeyTime(o.ivl) =>
            InWindow(o, o.ivl, hEnd[c])
  BY <1>0, <1>3, <1>5, IntervalsNat, FinalCovered, Zenon
<1>7. ASSUME NEW o \in db' \ Settled', o.pt = KeyTime(o.ivl) PROVE ToFinish(c, o)'
  <2>1. o \in db \ Settled
    BY <1>1, <1>2, Zenon
  <2>2. PICK j \in DOMAIN AggregationIntervals :
           /\ o.ivl = AggregationIntervals[j]
           /\ \/ closeIdx[c] < j
              \/ closeIdx[c] = j /\ pc[c] = "harvest" /\ hIdx[c] <= j
              \/ closeIdx[c] = j /\ pc[c] = "delete" /\ hIdx[c] < j
    BY <1>1, <1>7, <2>1, Zenon DEF FinalInv, FinalOf, ToFinish
  <2>3. CASE closeIdx[c] < j
    BY <1>1, <2>2, <2>3, Zenon DEF ToFinish
  <2>4. CASE closeIdx[c] = j /\ HarvestSkip(c)
    <3>1. /\ pc[c] = "harvest" /\ pc'[c] = "harvest" /\ hIdx'[c] = hIdx[c] + 1
          /\ ~Due(hEnd[c], AggregationIntervals[hIdx[c]])
      BY <1>0, <2>4, Zenon DEF HarvestSkip, HarvestIvl
    <3>2. hIdx[c] <= j \/ closeIdx[c] < j
      BY <2>2, <3>1, Zenon
    <3>3. hIdx[c] # j
      BY <1>6, <2>4, <3>1, Zenon
    <3>4. hIdx'[c] <= j \/ closeIdx[c] < j
      BY <1>0, <3>1, <3>2, <3>3, IndexPast, Zenon
    <3> QED BY <1>1, <2>2, <2>4, <3>1, <3>4, Zenon DEF ToFinish
  <2>5. CASE closeIdx[c] = j /\ HarvestForInterval(c)
    <3>1. pc[c] = "harvest" /\ pc'[c] = "delete" /\ UNCHANGED <<hIdx, hEnd, db>>
      BY <1>0, <2>5, Zenon DEF HarvestForInterval
    <3>2. hIdx[c] # j
      <4> SUFFICES ASSUME hIdx[c] = j PROVE FALSE
        BY Zenon
      <4>1. HarvestIvl(c)' = o.ivl /\ InWindow(o, o.ivl, hEnd[c])
        BY <1>6, <1>7, <2>2, <2>5, <3>1, Zenon DEF HarvestIvl
      <4>2. InWindow(o, HarvestIvl(c), hEnd[c])'
        BY <3>1, <4>1, Zenon DEF InWindow
      <4> QED BY <1>0, <1>2, <1>7, <3>1, <4>2, Zenon DEF CoveredInv
    <3>3. hIdx[c] < j \/ closeIdx[c] < j
      BY <1>0, <2>2, <3>1, <3>2
    <3> QED BY <1>1, <2>2, <2>5, <3>1, <3>3, Zenon DEF ToFinish
  <2>6. CASE closeIdx[c] = j /\ DeleteRange(c)
    <3>1. pc[c] = "delete" /\ pc'[c] = "harvest" /\ hIdx'[c] = hIdx[c] + 1
      BY <1>0, <2>6, Zenon DEF DeleteRange
    <3>2. hIdx'[c] <= j \/ closeIdx[c] < j
      BY <1>0, <2>2, <3>1
    <3> QED BY <1>1, <2>2, <2>6, <3>1, <3>2, Zenon DEF ToFinish
  <2> QED BY <2>2, <2>3, <2>4, <2>5, <2>6, Zenon DEF HarvestStep
<1>8. \A o : KeyTime(o.ivl)' = KeyTime(o.ivl)
  BY <1>1, Zenon DEF KeyTime
<1> QED BY <1>1, <1>3, <1>4, <1>7, <1>8, Zenon DEF FinalOf

\* Close harvests one interval after the other.
LEMMA FinalClose ==
  ASSUME LifeBase, "iterate" \notin Faults, PlacesInv, TimesInv, CoveredInv, FinalInv,
         NEW c \in Closers, CloseBegin(c) \/ CloseStep(c)
  PROVE  FinalOf(c)'
<1> USE DEF harvestVars, closeVars, outputVars
<1>0. /\ c \in Procs /\ pc \in [Procs -> RunnerPCs \cup CloserPCs]
      /\ closeIdx \in [Closers -> 1 .. Len(AggregationIntervals) + 1]
      /\ hIdx \in [Procs -> 1 .. Len(AggregationIntervals) + 1] /\ hEnd \in [Procs -> Nat]
      /\ closeIdx[c] \in Nat
      /\ \A j \in DOMAIN AggregationIntervals : j \in Nat /\ 1 <= j
  BY IntervalsNat, SMTT(30) DEF LifeBase, TypeOK, Procs
<1>1. CASE CloseBegin(c)
  <2>1. closed' /\ pc[c] = "idle" /\ pc'[c] \in {"wait", "commit"} /\ UNCHANGED closeIdx
    BY <1>0, <1>1, Zenon DEF CloseBegin
  <2> QED BY <2>1, Zenon DEF FinalInv, FinalOf
<1>2. CASE CloseRunStopped(c) \/ CloseCtxDone(c) \/ CloseAgain(c)
  <2>1. /\ pc[c] \in {"wait", "commit"} /\ pc'[c] \in {"commit", "failed", "returned"}
        /\ UNCHANGED <<closeIdx, closed>>
    BY <1>0, <1>2, Zenon DEF CloseRunStopped, CloseCtxDone, CloseAgain
  <2> QED BY <2>1, Zenon DEF FinalInv, FinalOf
<1>3. CASE CloseCommit(c)
  <2>1. /\ pc[c] = "commit" /\ pc'[c] \in {"final", "failed"} /\ dbOpen
        /\ pc'[c] = "final" => batch' = {} /\ db' = db \cup batch
        /\ UNCHANGED <<dbOpen, closeIdx, closed>>
    BY <1>0, <1>3, Zenon DEF CloseCommit
  <2>2. closed' /\ closeIdx'[c] = 1
    BY <2>1, Zenon DEF FinalInv, FinalOf
  <2>3. ASSUME pc'[c] = "final", NEW o \in db' PROVE ToFinish(c, o)'
    <3>1. o.ivl \in Intervals
      BY <2>1, <2>3, ItemTimes, Zenon DEF PlacesInv
    <3>2. PICK j \in DOMAIN AggregationIntervals : 1 <= j /\ o.ivl = AggregationIntervals[j]
      BY <3>1, IntervalIndex, Zenon
    <3>3. 1 < j \/ 1 = j
      BY <1>0, <3>2
    <3> QED BY <2>2, <2>3, <3>2, <3>3, Zenon DEF ToFinish
  <2> QED BY <2>1, <2>2, <2>3, Zenon DEF FinalOf
<1>4. CASE CloseHarvest(c)
  <2>1. /\ pc[c] = "final" /\ pc'[c] = "harvest" /\ hIdx'[c] = 1
        /\ hEnd'[c] = FinalEnd(AggregationIntervals[closeIdx[c]])
        /\ UNCHANGED <<dbOpen, closeIdx, closed, batch, db, processingTime, delivered, dropped>>
    BY <1>0, <1>4, Zenon DEF CloseHarvest
  <2>2. closed' /\ dbOpen' /\ batch' = {}
    BY <2>1, Zenon DEF FinalInv, FinalOf
  <2>3. hEnd'[c] = FinalEnd(AggregationIntervals[closeIdx[c]])'
    BY <2>1, Zenon DEF FinalEnd, KeyTime
  <2>4. ASSUME NEW o \in db \ Settled, o.pt = KeyTime(o.ivl) PROVE ToFinish(c, o)'
    <3>1. PICK j \in DOMAIN AggregationIntervals :
             o.ivl = AggregationIntervals[j] /\ (closeIdx[c] < j \/ closeIdx[c] = j)
      BY <2>1, <2>4, Zenon DEF FinalInv, FinalOf, ToFinish
    <3> QED BY <1>0, <2>1, <3>1, Zenon DEF ToFinish
  <2>5. Settled' = Settled /\ \A o : KeyTime(o.ivl)' = KeyTime(o.ivl)
    BY <2>1, Zenon DEF Settled, KeyTime
  <2> QED BY <2>1, <2>2, <2>3, <2>4, <2>5, Zenon DEF FinalOf
<1>5. CASE CloseNext(c)
  <2>1. /\ pc[c] = "harvest" /\ hIdx[c] \notin DOMAIN AggregationIntervals
        /\ pc'[c] = "final" /\ closeIdx'[c] = closeIdx[c] + 1
        /\ UNCHANGED <<dbOpen, closed, batch, db, processingTime, delivered, dropped>>
    BY <1>0, <1>5, Zenon DEF CloseNext, HarvestOver
  <2>2. closed' /\ dbOpen' /\ batch' = {}
    BY <2>1, Zenon DEF FinalInv, FinalOf
  <2>3. ASSUME NEW o \in db \ Settled, o.pt = KeyTime(o.ivl) PROVE ToFinish(c, o)'
    <3>1. PICK j \in DOMAIN AggregationIntervals :
             o.ivl = AggregationIntervals[j] /\ (closeIdx[c] < j \/ hIdx[c] <= j)
      BY <2>1, <2>3, Zenon DEF FinalInv, FinalOf, ToFinish
    <3>2. ~(hIdx[c] <= j)
      BY <1>0, <2>1, IndexOver, Zenon
    <3>3. closeIdx'[c] < j \/ closeIdx'[c] = j
      BY <1>0, <2>1, <3>1, <3>2, SMTT(30)
    <3> QED BY <2>1, <3>1, <3>3, Zenon DEF ToFinish
  <2>4. Settled' = Settled /\ \A o : KeyTime(o.ivl)' = KeyTime(o.ivl)
    BY <2>1, Zenon DEF Settled, KeyTime
  <2> QED BY <2>1, <2>2, <2>3, <2>4, Zenon DEF FinalOf
<1>6. CASE CloseReturn(c)
  <2>1. /\ pc[c] = "final" /\ pc'[c] \in {"failed", "returned"} /\ closed' = closed
    BY <1>0, <1>6, Zenon DEF CloseReturn
  <2> QED BY <2>1, Zenon DEF FinalInv, FinalOf
<1> QED BY <1>1, <1>2, <1>3, <1>4, <1>5, <1>6, FinalHarvest, Zenon DEF CloseStep

\* Every step keeps the invariant: while Close harvests nothing else changes the items.
LEMMA FinalNext ==
  ASSUME LifeBase, "iterate" \notin Faults, PlacesInv, TimesInv, CoveredInv, FinalInv,
         [LifeNext]_allVars
  PROVE  FinalInv'
<1> SUFFICES ASSUME NEW c \in Closers PROVE FinalOf(c)'
  BY Zenon DEF FinalInv
<1> USE DEF closeVars, harvestVars, outputVars
<1>0. c \in Procs
  BY Zenon DEF Procs
<1>1. CASE Between
  <2>1. /\ pc'[c] = pc[c]
        /\ UNCHANGED <<processingTime, batch, db, delivered, dropped, closed, dbOpen, closeIdx, hIdx, hEnd>>
    BY <1>1, BetweenLeaves, Zenon
  <2>2. /\ Settled' = Settled /\ \A o : KeyTime(o.ivl)' = KeyTime(o.ivl) /\ (ToFinish(c, o)' <=> ToFinish(c, o))
        /\ FinalEnd(AggregationIntervals[closeIdx[c]])' = FinalEnd(AggregationIntervals[closeIdx[c]])
    BY <2>1, Zenon DEF Settled, KeyTime, ToFinish, FinalEnd
  <2> QED BY <2>1, <2>2, Zenon DEF FinalInv, FinalOf
<1>2. CASE RunSwap \/ RunCommit \/ RunSnapshot \/ HarvestStep(Runner)
  <2>1. mu = Free \/ Busy(Runner)
    BY <1>2, SwapStep, CommitStep, RunHarvestLeaves, Zenon DEF Busy
  <2>2. pc'[c] = pc[c] /\ closeIdx'[c] = closeIdx[c] /\ closed' = closed
    BY <1>2, SwapStep, CommitStep, RunHarvestLeaves, Zenon
  <2> QED BY <2>1, <2>2, FinalAlone, FinalKept, Zenon
<1>3. ASSUME NEW d \in Closers, CloseBegin(d) \/ CloseStep(d) PROVE FinalOf(c)'
  <2>1. CASE d = c
    BY <1>3, <2>1, FinalClose, Zenon
  <2>2. CASE d # c
    <3>1. pc'[c] = pc[c] /\ closeIdx'[c] = closeIdx[c]
      BY <1>0, <1>3, <2>2, CloseLeaves, Zenon
    <3>2. mu = Free \/ mu = d
      <4>1. CASE CloseBegin(d)
        BY <4>1, Zenon DEF CloseBegin
      <4>2. CASE CloseStep(d)
        <5>1. pc[d] \in {"wait", "commit", "final", "harvest", "delete"}
          BY <4>2, Zenon DEF CloseStep, CloseRunStopped, CloseCtxDone, CloseAgain, CloseCommit,
             CloseHarvest, CloseNext, CloseReturn, HarvestStep, HarvestSkip, HarvestForInterval,
             DeleteRange, HarvestOver
        <5> QED BY <5>1, Zenon DEF LifeBase, LockInv
      <4> QED BY <1>3, <4>1, <4>2, Zenon
    <3>3. closed => closed'
      BY <1>3, Zenon DEF CloseBegin, CloseStep, CloseRunStopped, CloseCtxDone, CloseAgain, CloseCommit,
             CloseHarvest, CloseNext, CloseReturn, HarvestStep, HarvestSkip, HarvestForInterval,
             DeleteRange
    <3> QED BY <2>2, <3>1, <3>2, <3>3, FinalAlone, FinalKept, Zenon
  <2> QED BY <2>1, <2>2, Zenon
<1>4. ASSUME NEW o, AggregateCombinedMetrics(o) PROVE FinalOf(c)'
  <2>1. ~closed /\ UNCHANGED <<pc, closeIdx, closed>>
    BY <1>4, Zenon DEF AggregateCombinedMetrics
  <2>2. pc[c] = "idle"
    BY <2>1, Zenon DEF FinalInv, FinalOf
  <2> QED BY <2>1, <2>2, FinalKept, Zenon
<1>5. CASE Crash
  <2>1. pc'[c] = "idle" /\ closeIdx'[c] = 1
    BY <1>0, <1>5, Zenon DEF Crash
  <2> QED BY <2>1, Zenon DEF FinalOf
<1>6. CASE New \/ Down
  <2>1. pc[c] = "idle" /\ UNCHANGED <<pc, closeIdx, closed>>
    BY <1>0, <1>6, Zenon DEF New, Down, Tick, LifeBase, DownInv
  <2> QED BY <2>1, FinalKept, Zenon
<1>7. CASE UNCHANGED allVars
  BY <1>1, <1>7, Zenon DEF Between, allVars
<1> QED BY <1>1, <1>2, <1>3, <1>4, <1>5, <1>6, <1>7, LiveKinds, Zenon DEF LifeNext

-----------------------------------------------------------------------------
(* A closed database. *)

\* The window that ends at the next boundary of the lowest interval is the current one.
LEMMA NextWindow ==
  ASSUME LifeBase, TimesInv, NEW o \in issued, o.pt + o.ivl = processingTime + Lowest
  PROVE  o.pt = KeyTime(o.ivl)
<1> DEFINE pt == KeyTime(o.ivl)
<1>1. /\ o.pt \in Nat /\ o.ivl \in Nat \ {0} /\ o.pt % o.ivl = 0 /\ o.ivl \in Intervals
      /\ processingTime \in Nat /\ Lowest \in Nat \ {0}
  BY ItemTimes, IntervalsNat, Zenon DEF LifeBase, TypeOK
<1>2. Lowest <= o.ivl
  <2>1. PICK j \in DOMAIN AggregationIntervals : 1 <= j /\ o.ivl = AggregationIntervals[j]
    BY <1>1, IntervalIndex, Zenon
  <2>2. 1 \in DOMAIN AggregationIntervals /\ j \in Nat
    BY <2>1, IntervalsNat
  <2>3. j = 1 \/ 1 < j
    BY <2>1, <2>2
  <2>4. j = 1 \/ Lowest < o.ivl
    BY <2>1, <2>2, <2>3, IntervalsAssumption, Zenon DEF Lowest
  <2> QED BY <1>1, <2>1, <2>4 DEF Lowest
<1>3. o.pt <= processingTime /\ processingTime < o.pt + o.ivl
  BY <1>1, <1>2
<1>4. pt \in Nat /\ pt % o.ivl = 0 /\ pt <= processingTime /\ processingTime < pt + o.ivl
  BY <1>1, TruncateBounds, Zenon DEF KeyTime
<1>5. pt = KeyTime(o.ivl)
  BY Zenon
<1> HIDE DEF pt
<1>6. ~(o.pt < pt)
  BY <1>1, <1>3, <1>4, NextMultiple
<1>7. ~(pt < o.pt)
  BY <1>1, <1>3, <1>4, NextMultiple
<1> QED BY <1>1, <1>4, <1>5, <1>6, <1>7

\* The call of Close that closes the database has gone through every interval.
LEMMA ClosedClose ==
  ASSUME LifeBase, PlacesInv, FinalInv, ClosedInv, up, NEW c \in Closers, CloseBegin(c) \/ CloseStep(c)
  PROVE  ClosedInv'
<1> USE DEF closeVars, outputVars
<1>0. c \in Procs /\ pc \in [Procs -> RunnerPCs \cup CloserPCs]
  BY Zenon DEF LifeBase, TypeOK, Procs
<1>1. /\ UNCHANGED <<processingTime, runBatch>> /\ pc'[Runner] = pc[Runner]
      /\ \A o : Awaited(o)' <=> Awaited(o)
      /\ \A o : KeyTime(o.ivl)' = KeyTime(o.ivl)
  BY CloseLeaves, AwaitedSame, Zenon DEF KeyTime
<1>2. CASE CloseBegin(c) \/ CloseRunStopped(c) \/ CloseCtxDone(c) \/ CloseAgain(c)
  <2>1. UNCHANGED <<batch, db, delivered, dropped, dbOpen>> /\ (closed => closed')
    BY <1>2, SMTT(30) DEF CloseBegin, CloseRunStopped, CloseCtxDone, CloseAgain
  <2> QED BY <1>1, <2>1, Zenon DEF ClosedInv, Settled
<1>3. CASE CloseReturn(c)
  <2>1. /\ pc[c] = "final" /\ closeIdx[c] \notin DOMAIN AggregationIntervals
        /\ UNCHANGED <<closed, batch, db, delivered, dropped>>
    BY <1>3, Zenon DEF CloseReturn
  <2>2. /\ closed /\ batch = {} /\ pc[Runner] \in {"idle", "returned"} /\ runBatch = {}
        /\ \A o \in db \ Settled : o.pt = KeyTime(o.ivl) => ToFinish(c, o)
    BY <2>1, FinalAlone, PendingIssued, Zenon DEF FinalInv, FinalOf
  <2>3. \A j \in DOMAIN AggregationIntervals : ~(closeIdx[c] <= j)
    BY <2>1, IndexOver, Zenon DEF LifeBase, TypeOK
  <2>4. closeIdx[c] \in Nat /\ \A j \in DOMAIN AggregationIntervals : j \in Nat
    BY IntervalsNat DEF LifeBase, TypeOK
  <2>5. ASSUME NEW j \in DOMAIN AggregationIntervals PROVE ~(closeIdx[c] < j) /\ closeIdx[c] # j
    <3>1. ~(closeIdx[c] <= j) /\ closeIdx[c] \in Nat /\ j \in Nat
      BY <2>3, <2>4, Zenon
    <3> QED BY <3>1
  <2>6. \A o : ~ToFinish(c, o) /\ ~Awaited(o)
    BY <2>2, <2>5, Zenon DEF ToFinish, Awaited
  <2> QED BY <1>1, <2>1, <2>2, <2>6, Zenon DEF ClosedInv, Settled
<1>4. CASE CloseCommit(c) \/ CloseHarvest(c) \/ CloseNext(c) \/ HarvestStep(c)
  <2>1. UNCHANGED dbOpen /\ (dbOpen \/ pc[c] \in {"final", "harvest", "delete"})
    BY <1>4, Zenon DEF CloseCommit, CloseHarvest, CloseNext, HarvestOver, HarvestStep, HarvestSkip,
                HarvestForInterval, DeleteRange
  <2>2. dbOpen'
    BY <2>1, Zenon DEF FinalInv, FinalOf
  <2> QED BY <2>2, Zenon DEF ClosedInv
<1> QED BY <1>2, <1>3, <1>4, Zenon DEF CloseStep

\* Every step keeps the invariant.
LEMMA ClosedNext ==
  ASSUME LifeBase, PlacesInv, TimesInv, FinalInv, ClosedInv, [LifeNext]_allVars
  PROVE  ClosedInv'
<1>1. CASE (Between /\ UNCHANGED up)
  <2>1. /\ UNCHANGED <<processingTime, batch, runBatch, db, delivered, dropped, closed, dbOpen, hIdx>>
        /\ \/ pc'[Runner] = pc[Runner]
           \/ pc[Runner] \in {"idle", "select"} /\ pc'[Runner] \in {"select", "lock", "returned"}
           \/ pc[Runner] = "harvest"
    BY <1>1, BetweenLeaves, Zenon DEF HarvestOver
  <2>2. Settled' = Settled /\ \A o : KeyTime(o.ivl)' = KeyTime(o.ivl)
    BY <2>1, Zenon DEF Settled, KeyTime
  <2>3. CASE pc'[Runner] = pc[Runner]
    <3>1. \A o : Awaited(o)' <=> Awaited(o)
      BY <2>1, <2>3, AwaitedSame, Zenon
    <3> QED BY <1>1, <2>1, <2>2, <2>3, <3>1, Zenon DEF ClosedInv
  <2>4. CASE pc[Runner] \in {"idle", "select"} /\ pc'[Runner] \in {"select", "lock", "returned"}
    <3>1. \A o : ~Awaited(o)'
      BY <2>4, Zenon DEF Awaited
    <3> QED BY <1>1, <2>1, <2>2, <2>4, <3>1, Zenon DEF ClosedInv
  <2>5. CASE pc[Runner] = "harvest"
    BY <1>1, <2>1, <2>5, Zenon DEF ClosedInv
  <2> QED BY <2>1, <2>3, <2>4, <2>5, Zenon
<1>2. CASE RunSwap /\ up
  <2>1. /\ pc[Runner] = "lock" /\ pc'[Runner] = "commit" /\ processingTime' = processingTime + Lowest
        /\ runBatch' = batch /\ batch' = {} /\ UNCHANGED <<db, delivered, dropped, closed, dbOpen>>
    BY <1>2, SwapStep, Zenon DEF TimesInv
  <2>2. ASSUME ~dbOpen, NEW o \in db \ Settled PROVE ~Awaited(o)'
    <3>1. o \in issued /\ o.pt # KeyTime(o.ivl)
      BY <1>2, <2>1, <2>2, PendingIssued, Zenon DEF ClosedInv
    <3>2. o.pt + o.ivl # processingTime'
      BY <2>1, <3>1, NextWindow, Zenon
    <3> QED BY <3>2, Zenon DEF Awaited
  <2> QED BY <1>2, <2>1, <2>2, Zenon DEF ClosedInv, Settled
<1>3. CASE (RunCommit \/ RunSnapshot) /\ up
  <2>1. /\ pc[Runner] \in {"commit", "snapshot"} /\ pc'[Runner] \in {"snapshot", "harvest", "panicked"}
        /\ pc'[Runner] = "harvest" => dbOpen
        /\ UNCHANGED <<processingTime, batch, closed, dbOpen>>
        /\ db' \subseteq db \cup runBatch /\ runBatch' \subseteq runBatch /\ Pending' \subseteq Pending
    BY <1>3, CommitStep, Zenon
  <2>2. ASSUME ~dbOpen, NEW o \in db' \ Settled' PROVE ~Awaited(o)'
    <3>1. o \in db \ Settled
      BY <1>3, <2>1, <2>2, Zenon DEF ClosedInv, Pending
    <3>2. ~Awaited(o)
      BY <1>3, <2>2, <3>1, Zenon DEF ClosedInv
    <3> QED BY <2>1, <2>2, <3>2, Zenon DEF Awaited
  <2> QED BY <1>3, <2>1, <2>2, Zenon DEF ClosedInv
<1>4. CASE HarvestStep(Runner) /\ up
  BY <1>4, RunHarvestLeaves, Zenon DEF ClosedInv
<1>5. ASSUME up, NEW o, AggregateCombinedMetrics(o) PROVE ClosedInv'
  BY <1>5, Zenon DEF AggregateCombinedMetrics, ClosedInv
<1>6. CASE Down \/ Crash \/ New
  BY <1>6, Zenon DEF Down, Crash, New, lifeVars, ClosedInv
<1>7. CASE UNCHANGED allVars
  BY <1>1, <1>7, Zenon DEF Between, allVars, lifeVars
<1> QED BY <1>1, <1>2, <1>3, <1>4, <1>5, <1>6, <1>7, LiveKinds, ClosedClose, Zenon DEF LifeNext

StrandIInv ==
  /\ LifeBase /\ PlacesInv /\ LateInv /\ CoveredInv
  /\ TimesInv /\ StrandInv /\ FinalInv /\ ClosedInv

\* The first life begins with nothing stored, at a boundary of the lowest interval.
LEMMA StrandInit == LifeInit => StrandIInv
<1> SUFFICES ASSUME LifeInit PROVE StrandIInv
  BY Zenon
<1>1. LifeBase /\ PlacesInv /\ LateInv /\ CoveredInv
  BY BaseInit, Zenon DEF LifeInit, Init, PlacesInv, LateInv, CoveredInv, Procs
<1>2. now \in Nat /\ processingTime = Truncate(now, Lowest) /\ born = processingTime /\ issued = {}
  BY ConstantsAssumption, Zenon DEF LifeInit, Init
<1>3. born \in Nat /\ processingTime % Lowest = 0
  BY <1>2, IntervalsNat, TruncateBounds, Zenon
<1>4. TimesInv
  BY <1>2, <1>3, Zenon DEF LifeInit, Init, TimesInv, Procs
<1>5. StrandInv /\ ClosedInv
  BY Zenon DEF LifeInit, Init, StrandInv, ClosedInv, Pending
<1>6. FinalInv
  BY Zenon DEF LifeInit, Init, FinalInv, FinalOf, Procs
<1> QED BY <1>1, <1>4, <1>5, <1>6, Zenon DEF StrandIInv

\* When iterators do not fail and partial metrics arrive before the harvest of their window,
\* Run harvests every window that was open when New was called, the entries that earlier
\* lives have stored there included: between two harvests of Run only entries of windows
\* that had ended before New are behind the processing time.
THEOREM LifeStranded ==
  ASSUME "iterate" \notin Faults, Punctual
  PROVE  LifeSpec => []StrandedOnly
<1>1. StrandIInv /\ [LifeNext]_allVars => StrandIInv'
  BY BaseNext, PlacesNext, LateNext, CoveredNext, TimesNext, StrandNext, FinalNext, ClosedNext, Zenon
     DEF StrandIInv
<1>2. StrandIInv => StrandedOnly
  <2> SUFFICES ASSUME StrandIInv, up, ~Busy(Runner), NEW o \in (batch \cup db) \ Settled
               PROVE  processingTime < o.pt + o.ivl \/ o.pt + o.ivl <= born
    BY Zenon DEF StrandedOnly
  <2>1. ~Awaited(o)
    BY Zenon DEF Awaited, Busy
  <2> QED BY <2>1, Zenon DEF StrandIInv, StrandInv, Pending
<1> QED BY <1>1, <1>2, StrandInit, PTL DEF LifeSpec
=============================================================================
