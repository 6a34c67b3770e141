------------------------------ MODULE Aggregator ------------------------------
(***************************************************************************)
(* The LSM based aggregator of aggregators/aggregator.go: AggregateBatch   *)
(* and AggregateCombinedMetrics called by any number of goroutines, one    *)
(* goroutine in Run, and goroutines in Close, over one pebble database.    *)
(*                                                                         *)
(* A combined metrics value is what was merged into it: the database and   *)
(* the write batches are sets of items, one item for each event and each   *)
(* key (interval, processing time, combined metrics ID, partition) under   *)
(* which a share of that event was aggregated.  Time is counted in any     *)
(* unit that divides the intervals.  Pebble is external: Commit adds a     *)
(* batch to the database atomically or fails and adds nothing, a snapshot  *)
(* is the database at one instant, DeleteRange empties a range of keys or  *)
(* fails.                                                                  *)
(***************************************************************************)
EXTENDS Integers, Sequences

CONSTANTS
    AggregationIntervals, \* cfg.AggregationIntervals
    HarvestDelay,         \* cfg.HarvestDelay
    IDs,                  \* combined metrics IDs
    Partitions,           \* partition IDs, 0 .. cfg.Partitions - 1
    Events,               \* the events that may be aggregated, each one once
    PartsOf,              \* the partitions an event has metrics in, see converter.go
    Runner,               \* the goroutine that calls Run
    Closers,              \* the goroutines that call Close, once each
    CancelClose,          \* the closers whose context can be cancelled
    CancelRun,            \* TRUE if the context given to Run can be cancelled
    Faults,               \* the external failures that may happen
    StartTimes,           \* when New may be called
    MaxNow,               \* bound on the clock
    MaxLag                \* bound on how late partial metrics arrive from a peer

Intervals == {AggregationIntervals[i] : i \in DOMAIN AggregationIntervals}

Lowest == AggregationIntervals[1]

FaultKinds == {"commit", "process", "iterate", "delete"}

\* What validateCfg accepts, with strictly ascending intervals: duplicates pass
\* sort.SliceIsSorted and are left out.
ASSUME IntervalsAssumption ==
    /\ AggregationIntervals \in Seq(Nat \ {0})
    /\ AggregationIntervals # << >>
    /\ \A i, j \in DOMAIN AggregationIntervals :
          i < j => AggregationIntervals[i] < AggregationIntervals[j]
    /\ \A i \in DOMAIN AggregationIntervals : AggregationIntervals[i] % Lowest = 0

ASSUME ConstantsAssumption ==
    /\ HarvestDelay \in Nat
    /\ PartsOf \in [Events -> SUBSET Partitions]
    /\ Runner \notin Closers
    /\ CancelClose \subseteq Closers
    /\ CancelRun \in BOOLEAN
    /\ Faults \subseteq FaultKinds
    /\ StartTimes \subseteq Nat
    /\ MaxNow \in Nat
    /\ MaxLag \in Nat

Procs == Closers \cup {Runner}

Free == "free" \* no goroutine holds a.mu across a step

ASSUME ProcsAssumption == Free \notin Procs

Item == [ivl : Intervals, pt : Nat, id : IDs, part : Partitions, ev : Events]

Stat == [ivl : Intervals, id : IDs, ev : Events]

VARIABLES
    now,            \* the wall clock
    mu,             \* the goroutine inside Close, which keeps a.mu, or Free
    processingTime, \* a.processingTime
    batch,          \* a.batch, {} for nil
    cached,         \* a.cachedEvents, the events counted and not yet loaded
    closed,         \* a.closed is closed
    runStopped,     \* a.runStopped: "nil", "open" or "closed"
    db,             \* the contents of a.db
    dbOpen,         \* a.db # nil
    pc,             \* where each goroutine is
    to,             \* Run's to
    runBatch,       \* the batch Run took and has not committed
    hEnd,           \* harvest's end
    hIdx,           \* the interval harvest is at
    hSnap,          \* harvest's snapshot
    hStats,         \* harvest's cachedEventsStats, the part not yet published
    closeIdx,       \* the interval Close is at
    failed,         \* Close has collected an error
    eventsTotal,    \* telemetry: the events added to EventsTotal
    delivered,      \* the items the Processor accepted, added to EventsProcessed
    redelivered,    \* history: the items given to the Processor again
    dropped,        \* history: the items lost by a failure that is reported
    issued,         \* history: the items ever aggregated
    accepted        \* history: the events ever counted in cachedEvents

harvestVars == <<hEnd, hIdx, hSnap, hStats>>

closeVars == <<closeIdx, failed>>

outputVars == <<eventsTotal, delivered, redelivered, dropped>>

inputVars == <<issued, accepted>>

vars == <<now, mu, processingTime, batch, cached, closed, runStopped, db, dbOpen,
          pc, to, runBatch, harvestVars, closeVars, outputVars, inputVars>>

-----------------------------------------------------------------------------
(* Plausible mistakes in the definitions below, for showing that the properties *)
(* can tell them from the code.  No specification uses them.                    *)

FinalEndWithoutInterval(ivl) == processingTime - (processingTime % ivl)

InWindowWithEnd(o, ivl, end) == o.ivl = ivl /\ end - ivl <= o.pt /\ o.pt <= end

InWindowWithoutStart(o, ivl, end) == o.ivl = ivl /\ end - ivl < o.pt /\ o.pt < end

LoadedAll(end) == cached

LoadedLowest(end) == {s \in cached : s.ivl = Lowest}

PartitionsFromOne(e) == {k + 1 : k \in PartsOf[e]}

RemainingFirst(p) ==
    {o \in db : o.ivl = AggregationIntervals[hIdx[p]] => o.pt = hEnd[p] - o.ivl}

RunStopsOnCancelOnly == CancelRun

NeverWaits == FALSE

WaitsForever(c) == FALSE

-----------------------------------------------------------------------------
(* Time, keys and windows. *)

\* time.Time.Truncate
Truncate(t, d) == t - (t % d)

\* The processing time AggregateBatch stamps on the keys of an interval.
KeyTime(ivl) == Truncate(processingTime, ivl)

\* Whether a harvest that ends at end covers the interval.
Due(end, ivl) == Truncate(end, ivl) = end

\* The key range [lb, ub) of harvestForInterval.
InWindow(o, ivl, end) == o.ivl = ivl /\ end - ivl <= o.pt /\ o.pt < end

KeyOf(o) == [ivl |-> o.ivl, pt |-> o.pt, id |-> o.id, part |-> o.part]

StatOf(o) == [ivl |-> o.ivl, id |-> o.id, ev |-> o.ev]

\* What cachedEvents.loadAndDelete(end) returns and removes.
Loaded(end) == {s \in cached : Due(end, s.ivl)}

\* The end of the final harvest of an interval.
FinalEnd(ivl) == KeyTime(ivl) + ivl

-----------------------------------------------------------------------------
(* New, and the writers. *)

Init ==
    /\ now \in StartTimes
    /\ mu = Free
    /\ processingTime = Truncate(now, Lowest)
    /\ batch = {} /\ cached = {}
    /\ closed = FALSE /\ runStopped = "nil"
    /\ db = {} /\ dbOpen = TRUE
    /\ pc = [p \in Procs |-> "idle"]
    /\ to = 0 /\ runBatch = {}
    /\ hEnd = [p \in Procs |-> 0] /\ hIdx = [p \in Procs |-> 1]
    /\ hSnap = [p \in Procs |-> {}] /\ hStats = [p \in Procs |-> {}]
    /\ closeIdx = [c \in Closers |-> 1] /\ failed = [c \in Closers |-> FALSE]
    /\ eventsTotal = {} /\ delivered = {} /\ redelivered = {} /\ dropped = {}
    /\ issued = {} /\ accepted = {}

Tick ==
    /\ now < MaxNow
    /\ now' = now + 1
    /\ UNCHANGED <<mu, processingTime, batch, cached, closed, runStopped, db, dbOpen,
                   pc, to, runBatch, harvestVars, closeVars, outputVars, inputVars>>

\* The partitions EventToCombinedMetrics calls back for; none for an event that
\* yields no metrics.
PartitionsOf(e) == PartsOf[e]

\* The merge operations of one AggregateBatch call: each interval, each event,
\* each partition that event has metrics in.
BatchOps(id, evs) ==
    {o \in [ivl : Intervals, pt : {KeyTime(ivl) : ivl \in Intervals}, id : {id},
            part : UNION {PartitionsOf(e) : e \in evs}, ev : evs] :
        o.pt = KeyTime(o.ivl) /\ o.part \in PartitionsOf(o.ev)}

\* The operations that may have been written when the batch reaches
\* dbCommitThresholdBytes for the last time in a call: intervals are written in
\* order, the events of one interval in any order.
Flushable(ops) ==
    {sent \in SUBSET ops : sent # {} /\ \A o \in sent, q \in ops \ sent : o.ivl <= q.ivl}

\* aggregate for every operation of a call.  Either no commit succeeds, because
\* the threshold is not reached or because Commit failed and a.batch is kept, or
\* the last one that does takes the batch with the operations sent so far.
Aggregate(ops) ==
    \/ /\ batch' = batch \cup ops
       /\ UNCHANGED db
    \/ \E sent \in Flushable(ops) :
          /\ db' = db \cup batch \cup sent
          /\ batch' = ops \ sent

\* Both writers hold a.mu for the whole call, so that they are one step each.
\* When the context is done or the aggregator closed they change nothing.
AggregateBatch(id, evs) ==
    /\ mu = Free
    /\ ~closed
    /\ \A a \in accepted : a.ev \notin evs
    /\ Aggregate(BatchOps(id, evs))
    /\ cached' = cached \cup [ivl : Intervals, id : {id}, ev : evs]
    /\ accepted' = accepted \cup [ivl : Intervals, id : {id}, ev : evs]
    /\ issued' = issued \cup BatchOps(id, evs)
    /\ UNCHANGED <<now, mu, processingTime, closed, runStopped, dbOpen, pc, to, runBatch,
                   harvestVars, closeVars, outputVars>>

\* The keys a peer sends: of a window that has begun, at most MaxLag after its end.
PeerItem(o) ==
    /\ o.pt % o.ivl = 0
    /\ o.pt <= now
    /\ now <= o.pt + o.ivl + MaxLag

AggregateCombinedMetrics(o) ==
    /\ mu = Free
    /\ ~closed
    /\ PeerItem(o)
    /\ \A a \in accepted : a.ev # o.ev
    /\ Aggregate({o})
    /\ cached' = cached \cup {StatOf(o)}
    /\ accepted' = accepted \cup {StatOf(o)}
    /\ issued' = issued \cup {o}
    /\ UNCHANGED <<now, mu, processingTime, closed, runStopped, dbOpen, pc, to, runBatch,
                   harvestVars, closeVars, outputVars>>

-----------------------------------------------------------------------------
(* harvest, inside Run (without a.mu) or inside Close (with it). *)

HarvestIvl(p) == AggregationIntervals[hIdx[p]]

\* A mutant of Window: the iterator yields what a DeleteRange has removed.
WindowWithDeleted(p) == {o \in hSnap[p] \cup delivered : InWindow(o, HarvestIvl(p), hEnd[p])}

\* The snapshot's items in the range the harvest iterates over.
Window(p) == {o \in hSnap[p] : InWindow(o, HarvestIvl(p), hEnd[p])}

\* The keys the iterator yields.  Its error is not looked at: when iteration
\* fails, keys are missing and nothing else tells.
Iterated(keys) == IF "iterate" \in Faults THEN SUBSET keys ELSE {keys}

\* The keys whose Processor call, or decoding, may return an error.
Failing(keys) == IF "process" \in Faults THEN SUBSET keys ELSE {{}}

\* An interval that end is not a boundary of is passed over.
HarvestSkip(p) ==
    /\ pc[p] = "harvest"
    /\ hIdx[p] \in DOMAIN AggregationIntervals
    /\ ~Due(hEnd[p], HarvestIvl(p))
    /\ hIdx' = [hIdx EXCEPT ![p] = @ + 1]
    /\ UNCHANGED <<now, mu, processingTime, batch, cached, closed, runStopped, db, dbOpen,
                   pc, to, runBatch, hEnd, hSnap, hStats, closeVars, outputVars, inputVars>>

\* harvestForInterval up to its DeleteRange: EventsTotal is published, then every
\* key of the snapshot's window goes to the Processor once.
HarvestForInterval(p) ==
    /\ pc[p] = "harvest"
    /\ hIdx[p] \in DOMAIN AggregationIntervals
    /\ Due(hEnd[p], HarvestIvl(p))
    /\ LET published == {s \in hStats[p] : s.ivl = HarvestIvl(p)} IN
          /\ eventsTotal' = eventsTotal \cup published
          /\ hStats' = [hStats EXCEPT ![p] = @ \ published]
    /\ \E seen \in Iterated({KeyOf(o) : o \in Window(p)}) :
          \E bad \in Failing(seen) :
             LET good == {o \in Window(p) : KeyOf(o) \in seen \ bad} IN
                /\ redelivered' = redelivered \cup (good \cap delivered)
                /\ delivered' = delivered \cup good
                /\ dropped' = dropped \cup {o \in Window(p) : KeyOf(o) \in bad}
                /\ failed' = IF p \in Closers /\ bad # {}
                             THEN [failed EXCEPT ![p] = TRUE] ELSE failed
    /\ pc' = [pc EXCEPT ![p] = "delete"]
    /\ UNCHANGED <<now, mu, processingTime, batch, cached, closed, runStopped, db, dbOpen,
                   to, runBatch, hEnd, hIdx, hSnap, closeIdx, inputVars>>

\* What DeleteRange(lb, ub) leaves.
Remaining(p) == {o \in db : ~InWindow(o, HarvestIvl(p), hEnd[p])}

\* The DeleteRange on the live database, done whatever the Processor returned.
DeleteRange(p) ==
    /\ pc[p] = "delete"
    /\ \/ /\ db' = Remaining(p)
          /\ UNCHANGED failed
       \/ /\ "delete" \in Faults
          /\ failed' = IF p \in Closers THEN [failed EXCEPT ![p] = TRUE] ELSE failed
          /\ UNCHANGED db
    /\ hIdx' = [hIdx EXCEPT ![p] = @ + 1]
    /\ pc' = [pc EXCEPT ![p] = "harvest"]
    /\ UNCHANGED <<now, mu, processingTime, batch, cached, closed, runStopped, dbOpen, to,
                   runBatch, hEnd, hSnap, hStats, closeIdx, outputVars, inputVars>>

\* harvest has passed its last interval.
HarvestOver(p) == pc[p] = "harvest" /\ hIdx[p] \notin DOMAIN AggregationIntervals

-----------------------------------------------------------------------------
(* Run. *)

Run ==
    /\ pc[Runner] = "idle"
    /\ mu = Free
    /\ runStopped = "nil"
    /\ runStopped' = "open"
    /\ to' = processingTime + Lowest
    /\ pc' = [pc EXCEPT ![Runner] = "select"]
    /\ UNCHANGED <<now, mu, processingTime, batch, cached, closed, db, dbOpen, runBatch,
                   harvestVars, closeVars, outputVars, inputVars>>

\* The cases of Run's select that return.
RunStops == CancelRun \/ closed

\* When several cases of Run's select are ready, any of them may be taken.
RunReturn ==
    /\ pc[Runner] = "select"
    /\ RunStops
    /\ runStopped' = "closed"
    /\ pc' = [pc EXCEPT ![Runner] = "returned"]
    /\ UNCHANGED <<now, mu, processingTime, batch, cached, closed, db, dbOpen, to, runBatch,
                   harvestVars, closeVars, outputVars, inputVars>>

RunTimer ==
    /\ pc[Runner] = "select"
    /\ now >= to + HarvestDelay
    /\ pc' = [pc EXCEPT ![Runner] = "lock"]
    /\ UNCHANGED <<now, mu, processingTime, batch, cached, closed, runStopped, db, dbOpen,
                   to, runBatch, harvestVars, closeVars, outputVars, inputVars>>

\* The critical section: take the batch and the counts, move to the next window.
RunSwap ==
    /\ pc[Runner] = "lock"
    /\ mu = Free
    /\ runBatch' = batch
    /\ batch' = {}
    /\ processingTime' = to
    /\ hEnd' = [hEnd EXCEPT ![Runner] = to]
    /\ hStats' = [hStats EXCEPT ![Runner] = Loaded(to)]
    /\ cached' = cached \ Loaded(to)
    /\ pc' = [pc EXCEPT ![Runner] = "commit"]
    /\ UNCHANGED <<now, mu, closed, runStopped, db, dbOpen, to, hIdx, hSnap, closeVars,
                   outputVars, inputVars>>

\* commitAndHarvest closes the batch, and so drops it, also when Commit fails.
RunCommit ==
    /\ pc[Runner] = "commit"
    /\ \/ /\ db' = db \cup runBatch
          /\ UNCHANGED dropped
       \/ /\ "commit" \in Faults
          /\ dropped' = dropped \cup runBatch
          /\ UNCHANGED db
    /\ runBatch' = {}
    /\ pc' = [pc EXCEPT ![Runner] = "snapshot"]
    /\ UNCHANGED <<now, mu, processingTime, batch, cached, closed, runStopped, dbOpen, to,
                   harvestVars, closeVars, eventsTotal, delivered, redelivered, inputVars>>

\* a.db.NewSnapshot(), a nil dereference when Close has set a.db to nil.
RunSnapshot ==
    /\ pc[Runner] = "snapshot"
    /\ \/ /\ dbOpen
          /\ hSnap' = [hSnap EXCEPT ![Runner] = db]
          /\ hIdx' = [hIdx EXCEPT ![Runner] = 1]
          /\ pc' = [pc EXCEPT ![Runner] = "harvest"]
       \/ /\ ~dbOpen
          /\ pc' = [pc EXCEPT ![Runner] = "panicked"]
          /\ UNCHANGED <<hSnap, hIdx>>
    /\ UNCHANGED <<now, mu, processingTime, batch, cached, closed, runStopped, db, dbOpen,
                   to, runBatch, hEnd, hStats, closeVars, outputVars, inputVars>>

\* The error of commitAndHarvest is logged; the timer is set for the next window.
RunNext ==
    /\ HarvestOver(Runner)
    /\ to' = to + Lowest
    /\ hSnap' = [hSnap EXCEPT ![Runner] = {}]
    /\ pc' = [pc EXCEPT ![Runner] = "select"]
    /\ UNCHANGED <<now, mu, processingTime, batch, cached, closed, runStopped, db, dbOpen,
                   runBatch, hEnd, hIdx, hStats, closeVars, outputVars, inputVars>>

-----------------------------------------------------------------------------
(* Close, which keeps a.mu from its first step to its return. *)

\* a.runStopped # nil: Close must wait for Run to return.
RunWasCalled == runStopped # "nil"

CloseBegin(c) ==
    /\ pc[c] = "idle"
    /\ mu = Free
    /\ mu' = c
    /\ closed' = TRUE
    /\ pc' = [pc EXCEPT ![c] = IF RunWasCalled THEN "wait" ELSE "commit"]
    /\ UNCHANGED <<now, processingTime, batch, cached, runStopped, db, dbOpen, to, runBatch,
                   harvestVars, closeVars, outputVars, inputVars>>

CloseRunStopped(c) ==
    /\ pc[c] = "wait"
    /\ runStopped = "closed"
    /\ pc' = [pc EXCEPT ![c] = "commit"]
    /\ UNCHANGED <<now, mu, processingTime, batch, cached, closed, runStopped, db, dbOpen,
                   to, runBatch, harvestVars, closeVars, outputVars, inputVars>>

\* The select on a.runStopped also watches the context of the call.
GivesUp(c) == c \in CancelClose

CloseCtxDone(c) ==
    /\ pc[c] = "wait"
    /\ GivesUp(c)
    /\ mu' = Free
    /\ pc' = [pc EXCEPT ![c] = "failed"]
    /\ UNCHANGED <<now, processingTime, batch, cached, closed, runStopped, db, dbOpen, to,
                   runBatch, harvestVars, closeVars, outputVars, inputVars>>

\* The database was closed by an earlier Close.
CloseAgain(c) ==
    /\ pc[c] = "commit"
    /\ ~dbOpen
    /\ mu' = Free
    /\ pc' = [pc EXCEPT ![c] = "returned"]
    /\ UNCHANGED <<now, processingTime, batch, cached, closed, runStopped, db, dbOpen, to,
                   runBatch, harvestVars, closeVars, outputVars, inputVars>>

\* When Commit fails Close returns, and a.batch is kept for another Close.
CloseCommit(c) ==
    /\ pc[c] = "commit"
    /\ dbOpen
    /\ \/ /\ db' = db \cup batch
          /\ batch' = {}
          /\ pc' = [pc EXCEPT ![c] = "final"]
          /\ UNCHANGED mu
       \/ /\ "commit" \in Faults
          /\ batch # {}
          /\ mu' = Free
          /\ pc' = [pc EXCEPT ![c] = "failed"]
          /\ UNCHANGED <<db, batch>>
    /\ UNCHANGED <<now, processingTime, cached, closed, runStopped, dbOpen, to, runBatch,
                   harvestVars, closeVars, outputVars, inputVars>>

\* The final harvest of one more interval begins.
CloseHarvest(c) ==
    /\ pc[c] = "final"
    /\ closeIdx[c] \in DOMAIN AggregationIntervals
    /\ LET end == FinalEnd(AggregationIntervals[closeIdx[c]]) IN
          /\ hEnd' = [hEnd EXCEPT ![c] = end]
          /\ hStats' = [hStats EXCEPT ![c] = Loaded(end)]
          /\ cached' = cached \ Loaded(end)
    /\ hSnap' = [hSnap EXCEPT ![c] = db]
    /\ hIdx' = [hIdx EXCEPT ![c] = 1]
    /\ pc' = [pc EXCEPT ![c] = "harvest"]
    /\ UNCHANGED <<now, mu, processingTime, batch, closed, runStopped, db, dbOpen, to,
                   runBatch, closeVars, outputVars, inputVars>>

CloseNext(c) ==
    /\ HarvestOver(c)
    /\ closeIdx' = [closeIdx EXCEPT ![c] = @ + 1]
    /\ hSnap' = [hSnap EXCEPT ![c] = {}]
    /\ pc' = [pc EXCEPT ![c] = "final"]
    /\ UNCHANGED <<now, mu, processingTime, batch, cached, closed, runStopped, db, dbOpen,
                   to, runBatch, hEnd, hIdx, hStats, failed, outputVars, inputVars>>

\* Every interval is harvested.  After an error the database stays open.
CloseReturn(c) ==
    /\ pc[c] = "final"
    /\ closeIdx[c] \notin DOMAIN AggregationIntervals
    /\ dbOpen' = failed[c]
    /\ mu' = Free
    /\ pc' = [pc EXCEPT ![c] = IF failed[c] THEN "failed" ELSE "returned"]
    /\ UNCHANGED <<now, processingTime, batch, cached, closed, runStopped, db, to, runBatch,
                   harvestVars, closeVars, outputVars, inputVars>>

-----------------------------------------------------------------------------
(* The specifications. *)

HarvestStep(p) == HarvestSkip(p) \/ HarvestForInterval(p) \/ DeleteRange(p)

RunStep ==
    \/ RunReturn \/ RunTimer \/ RunSwap \/ RunCommit \/ RunSnapshot \/ RunNext
    \/ HarvestStep(Runner)

CloseStep(c) ==
    \/ CloseRunStopped(c) \/ CloseCtxDone(c) \/ CloseAgain(c) \/ CloseCommit(c)
    \/ CloseHarvest(c) \/ CloseNext(c) \/ CloseReturn(c)
    \/ HarvestStep(c)

Alive == pc[Runner] # "panicked" \* a panic ends the process

Harvesting == Tick \/ Run \/ RunStep \/ \E c \in Closers : CloseBegin(c) \/ CloseStep(c)

\* The l1 aggregator is fed with events, the l2 aggregator with partial metrics
\* of l1 aggregators: WithHarvestDelay documents the two roles.
L1Next ==
    /\ Alive
    /\ \/ Harvesting
       \/ \E id \in IDs, evs \in SUBSET Events \ {{}} : AggregateBatch(id, evs)

L2Next ==
    /\ Alive
    /\ \/ Harvesting
       \/ \E o \in [ivl : Intervals, pt : 0 .. now, id : IDs, part : Partitions, ev : Events] :
             AggregateCombinedMetrics(o)

L1Spec == Init /\ [][L1Next]_vars

L2Spec == Init /\ [][L2Next]_vars

\* Goroutines keep running, the clock advances, and a cancelled context is
\* noticed.  Calls of Run, Close and the writers may never come.  Run's select
\* chooses among its ready cases at random, so that a case that is ready again
\* and again is taken.
Fairness ==
    /\ WF_vars(Alive /\ Tick)
    /\ WF_vars(Alive /\ RunStep)
    /\ SF_vars(Alive /\ RunReturn)
    /\ \A c \in Closers : WF_vars(Alive /\ CloseStep(c))

L1FairSpec == L1Spec /\ Fairness

-----------------------------------------------------------------------------
(* Properties. *)

RunnerPCs == {"idle", "select", "lock", "commit", "snapshot", "harvest", "delete",
              "returned", "panicked"}

CloserPCs == {"idle", "wait", "commit", "final", "harvest", "delete", "failed", "returned"}

\* The type of every variable.
TypeOK ==
    /\ now \in Nat
    /\ mu \in Closers \cup {Free}
    /\ processingTime \in Nat
    /\ batch \subseteq Item
    /\ cached \subseteq Stat
    /\ closed \in BOOLEAN
    /\ runStopped \in {"nil", "open", "closed"}
    /\ db \subseteq Item
    /\ dbOpen \in BOOLEAN
    /\ pc \in [Procs -> RunnerPCs \cup CloserPCs]
    /\ pc[Runner] \in RunnerPCs
    /\ \A c \in Closers : pc[c] \in CloserPCs
    /\ to \in Nat
    /\ runBatch \subseteq Item
    /\ hEnd \in [Procs -> Nat]
    /\ hIdx \in [Procs -> 1 .. Len(AggregationIntervals) + 1]
    /\ hSnap \in [Procs -> SUBSET Item]
    /\ hStats \in [Procs -> SUBSET Stat]
    /\ closeIdx \in [Closers -> 1 .. Len(AggregationIntervals) + 1]
    /\ failed \in [Closers -> BOOLEAN]
    /\ eventsTotal \subseteq Stat
    /\ delivered \subseteq Item /\ redelivered \subseteq Item /\ dropped \subseteq Item
    /\ issued \subseteq Item
    /\ accepted \subseteq Stat

Settled == delivered \cup dropped

\* The items that are still to be settled.
Pending == (batch \cup runBatch \cup db) \ Settled

Contract == INSTANCE Delivery WITH pending <- Pending, lost <- dropped

\* The aggregator implements the delivery contract: items become pending when
\* they are aggregated, and are settled once, by a harvest or by a lost batch; no
\* commit, snapshot or DeleteRange makes an item pending again or forgets it.
DeliveryContract == Contract!Spec

\* Goroutines that use the database outside of a writer's critical section.
Busy(p) == pc[p] \in {"commit", "snapshot", "final", "harvest", "delete"}

\* The final harvest of Close never overlaps the harvest of Run or of another
\* Close: Close works on the database only when Run has returned or was never
\* called (the wait on a.runStopped) and while it holds a.mu.
OneHarvester == \A p, q \in Procs : Busy(p) /\ Busy(q) => p = q

\* No aggregated item vanishes: it is buffered, stored, delivered to the
\* Processor, or lost by a failed Commit or Processor call that is reported.  In
\* particular DeleteRange on the live database never removes an item that the
\* snapshot of the same harvest did not hold.
Accounted == issued \subseteq batch \cup runBatch \cup db \cup Settled

\* The Processor is never given the same item twice, and an item reported lost is
\* not delivered: Run's harvest, the final harvest of Close and a repeated Close
\* never harvest the same entry again.
AtMostOnce == redelivered = {} /\ delivered \cap dropped = {}

\* Every combined metrics key reaches the Processor in one harvest only, so that
\* a window is reported once per combined metrics ID and partition.
OneReportPerKey ==
    [][\A o \in delivered' \ delivered : \A d \in delivered : KeyOf(o) # KeyOf(d)]_delivered

\* A count is in cachedEvents, on its way to be published, or published, and in
\* one of these places only: no event is missing from EventsTotal or added twice.
CountsConserved ==
    /\ accepted = cached \cup eventsTotal \cup UNION {hStats[p] : p \in Procs}
    /\ cached \cap eventsTotal = {}
    /\ \A p \in Procs : hStats[p] \cap (cached \cup eventsTotal) = {}

\* Between two harvests of Run, every entry that is not settled belongs to a
\* window whose end is still ahead: the harvest at that end will find it.
Harvestable ==
    ~Busy(Runner) => \A o \in (batch \cup db) \ Settled : processingTime < o.pt + o.ivl

\* While Run is on time, the entries of an interval that are not settled all have
\* the processing time of the window that the final harvest of Close covers.
OneHarvestCandidate ==
    runStopped = "open" /\ ~Busy(Runner) /\ now < to + HarvestDelay =>
       \A o \in (batch \cup db) \ Settled : o.pt = KeyTime(o.ivl)

\* When Close has returned without an error nothing is left in the aggregator.
FinalHarvestComplete ==
    \A c \in Closers : pc[c] = "returned" => batch = {} /\ runBatch = {} /\ db = {}

\* An entry whose window ends within the bound on the clock is settled if Run is
\* running, unless the aggregator is closed first.
EventuallySettled ==
    \A e \in Events, ivl \in Intervals :
       (/\ runStopped = "open"
        /\ \E o \in issued : o.ev = e /\ o.ivl = ivl /\ o.pt + ivl + HarvestDelay <= MaxNow)
       ~> (closed \/ \A o \in issued : o.ev = e /\ o.ivl = ivl => o \in Settled)

\* A call of Close that waits for Run returns, unless the process panics.
CloseReturns ==
    \A c \in Closers : pc[c] = "wait" ~> (pc[c] \in {"failed", "returned"} \/ ~Alive)

\* Once the aggregator is closed a running Run returns.
CloseStopsRun == (closed /\ runStopped = "open" /\ Alive) ~> (runStopped = "closed" \/ ~Alive)
=============================================================================
