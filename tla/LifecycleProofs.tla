--------------------------- MODULE LifecycleProofs ---------------------------
(***************************************************************************)
(* Aggregators one after the other on one data directory, for every value  *)
(* of the constants: the types, the lock and where the items are when the  *)
(* process ends at any step and New is called again; what is delivered     *)
(* again was not deleted, whatever ends the process and however often;     *)
(* only what was buffered is lost with the process; and EventsProcessed    *)
(* exceeds EventsTotal only by what an earlier life has stored.            *)
(***************************************************************************)
EXTENDS Lifecycle, AggregatorProofs

-----------------------------------------------------------------------------
(* The invariant. *)

\* There is nothing in memory without a process.
DownInv ==
  /\ up \in BOOLEAN
  /\ ~up => /\ batch = {} /\ runBatch = {}
            /\ \A p \in Procs : pc[p] = "idle" /\ hSnap[p] = {}

\* Where the items are.  Items that are still buffered have never been stored.
PlacesInv ==
  /\ \A o \in issued : StatOf(o) \in accepted
  /\ batch \cup runBatch \cup db \cup delivered \subseteq issued
  /\ \A p \in Procs : hSnap[p] \subseteq issued /\ hSnap[p] \cap (batch \cup runBatch) = {}
  /\ batch \cap (runBatch \cup db \cup delivered) = {}
  /\ runBatch \cap (db \cup delivered) = {}
  /\ runBatch # {} => pc[Runner] = "commit"

-----------------------------------------------------------------------------
(* Types, the lock and the counts with a harvest. *)

LifeBase == TypeOK /\ IndexInv /\ LockInv /\ StatsInv /\ DownInv

\* The first life starts like an aggregator.
LEMMA BaseInit == LifeInit => LifeBase
BY TypeInit, LockInit, CountInit, Zenon DEF LifeInit, LifeBase, DownInv

\* The steps of an aggregator keep what is known of one life.
LEMMA BaseLive ==
  ASSUME LifeBase, Live
  PROVE  LifeBase'
<1> L2Next /\ Alive /\ up' /\ up = up'
  BY Zenon DEF Live, L2Next, lifeVars
<1>1. TypeOK' /\ IndexInv'
  BY TypeHarvesting, TypeAggregateCombinedMetrics, Zenon DEF L2Next, LifeBase
<1>2. LockInv'
  BY LockNext, Zenon DEF LifeBase
<1>3. StatsInv'
  BY CountHarvesting, CountAggregateCombinedMetrics, Zenon DEF L2Next, LifeBase
<1>4. DownInv'
  BY Zenon DEF DownInv, LifeBase
<1> QED BY <1>1, <1>2, <1>3, <1>4, Zenon DEF LifeBase

\* The end of the process leaves nothing in memory.
LEMMA BaseCrash ==
  ASSUME LifeBase, Crash
  PROVE  LifeBase'
<1> Runner \notin Closers /\ Free \notin Closers /\ Runner \in Procs
  BY ConstantsAssumption, ProcsAssumption, Zenon DEF Procs
<1>1. TypeOK'
  <2>1. /\ pc' \in [Procs -> RunnerPCs \cup CloserPCs] /\ pc'[Runner] \in RunnerPCs
        /\ \A c \in Closers : pc'[c] \in CloserPCs
    BY Zenon DEF Crash, Procs, RunnerPCs, CloserPCs
  <2>2. db' \subseteq Item
    BY Zenon DEF Crash, Surviving, LifeBase, TypeOK
  <2>3. /\ hEnd' \in [Procs -> Nat] /\ hSnap' \in [Procs -> SUBSET Item] /\ hStats' \in [Procs -> SUBSET Stat]
        /\ hIdx' \in [Procs -> 1 .. Len(AggregationIntervals) + 1]
        /\ closeIdx' \in [Closers -> 1 .. Len(AggregationIntervals) + 1]
    BY IntervalsNat DEF Crash
  <2>4. /\ closed' \in BOOLEAN /\ dbOpen' \in BOOLEAN /\ failed' \in [Closers -> BOOLEAN]
        /\ mu' \in Closers \cup {Free} /\ runStopped' \in {"nil", "open", "closed"} /\ to' \in Nat
        /\ batch' \subseteq Item /\ cached' \subseteq Stat /\ runBatch' \subseteq Item
    BY Zenon DEF Crash
  <2>5. UNCHANGED <<now, processingTime, eventsTotal, delivered, redelivered, dropped, issued, accepted>>
    BY Zenon DEF Crash, outputVars, inputVars
  <2> QED BY <2>1, <2>2, <2>3, <2>4, <2>5, Zenon DEF LifeBase, TypeOK
<1>2. IndexInv' /\ LockInv' /\ StatsInv' /\ DownInv'
  BY Zenon DEF Crash, IndexInv, LockInv, StatsInv, DownInv, Procs
<1> QED BY <1>1, <1>2, Zenon DEF LifeBase

\* New starts from the database with empty memory.
LEMMA BaseNew ==
  ASSUME LifeBase, New
  PROVE  LifeBase'
<1>1. UNCHANGED <<now, mu, batch, cached, closed, runStopped, db, pc, to, runBatch, hEnd, hIdx, hSnap,
                  hStats, closeIdx, failed, eventsTotal, delivered, redelivered, dropped, issued, accepted>>
  BY Zenon DEF New, harvestVars, closeVars, outputVars, inputVars
<1>2. processingTime' \in Nat /\ dbOpen' \in BOOLEAN /\ up' = TRUE
  BY TruncateBounds, IntervalsNat, Zenon DEF New, LifeBase, TypeOK
<1>3. TypeOK'
  BY <1>1, <1>2, Zenon DEF LifeBase, TypeOK
<1>4. IndexInv' /\ LockInv' /\ DownInv'
  BY <1>1, <1>2, Zenon DEF LifeBase, IndexInv, LockInv, DownInv
<1>5. StatsInv'
  BY <1>1, Zenon DEF LifeBase, StatsInv, Due
<1> QED BY <1>3, <1>4, <1>5, Zenon DEF LifeBase

\* Every step keeps what is known of one life.
LEMMA BaseNext ==
  ASSUME LifeBase, [LifeNext]_allVars
  PROVE  LifeBase'
<1>1. CASE Down
  <2>1. TypeOK' /\ IndexInv'
    BY <1>1, TypeHarvesting, Zenon DEF Down, Harvesting, LifeBase
  <2>2. UNCHANGED <<mu, runStopped, pc, batch, runBatch, up, hEnd, hIdx, hSnap, hStats>>
    BY <1>1, Zenon DEF Down, Tick, harvestVars, lifeVars
  <2>3. LockInv' /\ DownInv'
    BY <2>2, Zenon DEF LifeBase, LockInv, DownInv
  <2>4. StatsInv'
    BY <2>2, Zenon DEF LifeBase, StatsInv, Due
  <2> QED BY <2>1, <2>3, <2>4, Zenon DEF LifeBase
<1>2. CASE UNCHANGED allVars
  <2> UNCHANGED vars /\ up' = up
    BY <1>2, Zenon DEF allVars, lifeVars
  <2>1. TypeOK' /\ IndexInv' /\ LockInv' /\ StatsInv'
    BY TypeStutter, LockNext, CountStutter, Zenon DEF LifeBase
  <2>2. DownInv'
    BY Zenon DEF LifeBase, DownInv, vars, harvestVars
  <2> QED BY <2>1, <2>2, Zenon DEF LifeBase
<1> QED BY <1>1, <1>2, BaseLive, BaseCrash, BaseNew, Zenon DEF LifeNext

-----------------------------------------------------------------------------
(* Facts about the steps. *)

\* The intervals after the next one are after this one.
LEMMA NextIndex ==
  ASSUME NEW i \in Nat, NEW k, k = i + 1
  PROVE  \A j \in DOMAIN AggregationIntervals : j > k \/ j = k => j > i
BY IntervalsNat

\* Of the goroutines that use the database, there is one.
LEMMA Alone ==
  ASSUME LifeBase, NEW p \in Procs, Busy(p), NEW q \in Procs, q # p
  PROVE  ~Busy(q)
BY LockExcludes, Zenon DEF LifeBase, OneHarvester

\* A step that moves no item and no count.
Quiet ==
  /\ UNCHANGED <<batch, runBatch, cached, db, hEnd, hIdx, hStats, eventsTotal, delivered,
                 redelivered, dropped, issued, accepted>>
  /\ \A p \in Procs :
        /\ pc'[p] \in {"harvest", "delete"} => pc'[p] = pc[p] /\ hSnap'[p] = hSnap[p]
        /\ pc[p] = "delete" => pc'[p] = "delete"
        /\ hSnap'[p] \in {hSnap[p], {}}
  /\ pc'[Runner] = "commit" <=> pc[Runner] = "commit"
  /\ pc'[Runner] = "snapshot" => pc[Runner] = "snapshot"
  /\ pc'[Runner] = "lock" => pc[Runner] = "lock" \/ now >= to + HarvestDelay
  /\ now' \in Nat /\ now <= now'
  /\ to' # to => pc'[Runner] = "select"

\* The steps of Run that move no item, and New, which reads nothing of the database.
LEMMA QuietRun ==
  ASSUME LifeBase, Tick \/ Run \/ RunReturn \/ RunTimer \/ RunNext \/ New \/ UNCHANGED vars
  PROVE  Quiet
<1> USE DEF LifeBase, TypeOK, Procs, harvestVars, closeVars, outputVars, inputVars
<1>1. CASE Tick
  BY <1>1 DEF Tick, Quiet
<1>2. CASE Run
  BY <1>2 DEF Run, Quiet
<1>3. CASE RunReturn
  BY <1>3 DEF RunReturn, Quiet
<1>4. CASE RunTimer
  BY <1>4, SMTT(30) DEF RunTimer, Quiet
<1>5. CASE RunNext
  BY <1>5, SMTT(30) DEF RunNext, HarvestOver, Quiet
<1>6. CASE New
  BY <1>6, SMTT(30) DEF New, Quiet
<1>7. CASE UNCHANGED vars
  BY <1>7, SMTT(30) DEF vars, Quiet
<1> QED BY <1>1, <1>2, <1>3, <1>4, <1>5, <1>6, <1>7, Zenon

\* The steps of Close that move no item.
LEMMA QuietClose ==
  ASSUME LifeBase, NEW c \in Closers,
         \/ CloseBegin(c) \/ CloseRunStopped(c) \/ CloseCtxDone(c) \/ CloseAgain(c)
         \/ CloseNext(c) \/ CloseReturn(c)
  PROVE  Quiet
<1> USE DEF LifeBase, TypeOK, Procs, harvestVars, closeVars, outputVars, inputVars
<1> Runner \notin Closers
  BY ConstantsAssumption, Zenon
<1>1. CASE CloseBegin(c)
  BY <1>1, SMTT(30) DEF CloseBegin, Quiet
<1>2. CASE CloseRunStopped(c)
  BY <1>2, SMTT(30) DEF CloseRunStopped, Quiet
<1>3. CASE CloseCtxDone(c)
  BY <1>3, SMTT(30) DEF CloseCtxDone, Quiet
<1>4. CASE CloseAgain(c)
  BY <1>4, SMTT(30) DEF CloseAgain, Quiet
<1>5. CASE CloseNext(c)
  BY <1>5, SMTT(30) DEF CloseNext, HarvestOver, Quiet
<1>6. CASE CloseReturn(c)
  BY <1>6, SMTT(30) DEF CloseReturn, Quiet
<1> QED BY <1>1, <1>2, <1>3, <1>4, <1>5, <1>6, Zenon

\* The steps of a live aggregator.
LEMMA LiveSteps ==
  ASSUME LifeBase, Live
  PROVE  \/ Quiet
         \/ RunSwap \/ RunCommit \/ RunSnapshot
         \/ \E c \in Closers : CloseCommit(c) \/ CloseHarvest(c)
         \/ \E p \in Procs : HarvestStep(p)
         \/ \E o \in [ivl : Intervals, pt : 0 .. now, id : IDs, part : Partitions, ev : Events] :
               AggregateCombinedMetrics(o)
<1>1. Runner \in Procs /\ \A c \in Closers : c \in Procs
  BY Zenon DEF Procs
<1> QED BY <1>1, QuietRun, QuietClose, Zenon DEF Live, L2Next, Harvesting, RunStep, CloseStep

\* What AggregateCombinedMetrics does to an item that was never aggregated before.
LEMMA WriteStep ==
  ASSUME LifeBase, PlacesInv,
         NEW o \in [ivl : Intervals, pt : 0 .. now, id : IDs, part : Partitions, ev : Events],
         AggregateCombinedMetrics(o)
  PROVE  /\ o \notin issued /\ StatOf(o) \notin accepted
         /\ o \in Item /\ PeerItem(o)
         /\ \A c \in Closers : ~Busy(c)
         /\ issued' = issued \cup {o} /\ accepted' = accepted \cup {StatOf(o)}
         /\ cached' = cached \cup {StatOf(o)}
         /\ \/ batch' = batch \cup {o} /\ db' = db
            \/ batch' = {} /\ db' = db \cup batch \cup {o}
         /\ UNCHANGED <<now, pc, to, runBatch, hEnd, hIdx, hSnap, hStats, eventsTotal, delivered,
                        redelivered, dropped>>
<1>1. StatOf(o).ev = o.ev /\ \A q \in issued : StatOf(q) \in accepted
  BY Zenon DEF StatOf, PlacesInv
<1>2. o \notin issued /\ StatOf(o) \notin accepted
  BY <1>1, Zenon DEF AggregateCombinedMetrics
<1>3. o \in Item
  BY DEF Item, LifeBase, TypeOK
<1>4. \A c \in Closers : ~Busy(c)
  BY ProcsAssumption, Zenon DEF LifeBase, LockInv, TypeOK, Busy, AggregateCombinedMetrics, CloserPCs, Procs
<1>5. \/ batch' = batch \cup {o} /\ db' = db
      \/ batch' = {} /\ db' = db \cup batch \cup {o}
  <2>1. \A sent \in Flushable({o}) : sent = {o}
    BY Zenon DEF Flushable
  <2> QED BY <2>1, Zenon DEF AggregateCombinedMetrics, Aggregate
<1> QED BY <1>2, <1>3, <1>4, <1>5, Zenon DEF AggregateCombinedMetrics, harvestVars, outputVars

-----------------------------------------------------------------------------
(* Where the items are. *)

\* A quiet step leaves the items where they are.
LEMMA PlacesQuiet ==
  ASSUME LifeBase, PlacesInv, Quiet
  PROVE  PlacesInv'
BY Zenon DEF PlacesInv, Quiet

\* A harvest delivers and deletes items of the database only.
LEMMA PlacesHarvest ==
  ASSUME LifeBase, PlacesInv, NEW p \in Procs, HarvestStep(p)
  PROVE  PlacesInv'
<1> Runner \in Procs
  BY Zenon DEF Procs
<1>1. CASE HarvestSkip(p)
  BY <1>1, Zenon DEF HarvestSkip, PlacesInv, outputVars, inputVars
<1>2. CASE HarvestForInterval(p)
  <2>1. PICK good \in SUBSET Window(p) : delivered' = delivered \cup good
    BY <1>2, Zenon DEF HarvestForInterval
  <2>2. UNCHANGED <<batch, runBatch, db, hSnap, issued, accepted>>
    BY <1>2, Zenon DEF HarvestForInterval, inputVars
  <2>3. Window(p) \subseteq hSnap[p]
    BY Zenon DEF Window
  <2>4. pc[Runner] = "commit" => pc'[Runner] = "commit"
    BY <1>2, Zenon DEF HarvestForInterval, LifeBase, TypeOK
  <2> QED BY <2>1, <2>2, <2>3, <2>4, Zenon DEF PlacesInv
<1>3. CASE DeleteRange(p)
  <2>1. UNCHANGED <<batch, runBatch, hSnap, delivered, issued, accepted>> /\ db' \subseteq db
    BY <1>3, Zenon DEF DeleteRange, Remaining, outputVars, inputVars
  <2>2. pc[Runner] = "commit" => pc'[Runner] = "commit"
    BY <1>3, Zenon DEF DeleteRange, LifeBase, TypeOK
  <2> QED BY <2>1, <2>2, Zenon DEF PlacesInv
<1> QED BY <1>1, <1>2, <1>3, Zenon DEF HarvestStep

\* Run moves items from a.batch to its batch, to the database and into a snapshot.
LEMMA PlacesRun ==
  ASSUME LifeBase, PlacesInv, RunSwap \/ RunCommit \/ RunSnapshot
  PROVE  PlacesInv'
<1> USE DEF harvestVars, outputVars, inputVars
<1> Runner \in Procs
  BY Zenon DEF Procs
<1>1. CASE RunSwap
  <2>1. pc'[Runner] = "commit"
    BY <1>1, Zenon DEF RunSwap, LifeBase, TypeOK
  <2> QED BY <1>1, <2>1, Zenon DEF RunSwap, PlacesInv
<1>2. CASE RunCommit
  <2>1. /\ db' \subseteq db \cup runBatch /\ runBatch' = {}
        /\ UNCHANGED <<batch, hSnap, delivered, issued, accepted>>
    BY <1>2, Zenon DEF RunCommit
  <2> QED BY <2>1, Zenon DEF PlacesInv
<1>3. CASE RunSnapshot
  <2>1. UNCHANGED <<batch, runBatch, db, delivered, issued, accepted>> /\ pc[Runner] # "commit"
    BY <1>3, Zenon DEF RunSnapshot
  <2>2. \A p \in Procs : hSnap'[p] = hSnap[p] \/ hSnap'[p] = db
    BY <1>3, Zenon DEF RunSnapshot, LifeBase, TypeOK
  <2> QED BY <2>1, <2>2, Zenon DEF PlacesInv
<1> QED BY <1>1, <1>2, <1>3, Zenon

\* Close moves items from a.batch to the database and into a snapshot.
LEMMA PlacesClose ==
  ASSUME LifeBase, PlacesInv, NEW c \in Closers, CloseCommit(c) \/ CloseHarvest(c)
  PROVE  PlacesInv'
<1> USE DEF harvestVars, outputVars, inputVars
<1>1. c # Runner /\ Runner \in Procs
  BY ConstantsAssumption, Zenon DEF Procs
<1>2. pc'[Runner] = pc[Runner]
  BY <1>1, Zenon DEF CloseCommit, CloseHarvest, LifeBase, TypeOK
<1>3. CASE CloseCommit(c)
  <2>1. /\ \/ db' = db \cup batch /\ batch' = {}
           \/ db' = db /\ batch' = batch
        /\ UNCHANGED <<runBatch, hSnap, delivered, issued, accepted>>
    BY <1>3, Zenon DEF CloseCommit
  <2>2. pc[Runner] # "commit"
    BY <1>3, Zenon DEF CloseCommit, LifeBase, LockInv
  <2> QED BY <1>2, <2>1, <2>2, Zenon DEF PlacesInv
<1>4. CASE CloseHarvest(c)
  <2>1. UNCHANGED <<batch, runBatch, db, delivered, issued, accepted>>
    BY <1>4, Zenon DEF CloseHarvest
  <2>2. \A p \in Procs : hSnap'[p] = hSnap[p] \/ hSnap'[p] = db
    BY <1>4, Zenon DEF CloseHarvest, LifeBase, TypeOK
  <2> QED BY <1>2, <2>1, <2>2, Zenon DEF PlacesInv
<1> QED BY <1>3, <1>4, Zenon

\* AggregateCombinedMetrics writes an item that is nowhere else.
LEMMA PlacesWrite ==
  ASSUME LifeBase, PlacesInv,
         NEW o \in [ivl : Intervals, pt : 0 .. now, id : IDs, part : Partitions, ev : Events],
         AggregateCombinedMetrics(o)
  PROVE  PlacesInv'
<1>1. /\ o \notin issued
      /\ issued' = issued \cup {o} /\ accepted' = accepted \cup {StatOf(o)}
      /\ \/ batch' = batch \cup {o} /\ db' = db
         \/ batch' = {} /\ db' = db \cup batch \cup {o}
      /\ UNCHANGED <<pc, runBatch, hSnap, delivered>>
  BY WriteStep, Zenon
<1>2. \A q : StatOf(q)' = StatOf(q)
  BY Zenon DEF StatOf
<1> QED BY <1>1, <1>2 DEF PlacesInv

\* The end of the process only removes items.
LEMMA PlacesCrash ==
  ASSUME LifeBase, PlacesInv, Crash
  PROVE  PlacesInv'
<1>1. /\ batch' = {} /\ runBatch' = {} /\ db' \subseteq db /\ \A p \in Procs : hSnap'[p] = {}
      /\ UNCHANGED <<delivered, issued, accepted>>
  BY Zenon DEF Crash, Surviving, outputVars, inputVars
<1> QED BY <1>1, Zenon DEF PlacesInv

\* Every step keeps the places apart.
LEMMA PlacesNext ==
  ASSUME LifeBase, PlacesInv, [LifeNext]_allVars
  PROVE  PlacesInv'
<1>1. CASE Live
  BY <1>1, LiveSteps, PlacesQuiet, PlacesHarvest, PlacesRun, PlacesClose, PlacesWrite, Zenon
<1>2. CASE Down \/ New \/ UNCHANGED allVars
  BY <1>2, QuietRun, PlacesQuiet, Zenon DEF Down, allVars
<1> QED BY <1>1, <1>2, PlacesCrash, Zenon DEF LifeNext

-----------------------------------------------------------------------------
(* What is delivered again: the invariant. *)

\* A delivered item is stored, or in a snapshot, only until the harvest that delivered it
\* is past the interval, unless its DeleteRange failed or was never reached.
UndeletedInv ==
  /\ \A o \in db \cap delivered :
        \/ o \in undeleted
        \/ \E p \in Procs : pc[p] = "delete" /\ InWindow(o, HarvestIvl(p), hEnd[p])
  /\ \A p \in Procs : pc[p] \in {"harvest", "delete"} =>
        \A o \in hSnap[p] \cap delivered, j \in DOMAIN AggregationIntervals :
           j > hIdx[p] \/ (j = hIdx[p] /\ pc[p] = "harvest") =>
              o \in undeleted \/ o.ivl # AggregationIntervals[j]
  /\ RedeliveredOnlyUndeleted

-----------------------------------------------------------------------------
(* Delivered once, unless it was not deleted. *)

\* A quiet step neither delivers an item nor passes an interval.
LEMMA UndeletedQuiet ==
  ASSUME LifeBase, UndeletedInv, Quiet, undeleted \subseteq undeleted'
  PROVE  UndeletedInv'
<1> \A p : HarvestIvl(p)' = HarvestIvl(p)
  BY Zenon DEF Quiet, HarvestIvl
<1>1. \A o \in db' \cap delivered' :
         \/ o \in undeleted'
         \/ \E p \in Procs : pc'[p] = "delete" /\ InWindow(o, HarvestIvl(p), hEnd[p])'
  BY Zenon DEF UndeletedInv, Quiet, InWindow
<1>2. \A p \in Procs : pc'[p] \in {"harvest", "delete"} =>
         \A o \in hSnap'[p] \cap delivered', j \in DOMAIN AggregationIntervals :
            j > hIdx'[p] \/ (j = hIdx'[p] /\ pc'[p] = "harvest") =>
               o \in undeleted' \/ o.ivl # AggregationIntervals[j]
  BY DEF UndeletedInv, Quiet
<1>3. RedeliveredOnlyUndeleted'
  BY Zenon DEF UndeletedInv, Quiet, RedeliveredOnlyUndeleted
<1> QED BY <1>1, <1>2, <1>3, Zenon DEF UndeletedInv

\* A harvest passes an interval whose window is deleted, or leaves what it delivered of
\* it among the undeleted.
LEMMA UndeletedHarvest ==
  ASSUME LifeBase, UndeletedInv, NEW p \in Procs, HarvestStep(p), undeleted \subseteq undeleted',
         pc'[p] # "delete" => \A o \in db' \cap delivered :
            pc[p] = "delete" /\ InWindow(o, HarvestIvl(p), hEnd[p]) => o \in undeleted'
  PROVE  UndeletedInv'
<1>1. pc[p] \in {"harvest", "delete"} /\ Busy(p) /\ hIdx[p] \in Nat
  <2>1. pc[p] \in {"harvest", "delete"}
    BY Zenon DEF HarvestStep, HarvestSkip, HarvestForInterval, DeleteRange
  <2>2. hIdx[p] \in Nat
    BY DEF LifeBase, TypeOK
  <2> QED BY <2>1, <2>2, Zenon DEF Busy
<1>2. \A q \in Procs : q # p => pc[q] \notin {"harvest", "delete"} /\ pc'[q] = pc[q]
  <2>1. \A q \in Procs : q # p => pc[q] \notin {"harvest", "delete"}
    BY <1>1, Alone, Zenon DEF Busy
  <2>2. \A q \in Procs : q # p => pc'[q] = pc[q]
    BY Zenon DEF HarvestStep, HarvestSkip, HarvestForInterval, DeleteRange, LifeBase, TypeOK
  <2> QED BY <2>1, <2>2, Zenon
<1>3. UNCHANGED <<hSnap, hEnd>>
  BY Zenon DEF HarvestStep, HarvestSkip, HarvestForInterval, DeleteRange
<1>4. CASE HarvestSkip(p)
  <2>1. /\ hIdx'[p] = hIdx[p] + 1 /\ pc[p] = "harvest" /\ pc' = pc
        /\ UNCHANGED <<db, delivered, redelivered>>
    BY <1>4, Zenon DEF HarvestSkip, LifeBase, TypeOK, outputVars
  <2>2. \A j \in DOMAIN AggregationIntervals : j > hIdx'[p] \/ j = hIdx'[p] => j > hIdx[p]
    BY <1>1, <2>1, NextIndex, Zenon
  <2>3. \A o \in db \cap delivered : o \in undeleted
    BY <1>2, <2>1, Zenon DEF UndeletedInv
  <2>4. \A q \in Procs : pc'[q] \in {"harvest", "delete"} =>
           \A o \in hSnap'[q] \cap delivered', j \in DOMAIN AggregationIntervals :
              j > hIdx'[q] \/ (j = hIdx'[q] /\ pc'[q] = "harvest") =>
                 o \in undeleted' \/ o.ivl # AggregationIntervals[j]
    <3>1. \A q \in Procs : pc'[q] \in {"harvest", "delete"} => q = p
      BY <1>2, <2>1, Zenon
    <3>2. \A o \in hSnap[p] \cap delivered, j \in DOMAIN AggregationIntervals :
             j > hIdx[p] => o \in undeleted \/ o.ivl # AggregationIntervals[j]
      BY <2>1, Zenon DEF UndeletedInv
    <3> QED BY <1>3, <2>1, <2>2, <3>1, <3>2, Zenon
  <2>5. RedeliveredOnlyUndeleted'
    BY <2>1, Zenon DEF UndeletedInv, RedeliveredOnlyUndeleted
  <2> QED BY <2>1, <2>3, <2>4, <2>5, Zenon DEF UndeletedInv
<1>5. CASE HarvestForInterval(p)
  <2>1. PICK good \in SUBSET Window(p) :
           redelivered' = redelivered \cup (good \cap delivered) /\ delivered' = delivered \cup good
    BY <1>5, Zenon DEF HarvestForInterval
  <2>2. /\ pc[p] = "harvest" /\ pc'[p] = "delete" /\ hIdx[p] \in DOMAIN AggregationIntervals
        /\ UNCHANGED <<db, hIdx>>
    BY <1>5, Zenon DEF HarvestForInterval, LifeBase, TypeOK
  <2>3. \A o \in good : o \in hSnap[p] /\ o.ivl = HarvestIvl(p) /\ InWindow(o, HarvestIvl(p), hEnd[p])
    BY <2>1, Zenon DEF Window, InWindow
  <2>4. RedeliveredOnlyUndeleted'
    BY <1>1, <2>1, <2>2, <2>3, Zenon DEF UndeletedInv, RedeliveredOnlyUndeleted, HarvestIvl
  <2>5. HarvestIvl(p)' = HarvestIvl(p)
    BY <2>2, Zenon DEF HarvestIvl
  <2>6. \A o \in db \cap delivered : o \in undeleted
    BY <1>2, <2>2, Zenon DEF UndeletedInv
  <2>7. \A o \in db' \cap delivered' :
           o \in undeleted' \/ (pc'[p] = "delete" /\ InWindow(o, HarvestIvl(p), hEnd[p])')
    BY <1>3, <2>1, <2>2, <2>3, <2>5, <2>6, Zenon DEF InWindow
  <2>8. \A o \in hSnap'[p] \cap delivered', j \in DOMAIN AggregationIntervals :
           j > hIdx'[p] => o \in undeleted' \/ o.ivl # AggregationIntervals[j]
    <3>1. \A j \in DOMAIN AggregationIntervals : j > hIdx[p] => AggregationIntervals[j] # HarvestIvl(p)
      <4>1. \A j \in DOMAIN AggregationIntervals :
               AggregationIntervals[j] \in Nat /\ HarvestIvl(p) \in Nat
        BY <2>2, IntervalsNat, Zenon DEF HarvestIvl
      <4> QED BY <2>2, <4>1, IntervalsAssumption DEF HarvestIvl
    <3> QED BY <1>3, <2>1, <2>2, <2>3, <3>1, Zenon DEF UndeletedInv
  <2> QED BY <1>2, <2>2, <2>4, <2>7, <2>8, Zenon DEF UndeletedInv
<1>6. CASE DeleteRange(p)
  <2>1. /\ hIdx'[p] = hIdx[p] + 1 /\ pc[p] = "delete" /\ pc'[p] = "harvest"
        /\ UNCHANGED <<delivered, redelivered>> /\ db' \subseteq db
    BY <1>6, Zenon DEF DeleteRange, Remaining, LifeBase, TypeOK, outputVars
  <2>2. \A j \in DOMAIN AggregationIntervals : j > hIdx'[p] \/ j = hIdx'[p] => j > hIdx[p]
    BY <1>1, <2>1, NextIndex, Zenon
  <2>3. \A o \in db \cap delivered : o \in undeleted \/ InWindow(o, HarvestIvl(p), hEnd[p])
    BY <1>2, <2>1, Zenon DEF UndeletedInv
  <2>4. \A o \in db' \cap delivered : o \in undeleted'
    BY <2>1, <2>3, Zenon
  <2> QED BY <1>2, <1>3, <2>1, <2>2, <2>4 DEF UndeletedInv, RedeliveredOnlyUndeleted
<1> QED BY <1>4, <1>5, <1>6, Zenon DEF HarvestStep

\* A harvest takes its snapshot when no other harvest is at its DeleteRange.
LEMMA UndeletedSnapshot ==
  ASSUME LifeBase, UndeletedInv, NEW p \in Procs, Busy(p), pc[p] # "delete", undeleted \subseteq undeleted',
         \A q \in Procs : q # p => pc'[q] = pc[q],
         pc'[p] # "delete",
         pc'[p] = "harvest" => hSnap'[p] = db,
         UNCHANGED <<db, delivered, redelivered>>
  PROVE  UndeletedInv'
<1>1. \A q \in Procs : q # p => pc[q] \notin {"harvest", "delete"} /\ pc'[q] \notin {"harvest", "delete"}
  BY Alone, Zenon DEF Busy
<1>2. \A o \in db \cap delivered : o \in undeleted
  BY <1>1, Zenon DEF UndeletedInv
<1> QED BY <1>1, <1>2, Zenon DEF UndeletedInv, RedeliveredOnlyUndeleted

\* Items enter the database before they are delivered.
LEMMA UndeletedStore ==
  ASSUME LifeBase, UndeletedInv, undeleted \subseteq undeleted',
         \A o \in db' : o \in db \/ o \notin delivered,
         \A p \in Procs : pc'[p] = pc[p] \/ {pc[p], pc'[p]} \cap {"harvest", "delete"} = {},
         UNCHANGED <<hEnd, hIdx, hSnap, delivered, redelivered>>
  PROVE  UndeletedInv'
<1> \A p : HarvestIvl(p)' = HarvestIvl(p)
  BY Zenon DEF HarvestIvl
<1>1. \A p \in Procs : (pc'[p] = "delete" <=> pc[p] = "delete") /\ (pc'[p] = "harvest" <=> pc[p] = "harvest")
  BY Zenon
<1>2. \A o \in db' \cap delivered' :
         \/ o \in undeleted'
         \/ \E p \in Procs : pc'[p] = "delete" /\ InWindow(o, HarvestIvl(p), hEnd[p])'
  BY <1>1, Zenon DEF UndeletedInv, InWindow
<1>3. \A p \in Procs : pc'[p] \in {"harvest", "delete"} =>
         \A o \in hSnap'[p] \cap delivered', j \in DOMAIN AggregationIntervals :
            j > hIdx'[p] \/ (j = hIdx'[p] /\ pc'[p] = "harvest") =>
               o \in undeleted' \/ o.ivl # AggregationIntervals[j]
  BY <1>1 DEF UndeletedInv
<1>4. RedeliveredOnlyUndeleted'
  BY Zenon DEF UndeletedInv, RedeliveredOnlyUndeleted
<1> QED BY <1>2, <1>3, <1>4, Zenon DEF UndeletedInv

\* Every step of an aggregator keeps the invariant.
LEMMA UndeletedLive ==
  ASSUME LifeBase, PlacesInv, UndeletedInv, Live
  PROVE  UndeletedInv'
<1> USE DEF harvestVars, outputVars, inputVars
<1> undeleted \subseteq undeleted' /\ Runner \in Procs
  BY Zenon DEF Live, Procs
<1>1. CASE Quiet
  BY <1>1, UndeletedQuiet, Zenon
<1>2. ASSUME NEW p \in Procs, HarvestStep(p) PROVE UndeletedInv'
  <2>1. pc'[p] # "delete" => \A o \in db' \cap delivered :
           pc[p] = "delete" /\ InWindow(o, HarvestIvl(p), hEnd[p]) => o \in undeleted'
    BY Zenon DEF Live
  <2> QED BY <1>2, <2>1, UndeletedHarvest, Zenon
<1>3. CASE RunSnapshot
  <2>1. /\ Busy(Runner) /\ pc[Runner] # "delete" /\ pc'[Runner] # "delete"
        /\ pc'[Runner] = "harvest" => hSnap'[Runner] = db
        /\ \A q \in Procs : q # Runner => pc'[q] = pc[q]
        /\ UNCHANGED <<db, delivered, redelivered>>
    BY <1>3, Zenon DEF RunSnapshot, Busy, LifeBase, TypeOK
  <2> QED BY <2>1, UndeletedSnapshot, Zenon
<1>4. ASSUME NEW c \in Closers, CloseHarvest(c) PROVE UndeletedInv'
  <2>1. c \in Procs
    BY Zenon DEF Procs
  <2>2. /\ Busy(c) /\ pc[c] # "delete" /\ pc'[c] # "delete"
        /\ hSnap'[c] = db
        /\ \A q \in Procs : q # c => pc'[q] = pc[q]
        /\ UNCHANGED <<db, delivered, redelivered>>
    BY <1>4, <2>1, Zenon DEF CloseHarvest, Busy, LifeBase, TypeOK
  <2> QED BY <2>1, <2>2, UndeletedSnapshot, Zenon
<1>5. CASE RunSwap
  <2>1. /\ pc[Runner] = "lock" /\ pc'[Runner] = "commit"
        /\ \A p \in Procs : p # Runner => pc'[p] = pc[p] /\ hEnd'[p] = hEnd[p]
    BY <1>5, Zenon DEF RunSwap, LifeBase, TypeOK
  <2>2. UNCHANGED <<db, hIdx, hSnap, delivered, redelivered>>
    BY <1>5, Zenon DEF RunSwap
  <2>3. \A p : HarvestIvl(p)' = HarvestIvl(p)
    BY <2>2, Zenon DEF HarvestIvl
  <2>4. \A p \in Procs : pc[p] \in {"harvest", "delete"} \/ pc'[p] \in {"harvest", "delete"} =>
           pc'[p] = pc[p] /\ hEnd'[p] = hEnd[p]
    BY <2>1, Zenon
  <2>5. \A o \in db' \cap delivered' :
           \/ o \in undeleted'
           \/ \E p \in Procs : pc'[p] = "delete" /\ InWindow(o, HarvestIvl(p), hEnd[p])'
    BY <2>2, <2>3, <2>4, Zenon DEF UndeletedInv, InWindow
  <2>6. \A p \in Procs : pc'[p] \in {"harvest", "delete"} =>
           \A o \in hSnap'[p] \cap delivered', j \in DOMAIN AggregationIntervals :
              j > hIdx'[p] \/ (j = hIdx'[p] /\ pc'[p] = "harvest") =>
                 o \in undeleted' \/ o.ivl # AggregationIntervals[j]
    <3>1. \A p \in Procs : pc[p] \in {"harvest", "delete"} =>
             \A o \in hSnap[p] \cap delivered, j \in DOMAIN AggregationIntervals :
                j > hIdx[p] \/ (j = hIdx[p] /\ pc[p] = "harvest") =>
                   o \in undeleted \/ o.ivl # AggregationIntervals[j]
      BY Zenon DEF UndeletedInv
    <3> QED BY <2>2, <2>4, <3>1
  <2>7. RedeliveredOnlyUndeleted'
    BY <2>2, Zenon DEF UndeletedInv, RedeliveredOnlyUndeleted
  <2> QED BY <2>5, <2>6, <2>7, Zenon DEF UndeletedInv
<1>6. CASE RunCommit
  <2>1. \A p \in Procs : pc'[p] = pc[p] \/ {pc[p], pc'[p]} \cap {"harvest", "delete"} = {}
    BY <1>6, Zenon DEF RunCommit, LifeBase, TypeOK
  <2>2. db' \subseteq db \cup runBatch /\ UNCHANGED <<hEnd, hIdx, hSnap, delivered, redelivered>>
    BY <1>6, Zenon DEF RunCommit
  <2> QED BY <2>1, <2>2, UndeletedStore, Zenon DEF PlacesInv
<1>7. ASSUME NEW c \in Closers, CloseCommit(c) PROVE UndeletedInv'
  <2>1. \A p \in Procs : pc'[p] = pc[p] \/ {pc[p], pc'[p]} \cap {"harvest", "delete"} = {}
    BY <1>7, Zenon DEF CloseCommit, LifeBase, TypeOK
  <2>2. db' \subseteq db \cup batch /\ UNCHANGED <<hEnd, hIdx, hSnap, delivered, redelivered>>
    BY <1>7, Zenon DEF CloseCommit
  <2> QED BY <2>1, <2>2, UndeletedStore, Zenon DEF PlacesInv
<1>8. ASSUME NEW o \in [ivl : Intervals, pt : 0 .. now, id : IDs, part : Partitions, ev : Events],
             AggregateCombinedMetrics(o)
      PROVE  UndeletedInv'
  <2>1. /\ o \notin issued /\ db' \subseteq db \cup batch \cup {o}
        /\ UNCHANGED <<pc, hEnd, hIdx, hSnap, delivered, redelivered>>
    BY <1>8, WriteStep, Zenon
  <2>2. o \notin delivered
    BY <2>1, Zenon DEF PlacesInv
  <2> QED BY <2>1, <2>2, UndeletedStore, Zenon DEF PlacesInv
<1> QED BY <1>1, <1>2, <1>3, <1>4, <1>5, <1>6, <1>7, <1>8, LiveSteps, Zenon

\* Every step keeps the invariant, also the end of the process before DeleteRange.
LEMMA UndeletedNext ==
  ASSUME LifeBase, PlacesInv, UndeletedInv, [LifeNext]_allVars
  PROVE  UndeletedInv'
<1>1. CASE Down \/ New \/ UNCHANGED allVars
  <2>1. undeleted \subseteq undeleted'
    BY <1>1, Zenon DEF Down, New, allVars, historyVars
  <2> QED BY <1>1, <2>1, QuietRun, UndeletedQuiet, Zenon DEF Down, allVars
<1>2. CASE Crash
  <2>1. /\ \A p \in Procs : pc'[p] = "idle"
        /\ db' = Surviving /\ undeleted' = undeleted \cup (Surviving \cap delivered)
        /\ UNCHANGED <<delivered, redelivered>>
    BY <1>2, Zenon DEF Crash, outputVars
  <2> QED BY <2>1, Zenon DEF UndeletedInv, RedeliveredOnlyUndeleted
<1> QED BY <1>1, <1>2, UndeletedLive, Zenon DEF LifeNext

RedeliveryIInv == LifeBase /\ PlacesInv /\ UndeletedInv

\* Whatever fails and wherever the process ends, the Processor is given an item again only
\* if its DeleteRange has failed or was never reached.
THEOREM LifeRedelivery == LifeSpec => []RedeliveredOnlyUndeleted
<1>1. LifeInit => RedeliveryIInv
  BY BaseInit, Zenon DEF LifeInit, Init, RedeliveryIInv, PlacesInv, UndeletedInv, RedeliveredOnlyUndeleted
<1>2. RedeliveryIInv /\ [LifeNext]_allVars => RedeliveryIInv'
  BY BaseNext, PlacesNext, UndeletedNext, Zenon DEF RedeliveryIInv
<1>3. RedeliveryIInv => RedeliveredOnlyUndeleted
  BY Zenon DEF RedeliveryIInv, UndeletedInv
<1> QED BY <1>1, <1>2, <1>3, PTL DEF LifeSpec

-----------------------------------------------------------------------------
(* What is stored: the invariant. *)

\* The window of an interval that the harvest of p covers has o.
Covers(p, o) == Due(hEnd[p], o.ivl) /\ InWindow(o, o.ivl, hEnd[p])

\* Partial metrics come too late for the windows that Run is harvesting.
LateInv ==
  /\ pc[Runner] \in {"lock", "commit", "snapshot", "harvest", "delete"} => now >= to + HarvestDelay
  /\ pc[Runner] \in {"commit", "snapshot", "harvest", "delete"} =>
        hEnd[Runner] = to /\ \A o \in batch : ~Covers(Runner, o)

\* A snapshot holds all that its harvest covers and nothing has settled.
CoveredInv ==
  /\ \A p \in Procs : pc[p] \in {"harvest", "delete"} =>
        \A o \in db : Covers(p, o) => o \in hSnap[p] \/ o \in Settled
  /\ \A p \in Procs : pc[p] = "delete" =>
        /\ Due(hEnd[p], HarvestIvl(p))
        /\ \A o \in db : InWindow(o, HarvestIvl(p), hEnd[p]) => o \in Settled

-----------------------------------------------------------------------------
(* What is stored stays until it is settled. *)

\* Partial metrics arrive before the harvest of their window: HarvestDelay is chosen for it.
Punctual == MaxLag < HarvestDelay

\* What a peer sends while Run harvests belongs to later windows.
LEMMA PeerNotCovered ==
  ASSUME LifeBase, Punctual, LateInv, NEW o \in Item, PeerItem(o), Busy(Runner)
  PROVE  ~Covers(Runner, o)
<1> SUFFICES ASSUME Covers(Runner, o) PROVE FALSE
  BY Zenon
<1> DEFINE end == hEnd[Runner]
<1>1. /\ end \in Nat /\ to \in Nat /\ now \in Nat /\ o.pt \in Nat /\ o.ivl \in Nat \ {0}
      /\ MaxLag \in Nat /\ HarvestDelay \in Nat
  BY IntervalsNat, ConstantsAssumption, Zenon DEF LifeBase, TypeOK, Procs, Item
<1>2. now >= end + HarvestDelay
  BY Zenon DEF LateInv, Busy, LifeBase, TypeOK, RunnerPCs
<1>3. o.pt % o.ivl = 0 /\ now <= o.pt + o.ivl + MaxLag
  BY Zenon DEF PeerItem
<1>4. o.pt < end /\ end - (end % o.ivl) = end
  BY Zenon DEF Covers, Due, InWindow, Truncate
<1> HIDE DEF end
<1>5. end % o.ivl = 0
  BY <1>1, <1>4, TruncateFixed, Zenon
<1>6. o.pt + o.ivl <= end
  BY <1>1, <1>3, <1>4, <1>5, NextMultiple, Zenon
<1> QED BY <1>1, <1>2, <1>3, <1>6 DEF Punctual

\* Run harvests a window only after the harvest delay, when no peer sends metrics for
\* it any more.
LEMMA LateLive ==
  ASSUME LifeBase, Punctual, PlacesInv, LateInv, Live
  PROVE  LateInv'
<1> USE DEF harvestVars, outputVars, inputVars
<1> Runner \in Procs /\ Runner \notin Closers /\ now \in Nat /\ to \in Nat /\ HarvestDelay \in Nat
  BY ConstantsAssumption, Zenon DEF Procs, LifeBase, TypeOK
<1>1. CASE Quiet
  <2>1. UNCHANGED <<batch, hEnd>> /\ now <= now' /\ now' \in Nat
    BY <1>1, Zenon DEF Quiet
  <2>2. pc'[Runner] \in {"lock", "commit", "snapshot", "harvest", "delete"} =>
           to' = to /\ (pc'[Runner] = pc[Runner] \/ now >= to + HarvestDelay)
    BY <1>1, Zenon DEF Quiet
  <2>3. pc'[Runner] \in {"commit", "snapshot", "harvest", "delete"} => pc'[Runner] = pc[Runner]
    BY <1>1 DEF Quiet
  <2>4. pc'[Runner] \in {"lock", "commit", "snapshot", "harvest", "delete"} => now' >= to' + HarvestDelay
    BY <2>1, <2>2 DEF LateInv
  <2> QED BY <2>1, <2>2, <2>3, <2>4, Zenon DEF LateInv, Covers, Due, InWindow
<1>2. ASSUME NEW p \in Procs, HarvestStep(p) PROVE LateInv'
  <2>1. /\ UNCHANGED <<batch, hEnd, now, to>>
        /\ pc'[Runner] = pc[Runner] \/ pc[Runner] \in {"harvest", "delete"}
    BY <1>2, Zenon DEF HarvestStep, HarvestSkip, HarvestForInterval, DeleteRange, LifeBase, TypeOK
  <2> QED BY <2>1, Zenon DEF LateInv, Covers, Due, InWindow
<1>3. CASE RunSwap
  BY <1>3, Zenon DEF RunSwap, LateInv, LifeBase, TypeOK
<1>4. CASE RunCommit \/ RunSnapshot
  <2>1. UNCHANGED <<batch, hEnd, now, to>> /\ pc[Runner] \in {"commit", "snapshot"}
    BY <1>4, Zenon DEF RunCommit, RunSnapshot
  <2> QED BY <2>1, Zenon DEF LateInv, Covers, Due, InWindow
<1>5. ASSUME NEW c \in Closers, CloseCommit(c) \/ CloseHarvest(c) PROVE LateInv'
  <2>1. pc'[Runner] = pc[Runner] /\ pc[Runner] \in {"idle", "returned"}
    BY <1>5, Zenon DEF CloseCommit, CloseHarvest, LifeBase, TypeOK, LockInv
  <2> QED BY <2>1, Zenon DEF LateInv
<1>6. ASSUME NEW o \in [ivl : Intervals, pt : 0 .. now, id : IDs, part : Partitions, ev : Events],
             AggregateCombinedMetrics(o)
      PROVE  LateInv'
  <2>1. o \in Item /\ PeerItem(o) /\ batch' \subseteq batch \cup {o} /\ UNCHANGED <<now, pc, to, hEnd>>
    BY <1>6, WriteStep, Zenon
  <2>2. Busy(Runner) => ~Covers(Runner, o)
    BY <2>1, PeerNotCovered, Zenon
  <2>3. \A q : Covers(Runner, q)' <=> Covers(Runner, q)
    BY <2>1, Zenon DEF Covers, Due, InWindow
  <2>4. pc[Runner] \in {"commit", "snapshot", "harvest", "delete"} => Busy(Runner)
    BY Zenon DEF Busy
  <2> QED BY <2>1, <2>2, <2>3, <2>4, Zenon DEF LateInv
<1> QED BY <1>1, <1>2, <1>3, <1>4, <1>5, <1>6, LiveSteps, Zenon

\* Every step keeps the invariant: with the process ends the harvest.
LEMMA LateNext ==
  ASSUME LifeBase, Punctual, PlacesInv, LateInv, [LifeNext]_allVars
  PROVE  LateInv'
<1> Runner \in Procs
  BY Zenon DEF Procs
<1>1. CASE Down \/ New \/ UNCHANGED allVars
  <2>1. pc' = pc /\ UNCHANGED <<batch, hEnd, to>> /\ now' \in Nat /\ now <= now'
    BY <1>1, SMTT(30) DEF Down, New, Tick, allVars, vars, harvestVars, LifeBase, TypeOK
  <2>2. now \in Nat /\ to \in Nat /\ HarvestDelay \in Nat
    BY ConstantsAssumption, Zenon DEF LifeBase, TypeOK
  <2>3. pc[Runner] \in {"lock", "commit", "snapshot", "harvest", "delete"} => now' >= to + HarvestDelay
    BY <2>1, <2>2 DEF LateInv
  <2> QED BY <2>1, <2>3, Zenon DEF LateInv, Covers, Due, InWindow
<1>2. CASE Crash
  BY <1>2, Zenon DEF Crash, LateInv
<1> QED BY <1>1, <1>2, LateLive, Zenon DEF LifeNext

\* A quiet step changes neither the database nor a snapshot of a harvest.
LEMMA CoveredQuiet ==
  ASSUME LifeBase, CoveredInv, Quiet
  PROVE  CoveredInv'
<1>1. /\ \A p, o : Covers(p, o)' <=> Covers(p, o)
      /\ \A p, o : InWindow(o, HarvestIvl(p), hEnd[p])' <=> InWindow(o, HarvestIvl(p), hEnd[p])
      /\ \A p : Due(hEnd[p], HarvestIvl(p))' <=> Due(hEnd[p], HarvestIvl(p))
      /\ Settled' = Settled
  BY Zenon DEF Quiet, Covers, Due, InWindow, HarvestIvl, Settled
<1> QED BY <1>1, Zenon DEF CoveredInv, Quiet

\* A harvest delivers, or reports lost, all of a window before it deletes it.
LEMMA CoveredHarvest ==
  ASSUME LifeBase, "iterate" \notin Faults, CoveredInv, NEW p \in Procs, HarvestStep(p)
  PROVE  CoveredInv' /\ Settled \subseteq Settled' /\ (\A o \in db \ db' : o \in Settled)
<1>1. pc[p] \in {"harvest", "delete"} /\ Busy(p)
  BY Zenon DEF HarvestStep, HarvestSkip, HarvestForInterval, DeleteRange, Busy
<1>2. \A q \in Procs : q # p => pc'[q] \notin {"harvest", "delete"}
  <2>1. \A q \in Procs : q # p => pc[q] \notin {"harvest", "delete"}
    BY <1>1, Alone, Zenon DEF Busy
  <2>2. \A q \in Procs : q # p => pc'[q] = pc[q]
    BY Zenon DEF HarvestStep, HarvestSkip, HarvestForInterval, DeleteRange, LifeBase, TypeOK
  <2> QED BY <2>1, <2>2, Zenon
<1>3. UNCHANGED <<hSnap, hEnd>>
  BY Zenon DEF HarvestStep, HarvestSkip, HarvestForInterval, DeleteRange
<1>4. \A o : Covers(p, o)' <=> Covers(p, o)
  BY <1>3, Zenon DEF Covers, Due, InWindow
<1>5. CASE HarvestSkip(p)
  <2>1. pc' = pc /\ pc[p] = "harvest" /\ db' = db /\ Settled' = Settled
    BY <1>5, Zenon DEF HarvestSkip, outputVars, Settled
  <2> QED BY <1>1, <1>2, <1>3, <1>4, <2>1, Zenon DEF CoveredInv
<1>6. CASE HarvestForInterval(p)
  <2>1. /\ pc'[p] = "delete" /\ db' = db /\ hIdx' = hIdx /\ Due(hEnd[p], HarvestIvl(p))
        /\ delivered \subseteq delivered' /\ dropped \subseteq dropped'
    BY <1>6, Zenon DEF HarvestForInterval, LifeBase, TypeOK
  <2>2. Window(p) \subseteq delivered' \cup dropped'
    <3>1. PICK bad : /\ delivered' = delivered \cup {o \in Window(p) :
                                        KeyOf(o) \in {KeyOf(q) : q \in Window(p)} \ bad}
                     /\ dropped' = dropped \cup {o \in Window(p) : KeyOf(o) \in bad}
      BY <1>6, Zenon DEF HarvestForInterval, Iterated
    <3> QED BY <3>1, Zenon
  <2>3. Settled \subseteq Settled' /\ Window(p) \subseteq Settled'
    BY <2>1, <2>2, Zenon DEF Settled
  <2>4. /\ HarvestIvl(p)' = HarvestIvl(p)
        /\ \A o : InWindow(o, HarvestIvl(p), hEnd[p])' <=> InWindow(o, HarvestIvl(p), hEnd[p])
        /\ Due(hEnd[p], HarvestIvl(p))'
    BY <1>3, <2>1, Zenon DEF HarvestIvl, InWindow, Due
  <2>5. \A o \in db : InWindow(o, HarvestIvl(p), hEnd[p]) => o \in Settled'
    <3>1. \A o \in db : InWindow(o, HarvestIvl(p), hEnd[p]) => Covers(p, o)
      BY <2>1, Zenon DEF Covers, InWindow
    <3> QED BY <1>1, <2>3, <3>1, Zenon DEF CoveredInv, Window
  <2> QED BY <1>1, <1>2, <1>3, <1>4, <2>1, <2>3, <2>4, <2>5, Zenon DEF CoveredInv
<1>7. CASE DeleteRange(p)
  <2>1. pc[p] = "delete" /\ pc'[p] = "harvest" /\ db' \subseteq db /\ Settled' = Settled
    BY <1>7, Zenon DEF DeleteRange, Remaining, LifeBase, TypeOK, Settled, outputVars
  <2>2. \A o \in db \ db' : InWindow(o, HarvestIvl(p), hEnd[p])
    BY <1>7, Zenon DEF DeleteRange, Remaining
  <2> QED BY <1>1, <1>2, <1>3, <1>4, <2>1, <2>2, Zenon DEF CoveredInv
<1> QED BY <1>5, <1>6, <1>7, Zenon DEF HarvestStep

\* The process p, which uses the database, takes a snapshot or is not harvesting yet.
LEMMA CoveredSnapshot ==
  ASSUME LifeBase, NEW p \in Procs, Busy(p),
         \A q \in Procs : q # p => pc'[q] = pc[q],
         pc'[p] # "delete", pc'[p] = "harvest" => hSnap'[p] = db'
  PROVE  CoveredInv'
<1>1. \A q \in Procs : q # p => pc'[q] \notin {"harvest", "delete"}
  BY Alone, Zenon DEF Busy
<1> QED BY <1>1, Zenon DEF CoveredInv

\* What a peer sends is not covered by the harvest that is going on.
LEMMA CoveredWrite ==
  ASSUME LifeBase, Punctual, PlacesInv, LateInv, CoveredInv,
         NEW o \in [ivl : Intervals, pt : 0 .. now, id : IDs, part : Partitions, ev : Events],
         AggregateCombinedMetrics(o)
  PROVE  CoveredInv'
<1>1. /\ o \in Item /\ PeerItem(o) /\ db' \subseteq db \cup batch \cup {o}
      /\ \A c \in Closers : ~Busy(c)
      /\ UNCHANGED <<pc, hEnd, hIdx, hSnap, delivered, dropped>>
  BY WriteStep, Zenon
<1>2. /\ \A p, q : Covers(p, q)' <=> Covers(p, q)
      /\ \A p, q : InWindow(q, HarvestIvl(p), hEnd[p])' <=> InWindow(q, HarvestIvl(p), hEnd[p])
      /\ \A p : Due(hEnd[p], HarvestIvl(p))' <=> Due(hEnd[p], HarvestIvl(p))
      /\ Settled' = Settled
  BY <1>1, Zenon DEF Covers, Due, InWindow, HarvestIvl, Settled
<1>3. \A p \in Procs : pc[p] \in {"harvest", "delete"} => p = Runner /\ Busy(Runner)
  BY <1>1, Zenon DEF Busy, Procs
<1>4. Busy(Runner) => ~Covers(Runner, o)
  BY <1>1, PeerNotCovered, Zenon
<1>5. pc[Runner] \in {"harvest", "delete"} => \A q \in db' : Covers(Runner, q) => q \in db
  BY <1>1, <1>3, <1>4, Zenon DEF LateInv, Busy
<1>6. pc[Runner] = "delete" =>
         \A q \in db' : InWindow(q, HarvestIvl(Runner), hEnd[Runner]) => Covers(Runner, q)
  <2>1. Runner \in Procs
    BY Zenon DEF Procs
  <2> QED BY <2>1, Zenon DEF CoveredInv, Covers, InWindow
<1> QED BY <1>1, <1>2, <1>3, <1>5, <1>6, Zenon DEF CoveredInv

\* A step of a live aggregator loses nothing: items move from the batches to the database,
\* and only settled ones leave it.
Keeps ==
  /\ Settled \subseteq Settled'
  /\ db \subseteq db' \cup Settled'
  /\ batch \cup runBatch \cup (issued' \ issued) \subseteq batch' \cup runBatch' \cup db' \cup Settled'

\* Every step of an aggregator keeps the invariant, and removes only settled items from
\* the database.
LEMMA CoveredLive ==
  ASSUME LifeBase, "iterate" \notin Faults, Punctual, PlacesInv, LateInv, CoveredInv, Live
  PROVE  CoveredInv' /\ Keeps
<1> USE DEF harvestVars, outputVars, inputVars
<1> Runner \in Procs /\ Runner \notin Closers
  BY ConstantsAssumption, Zenon DEF Procs
<1>1. CASE Quiet
  <2>1. Keeps
    BY <1>1, Zenon DEF Quiet, Keeps, Settled
  <2> QED BY <1>1, <2>1, CoveredQuiet, Zenon
<1>2. ASSUME NEW p \in Procs, HarvestStep(p) PROVE CoveredInv' /\ Keeps
  <2>1. UNCHANGED <<batch, runBatch, issued>>
    BY <1>2, Zenon DEF HarvestStep, HarvestSkip, HarvestForInterval, DeleteRange
  <2> QED BY <1>2, <2>1, CoveredHarvest, Zenon DEF Keeps
<1>3. CASE RunSwap
  <2>1. /\ pc[Runner] = "lock" /\ pc'[Runner] = "commit"
        /\ \A p \in Procs : p # Runner => pc'[p] = pc[p]
        /\ runBatch' = batch /\ UNCHANGED <<db, delivered, dropped, issued>>
    BY <1>3, Zenon DEF RunSwap, LifeBase, TypeOK
  <2>2. \A p \in Procs : pc'[p] \notin {"harvest", "delete"}
    BY <2>1, Zenon DEF LifeBase, LockInv, Procs
  <2>3. Keeps
    BY <2>1, Zenon DEF Keeps, Settled, PlacesInv
  <2> QED BY <2>2, <2>3, Zenon DEF CoveredInv
<1>4. CASE RunCommit
  <2>1. /\ Busy(Runner) /\ pc'[Runner] = "snapshot"
        /\ \A p \in Procs : p # Runner => pc'[p] = pc[p]
    BY <1>4, Zenon DEF RunCommit, Busy, LifeBase, TypeOK
  <2>2. Keeps
    BY <1>4, Zenon DEF RunCommit, Keeps, Settled
  <2> QED BY <2>1, <2>2, CoveredSnapshot, Zenon
<1>5. CASE RunSnapshot
  <2>1. /\ Busy(Runner) /\ pc'[Runner] # "delete"
        /\ pc'[Runner] = "harvest" => hSnap'[Runner] = db'
        /\ \A p \in Procs : p # Runner => pc'[p] = pc[p]
    BY <1>5, Zenon DEF RunSnapshot, Busy, LifeBase, TypeOK
  <2>2. Keeps
    BY <1>5, Zenon DEF RunSnapshot, Keeps, Settled
  <2> QED BY <2>1, <2>2, CoveredSnapshot, Zenon
<1>6. ASSUME NEW c \in Closers, CloseCommit(c) PROVE CoveredInv' /\ Keeps
  <2>1. c \in Procs
    BY Zenon DEF Procs
  <2>2. /\ Busy(c) /\ pc'[c] \notin {"harvest", "delete"}
        /\ \A p \in Procs : p # c => pc'[p] = pc[p]
    BY <1>6, <2>1, Zenon DEF CloseCommit, Busy, LifeBase, TypeOK
  <2>3. Keeps
    BY <1>6, Zenon DEF CloseCommit, Keeps, Settled
  <2> QED BY <2>1, <2>2, <2>3, CoveredSnapshot, Zenon
<1>7. ASSUME NEW c \in Closers, CloseHarvest(c) PROVE CoveredInv' /\ Keeps
  <2>1. c \in Procs
    BY Zenon DEF Procs
  <2>2. /\ Busy(c) /\ pc'[c] = "harvest" /\ hSnap'[c] = db'
        /\ \A p \in Procs : p # c => pc'[p] = pc[p]
    BY <1>7, <2>1, Zenon DEF CloseHarvest, Busy, LifeBase, TypeOK
  <2>3. Keeps
    BY <1>7, Zenon DEF CloseHarvest, Keeps, Settled
  <2> QED BY <2>1, <2>2, <2>3, CoveredSnapshot, Zenon
<1>8. ASSUME NEW o \in [ivl : Intervals, pt : 0 .. now, id : IDs, part : Partitions, ev : Events],
             AggregateCombinedMetrics(o)
      PROVE  CoveredInv' /\ Keeps
  <2>1. /\ issued' = issued \cup {o}
        /\ \/ batch' = batch \cup {o} /\ db' = db
           \/ batch' = {} /\ db' = db \cup batch \cup {o}
        /\ UNCHANGED <<runBatch, delivered, dropped>>
    BY <1>8, WriteStep, Zenon
  <2>2. Keeps
    BY <2>1, Zenon DEF Keeps, Settled
  <2> QED BY <1>8, <2>2, CoveredWrite, Zenon
<1> QED BY <1>1, <1>2, <1>3, <1>4, <1>5, <1>6, <1>7, <1>8, LiveSteps, Zenon

\* Every step keeps the invariant.
LEMMA CoveredNext ==
  ASSUME LifeBase, "iterate" \notin Faults, Punctual, PlacesInv, LateInv, CoveredInv,
         [LifeNext]_allVars
  PROVE  CoveredInv'
<1>1. CASE Down \/ New \/ UNCHANGED allVars
  BY <1>1, QuietRun, CoveredQuiet, Zenon DEF Down, allVars
<1>2. CASE Crash
  BY <1>2, Zenon DEF Crash, CoveredInv
<1> QED BY <1>1, <1>2, CoveredLive, Zenon DEF LifeNext

\* Every step loses only items that were buffered.
LEMMA LostNext ==
  ASSUME LifeBase, "iterate" \notin Faults, Punctual, PlacesInv, LateInv, CoveredInv,
         LostOnlyBuffered, [LifeNext]_allVars
  PROVE  LostOnlyBuffered'
<1>1. CASE Live
  <2>1. Keeps
    BY <1>1, CoveredLive, Zenon
  <2>2. stored' = stored \cup db' /\ UNCHANGED <<inMemory, forgotten>>
    BY <1>1, Zenon DEF Live, lifeVars
  <2>3. ASSUME NEW o \in issued' PROVE o \in batch' \cup runBatch' \cup db' \cup Settled' \cup forgotten'
    <3>1. CASE o \in issued
      BY <2>1, <2>2, <3>1, Zenon DEF Keeps, LostOnlyBuffered
    <3>2. CASE o \notin issued
      BY <2>1, <2>3, <3>2, Zenon DEF Keeps
    <3> QED BY <3>1, <3>2, Zenon
  <2>4. ASSUME ~inMemory PROVE stored' \subseteq db' \cup Settled'
    BY <2>1, <2>2, <2>4, Zenon DEF Keeps, LostOnlyBuffered
  <2> QED BY <2>2, <2>3, <2>4, Zenon DEF LostOnlyBuffered
<1>2. CASE Down \/ New \/ UNCHANGED allVars
  <2>1. Quiet
    BY <1>2, QuietRun, Zenon DEF Down, allVars
  <2>2. UNCHANGED <<inMemory, forgotten, stored>>
    BY <1>2, Zenon DEF Down, New, allVars, lifeVars, historyVars
  <2>3. UNCHANGED <<batch, runBatch, db, issued, Settled>>
    BY <2>1, Zenon DEF Quiet, Settled
  <2> QED BY <2>2, <2>3, Zenon DEF LostOnlyBuffered
<1>3. CASE Crash
  <2>1. /\ db' = Surviving /\ batch' = {} /\ runBatch' = {}
        /\ forgotten' = forgotten \cup ((batch \cup runBatch \cup db) \ (Surviving \cup Settled))
        /\ UNCHANGED <<delivered, dropped, issued, inMemory, stored>>
    BY <1>3, Zenon DEF Crash, outputVars, inputVars
  <2>2. ~inMemory => Surviving = db
    BY Zenon DEF Surviving
  <2> QED BY <2>1, <2>2, Zenon DEF LostOnlyBuffered, Settled
<1> QED BY <1>1, <1>2, <1>3, Zenon DEF LifeNext

StorageIInv == LifeBase /\ PlacesInv /\ LateInv /\ CoveredInv /\ LostOnlyBuffered

\* When iterators do not fail and partial metrics arrive before the harvest of their
\* window, what the end of a process loses was only buffered: every item committed to a
\* data directory stays until it is delivered or reported lost, over any number of lives
\* and for failing commits, Processors and DeleteRanges.
THEOREM LifeLost ==
  ASSUME "iterate" \notin Faults, Punctual
  PROVE  LifeSpec => []LostOnlyBuffered
<1>1. LifeInit => StorageIInv
  BY BaseInit, Zenon DEF LifeInit, Init, StorageIInv, PlacesInv, LateInv, CoveredInv, LostOnlyBuffered, Procs
<1>2. StorageIInv /\ [LifeNext]_allVars => StorageIInv'
  BY BaseNext, PlacesNext, LateNext, CoveredNext, LostNext, Zenon DEF StorageIInv
<1>3. StorageIInv => LostOnlyBuffered
  BY Zenon DEF StorageIInv
<1> QED BY <1>1, <1>2, <1>3, PTL DEF LifeSpec

-----------------------------------------------------------------------------
(* What is counted: the invariant. *)

\* The aggregator still has o, and the count s is in cachedEvents, with a harvest or published.
Located(o) == o \in batch \/ o \in runBatch \/ o \in db \/ \E p \in Procs : o \in hSnap[p]

Counted(s) == s \in cached \/ s \in eventsTotal \/ \E p \in Procs : s \in hStats[p]

\* The harvest of p has loaded its counts.
HasLoaded(p) == pc[p] \in {"harvest", "delete"} \/ (p = Runner /\ pc[p] \in {"commit", "snapshot"})

\* Items of this life are counted, and a harvest has loaded the counts of all it covers.
TotalInv ==
  /\ up => \A o \in issued \ left : Located(o) => Counted(StatOf(o))
  /\ \A p \in Procs : HasLoaded(p) => \A o \in issued : Covers(p, o) => StatOf(o) \notin cached
  /\ TotalCoversLife

-----------------------------------------------------------------------------
(* EventsTotal. *)

\* A step that loads and publishes no counts and leaves the harvests where they are.
LEMMA TotalKept ==
  ASSUME TotalInv, up' => up, left \subseteq left', issued' = issued,
         \A o : Located(o)' => Located(o),
         \A p \in Procs : HasLoaded(p)' => HasLoaded(p) /\ hEnd'[p] = hEnd[p],
         UNCHANGED <<cached, hStats, eventsTotal, delivered>>
  PROVE  TotalInv'
<1>1. \A o : StatOf(o)' = StatOf(o)
  BY Zenon DEF StatOf
<1>2. \A c : Counted(c)' <=> Counted(c)
  BY Zenon DEF Counted
<1>3. \A p \in Procs : \A o : hEnd'[p] = hEnd[p] => (Covers(p, o)' <=> Covers(p, o))
  BY Zenon DEF Covers, Due, InWindow
<1>4. up' => \A o \in issued' \ left' : Located(o)' => Counted(StatOf(o))'
  BY <1>1, <1>2, Zenon DEF TotalInv
<1>5. \A p \in Procs : HasLoaded(p)' => \A o \in issued' : Covers(p, o)' => StatOf(o)' \notin cached'
  BY <1>1, <1>3, Zenon DEF TotalInv
<1>6. TotalCoversLife'
  BY <1>1, Zenon DEF TotalInv, TotalCoversLife
<1> QED BY <1>4, <1>5, <1>6, Zenon DEF TotalInv

\* A quiet step counts nothing and delivers nothing.
LEMMA TotalQuiet ==
  ASSUME LifeBase, TotalInv, Quiet, up' => up, left \subseteq left'
  PROVE  TotalInv'
<1>1. \A o : Located(o)' => Located(o)
  BY Zenon DEF Located, Quiet
<1>2. \A p \in Procs : HasLoaded(p)' => HasLoaded(p)
  BY Zenon DEF HasLoaded, Quiet
<1> QED BY <1>1, <1>2, TotalKept, Zenon DEF Quiet

\* A harvest delivers items that it has counted, unless an earlier life has left them.
LEMMA TotalHarvest ==
  ASSUME LifeBase, Alive, PlacesInv, TotalInv, NEW p \in Procs, HarvestStep(p), up, left' = left
  PROVE  TotalInv'
<1> USE DEF outputVars, inputVars
<1>1. CASE HarvestSkip(p)
  <2>1. \A o : Located(o)' => Located(o)
    BY <1>1, Zenon DEF HarvestSkip, Located
  <2>2. \A q \in Procs : HasLoaded(q)' => HasLoaded(q)
    BY <1>1, Zenon DEF HarvestSkip, HasLoaded
  <2> QED BY <1>1, <2>1, <2>2, TotalKept, Zenon DEF HarvestSkip
<1>2. CASE DeleteRange(p)
  <2>1. \A o : Located(o)' => Located(o)
    BY <1>2, Zenon DEF DeleteRange, Remaining, Located
  <2>2. \A q \in Procs : HasLoaded(q)' => HasLoaded(q)
    BY <1>2, Zenon DEF DeleteRange, HasLoaded, LifeBase, TypeOK
  <2> QED BY <1>2, <2>1, <2>2, TotalKept, Zenon DEF DeleteRange
<1>3. CASE HarvestForInterval(p)
  <2> DEFINE published == {s \in hStats[p] : s.ivl = HarvestIvl(p)}
  <2>1. /\ eventsTotal' = eventsTotal \cup published
        /\ hStats' = [hStats EXCEPT ![p] = @ \ published]
        /\ pc[p] = "harvest" /\ pc' = [pc EXCEPT ![p] = "delete"]
        /\ Due(hEnd[p], HarvestIvl(p))
        /\ UNCHANGED <<cached, issued, batch, runBatch, db, hSnap, hEnd>>
    BY <1>3, Zenon DEF HarvestForInterval
  <2>2. PICK good \in SUBSET Window(p) : delivered' = delivered \cup good
    BY <1>3, Zenon DEF HarvestForInterval
  <2>3. hStats'[p] = hStats[p] \ published /\ \A q \in Procs : q # p => hStats'[q] = hStats[q]
    BY <2>1, Zenon DEF LifeBase, TypeOK
  <2>4. \A c : Counted(c) => Counted(c)'
    BY <2>1, <2>3, Zenon DEF Counted
  <2>5. \A o : (Located(o)' <=> Located(o)) /\ StatOf(o)' = StatOf(o)
    BY <2>1, Zenon DEF Located, StatOf
  <2>6. \A q \in Procs : HasLoaded(q)' => HasLoaded(q)
    BY <2>1, Zenon DEF HasLoaded, LifeBase, TypeOK
  <2>7. \A q \in Procs : \A o : Covers(q, o)' <=> Covers(q, o)
    BY <2>1, Zenon DEF Covers, Due, InWindow
  <2>8. ASSUME NEW o \in good, o \notin left PROVE StatOf(o) \in eventsTotal'
    <3>1. o \in hSnap[p] /\ InWindow(o, HarvestIvl(p), hEnd[p]) /\ o \in issued
      BY <2>2, <2>8, Zenon DEF Window, PlacesInv
    <3>2. Covers(p, o) /\ o.ivl = HarvestIvl(p) /\ StatOf(o).ivl = o.ivl
      BY <2>1, <3>1, Zenon DEF Covers, InWindow, StatOf
    <3>3. Counted(StatOf(o)) /\ StatOf(o) \notin cached
      BY <2>1, <2>8, <3>1, <3>2, Zenon DEF TotalInv, Located, HasLoaded
    <3>4. \A q \in Procs : q # p => hStats[q] = {}
      BY <2>1, OneHolder, Zenon DEF Busy, LifeBase
    <3>5. StatOf(o) \in eventsTotal \/ StatOf(o) \in hStats[p]
      BY <3>3, <3>4, Zenon DEF Counted
    <3> QED BY <2>1, <3>2, <3>5, Zenon
  <2>9. TotalCoversLife'
    BY <2>1, <2>2, <2>5, <2>8, Zenon DEF TotalInv, TotalCoversLife
  <2>10. up' => \A o \in issued' \ left' : Located(o)' => Counted(StatOf(o))'
    BY <2>1, <2>4, <2>5, Zenon DEF TotalInv
  <2>11. \A q \in Procs : HasLoaded(q)' => \A o \in issued' : Covers(q, o)' => StatOf(o)' \notin cached'
    BY <2>1, <2>5, <2>6, <2>7, Zenon DEF TotalInv
  <2> QED BY <2>9, <2>10, <2>11, Zenon DEF TotalInv
<1> QED BY <1>1, <1>2, <1>3, Zenon DEF HarvestStep

\* cachedEvents.loadAndDelete at the beginning of the harvest of p, the only one.
LEMMA TotalLoad ==
  ASSUME LifeBase, TotalInv, up, NEW p \in Procs, NEW end, hStats[p] = {},
         hEnd'[p] = end, HasLoaded(p)' ,
         \A q \in Procs : HasLoaded(q)' => q = p,
         hStats' = [hStats EXCEPT ![p] = Loaded(end)], cached' = cached \ Loaded(end),
         \A o : Located(o)' => Located(o),
         UNCHANGED <<eventsTotal, issued, delivered, left>>
  PROVE  TotalInv'
<1>1. hStats'[p] = Loaded(end) /\ \A q \in Procs : q # p => hStats'[q] = hStats[q]
  BY Zenon DEF LifeBase, TypeOK
<1>2. \A c : Counted(c) => Counted(c)'
  BY <1>1, Zenon DEF Counted
<1>3. \A o : StatOf(o)' = StatOf(o) /\ StatOf(o).ivl = o.ivl
  BY Zenon DEF StatOf
<1>4. \A o : Covers(p, o)' => StatOf(o) \notin cached'
  BY <1>3, Zenon DEF Covers, Due, Loaded
<1>5. up' => \A o \in issued' \ left' : Located(o)' => Counted(StatOf(o))'
  BY <1>2, <1>3, Zenon DEF TotalInv
<1>6. TotalCoversLife'
  BY <1>3, Zenon DEF TotalInv, TotalCoversLife
<1> QED BY <1>3, <1>4, <1>5, <1>6, Zenon DEF TotalInv

\* What a peer sends is counted, in no window that a harvest has loaded the counts of.
LEMMA TotalWrite ==
  ASSUME LifeBase, Punctual, PlacesInv, LateInv, TotalInv, left' = left, up,
         NEW o \in [ivl : Intervals, pt : 0 .. now, id : IDs, part : Partitions, ev : Events],
         AggregateCombinedMetrics(o)
  PROVE  TotalInv'
<1>1. /\ o \notin issued /\ StatOf(o) \notin accepted /\ o \in Item /\ PeerItem(o)
      /\ \A c \in Closers : ~Busy(c)
      /\ issued' = issued \cup {o} /\ cached' = cached \cup {StatOf(o)}
      /\ batch' \subseteq batch \cup {o} /\ db' \subseteq db \cup batch \cup {o}
      /\ UNCHANGED <<pc, runBatch, hEnd, hSnap, hStats, eventsTotal, delivered>>
  BY WriteStep, Zenon
<1>2. \A q : StatOf(q)' = StatOf(q)
  BY Zenon DEF StatOf
<1>3. \A q : q # o /\ Located(q)' => Located(q)
  BY <1>1, Zenon DEF Located
<1>4. \A c : Counted(c) => Counted(c)'
  BY <1>1, Zenon DEF Counted
<1>5. Counted(StatOf(o))'
  BY <1>1, <1>2, Zenon DEF Counted
<1>6. up' => \A q \in issued' \ left' : Located(q)' => Counted(StatOf(q))'
  <2>1. SUFFICES ASSUME NEW q \in issued' \ left', Located(q)' PROVE Counted(StatOf(q))'
    BY Zenon
  <2>2. CASE q = o
    BY <1>5, <2>2, Zenon
  <2>3. CASE q # o
    BY <1>1, <1>2, <1>3, <1>4, <2>1, <2>3, Zenon DEF TotalInv
  <2> QED BY <2>2, <2>3, Zenon
<1>7. \A q \in issued : StatOf(q) # StatOf(o)
  BY <1>1, Zenon DEF PlacesInv
<1>8. \A p \in Procs : HasLoaded(p)' => \A q \in issued' : Covers(p, q)' => StatOf(q)' \notin cached'
  <2>1. SUFFICES ASSUME NEW p \in Procs, HasLoaded(p), NEW q \in issued', Covers(p, q)
                 PROVE  StatOf(q) \notin cached'
    BY <1>1, <1>2, Zenon DEF HasLoaded, Covers, Due, InWindow
  <2>2. p = Runner /\ Busy(Runner)
    BY <1>1, <2>1, Zenon DEF HasLoaded, Busy, Procs
  <2>3. q # o
    BY <1>1, <2>1, <2>2, PeerNotCovered, Zenon
  <2> QED BY <1>1, <1>7, <2>1, <2>3, Zenon DEF TotalInv
<1>9. TotalCoversLife'
  BY <1>1, <1>2, Zenon DEF TotalInv, TotalCoversLife
<1> QED BY <1>6, <1>8, <1>9, Zenon DEF TotalInv

\* Every step of an aggregator keeps the invariant.
LEMMA TotalLive ==
  ASSUME LifeBase, Punctual, PlacesInv, LateInv, TotalInv, Live
  PROVE  TotalInv'
<1> USE DEF harvestVars, outputVars, inputVars
<1> Runner \in Procs /\ Runner \notin Closers
  BY ConstantsAssumption, Zenon DEF Procs
<1> up /\ up' = up /\ left' = left /\ Alive
  BY Zenon DEF Live, L2Next, lifeVars
<1>1. CASE Quiet
  BY <1>1, TotalQuiet, Zenon
<1>2. ASSUME NEW p \in Procs, HarvestStep(p) PROVE TotalInv'
  BY <1>2, TotalHarvest, Zenon
<1>3. CASE RunSwap
  <2>1. /\ pc[Runner] = "lock" /\ pc'[Runner] = "commit" /\ hEnd'[Runner] = to
        /\ \A q \in Procs : q # Runner => pc'[q] = pc[q]
        /\ hStats' = [hStats EXCEPT ![Runner] = Loaded(to)] /\ cached' = cached \ Loaded(to)
        /\ runBatch' = batch /\ batch' = {}
        /\ UNCHANGED <<db, hSnap, eventsTotal, issued, delivered>>
    BY <1>3, Zenon DEF RunSwap, LifeBase, TypeOK
  <2>2. hStats[Runner] = {}
    BY <2>1, Zenon DEF LifeBase, StatsInv
  <2>3. \A q \in Procs : q # Runner => pc[q] \notin {"harvest", "delete"}
    BY <2>1, Zenon DEF LifeBase, LockInv, Procs
  <2>4. HasLoaded(Runner)' /\ \A q \in Procs : HasLoaded(q)' => q = Runner
    BY <2>1, <2>3, Zenon DEF HasLoaded
  <2>5. \A o : Located(o)' => Located(o)
    BY <2>1, Zenon DEF Located
  <2> QED BY <2>1, <2>2, <2>4, <2>5, TotalLoad, Zenon
<1>4. CASE RunCommit \/ RunSnapshot
  <2>1. /\ pc[Runner] \in {"commit", "snapshot"}
        /\ UNCHANGED <<cached, hStats, eventsTotal, delivered, issued, hEnd>>
    BY <1>4, Zenon DEF RunCommit, RunSnapshot
  <2>2. \A q \in Procs : q # Runner => pc'[q] = pc[q]
    BY <1>4, Zenon DEF RunCommit, RunSnapshot, LifeBase, TypeOK
  <2>3. \A q \in Procs : HasLoaded(q)' => HasLoaded(q)
    BY <2>1, <2>2, Zenon DEF HasLoaded
  <2>4. \A o : Located(o)' => Located(o)
    <3>1. CASE RunCommit
      BY <3>1, Zenon DEF RunCommit, Located
    <3>2. CASE RunSnapshot
      <4>1. UNCHANGED <<batch, runBatch, db>> /\ \A q \in Procs : hSnap'[q] = hSnap[q] \/ hSnap'[q] = db
        BY <3>2, Zenon DEF RunSnapshot, LifeBase, TypeOK
      <4> QED BY <4>1, Zenon DEF Located
    <3> QED BY <1>4, <3>1, <3>2, Zenon
  <2> QED BY <2>1, <2>3, <2>4, TotalKept, Zenon
<1>5. ASSUME NEW c \in Closers, CloseCommit(c) PROVE TotalInv'
  <2>1. \A q \in Procs : HasLoaded(q)' => HasLoaded(q)
    BY <1>5, Zenon DEF CloseCommit, HasLoaded, LifeBase, TypeOK
  <2>2. \A o : Located(o)' => Located(o)
    BY <1>5, Zenon DEF CloseCommit, Located
  <2> QED BY <1>5, <2>1, <2>2, TotalKept, Zenon DEF CloseCommit
<1>6. ASSUME NEW c \in Closers, CloseHarvest(c) PROVE TotalInv'
  <2> DEFINE end == FinalEnd(AggregationIntervals[closeIdx[c]])
  <2>1. c \in Procs
    BY Zenon DEF Procs
  <2>2. /\ pc[c] = "final" /\ pc'[c] = "harvest" /\ hEnd'[c] = end
        /\ \A q \in Procs : q # c => pc'[q] = pc[q]
        /\ hStats' = [hStats EXCEPT ![c] = Loaded(end)] /\ cached' = cached \ Loaded(end)
        /\ \A q \in Procs : hSnap'[q] = hSnap[q] \/ hSnap'[q] = db
        /\ UNCHANGED <<batch, runBatch, db, eventsTotal, issued, delivered>>
    BY <1>6, <2>1, Zenon DEF CloseHarvest, LifeBase, TypeOK
  <2> HIDE DEF end
  <2>3. hStats[c] = {}
    BY <2>1, <2>2, Zenon DEF LifeBase, StatsInv
  <2>4. \A q \in Procs : q # c => ~Busy(q)
    BY <2>1, <2>2, Alone, Zenon DEF Busy
  <2>5. HasLoaded(c)' /\ \A q \in Procs : HasLoaded(q)' => q = c
    BY <2>2, <2>4, Zenon DEF HasLoaded, Busy
  <2>6. \A o : Located(o)' => Located(o)
    BY <2>2, Zenon DEF Located
  <2> QED BY <2>1, <2>2, <2>3, <2>5, <2>6, TotalLoad, Zenon
<1>7. ASSUME NEW o \in [ivl : Intervals, pt : 0 .. now, id : IDs, part : Partitions, ev : Events],
             AggregateCombinedMetrics(o)
      PROVE  TotalInv'
  BY <1>7, TotalWrite, Zenon
<1> QED BY <1>1, <1>2, <1>3, <1>4, <1>5, <1>6, <1>7, LiveSteps, Zenon

\* Every step keeps the invariant: what the process leaves is among the items left.
LEMMA TotalNext ==
  ASSUME LifeBase, Punctual, PlacesInv, LateInv, TotalInv, [LifeNext]_allVars
  PROVE  TotalInv'
<1> \A o : StatOf(o)' = StatOf(o)
  BY Zenon DEF StatOf
<1>1. CASE Down \/ UNCHANGED allVars
  <2>1. Quiet /\ up' = up /\ left' = left
    BY <1>1, QuietRun, Zenon DEF Down, allVars, lifeVars, historyVars
  <2> QED BY <2>1, TotalQuiet, Zenon
<1>2. CASE New
  <2>1. /\ left' = left \cup db
        /\ UNCHANGED <<pc, batch, runBatch, db, hSnap, eventsTotal, delivered>>
    BY <1>2, Zenon DEF New, harvestVars, outputVars
  <2>2. batch = {} /\ runBatch = {} /\ \A p \in Procs : pc[p] = "idle" /\ hSnap[p] = {}
    BY <1>2, Zenon DEF New, LifeBase, DownInv
  <2>3. \A o : Located(o)' => o \in db
    BY <2>1, <2>2, Zenon DEF Located
  <2>4. \A p \in Procs : ~HasLoaded(p)'
    BY <2>1, <2>2, Zenon DEF HasLoaded
  <2>5. TotalCoversLife'
    BY <2>1, Zenon DEF TotalInv, TotalCoversLife
  <2> QED BY <2>1, <2>3, <2>4, <2>5, Zenon DEF TotalInv
<1>3. CASE Crash
  <2>1. up' = FALSE /\ (\A p \in Procs : pc'[p] = "idle") /\ UNCHANGED <<eventsTotal, delivered, left>>
    BY <1>3, Zenon DEF Crash, outputVars
  <2>2. \A p \in Procs : ~HasLoaded(p)'
    BY <2>1, Zenon DEF HasLoaded
  <2>3. TotalCoversLife'
    BY <2>1, Zenon DEF TotalInv, TotalCoversLife
  <2> QED BY <2>1, <2>2, <2>3, Zenon DEF TotalInv
<1> QED BY <1>1, <1>2, <1>3, TotalLive, Zenon DEF LifeNext

TotalIInv == LifeBase /\ PlacesInv /\ LateInv /\ TotalInv

\* When partial metrics arrive before the harvest of their window, EventsProcessed exceeds
\* EventsTotal only by items that an earlier life has stored, whatever fails.
THEOREM LifeTotal == ASSUME Punctual PROVE LifeSpec => []TotalCoversLife
<1>1. LifeInit => TotalIInv
  BY BaseInit, Zenon DEF LifeInit, Init, TotalIInv, PlacesInv, LateInv, TotalInv, TotalCoversLife, HasLoaded, Procs
<1>2. TotalIInv /\ [LifeNext]_allVars => TotalIInv'
  BY BaseNext, PlacesNext, LateNext, TotalNext, Zenon DEF TotalIInv
<1>3. TotalIInv => TotalCoversLife
  BY Zenon DEF TotalIInv, TotalInv
<1> QED BY <1>1, <1>2, <1>3, PTL DEF LifeSpec
=============================================================================
