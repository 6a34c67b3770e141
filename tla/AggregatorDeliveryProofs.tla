---------------------- MODULE AggregatorDeliveryProofs ----------------------
(***************************************************************************)
(* The l1 aggregator settles every item exactly once, for every value of   *)
(* the constants, when DeleteRange and the iterator do not fail: commits   *)
(* and Processor calls may.  With a failing DeleteRange a second Close     *)
(* harvests again, and an iterator error loses entries, see the runs.      *)
(*                                                                         *)
(* The second half: every window is harvested when it has ended, once, and *)
(* the final harvest of Close leaves nothing in the database.              *)
(***************************************************************************)
EXTENDS AggregatorProofs

NoStorageFaults == "delete" \notin Faults /\ "iterate" \notin Faults

\* Where the items are.  An item is in one place, except that a settled item stays
\* in the database until the DeleteRange of the harvest that settled it.
PlaceInv ==
  /\ \A o \in issued : StatOf(o) \in accepted
  /\ batch \cup runBatch \cup db \cup Settled \subseteq issued
  /\ batch \cap (runBatch \cup db \cup Settled) = {}
  /\ runBatch \cap (db \cup Settled) = {}
  /\ runBatch # {} => pc[Runner] = "commit"
  /\ \A o \in db \cap Settled :
        \E p \in Procs : pc[p] = "delete" /\ InWindow(o, HarvestIvl(p), hEnd[p])

\* Buffered items belong to the current windows, and while Run harvests it has
\* already moved the processing time to the end of what it harvests.
TimeInv ==
  /\ \A o \in batch : o.pt = KeyTime(o.ivl)
  /\ pc[Runner] \in {"commit", "snapshot", "harvest", "delete"} => hEnd[Runner] = processingTime

\* A snapshot holds every stored item its harvest will cover, and none that was
\* settled, apart from the intervals the harvest has passed.
SnapInv ==
  \A p \in Procs : pc[p] \in {"harvest", "delete"} =>
    /\ hSnap[p] \subseteq issued \ (batch \cup runBatch)
    /\ \A o \in db : Due(hEnd[p], o.ivl) /\ InWindow(o, o.ivl, hEnd[p]) => o \in hSnap[p]
    /\ \A o \in hSnap[p] \cap Settled, j \in DOMAIN AggregationIntervals :
          j > hIdx[p] \/ (j = hIdx[p] /\ pc[p] = "harvest") => o.ivl # AggregationIntervals[j]

\* What DeleteRange is about to remove is settled.
DeleteInv ==
  \A p \in Procs : pc[p] = "delete" =>
    /\ Due(hEnd[p], HarvestIvl(p))
    /\ \A o \in db : InWindow(o, HarvestIvl(p), hEnd[p]) => o \in Settled

DeliveryInv == PlaceInv /\ TimeInv /\ SnapInv /\ DeleteInv /\ Accounted /\ AtMostOnce

\* New starts with nothing buffered, stored or delivered.
LEMMA DeliveryInit == Init => DeliveryInv
BY ConstantsAssumption, Zenon
DEF Init, DeliveryInv, PlaceInv, TimeInv, SnapInv, DeleteInv, Accounted, AtMostOnce, Settled, Procs

-----------------------------------------------------------------------------
(* Steps that move no item. *)

\* A step that moves no item, and starts no harvest and no commit, keeps the invariant.
LEMMA QuietStep ==
  ASSUME DeliveryInv,
         UNCHANGED <<processingTime, batch, runBatch, db, hEnd, hIdx, delivered, redelivered,
                     dropped, issued, accepted>>,
         \A p \in Procs :
            /\ pc'[p] \in {"harvest", "delete"} => pc'[p] = pc[p] /\ hSnap'[p] = hSnap[p]
            /\ pc[p] = "delete" => pc'[p] = "delete",
         pc'[Runner] = "commit" <=> pc[Runner] = "commit",
         pc'[Runner] = "snapshot" => pc[Runner] = "snapshot"
  PROVE  DeliveryInv'
<1> Runner \in Procs
  BY Zenon DEF Procs
<1> Settled' = Settled
  BY Zenon DEF Settled
<1> \A p : HarvestIvl(p)' = HarvestIvl(p)
  BY Zenon DEF HarvestIvl
<1> \A ivl : KeyTime(ivl)' = KeyTime(ivl)
  BY Zenon DEF KeyTime
<1>1. PlaceInv'
  BY Zenon DEF DeliveryInv, PlaceInv
<1>2. TimeInv'
  BY Zenon DEF DeliveryInv, TimeInv
<1>3. SnapInv'
  BY DEF DeliveryInv, SnapInv
<1>4. DeleteInv'
  BY Zenon DEF DeliveryInv, DeleteInv
<1>5. Accounted' /\ AtMostOnce'
  BY Zenon DEF DeliveryInv, Accounted, AtMostOnce
<1> QED BY <1>1, <1>2, <1>3, <1>4, <1>5, Zenon DEF DeliveryInv

\* The steps of Run that move no item: ticks, the timer, the next round and returning.
LEMMA DeliveryQuietRun ==
  ASSUME TypeOK, DeliveryInv, Tick \/ Run \/ RunReturn \/ RunTimer \/ RunNext
  PROVE  DeliveryInv'
<1> USE DEF TypeOK, Procs, harvestVars, closeVars, outputVars, inputVars
<1>1. CASE Tick
  BY <1>1, QuietStep, Zenon DEF Tick
<1>2. CASE Run
  BY <1>2, QuietStep, Zenon DEF Run
<1>3. CASE RunReturn
  BY <1>3, QuietStep, Zenon DEF RunReturn
<1>4. CASE RunTimer
  BY <1>4, QuietStep, Zenon DEF RunTimer
<1>5. CASE RunNext
  BY <1>5, QuietStep, Zenon DEF RunNext, HarvestOver
<1> QED BY <1>1, <1>2, <1>3, <1>4, <1>5, Zenon

\* The steps of Close that move no item, from taking the lock to returning.
LEMMA DeliveryQuietClose ==
  ASSUME TypeOK, DeliveryInv, NEW c \in Closers,
         \/ CloseBegin(c) \/ CloseRunStopped(c) \/ CloseCtxDone(c) \/ CloseAgain(c)
         \/ CloseNext(c) \/ CloseReturn(c)
  PROVE  DeliveryInv'
<1> USE DEF TypeOK, Procs, harvestVars, closeVars, outputVars, inputVars
<1> Runner \notin Closers
  BY ConstantsAssumption, Zenon
<1>1. CASE CloseBegin(c)
  BY <1>1, QuietStep, Zenon DEF CloseBegin
<1>2. CASE CloseRunStopped(c)
  BY <1>2, QuietStep, Zenon DEF CloseRunStopped
<1>3. CASE CloseCtxDone(c)
  BY <1>3, QuietStep, Zenon DEF CloseCtxDone
<1>4. CASE CloseAgain(c)
  BY <1>4, QuietStep, Zenon DEF CloseAgain
<1>5. CASE CloseNext(c)
  BY <1>5, QuietStep, Zenon DEF CloseNext, HarvestOver
<1>6. CASE CloseReturn(c)
  BY <1>6, QuietStep, Zenon DEF CloseReturn
<1> QED BY <1>1, <1>2, <1>3, <1>4, <1>5, <1>6, Zenon
-----------------------------------------------------------------------------
(* Steps that move items between the batch, Run and the database. *)

\* An item of the current windows is not in a window that Run harvests.
LEMMA CurrentNotHarvested ==
  ASSUME TypeOK, TimeInv, pc[Runner] \in {"harvest", "delete"},
         NEW o \in Item, o.pt = KeyTime(o.ivl), Due(hEnd[Runner], o.ivl)
  PROVE  ~InWindow(o, o.ivl, hEnd[Runner])
<1>1. o.pt = hEnd[Runner]
  BY Zenon DEF TimeInv, KeyTime, Due
<1> QED BY <1>1 DEF InWindow, Item

\* AggregateBatch puts new items into a.batch, or straight into the database when it is
\* flushed, for windows that no harvest covers yet.
LEMMA DeliveryAggregateBatch ==
  ASSUME TypeOK, LockInv, DeliveryInv, NEW id \in IDs, NEW evs \in SUBSET Events,
         AggregateBatch(id, evs)
  PROVE  DeliveryInv'
<1> DEFINE ops == BatchOps(id, evs)
<1>1. ops \subseteq Item
  BY BatchOpsType, Zenon
<1>2. \A o \in ops : o.pt = KeyTime(o.ivl) /\ o.ev \in evs /\ o.id = id
  BY Zenon DEF BatchOps
<1>3. ops \cap issued = {}
  <2> HIDE DEF ops
  <2>1. \A o : StatOf(o).ev = o.ev
    BY Zenon DEF StatOf
  <2> QED BY <1>2, <2>1, Zenon DEF AggregateBatch, DeliveryInv, PlaceInv
<1>4. \A o \in ops : StatOf(o) \in accepted'
  <2> HIDE DEF ops
  <2> SUFFICES ASSUME NEW o \in ops PROVE StatOf(o) \in [ivl : Intervals, id : {id}, ev : evs]
    BY Zenon DEF AggregateBatch
  <2> QED BY <1>1, <1>2, Zenon DEF StatOf, Item
<1>5. PICK sent \in SUBSET ops :
         \/ db' = db /\ batch' = batch \cup ops
         \/ db' = db \cup batch \cup sent /\ batch' = ops \ sent
  BY Zenon DEF AggregateBatch, Aggregate, Flushable
<1>6. issued' = issued \cup ops /\ accepted \subseteq accepted'
  BY Zenon DEF AggregateBatch
<1>7. UNCHANGED <<pc, runBatch, hEnd, hIdx, hSnap, delivered, redelivered, dropped,
                  processingTime>> /\ mu = Free
  BY Zenon DEF AggregateBatch, harvestVars, outputVars
<1>8. \A c \in Closers : pc[c] \notin {"harvest", "delete"}
  BY <1>7, ProcsAssumption, Zenon DEF LockInv, Procs
<1> HIDE DEF ops
<1> Settled' = Settled /\ (\A p : HarvestIvl(p)' = HarvestIvl(p))
    /\ (\A ivl : KeyTime(ivl)' = KeyTime(ivl))
  BY <1>7, Zenon DEF Settled, HarvestIvl, KeyTime
<1>9. PlaceInv'
  BY <1>3, <1>4, <1>5, <1>6, <1>7, Zenon DEF DeliveryInv, PlaceInv
<1>10. TimeInv'
  BY <1>2, <1>5, <1>7, Zenon DEF DeliveryInv, TimeInv
<1>11. \A o \in db' \ db : o \in Item /\ o.pt = KeyTime(o.ivl)
  BY <1>1, <1>2, <1>5, Zenon DEF DeliveryInv, TimeInv, TypeOK
<1>12. SnapInv'
  <2> SUFFICES ASSUME pc[Runner] \in {"harvest", "delete"}
               PROVE  /\ hSnap[Runner] \subseteq issued' \ (batch' \cup runBatch)
                      /\ \A o \in db' : Due(hEnd[Runner], o.ivl)
                                        /\ InWindow(o, o.ivl, hEnd[Runner]) => o \in hSnap[Runner]
    BY <1>7, <1>8 DEF DeliveryInv, SnapInv, Procs
  <2>1. hSnap[Runner] \subseteq issued' \ (batch' \cup runBatch)
    BY <1>3, <1>5, <1>6, Zenon DEF DeliveryInv, SnapInv, PlaceInv, Procs
  <2>2. ASSUME NEW o \in db', Due(hEnd[Runner], o.ivl), InWindow(o, o.ivl, hEnd[Runner])
        PROVE  o \in hSnap[Runner]
    BY <2>2, <1>11, CurrentNotHarvested, Zenon DEF DeliveryInv, SnapInv, Procs
  <2> QED BY <2>1, <2>2, Zenon
<1>13. DeleteInv'
  <2> SUFFICES ASSUME pc[Runner] = "delete", NEW o \in db',
                      InWindow(o, HarvestIvl(Runner), hEnd[Runner])
               PROVE  o \in Settled
    BY <1>7, <1>8, Zenon DEF DeliveryInv, DeleteInv, Procs
  <2>1. Due(hEnd[Runner], HarvestIvl(Runner)) /\ o.ivl = HarvestIvl(Runner)
    BY Zenon DEF DeliveryInv, DeleteInv, Procs, InWindow
  <2> QED BY <2>1, <1>11, CurrentNotHarvested, Zenon DEF DeliveryInv, DeleteInv, Procs
<1>14. Accounted' /\ AtMostOnce'
  BY <1>5, <1>6, <1>7, Zenon DEF DeliveryInv, Accounted, AtMostOnce
<1> QED BY <1>9, <1>10, <1>12, <1>13, <1>14, Zenon DEF DeliveryInv

\* Run moves a.batch, whole, into the batch it commits, and advances processingTime.
LEMMA DeliveryRunSwap ==
  ASSUME TypeOK, LockInv, DeliveryInv, RunSwap
  PROVE  DeliveryInv'
<1> USE DEF TypeOK, Procs, inputVars, outputVars
<1>1. \A p \in Procs : pc'[p] \notin {"harvest", "delete"} /\ pc[p] \notin {"harvest", "delete"}
  BY ProcsAssumption, Zenon DEF RunSwap, LockInv
<1>2. runBatch = {} /\ Settled' = Settled
  BY Zenon DEF RunSwap, DeliveryInv, PlaceInv, Settled
<1>3. PlaceInv'
  BY <1>1, <1>2, Zenon DEF RunSwap, DeliveryInv, PlaceInv
<1>4. TimeInv'
  BY Zenon DEF RunSwap, TimeInv
<1>5. SnapInv' /\ DeleteInv'
  BY <1>1, Zenon DEF SnapInv, DeleteInv
<1>6. Accounted' /\ AtMostOnce'
  BY <1>2, Zenon DEF RunSwap, DeliveryInv, Accounted, AtMostOnce
<1> QED BY <1>3, <1>4, <1>5, <1>6, Zenon DEF DeliveryInv

\* Commit moves the batch of Run into the database, or drops it when it fails.
LEMMA DeliveryRunCommit ==
  ASSUME TypeOK, LockInv, DeliveryInv, RunCommit
  PROVE  DeliveryInv'
<1> USE DEF TypeOK, Procs, inputVars, harvestVars
<1>1. \A p \in Procs : pc'[p] \notin {"harvest", "delete"} /\ pc[p] \notin {"harvest", "delete"}
  BY Zenon DEF RunCommit, LockInv
<1>2. PlaceInv'
  BY <1>1, Zenon DEF RunCommit, DeliveryInv, PlaceInv, Settled
<1>3. TimeInv'
  BY Zenon DEF RunCommit, DeliveryInv, TimeInv, KeyTime
<1>4. SnapInv' /\ DeleteInv'
  BY <1>1, Zenon DEF SnapInv, DeleteInv
<1>5. Accounted' /\ AtMostOnce'
  BY Zenon DEF RunCommit, DeliveryInv, PlaceInv, Accounted, AtMostOnce, Settled
<1> QED BY <1>2, <1>3, <1>4, <1>5, Zenon DEF DeliveryInv

\* Commit moves a.batch into the database, or leaves it in place when it fails.
LEMMA DeliveryCloseCommit ==
  ASSUME TypeOK, LockInv, DeliveryInv, NEW c \in Closers, CloseCommit(c)
  PROVE  DeliveryInv'
<1> USE DEF TypeOK, Procs, inputVars, outputVars, harvestVars
<1> Runner \notin Closers
  BY ConstantsAssumption, Zenon
<1>1. \A p \in Procs : pc'[p] \notin {"harvest", "delete"} /\ pc[p] \notin {"harvest", "delete"}
  BY Zenon DEF CloseCommit, LockInv
<1>2. pc'[Runner] = pc[Runner] /\ Settled' = Settled
  BY Zenon DEF CloseCommit, Settled
<1>3. PlaceInv'
  BY <1>1, <1>2, Zenon DEF CloseCommit, DeliveryInv, PlaceInv
<1>4. TimeInv'
  BY <1>2, Zenon DEF CloseCommit, DeliveryInv, TimeInv, KeyTime
<1>5. SnapInv' /\ DeleteInv'
  BY <1>1, Zenon DEF SnapInv, DeleteInv
<1>6. Accounted' /\ AtMostOnce'
  BY <1>2, Zenon DEF CloseCommit, DeliveryInv, Accounted, AtMostOnce
<1> QED BY <1>3, <1>4, <1>5, <1>6, Zenon DEF DeliveryInv

-----------------------------------------------------------------------------
(* The harvest. *)

\* When no DeleteRange is outstanding, no settled item is left in the database.
LEMMA SettledGone ==
  ASSUME DeliveryInv, \A p \in Procs : pc[p] # "delete"
  PROVE  db \cap Settled = {}
BY Zenon DEF DeliveryInv, PlaceInv

\* The snapshot of Run has all that its harvest covers.
LEMMA DeliveryRunSnapshot ==
  ASSUME TypeOK, LockInv, DeliveryInv, RunSnapshot
  PROVE  DeliveryInv'
<1> USE DEF TypeOK, Procs, inputVars, outputVars, closeVars
<1>1. \A p \in Procs : pc[p] \notin {"harvest", "delete"}
  BY Zenon DEF RunSnapshot, LockInv
<1>2. db \cap Settled = {} /\ runBatch = {}
  BY <1>1, SettledGone, Zenon DEF DeliveryInv, PlaceInv, RunSnapshot
<1>3. Settled' = Settled /\ \A p \in Procs : pc'[p] # "delete"
  BY <1>1, Zenon DEF RunSnapshot, Settled
<1>4. PlaceInv'
  BY <1>2, <1>3, Zenon DEF RunSnapshot, DeliveryInv, PlaceInv
<1>5. TimeInv'
  BY Zenon DEF RunSnapshot, DeliveryInv, TimeInv, KeyTime
<1>6. SnapInv'
  <2>1. \A p \in Procs : pc'[p] = "harvest" => hSnap'[p] = db
    BY <1>1, Zenon DEF RunSnapshot
  <2>2. db \subseteq issued \ (batch \cup runBatch) /\ UNCHANGED <<db, issued, batch, runBatch>>
    BY Zenon DEF RunSnapshot, DeliveryInv, PlaceInv
  <2> QED BY <1>2, <1>3, <2>1, <2>2, Zenon DEF SnapInv
<1>7. DeleteInv'
  BY <1>3, Zenon DEF DeleteInv
<1>8. Accounted' /\ AtMostOnce'
  BY <1>3, Zenon DEF RunSnapshot, DeliveryInv, Accounted, AtMostOnce
<1> QED BY <1>4, <1>5, <1>6, <1>7, <1>8, Zenon DEF DeliveryInv

\* The snapshot of Close has all that its harvest covers.
LEMMA DeliveryCloseHarvest ==
  ASSUME TypeOK, LockInv, DeliveryInv, NEW c \in Closers, CloseHarvest(c)
  PROVE  DeliveryInv'
<1> USE DEF TypeOK, Procs, inputVars, outputVars, closeVars
<1> Runner \notin Closers
  BY ConstantsAssumption, Zenon
<1>1. /\ \A p \in Procs : pc[p] \notin {"harvest", "delete"}
      /\ pc[Runner] \in {"idle", "returned"}
  BY Zenon DEF CloseHarvest, LockInv
<1>2. db \cap Settled = {}
  BY <1>1, SettledGone, Zenon
<1>3. /\ Settled' = Settled
      /\ pc'[Runner] = pc[Runner]
      /\ \A p \in Procs : pc'[p] # "delete"
  BY <1>1, Zenon DEF CloseHarvest, Settled
<1>4. PlaceInv'
  BY <1>2, <1>3, Zenon DEF CloseHarvest, DeliveryInv, PlaceInv
<1>5. TimeInv'
  BY <1>1, <1>3, Zenon DEF CloseHarvest, DeliveryInv, TimeInv, KeyTime
<1>6. SnapInv'
  <2>1. \A p \in Procs : pc'[p] = "harvest" => hSnap'[p] = db
    BY <1>1, Zenon DEF CloseHarvest
  <2>2. db \subseteq issued \ (batch \cup runBatch) /\ UNCHANGED <<db, issued, batch, runBatch>>
    BY Zenon DEF CloseHarvest, DeliveryInv, PlaceInv
  <2> QED BY <1>2, <1>3, <2>1, <2>2, Zenon DEF SnapInv
<1>7. DeleteInv'
  BY <1>3, Zenon DEF DeleteInv
<1>8. Accounted' /\ AtMostOnce'
  BY <1>3, Zenon DEF CloseHarvest, DeliveryInv, Accounted, AtMostOnce
<1> QED BY <1>4, <1>5, <1>6, <1>7, <1>8, Zenon DEF DeliveryInv

\* An interval that is passed over has no window that ends at the end of the harvest.
LEMMA DeliveryHarvestSkip ==
  ASSUME TypeOK, LockInv, DeliveryInv, NEW p \in Procs, HarvestSkip(p)
  PROVE  DeliveryInv'
<1> USE DEF TypeOK, Procs, inputVars, outputVars, closeVars
<1>1. UNCHANGED <<pc, hEnd, hSnap, db, batch, runBatch, issued, accepted, processingTime,
                  delivered, redelivered, dropped>>
  BY Zenon DEF HarvestSkip
<1>2. Settled' = Settled /\ \A q \in Procs : q # p => HarvestIvl(q)' = HarvestIvl(q)
  BY Zenon DEF HarvestSkip, Settled, HarvestIvl
<1>3. pc[p] = "harvest" /\ hIdx[p] \in Int /\ hIdx' = [hIdx EXCEPT ![p] = @ + 1]
  BY IntervalsNat DEF HarvestSkip
<1>4. PlaceInv'
  BY <1>1, <1>2, <1>3, Zenon DEF DeliveryInv, PlaceInv
<1>5. TimeInv'
  BY <1>1, Zenon DEF DeliveryInv, TimeInv, KeyTime
<1>6. SnapInv'
  <2>1. hIdx'[p] = hIdx[p] + 1 /\ \A q \in Procs : q # p => hIdx'[q] = hIdx[q]
    BY <1>3, Zenon
  <2>2. \A j \in DOMAIN AggregationIntervals : j \in Int
    BY IntervalsNat
  <2>3. SnapInv
    BY Zenon DEF DeliveryInv
  <2> HIDE DEF TypeOK
  <2>4. \A q \in Procs : \A j \in DOMAIN AggregationIntervals :
           j > hIdx'[q] \/ (j = hIdx'[q] /\ pc[q] = "harvest")
              => j > hIdx[q] \/ (j = hIdx[q] /\ pc[q] = "harvest")
    <3> TAKE q \in Procs
    <3> TAKE j \in DOMAIN AggregationIntervals
    <3>1. CASE q = p
      <4> j \in Int /\ hIdx[p] \in Int /\ hIdx'[p] = hIdx[p] + 1
        BY <1>3, <2>1, <2>2, Zenon
      <4> QED BY <3>1
    <3>2. CASE q # p
      <4> hIdx'[q] = hIdx[q]
        BY <2>1, <3>2, Zenon
      <4> QED BY Zenon
    <3> QED BY <3>1, <3>2, Zenon
  <2>5. \A q \in Procs : pc[q] \in {"harvest", "delete"} =>
           \A o \in hSnap[q] \cap Settled, j \in DOMAIN AggregationIntervals :
              j > hIdx'[q] \/ (j = hIdx'[q] /\ pc[q] = "harvest") => o.ivl # AggregationIntervals[j]
    <3> SUFFICES ASSUME NEW q \in Procs, pc[q] \in {"harvest", "delete"},
                        NEW o \in hSnap[q] \cap Settled, NEW j \in DOMAIN AggregationIntervals,
                        j > hIdx[q] \/ (j = hIdx[q] /\ pc[q] = "harvest")
                 PROVE  o.ivl # AggregationIntervals[j]
      BY <2>4, Zenon
    <3> QED BY <2>3, Zenon DEF SnapInv
  <2> QED BY <1>1, <1>2, <2>3, <2>5 DEF SnapInv
<1>7. DeleteInv'
  BY <1>1, <1>2, <1>3, Zenon DEF DeliveryInv, DeleteInv
<1>8. Accounted' /\ AtMostOnce'
  BY <1>1, <1>2, Zenon DEF DeliveryInv, Accounted, AtMostOnce
<1> QED BY <1>4, <1>5, <1>6, <1>7, <1>8, Zenon DEF DeliveryInv

\* At most one goroutine is inside a harvest.
LEMMA HarvestAlone ==
  ASSUME LockInv, NEW p \in Procs, NEW q \in Procs,
         pc[p] \in {"harvest", "delete"}, pc[q] \in {"harvest", "delete"}
  PROVE  p = q
BY DEF LockInv, Procs

\* What harvestForInterval delivers was in the snapshot and had not been delivered.
LEMMA DeliveryHarvestForInterval ==
  ASSUME NoStorageFaults, TypeOK, LockInv, DeliveryInv, NEW p \in Procs, HarvestForInterval(p)
  PROVE  DeliveryInv'
<1> DEFINE W == Window(p)
<1>1. /\ pc[p] = "harvest" /\ pc' = [pc EXCEPT ![p] = "delete"]
      /\ hIdx[p] \in DOMAIN AggregationIntervals /\ Due(hEnd[p], HarvestIvl(p))
      /\ UNCHANGED <<hIdx, hEnd, hSnap, db, batch, runBatch, issued, accepted, processingTime>>
  BY Zenon DEF HarvestForInterval, inputVars
<1>2. /\ W \subseteq hSnap[p]
      /\ \A o \in W : InWindow(o, HarvestIvl(p), hEnd[p]) /\ o.ivl = HarvestIvl(p)
      /\ \A o \in hSnap[p] : InWindow(o, HarvestIvl(p), hEnd[p]) => o \in W
  BY Zenon DEF Window, InWindow
<1>3. W \cap Settled = {} /\ W \subseteq issued \ (batch \cup runBatch)
  BY <1>1, <1>2, Zenon DEF DeliveryInv, SnapInv, HarvestIvl
<1>4. PICK good \in SUBSET W :
         /\ redelivered' = redelivered \cup (good \cap delivered)
         /\ delivered' = delivered \cup good
         /\ dropped' = dropped \cup (W \ good)
  <2>1. PICK bad : LET seen == {KeyOf(o) : o \in Window(p)}
                       good == {o \in Window(p) : KeyOf(o) \in seen \ bad} IN
                   /\ redelivered' = redelivered \cup (good \cap delivered)
                   /\ delivered' = delivered \cup good
                   /\ dropped' = dropped \cup {o \in Window(p) : KeyOf(o) \in bad}
    BY Zenon DEF HarvestForInterval, Iterated, NoStorageFaults
  <2>2. {o \in Window(p) : KeyOf(o) \in bad} = W \ {o \in Window(p) : KeyOf(o) \in {KeyOf(x) : x \in Window(p)} \ bad}
    BY Zenon
  <2> QED BY <2>1, <2>2, Zenon
<1> HIDE DEF W
<1>5. Settled' = Settled \cup W /\ \A q : HarvestIvl(q)' = HarvestIvl(q)
  BY <1>1, <1>4, Zenon DEF Settled, HarvestIvl
<1>6. \A q \in Procs : pc[q] \in {"harvest", "delete"} \/ pc'[q] \in {"harvest", "delete"} => q = p
  BY <1>1, HarvestAlone, Zenon DEF TypeOK
<1>7. db \cap Settled = {} /\ pc'[p] = "delete"
  BY <1>1, <1>6, SettledGone, Zenon DEF TypeOK
<1>8. PlaceInv'
  <2>1. pc'[Runner] = "commit" <=> pc[Runner] = "commit"
    BY <1>1 DEF TypeOK
  <2>2. \A o \in (db \cap Settled)' : InWindow(o, HarvestIvl(p), hEnd[p])
    BY <1>1, <1>2, <1>5, <1>7, Zenon
  <2>3. batch \cap W = {} /\ runBatch \cap W = {} /\ W \subseteq issued
    BY <1>3, Zenon
  <2>4. \A o \in (db \cap Settled)' :
           \E q \in Procs : pc'[q] = "delete" /\ InWindow(o, HarvestIvl(q)', hEnd'[q])
    BY <1>1, <1>5, <1>7, <2>2, Zenon
  <2> QED BY <1>1, <1>5, <2>1, <2>3, <2>4, Zenon DEF DeliveryInv, PlaceInv
<1>9. TimeInv'
  BY <1>1 DEF DeliveryInv, TimeInv, KeyTime, TypeOK
<1>10. SnapInv'
  <2>1. ASSUME NEW o \in hSnap[p] \cap Settled', NEW j \in DOMAIN AggregationIntervals,
               j > hIdx[p]
        PROVE  o.ivl # AggregationIntervals[j]
    <3>1. CASE o \in Settled
      BY <1>1, <2>1, <3>1, Zenon DEF DeliveryInv, SnapInv
    <3>2. CASE o \in W
      <4>1. AggregationIntervals[hIdx[p]] < AggregationIntervals[j]
        BY <1>1, <2>1, IntervalsAssumption, IntervalsNat, Zenon
      <4>2. o.ivl = AggregationIntervals[hIdx[p]]
        BY <1>2, <3>2, Zenon DEF HarvestIvl
      <4>3. AggregationIntervals[hIdx[p]] \in Nat /\ AggregationIntervals[j] \in Nat
        BY <1>1, IntervalsNat, Zenon
      <4> QED BY <4>1, <4>2, <4>3
    <3> QED BY <1>5, <2>1, <3>1, <3>2, Zenon
  <2> QED BY <1>1, <1>6, <1>7, <2>1, Zenon DEF DeliveryInv, SnapInv
<1>11. DeleteInv'
  <2>1. ASSUME NEW o \in db, InWindow(o, HarvestIvl(p), hEnd[p])
        PROVE  o \in W
    <3>1. o.ivl = HarvestIvl(p)
      BY <2>1, Zenon DEF InWindow
    <3>2. o \in hSnap[p]
      BY <1>1, <2>1, <3>1, Zenon DEF DeliveryInv, SnapInv
    <3> QED BY <1>2, <2>1, <3>2, Zenon
  <2> QED BY <1>1, <1>5, <1>6, <2>1, Zenon DEF DeleteInv
<1>12. Accounted' /\ AtMostOnce'
  BY <1>1, <1>3, <1>4, <1>5, Zenon DEF DeliveryInv, Accounted, AtMostOnce, Settled
<1> QED BY <1>8, <1>9, <1>10, <1>11, <1>12, Zenon DEF DeliveryInv

\* DeleteRange removes from the database only the window that was just delivered.
LEMMA DeliveryDeleteRange ==
  ASSUME NoStorageFaults, TypeOK, LockInv, DeliveryInv, NEW p \in Procs, DeleteRange(p)
  PROVE  DeliveryInv'
<1>1. /\ pc[p] = "delete" /\ pc' = [pc EXCEPT ![p] = "harvest"]
      /\ hIdx' = [hIdx EXCEPT ![p] = @ + 1]
      /\ db' = {o \in db : ~InWindow(o, HarvestIvl(p), hEnd[p])}
      /\ UNCHANGED <<hEnd, hSnap, batch, runBatch, issued, accepted, processingTime,
                     delivered, redelivered, dropped>>
  BY Zenon DEF DeleteRange, Remaining, NoStorageFaults, inputVars, outputVars
<1>2. Settled' = Settled
  BY <1>1, Zenon DEF Settled
<1>3. \A q \in Procs : pc[q] \in {"harvest", "delete"} \/ pc'[q] \in {"harvest", "delete"} => q = p
  BY <1>1, HarvestAlone, Zenon DEF TypeOK
<1>4. pc'[p] = "harvest" /\ (pc'[Runner] = "commit" <=> pc[Runner] = "commit")
      /\ hIdx[p] \in Int /\ hIdx'[p] = hIdx[p] + 1
  BY <1>1, IntervalsNat DEF TypeOK
<1>5. PlaceInv'
  <2>1. db' \cap Settled = {}
    BY <1>1, <1>3, Zenon DEF DeliveryInv, PlaceInv
  <2> QED BY <1>1, <1>2, <1>4, <2>1, Zenon DEF DeliveryInv, PlaceInv
<1>6. TimeInv'
  BY <1>1 DEF DeliveryInv, TimeInv, KeyTime, TypeOK
<1>7. SnapInv'
  <2>1. \A j \in DOMAIN AggregationIntervals : j > hIdx'[p] \/ j = hIdx'[p] => j > hIdx[p]
    BY <1>4, IntervalsNat
  <2> QED BY <1>1, <1>2, <1>3, <2>1, Zenon DEF DeliveryInv, SnapInv
<1>8. DeleteInv'
  BY <1>3, <1>4, Zenon DEF DeleteInv
<1>9. Accounted' /\ AtMostOnce'
  BY <1>1, <1>2, Zenon DEF DeliveryInv, DeleteInv, Accounted, AtMostOnce
<1> QED BY <1>5, <1>6, <1>7, <1>8, <1>9, Zenon DEF DeliveryInv

-----------------------------------------------------------------------------
(* The theorems. *)

Inv == TypeOK /\ IndexInv /\ LockInv /\ DeliveryInv

\* Every step of Run and Close keeps the invariant.
LEMMA DeliveryHarvesting ==
  ASSUME NoStorageFaults, TypeOK, LockInv, DeliveryInv, Harvesting
  PROVE  DeliveryInv'
<1>1. ASSUME NEW p \in Procs, HarvestStep(p) PROVE DeliveryInv'
  BY <1>1, DeliveryHarvestSkip, DeliveryHarvestForInterval, DeliveryDeleteRange, Zenon DEF HarvestStep
<1>2. CASE Tick \/ Run
  BY <1>2, DeliveryQuietRun, Zenon
<1>3. CASE RunStep
  BY <1>1, <1>3, DeliveryQuietRun, DeliveryRunSwap, DeliveryRunCommit, DeliveryRunSnapshot, Zenon
  DEF RunStep, Procs
<1>4. ASSUME NEW c \in Closers, CloseBegin(c) \/ CloseStep(c) PROVE DeliveryInv'
  BY <1>1, <1>4, DeliveryQuietClose, DeliveryCloseCommit, DeliveryCloseHarvest, Zenon
  DEF CloseStep, Procs
<1> QED BY <1>2, <1>3, <1>4, Zenon DEF Harvesting

\* Every step of an l1 aggregator keeps the invariant.
LEMMA InvNext ==
  ASSUME NoStorageFaults, Inv, [L1Next]_vars
  PROVE  Inv'
<1>1. TypeOK' /\ IndexInv'
  BY TypeHarvesting, TypeAggregateBatch, TypeStutter, Zenon DEF L1Next, Inv
<1>2. LockInv'
  BY LockNext, Zenon DEF Inv
<1>3. DeliveryInv'
  <2>1. CASE UNCHANGED vars
    <3>1. \A p \in Procs : pc'[p] = pc[p] /\ hSnap'[p] = hSnap[p]
      BY <2>1, Zenon DEF vars, harvestVars
    <3> QED BY <2>1, <3>1, QuietStep, Zenon DEF Inv, vars, harvestVars, outputVars, inputVars, Procs
  <2>2. CASE Harvesting
    BY <2>2, DeliveryHarvesting, Zenon DEF Inv
  <2>3. ASSUME NEW id \in IDs, NEW evs \in SUBSET Events, AggregateBatch(id, evs)
        PROVE  DeliveryInv'
    BY <2>3, DeliveryAggregateBatch, Zenon DEF Inv
  <2> QED BY <2>1, <2>2, <2>3, Zenon DEF L1Next
<1> QED BY <1>1, <1>2, <1>3, Zenon DEF Inv

\* No item aggregated from an event vanishes from the l1 aggregator, for any
\* intervals, events and callers, also when commits and Processor calls fail:
\* DeleteRange on the live database removes only what the harvest's snapshot held
\* and the Processor was given.
THEOREM L1Accounted == ASSUME NoStorageFaults PROVE L1Spec => []Accounted
<1>1. Init => Inv
  BY TypeInit, LockInit, DeliveryInit, Zenon DEF Inv
<1>2. Inv /\ [L1Next]_vars => Inv'
  BY InvNext, Zenon
<1>3. Inv => Accounted
  BY Zenon DEF Inv, DeliveryInv
<1> QED BY <1>1, <1>2, <1>3, PTL DEF L1Spec

\* Nor is an item given to the Processor twice, or delivered after it was
\* reported lost: Run, the final harvest of Close and repeated calls of Close
\* harvest disjoint sets of entries.
THEOREM L1AtMostOnce == ASSUME NoStorageFaults PROVE L1Spec => []AtMostOnce
<1>1. Init => Inv
  BY TypeInit, LockInit, DeliveryInit, Zenon DEF Inv
<1>2. Inv /\ [L1Next]_vars => Inv'
  BY InvNext, Zenon
<1>3. Inv => AtMostOnce
  BY Zenon DEF Inv, DeliveryInv
<1> QED BY <1>1, <1>2, <1>3, PTL DEF L1Spec

\* A step accepts items or settles items, not both.
LEMMA AcceptOrSettle ==
  ASSUME [L1Next]_vars
  PROVE  \/ issued \subseteq issued' /\ UNCHANGED <<delivered, dropped>>
         \/ delivered \subseteq delivered' /\ dropped \subseteq dropped' /\ UNCHANGED issued
<1> USE DEF outputVars, inputVars
<1>1. ASSUME NEW p, HarvestStep(p)
      PROVE  delivered \subseteq delivered' /\ dropped \subseteq dropped' /\ UNCHANGED issued
  BY <1>1, Zenon DEF HarvestStep, HarvestSkip, HarvestForInterval, DeleteRange
<1>2. ASSUME NEW id, NEW evs, AggregateBatch(id, evs)
      PROVE  issued \subseteq issued' /\ UNCHANGED <<delivered, dropped>>
  BY <1>2, Zenon DEF AggregateBatch
<1>3. CASE RunCommit
  BY <1>3, Zenon DEF RunCommit
<1>4. CASE Tick \/ Run \/ RunReturn \/ RunTimer \/ RunSwap \/ RunSnapshot \/ RunNext
  BY <1>4, Zenon DEF Tick, Run, RunReturn, RunTimer, RunSwap, RunSnapshot, RunNext
<1>5. ASSUME NEW c, CloseBegin(c) \/ CloseStep(c)
      PROVE  delivered \subseteq delivered' /\ dropped \subseteq dropped' /\ UNCHANGED issued
  BY <1>1, <1>5, Zenon DEF CloseStep, CloseBegin, CloseRunStopped, CloseCtxDone, CloseAgain,
                    CloseCommit, CloseHarvest, CloseNext, CloseReturn
<1>6. CASE UNCHANGED vars
  BY <1>6, Zenon DEF vars
<1> QED BY <1>1, <1>2, <1>3, <1>4, <1>5, <1>6, Zenon DEF L1Next, Harvesting, RunStep

\* The l1 aggregator implements the delivery contract: commits, snapshots and
\* DeleteRange are invisible in it, aggregating accepts fresh items, and a harvest
\* or a lost batch settles pending ones, for good.
THEOREM L1ImplementsDelivery == ASSUME NoStorageFaults PROVE L1Spec => DeliveryContract
<1>1. Init => Inv
  BY TypeInit, LockInit, DeliveryInit, Zenon DEF Inv
<1>2. Inv /\ [L1Next]_vars => Inv'
  BY InvNext, Zenon
<1>3. Init => Contract!Init
  BY Zenon DEF Init, Contract!Init, Pending
<1>4. Inv /\ Inv' /\ [L1Next]_vars => [Contract!Next]_(Contract!vars)
  <2> SUFFICES ASSUME Inv, Inv', [L1Next]_vars PROVE Contract!Next
    BY Zenon
  <2>1. Pending = issued \ Settled /\ Pending' = issued' \ Settled'
    BY Zenon DEF Inv, DeliveryInv, PlaceInv, Accounted, Pending
  <2>2. Settled' \subseteq issued' /\ delivered' \cap dropped' = {}
    BY Zenon DEF Inv, DeliveryInv, PlaceInv, AtMostOnce
  <2>3. CASE issued \subseteq issued' /\ UNCHANGED <<delivered, dropped>>
    BY <2>1, <2>3, Zenon DEF Contract!Next, Contract!Accept, Settled
  <2>4. CASE delivered \subseteq delivered' /\ dropped \subseteq dropped' /\ UNCHANGED issued
    BY <2>1, <2>2, <2>4, Zenon DEF Contract!Next, Contract!Settle, Settled
  <2> QED BY <2>3, <2>4, AcceptOrSettle, Zenon
<1> QED BY <1>1, <1>2, <1>3, <1>4, PTL DEF L1Spec, DeliveryContract, Contract!Spec

-----------------------------------------------------------------------------
(* When windows are harvested: the invariant. *)

\* Processing times are boundaries of the lowest interval, items are stamped with a
\* boundary of their interval that has passed, and Run is one lowest interval ahead until
\* it moves the processing time.
ClockInv ==
  /\ processingTime % Lowest = 0
  /\ \A o \in issued : o.pt % o.ivl = 0 /\ o.pt <= processingTime
  /\ pc[Runner] \in {"select", "lock"} => to = processingTime + Lowest
  /\ pc[Runner] \in {"commit", "snapshot", "harvest", "delete"} => to = processingTime

\* The harvest of Run has yet to come to the interval of o, whose window ends now.
Awaited(o) ==
  /\ o.pt + o.ivl = processingTime
  /\ \/ pc[Runner] \in {"commit", "snapshot"}
     \/ \E j \in DOMAIN AggregationIntervals :
           /\ o.ivl = AggregationIntervals[j]
           /\ \/ pc[Runner] = "harvest" /\ j >= hIdx[Runner]
              \/ pc[Runner] = "delete" /\ j > hIdx[Runner]

\* The items that are not settled belong to windows that are open, or that Run is about
\* to harvest.
AheadInv ==
  \A o \in (batch \cup runBatch \cup db) \ Settled : processingTime < o.pt + o.ivl \/ Awaited(o)

\* Close empties the database interval by interval, and closes it empty.
CloseInv ==
  /\ \A c \in Closers : pc[c] # "idle" => closed
  /\ \A c \in Closers : pc[c] \in {"idle", "wait", "commit"} => closeIdx[c] = 1
  /\ \A c \in Closers : pc[c] \in {"final", "harvest", "delete"} =>
        /\ dbOpen /\ batch = {}
        /\ \A o \in db, j \in DOMAIN AggregationIntervals :
              o.ivl = AggregationIntervals[j] =>
                 j > closeIdx[c] \/ (j = closeIdx[c] /\ (pc[c] # "final" => hIdx[c] <= j))
  /\ \A c \in Closers : pc[c] \in {"harvest", "delete"} =>
        hEnd[c] = FinalEnd(AggregationIntervals[closeIdx[c]])
  /\ ~dbOpen => closed /\ batch = {} /\ runBatch = {} /\ db = {}
  /\ \A c \in Closers : pc[c] = "returned" => ~dbOpen

\* The windows that have been delivered are over while the aggregator takes events, and no
\* item of theirs is still to be settled.
OverInv ==
  /\ ~closed => \A d \in delivered : d.pt + d.ivl <= processingTime
  /\ \A d \in delivered, o \in (batch \cup runBatch \cup db) \ Settled :
        ~(o.ivl = d.ivl /\ o.pt = d.pt)

\* The inductive invariant, with that of AggregatorDeliveryProofs.
HarvestInv == ClockInv /\ AheadInv /\ CloseInv /\ OverInv

\* Where the items of an aggregator are.
Places == batch \cup runBatch \cup db

-----------------------------------------------------------------------------
(* What the steps leave alone. *)

\* Close leaves the clock, the batch of Run and the other processes alone.
LEMMA CloserFrame ==
  ASSUME Inv, NEW c \in Closers, CloseBegin(c) \/ CloseStep(c)
  PROVE  /\ UNCHANGED <<processingTime, issued, to, runBatch>>
         /\ \A q \in Procs : q # c => pc'[q] = pc[q] /\ hIdx'[q] = hIdx[q]
         /\ \A d \in Closers : d # c => closeIdx'[d] = closeIdx[d]
         /\ pc'[Runner] = pc[Runner] /\ hIdx'[Runner] = hIdx[Runner]
<1> USE DEF Inv, TypeOK, Procs, harvestVars, closeVars, outputVars, inputVars
<1> Runner \notin Closers
  BY ConstantsAssumption, Zenon
<1>1. CASE CloseBegin(c)
  BY <1>1, Zenon DEF CloseBegin
<1>2. CASE CloseRunStopped(c)
  BY <1>2, Zenon DEF CloseRunStopped
<1>3. CASE CloseCtxDone(c)
  BY <1>3, Zenon DEF CloseCtxDone
<1>4. CASE CloseAgain(c)
  BY <1>4, Zenon DEF CloseAgain
<1>5. CASE CloseCommit(c)
  BY <1>5, Zenon DEF CloseCommit
<1>6. CASE CloseHarvest(c)
  BY <1>6, Zenon DEF CloseHarvest
<1>7. CASE CloseNext(c)
  BY <1>7, Zenon DEF CloseNext
<1>8. CASE CloseReturn(c)
  BY <1>8, Zenon DEF CloseReturn
<1>9. CASE HarvestSkip(c)
  BY <1>9, Zenon DEF HarvestSkip
<1>10. CASE HarvestForInterval(c)
  BY <1>10, Zenon DEF HarvestForInterval
<1>11. CASE DeleteRange(c)
  BY <1>11, Zenon DEF DeleteRange
<1> QED
  BY <1>1, <1>2, <1>3, <1>4, <1>5, <1>6, <1>7, <1>8, <1>9, <1>10, <1>11, Zenon DEF CloseStep, HarvestStep

\* A step of the harvest of Run leaves the clock, the batches and Close alone.
LEMMA RunnerHarvestFrame ==
  ASSUME Inv, HarvestStep(Runner)
  PROVE  /\ UNCHANGED <<processingTime, issued, to, runBatch, batch, closed, dbOpen, hEnd, hSnap>>
         /\ pc[Runner] \in {"harvest", "delete"} /\ pc'[Runner] \in {"harvest", "delete"}
         /\ \A c \in Closers : pc'[c] = pc[c] /\ hIdx'[c] = hIdx[c]
         /\ closeIdx' = closeIdx
<1> USE DEF Inv, TypeOK, Procs, harvestVars, closeVars, outputVars, inputVars
<1> Runner \notin Closers
  BY ConstantsAssumption, Zenon
<1>1. CASE HarvestSkip(Runner)
  BY <1>1, Zenon DEF HarvestSkip
<1>2. CASE HarvestForInterval(Runner)
  BY <1>2, Zenon DEF HarvestForInterval
<1>3. CASE DeleteRange(Runner)
  BY <1>3, Zenon DEF DeleteRange
<1> QED BY <1>1, <1>2, <1>3, Zenon DEF HarvestStep

\* What a harvest does to the items.
LEMMA HarvestItems ==
  ASSUME NoStorageFaults, Inv, NEW p \in Procs, HarvestStep(p)
  PROVE  /\ db' \subseteq db /\ Settled \subseteq Settled' /\ batch' = batch
         /\ delivered \subseteq delivered'
<1>1. CASE HarvestSkip(p)
  BY <1>1, Zenon DEF HarvestSkip, outputVars, Settled
<1>2. CASE HarvestForInterval(p)
  BY <1>2, Zenon DEF HarvestForInterval, Settled
<1>3. CASE DeleteRange(p)
  BY <1>3, Zenon DEF DeleteRange, Remaining, outputVars, Settled
<1> QED BY <1>1, <1>2, <1>3, Zenon DEF HarvestStep

-----------------------------------------------------------------------------
(* The clock. *)

\* An item is of one of the intervals, a multiple of the lowest one.
LEMMA ItemBounds ==
  ASSUME Inv, NEW o \in issued
  PROVE  /\ o \in Item /\ o.pt \in Nat /\ o.ivl \in Nat \ {0} /\ o.ivl % Lowest = 0
         /\ \E j \in DOMAIN AggregationIntervals : o.ivl = AggregationIntervals[j]
<1>1. o \in Item
  BY Zenon DEF Inv, TypeOK
<1>2. o.ivl \in Intervals /\ o.pt \in Nat
  BY <1>1, Zenon DEF Item
<1> QED BY <1>1, <1>2, IntervalsAssumption DEF Intervals

\* Only Run moves the processing time, one lowest interval at a time.
LEMMA ClockStep ==
  ASSUME Inv, ClockInv, [L1Next]_vars
  PROVE  ClockInv'
<1>0. processingTime \in Nat /\ Lowest \in Nat \ {0} /\ Runner \in Procs /\ pc \in [Procs -> RunnerPCs \cup CloserPCs]
  BY IntervalsNat, Zenon DEF Inv, TypeOK, Procs
<1>1. ASSUME NEW c \in Closers, CloseBegin(c) \/ CloseStep(c) PROVE ClockInv'
  BY <1>1, CloserFrame, Zenon DEF ClockInv
<1>2. CASE Tick \/ UNCHANGED vars
  BY <1>2, Zenon DEF Tick, vars, inputVars, ClockInv
<1>3. CASE HarvestStep(Runner)
  BY <1>3, RunnerHarvestFrame, Zenon DEF ClockInv
<1>4. CASE Run
  BY <1>0, <1>4, Zenon DEF Run, inputVars, ClockInv
<1>5. CASE RunReturn
  BY <1>0, <1>5, Zenon DEF RunReturn, inputVars, ClockInv
<1>6. CASE RunTimer
  BY <1>0, <1>6, Zenon DEF RunTimer, inputVars, ClockInv
<1>7. CASE RunSwap
  <2>1. to = processingTime + Lowest /\ processingTime' = to /\ UNCHANGED <<to, issued>>
        /\ pc'[Runner] = "commit"
    BY <1>0, <1>7, Zenon DEF RunSwap, inputVars, ClockInv
  <2>2. Lowest % Lowest = 0
    BY <1>0, Z3
  <2>3. (processingTime + Lowest) % Lowest = 0
    BY <1>0, <2>2, SumOfMultiples, Zenon DEF ClockInv
  <2>4. \A o \in issued : o.pt <= processingTime'
    <3> TAKE o \in issued
    <3>1. o.pt \in Nat /\ o.pt <= processingTime
      BY ItemBounds, Zenon DEF ClockInv
    <3> QED BY <1>0, <2>1, <3>1
  <2> QED BY <2>1, <2>3, <2>4, Zenon DEF ClockInv
<1>8. CASE RunCommit
  BY <1>0, <1>8, Zenon DEF RunCommit, inputVars, ClockInv
<1>9. CASE RunSnapshot
  BY <1>0, <1>9, Zenon DEF RunSnapshot, inputVars, ClockInv
<1>10. CASE RunNext
  BY <1>0, <1>10, Zenon DEF RunNext, HarvestOver, inputVars, ClockInv
<1>11. ASSUME NEW id \in IDs, NEW evs \in SUBSET Events, AggregateBatch(id, evs)
       PROVE  ClockInv'
  <2>1. UNCHANGED <<processingTime, to, pc>> /\ issued' = issued \cup BatchOps(id, evs)
    BY <1>11, Zenon DEF AggregateBatch
  <2>2. ASSUME NEW o \in BatchOps(id, evs)
        PROVE  o.pt % o.ivl = 0 /\ o.pt <= processingTime
    <3>1. o.ivl \in Intervals /\ o.pt = KeyTime(o.ivl)
      BY Zenon DEF BatchOps
    <3> QED BY <1>0, <3>1, IntervalsNat, TruncateBounds, Zenon DEF KeyTime
  <2> QED BY <2>1, <2>2, Zenon DEF ClockInv
<1> QED BY <1>1, <1>2, <1>3, <1>4, <1>5, <1>6, <1>7, <1>8, <1>9, <1>10, <1>11, Zenon
        DEF L1Next, Harvesting, RunStep

-----------------------------------------------------------------------------
(* What is not settled is ahead, or awaited. *)

\* A buffered item belongs to an open window.
LEMMA CurrentAhead ==
  ASSUME Inv, NEW ivl \in Intervals
  PROVE  /\ KeyTime(ivl) \in Nat /\ KeyTime(ivl) % ivl = 0
         /\ KeyTime(ivl) <= processingTime /\ processingTime < KeyTime(ivl) + ivl
BY IntervalsNat, TruncateBounds, Zenon DEF KeyTime, Inv, TypeOK

\* All items were issued, and those of the open batch are of windows that are open.
LEMMA PlacesIssued ==
  ASSUME Inv
  PROVE  /\ Places \subseteq issued
         /\ \A o \in batch : processingTime < o.pt + o.ivl
         /\ pc[Runner] # "commit" => runBatch = {}
<1>1. Places \subseteq issued
  BY Zenon DEF Inv, DeliveryInv, PlaceInv, Places
<1>2. ASSUME NEW o \in batch PROVE processingTime < o.pt + o.ivl
  <2>1. o.ivl \in Intervals /\ o.pt = KeyTime(o.ivl)
    BY Zenon DEF Inv, DeliveryInv, TimeInv, TypeOK, Item
  <2> QED BY <2>1, CurrentAhead, Zenon
<1> QED BY <1>1, <1>2, Zenon DEF Inv, DeliveryInv, PlaceInv

\* An awaited item ends its window at the time Run harvests.
LEMMA AwaitedDue ==
  ASSUME Inv, ClockInv, NEW o \in issued, o.pt + o.ivl = processingTime
  PROVE  Due(processingTime, o.ivl) /\ InWindow(o, o.ivl, processingTime)
<1>1. o.pt \in Nat /\ o.ivl \in Nat \ {0} /\ o.pt % o.ivl = 0
  BY ItemBounds, Zenon DEF ClockInv
<1>2. o.ivl % o.ivl = 0
  BY <1>1, Z3
<1>3. processingTime % o.ivl = 0
  BY <1>1, <1>2, SumOfMultiples, Zenon
<1>4. processingTime \in Nat /\ processingTime - 0 = processingTime
  BY <1>1
<1>5. Due(processingTime, o.ivl)
  BY <1>3, <1>4, Zenon DEF Due, Truncate
<1>6. processingTime - o.ivl <= o.pt /\ o.pt < processingTime
  BY <1>1, <1>4
<1> QED BY <1>5, <1>6, Zenon DEF InWindow

\* Steps that bring no item and leave Run's harvest where it is.
LEMMA AheadQuiet ==
  ASSUME AheadInv, Places' \ Settled' \subseteq Places \ Settled,
         UNCHANGED <<processingTime>>,
         \A o \in Places' \ Settled' : Awaited(o) => Awaited(o)'
  PROVE  AheadInv'
BY Zenon DEF AheadInv, Places

\* What Run has yet to harvest depends on the clock and on Run alone.
LEMMA AwaitedSame ==
  ASSUME UNCHANGED processingTime, pc'[Runner] = pc[Runner], hIdx'[Runner] = hIdx[Runner]
  PROVE  \A o : Awaited(o)' <=> Awaited(o)
BY Zenon DEF Awaited

\* The final harvest settles what it deletes.
LEMMA AheadClose ==
  ASSUME NoStorageFaults, Inv, AheadInv, NEW c \in Closers, CloseBegin(c) \/ CloseStep(c)
  PROVE  AheadInv'
<1> c \in Procs
  BY Zenon DEF Procs
<1>1. \A o : Awaited(o)' <=> Awaited(o)
  BY CloserFrame, AwaitedSame, Zenon
<1>2. Places' \ Settled' \subseteq Places \ Settled
  <2>1. CASE HarvestStep(c)
    BY <2>1, HarvestItems, CloserFrame, Zenon DEF Places
  <2>2. CASE CloseCommit(c)
    BY <2>2, Zenon DEF CloseCommit, Places, Settled, outputVars
  <2>3. CASE CloseBegin(c) \/ CloseRunStopped(c) \/ CloseCtxDone(c) \/ CloseAgain(c)
    BY <2>3, Zenon DEF CloseBegin, CloseRunStopped, CloseCtxDone, CloseAgain, Places, Settled, outputVars
  <2>4. CASE CloseHarvest(c) \/ CloseNext(c) \/ CloseReturn(c)
    BY <2>4, Zenon DEF CloseHarvest, CloseNext, CloseReturn, Places, Settled, outputVars
  <2> QED BY <2>1, <2>2, <2>3, <2>4, Zenon DEF CloseStep
<1> QED BY <1>1, <1>2, CloserFrame, AheadQuiet, Zenon

\* When Run moves the processing time, the windows that end there are the ones it
\* harvests next.
LEMMA AheadRunSwap ==
  ASSUME Inv, ClockInv, AheadInv, RunSwap
  PROVE  AheadInv'
<1>1. /\ pc[Runner] = "lock" /\ pc'[Runner] = "commit" /\ processingTime' = processingTime + Lowest
      /\ Places' \ Settled' = Places \ Settled
  <2>1. pc[Runner] = "lock" /\ runBatch = {}
    BY PlacesIssued, Zenon DEF RunSwap
  <2> QED BY <2>1, Zenon DEF RunSwap, Places, Settled, outputVars, ClockInv, Inv, TypeOK, Procs
<1>2. ASSUME NEW o \in Places' \ Settled'
      PROVE  processingTime' < o.pt + o.ivl \/ Awaited(o)'
  <2>1. o \in issued /\ processingTime < o.pt + o.ivl
    BY <1>1, PlacesIssued, Zenon DEF AheadInv, Awaited, Places
  <2>2. o.pt \in Nat /\ o.ivl \in Nat \ {0} /\ o.ivl % Lowest = 0 /\ o.pt % o.ivl = 0
    BY <2>1, ItemBounds, Zenon DEF ClockInv
  <2>3. processingTime \in Nat /\ Lowest \in Nat \ {0} /\ processingTime % Lowest = 0
    BY IntervalsNat, Zenon DEF ClockInv, Inv, TypeOK
  <2>4. (o.pt + o.ivl) % Lowest = 0
    BY <2>2, <2>3, MultipleOfMultiple, SumOfMultiples, Zenon
  <2>5. processingTime + Lowest <= o.pt + o.ivl
    BY <2>1, <2>2, <2>3, <2>4, NextMultiple
  <2> QED BY <1>1, <2>2, <2>3, <2>5 DEF Awaited
<1> QED BY <1>2, Zenon DEF AheadInv, Places

\* Run passes an interval only when no window of it ends now, or when it has delivered
\* or reported and deleted the window.
LEMMA AheadRunHarvest ==
  ASSUME NoStorageFaults, Inv, ClockInv, AheadInv, HarvestStep(Runner)
  PROVE  AheadInv'
<1> Runner \in Procs
  BY Zenon DEF Procs
<1>1. /\ UNCHANGED <<processingTime, runBatch, batch>> /\ runBatch = {}
      /\ pc[Runner] \in {"harvest", "delete"} /\ pc'[Runner] \in {"harvest", "delete"}
      /\ hEnd[Runner] = processingTime
  BY RunnerHarvestFrame, PlacesIssued, Zenon DEF Inv, DeliveryInv, TimeInv
<1>2. Places' \ Settled' \subseteq Places \ Settled
  BY <1>1, HarvestItems, Zenon DEF Places
<1>3. hIdx[Runner] \in Nat /\ \A j \in DOMAIN AggregationIntervals : j \in Nat
  BY IntervalsNat DEF Inv, TypeOK
<1>4. ASSUME NEW o \in Places' \ Settled', Awaited(o) PROVE Awaited(o)'
  <2>1. o \in issued /\ o.pt + o.ivl = processingTime /\ o \in Places' \ Settled'
        /\ Due(processingTime, o.ivl) /\ InWindow(o, o.ivl, processingTime)
    BY <1>2, <1>4, PlacesIssued, AwaitedDue, Zenon DEF Awaited
  <2>2. PICK j \in DOMAIN AggregationIntervals :
           /\ o.ivl = AggregationIntervals[j]
           /\ \/ pc[Runner] = "harvest" /\ j >= hIdx[Runner]
              \/ pc[Runner] = "delete" /\ j > hIdx[Runner]
    BY <1>1, <1>4, Zenon DEF Awaited
  <2>3. CASE HarvestSkip(Runner)
    <3>1. /\ pc[Runner] = "harvest" /\ pc'[Runner] = "harvest" /\ hIdx'[Runner] = hIdx[Runner] + 1
          /\ ~Due(processingTime, AggregationIntervals[hIdx[Runner]])
      BY <1>1, <2>3, Zenon DEF HarvestSkip, HarvestIvl, Inv, TypeOK
    <3>2. j # hIdx[Runner] /\ j >= hIdx[Runner]
      BY <2>1, <2>2, <3>1, Zenon
    <3>3. j >= hIdx'[Runner]
      BY <1>3, <3>1, <3>2
    <3> QED BY <1>1, <2>1, <2>2, <3>1, <3>3, Zenon DEF Awaited
  <2>4. CASE HarvestForInterval(Runner)
    <3>1. /\ pc[Runner] = "harvest" /\ pc'[Runner] = "delete" /\ hIdx' = hIdx /\ db' = db
          /\ Due(hEnd[Runner], HarvestIvl(Runner))
      BY <2>4, Zenon DEF HarvestForInterval, Inv, TypeOK
    <3>2. pc[Runner] = "harvest" => \A q \in Window(Runner) : q \in Settled'
      <4>1. PICK bad : /\ delivered' = delivered \cup {q \in Window(Runner) :
                                KeyOf(q) \in {KeyOf(x) : x \in Window(Runner)} \ bad}
                       /\ dropped' = dropped \cup {q \in Window(Runner) : KeyOf(q) \in bad}
        BY <2>4, Zenon DEF HarvestForInterval, Iterated, NoStorageFaults
      <4> QED BY <4>1, Zenon DEF Settled
    <3>3. j # hIdx[Runner]
      <4> SUFFICES ASSUME j = hIdx[Runner] PROVE FALSE
        BY Zenon
      <4>1. o.ivl = HarvestIvl(Runner)
        BY <2>2, Zenon DEF HarvestIvl
      <4>2. o \in db
        <5>1. o \notin batch
          <6> SUFFICES ASSUME o \in batch PROVE FALSE
            BY Zenon
          <6>1. processingTime < o.pt + o.ivl /\ processingTime \in Nat
            BY PlacesIssued, Zenon DEF Inv, TypeOK
          <6> QED BY <2>1, <6>1
        <5> QED BY <1>1, <2>1, <3>1, <5>1, Zenon DEF Places
      <4>3. o \in hSnap[Runner]
        BY <1>1, <2>1, <4>2, Zenon DEF Inv, DeliveryInv, SnapInv
      <4>4. o \in Window(Runner)
        BY <1>1, <2>1, <4>1, <4>3, Zenon DEF Window
      <4> QED BY <2>1, <3>1, <3>2, <4>4, Zenon
    <3>4. j > hIdx[Runner] /\ hIdx'[Runner] = hIdx[Runner]
      <4>1. j >= hIdx[Runner]
        BY <2>2, <3>1, Zenon
      <4>2. hIdx'[Runner] = hIdx[Runner]
        BY <3>1, Zenon
      <4> QED BY <1>3, <3>3, <4>1, <4>2
    <3> QED BY <1>1, <2>1, <2>2, <3>1, <3>4, Zenon DEF Awaited
  <2>5. CASE DeleteRange(Runner)
    <3>1. pc[Runner] = "delete" /\ pc'[Runner] = "harvest" /\ hIdx'[Runner] = hIdx[Runner] + 1
      BY <2>5, Zenon DEF DeleteRange, Inv, TypeOK
    <3>2. j >= hIdx'[Runner]
      BY <1>3, <2>2, <3>1
    <3> QED BY <1>1, <2>1, <2>2, <3>1, <3>2, Zenon DEF Awaited
  <2> QED BY <2>3, <2>4, <2>5, Zenon DEF HarvestStep
<1> QED BY <1>1, <1>2, <1>4, AheadQuiet, Zenon

\* Every step keeps the items that are not settled in windows that are open or about to
\* be harvested.
LEMMA AheadStep ==
  ASSUME NoStorageFaults, Inv, ClockInv, AheadInv, CloseInv, [L1Next]_vars
  PROVE  AheadInv'
<1> USE DEF outputVars
<1>0. Runner \in Procs /\ pc \in [Procs -> RunnerPCs \cup CloserPCs]
  BY Zenon DEF Inv, TypeOK, Procs
<1>1. ASSUME NEW c \in Closers, CloseBegin(c) \/ CloseStep(c) PROVE AheadInv'
  BY <1>1, AheadClose, Zenon
<1>2. CASE Tick \/ UNCHANGED vars
  BY <1>2, Zenon DEF Tick, vars, harvestVars, AheadInv, Awaited, Settled
<1>3. CASE HarvestStep(Runner)
  BY <1>3, AheadRunHarvest, Zenon
<1>4. CASE Run \/ RunReturn \/ RunTimer
  <2>1. /\ UNCHANGED <<batch, runBatch, db, delivered, dropped, processingTime>>
        /\ pc[Runner] \in {"idle", "select"}
    BY <1>4, Zenon DEF Run, RunReturn, RunTimer
  <2> QED BY <2>1, Zenon DEF AheadInv, Awaited, Settled
<1>5. CASE RunSwap
  BY <1>5, AheadRunSwap, Zenon
<1>6. CASE RunCommit
  <2>1. /\ pc[Runner] = "commit" /\ pc'[Runner] = "snapshot" /\ UNCHANGED processingTime
        /\ Places' \ Settled' \subseteq Places \ Settled
    BY <1>0, <1>6, Zenon DEF RunCommit, Places, Settled
  <2> QED BY <2>1, AheadQuiet, Zenon DEF Awaited
<1>7. CASE RunSnapshot
  <2>1. pc[Runner] = "snapshot" /\ UNCHANGED <<batch, runBatch, db, delivered, dropped, processingTime>>
    BY <1>7, Zenon DEF RunSnapshot
  <2>2. CASE dbOpen
    <3>1. pc'[Runner] = "harvest" /\ hIdx'[Runner] = 1
      BY <1>0, <1>7, <2>2, Zenon DEF RunSnapshot, Inv, TypeOK
    <3>2. Places' \ Settled' \subseteq Places \ Settled
      BY <2>1, Zenon DEF Places, Settled
    <3>3. ASSUME NEW o \in Places' \ Settled', Awaited(o) PROVE Awaited(o)'
      <4>1. o \in issued
        BY <3>2, PlacesIssued, Zenon
      <4>2. PICK j \in DOMAIN AggregationIntervals : o.ivl = AggregationIntervals[j]
        BY <4>1, ItemBounds, Zenon
      <4>3. j >= 1
        BY IntervalsNat
      <4> QED BY <2>1, <3>1, <3>3, <4>2, <4>3, Zenon DEF Awaited
    <3> QED BY <2>1, <3>2, <3>3, AheadQuiet, Zenon
  <2>3. CASE ~dbOpen
    BY <2>1, <2>3, Zenon DEF CloseInv, AheadInv
  <2> QED BY <2>2, <2>3, Zenon
<1>8. CASE RunNext
  <2>1. /\ UNCHANGED <<batch, runBatch, db, delivered, dropped, processingTime>>
        /\ pc[Runner] = "harvest" /\ hIdx[Runner] \notin DOMAIN AggregationIntervals
    BY <1>8, Zenon DEF RunNext, HarvestOver
  <2>2. \A j \in DOMAIN AggregationIntervals : ~(j >= hIdx[Runner])
    BY <1>0, <2>1, IntervalsNat DEF Inv, TypeOK
  <2>3. \A o : ~Awaited(o)
    BY <2>1, <2>2, Zenon DEF Awaited
  <2> QED BY <2>1, <2>3, Zenon DEF AheadInv, Settled
<1>9. ASSUME NEW id \in IDs, NEW evs \in SUBSET Events, AggregateBatch(id, evs)
      PROVE  AheadInv'
  <2>1. /\ UNCHANGED <<processingTime, pc, hIdx, runBatch, delivered, dropped>>
        /\ batch' \cup db' \subseteq batch \cup db \cup BatchOps(id, evs)
    BY <1>9, Zenon DEF AggregateBatch, Aggregate, Flushable, harvestVars
  <2>2. ASSUME NEW o \in BatchOps(id, evs) PROVE processingTime < o.pt + o.ivl
    <3>1. o.ivl \in Intervals /\ o.pt = KeyTime(o.ivl)
      BY Zenon DEF BatchOps
    <3> QED BY <3>1, CurrentAhead, Zenon
  <2>3. \A o : Awaited(o)' <=> Awaited(o)
    BY <2>1, AwaitedSame, Zenon
  <2> QED BY <2>1, <2>2, <2>3, Zenon DEF AheadInv, Settled
<1> QED BY <1>1, <1>2, <1>3, <1>4, <1>5, <1>6, <1>7, <1>8, <1>9, Zenon
        DEF L1Next, Harvesting, RunStep

-----------------------------------------------------------------------------
(* Close empties the database. *)

\* While Close works, what is stored under an interval is in the window that its final
\* harvest of this interval covers.
LEMMA FinalWindow ==
  ASSUME Inv, ClockInv, AheadInv, NEW c \in Closers, pc[c] \in {"harvest", "delete"},
         NEW ivl \in Intervals, hEnd[c] = FinalEnd(ivl)
  PROVE  /\ Due(hEnd[c], ivl)
         /\ \A o \in db : o.ivl = ivl => InWindow(o, ivl, hEnd[c])
<1>0. c \in Procs /\ Runner \in Procs
  BY Zenon DEF Procs
<1> DEFINE pt == KeyTime(ivl)
<1>1. /\ pt \in Nat /\ ivl \in Nat \ {0} /\ pt % ivl = 0 /\ processingTime \in Nat
      /\ pt <= processingTime /\ processingTime < pt + ivl /\ hEnd[c] = pt + ivl
  BY CurrentAhead, IntervalsNat, Zenon DEF FinalEnd, Inv, TypeOK
<1> HIDE DEF pt
<1>2. (pt + ivl) % ivl = 0
  <2>1. ivl % ivl = 0
    BY <1>1, Z3
  <2> QED BY <1>1, <2>1, SumOfMultiples, Zenon
<1>3. Due(hEnd[c], ivl)
  BY <1>1, <1>2 DEF Due, Truncate
<1>4. ASSUME NEW o \in db, o.ivl = ivl PROVE InWindow(o, ivl, hEnd[c])
  <2>1. CASE o \in Settled
    <3>1. PICK p \in Procs : pc[p] = "delete" /\ InWindow(o, HarvestIvl(p), hEnd[p])
      BY <2>1, Zenon DEF Inv, DeliveryInv, PlaceInv
    <3>2. p = c
      BY <1>0, <3>1, HarvestAlone, Zenon DEF Inv
    <3> QED BY <1>4, <3>1, <3>2, Zenon DEF InWindow
  <2>2. CASE o \notin Settled
    <3>1. pc[Runner] \in {"idle", "returned"}
      BY Zenon DEF Inv, LockInv
    <3>2. processingTime < o.pt + o.ivl
      BY <2>2, <3>1, Zenon DEF AheadInv, Awaited
    <3>3. o \in issued /\ o.pt \in Nat /\ o.pt % ivl = 0 /\ o.pt <= processingTime
      <4>1. o \in issued
        BY PlacesIssued, Zenon DEF Places
      <4> QED BY <1>4, <4>1, ItemBounds, Zenon DEF ClockInv
    <3>4. ~(o.pt < pt)
      <4> SUFFICES ASSUME o.pt < pt PROVE FALSE
        BY Zenon
      <4>1. o.pt + ivl <= pt
        BY <1>1, <3>3, NextMultiple, Zenon
      <4> QED BY <1>1, <1>4, <3>2, <3>3, <4>1
    <3>5. pt + ivl - ivl <= o.pt /\ o.pt < pt + ivl
      BY <1>1, <3>3, <3>4
    <3> QED BY <1>1, <1>4, <3>5 DEF InWindow
  <2> QED BY <2>1, <2>2, Zenon
<1> QED BY <1>3, <1>4, Zenon

\* At most one call of Close is past its first check: the others find stopping closed.
LEMMA CloserAlone ==
  ASSUME Inv, NEW c \in Closers, pc[c] \in {"wait", "commit", "final", "harvest", "delete"}
  PROVE  \A d \in Closers : d # c => pc[d] \notin {"wait", "commit", "final", "harvest", "delete"}
BY Zenon DEF Inv, LockInv

\* A step of Run, of the clock, or none.
RunnerStep == Tick \/ Run \/ RunStep \/ UNCHANGED vars

\* Run does not close the aggregator, and moves items only towards the database.
LEMMA RunnerFrame ==
  ASSUME NoStorageFaults, Inv, RunnerStep
  PROVE  /\ UNCHANGED <<closed, dbOpen, closeIdx>>
         /\ \A c \in Closers : pc'[c] = pc[c] /\ hIdx'[c] = hIdx[c] /\ hEnd'[c] = hEnd[c]
         /\ db' \subseteq db \cup runBatch /\ batch' \subseteq batch
         /\ runBatch' \subseteq batch \cup runBatch
         /\ pc[Runner] \in {"idle", "returned"} => UNCHANGED processingTime /\ db' = db
<1> USE DEF Inv, TypeOK, Procs, harvestVars, closeVars
<1> Runner \notin Closers
  BY ConstantsAssumption, Zenon
<1>1. CASE Tick \/ Run \/ RunReturn \/ RunTimer \/ UNCHANGED vars
  BY <1>1, Zenon DEF Tick, Run, RunReturn, RunTimer, vars
<1>2. CASE RunSwap
  BY <1>2, Zenon DEF RunSwap
<1>3. CASE RunCommit
  BY <1>3, Zenon DEF RunCommit
<1>4. CASE RunSnapshot \/ RunNext
  BY <1>4, Zenon DEF RunSnapshot, RunNext, HarvestOver
<1>5. CASE HarvestStep(Runner)
  BY <1>5, RunnerHarvestFrame, HarvestItems, Zenon
<1> QED BY <1>1, <1>2, <1>3, <1>4, <1>5, Zenon DEF RunnerStep, RunStep

\* Run does not bring items back to the database that Close empties: it has stopped, or
\* has nothing.
LEMMA CloseInvRunner ==
  ASSUME NoStorageFaults, Inv, CloseInv, RunnerStep
  PROVE  CloseInv'
<1>1. ASSUME NEW c \in Closers, pc[c] \in {"final", "harvest", "delete"}
      PROVE  UNCHANGED processingTime /\ db' = db
  BY <1>1, RunnerFrame, Zenon DEF Inv, LockInv
<1>2. \A c \in Closers : /\ pc'[c] # "idle" => closed'
                         /\ pc'[c] \in {"idle", "wait", "commit"} => closeIdx'[c] = 1
  BY RunnerFrame, Zenon DEF CloseInv
<1>3. ASSUME NEW c \in Closers, pc'[c] \in {"final", "harvest", "delete"}
      PROVE  /\ dbOpen' /\ batch' = {}
             /\ \A o \in db', j \in DOMAIN AggregationIntervals :
                   o.ivl = AggregationIntervals[j] =>
                      j > closeIdx'[c] \/ (j = closeIdx'[c] /\ (pc'[c] # "final" => hIdx'[c] <= j))
  BY <1>1, <1>3, RunnerFrame DEF CloseInv
<1>4. ASSUME NEW c \in Closers, pc'[c] \in {"harvest", "delete"}
      PROVE  hEnd'[c] = FinalEnd(AggregationIntervals[closeIdx[c]])'
  BY <1>1, <1>4, RunnerFrame, Zenon DEF CloseInv, FinalEnd, KeyTime
<1>5. ~dbOpen' => closed' /\ batch' = {} /\ runBatch' = {} /\ db' = {}
  BY RunnerFrame, Zenon DEF CloseInv
<1>6. \A c \in Closers : pc'[c] = "returned" => ~dbOpen'
  BY RunnerFrame, Zenon DEF CloseInv
<1> QED BY <1>2, <1>3, <1>4, <1>5, <1>6, Zenon DEF CloseInv

\* A closed aggregator takes no events.
LEMMA CloseInvBatch ==
  ASSUME Inv, CloseInv, NEW id, NEW evs, AggregateBatch(id, evs)
  PROVE  CloseInv'
<1>1. ~closed /\ UNCHANGED <<closed, dbOpen, pc, closeIdx>>
  BY Zenon DEF AggregateBatch, closeVars
<1>2. dbOpen /\ \A c \in Closers : pc[c] = "idle"
  BY <1>1, Zenon DEF CloseInv
<1> QED BY <1>1, <1>2, Zenon DEF CloseInv

\* The database as Close c leaves it for the other ones, and for later.
LEMMA CloseInvOther ==
  ASSUME Inv, CloseInv, NEW c \in Closers, CloseBegin(c) \/ CloseStep(c),
         closed', pc'[c] \in {"idle", "wait", "commit"} => closeIdx'[c] = 1,
         pc'[c] \in {"final", "harvest", "delete"} =>
            /\ dbOpen' /\ batch' = {}
            /\ \A o \in db', j \in DOMAIN AggregationIntervals :
                  o.ivl = AggregationIntervals[j] =>
                     j > closeIdx'[c] \/ (j = closeIdx'[c] /\ (pc'[c] # "final" => hIdx'[c] <= j)),
         pc'[c] \in {"harvest", "delete"} =>
            hEnd'[c] = FinalEnd(AggregationIntervals[closeIdx[c]])',
         ~dbOpen' => batch' = {} /\ db' = {} /\ runBatch' = {},
         dbOpen' => dbOpen,
         pc'[c] = "returned" => ~dbOpen',
         pc[c] # "idle"
  PROVE  CloseInv'
<1>1. \A d \in Closers : d # c => pc'[d] = pc[d] /\ closeIdx'[d] = closeIdx[d]
  BY CloserFrame, Zenon DEF Procs
<1>2. pc[c] \in {"wait", "commit", "final", "harvest", "delete"}
  BY Zenon DEF CloseBegin, CloseStep, CloseRunStopped, CloseCtxDone, CloseAgain, CloseCommit,
         CloseHarvest, CloseNext, CloseReturn, HarvestStep, HarvestSkip, HarvestForInterval,
         DeleteRange, HarvestOver
<1>3. \A d \in Closers : d # c => pc'[d] \notin {"final", "harvest", "delete"}
  BY <1>1, <1>2, CloserAlone, Zenon
<1>4. \A d \in Closers : pc'[d] = "returned" => ~dbOpen'
  BY <1>1, Zenon DEF CloseInv
<1>5. \A d \in Closers : pc'[d] \in {"idle", "wait", "commit"} => closeIdx'[d] = 1
  BY <1>1, Zenon DEF CloseInv
<1> QED BY <1>3, <1>4, <1>5 DEF CloseInv

\* Each interval that Close harvests is empty when it goes on to the next.
LEMMA CloseInvClose ==
  ASSUME NoStorageFaults, Inv, ClockInv, AheadInv, CloseInv,
         NEW c \in Closers, CloseBegin(c) \/ CloseStep(c)
  PROVE  CloseInv'
<1> USE DEF harvestVars, closeVars
<1>0. /\ c \in Procs /\ c \in Closers /\ pc \in [Procs -> RunnerPCs \cup CloserPCs]
      /\ closeIdx \in [Closers -> 1 .. Len(AggregationIntervals) + 1]
      /\ hIdx \in [Procs -> 1 .. Len(AggregationIntervals) + 1]
      /\ hEnd \in [Procs -> Nat]
      /\ \A j \in DOMAIN AggregationIntervals : j \in Nat /\ 1 <= j /\ j <= Len(AggregationIntervals)
      /\ Len(AggregationIntervals) \in Nat
  BY IntervalsNat, SMTT(30) DEF Inv, TypeOK, Procs
<1>1. CASE CloseBegin(c)
  <2>1. /\ mu = Free /\ closed' /\ pc[c] = "idle" /\ pc'[c] \in {"wait", "commit"}
        /\ UNCHANGED <<batch, db, runBatch, dbOpen, closeIdx>>
        /\ \A d \in Closers : d # c => pc'[d] = pc[d]
    BY <1>0, <1>1, CloserFrame, SMTT(30) DEF CloseBegin
  <2>2. \A d \in Closers : pc[d] \notin {"final", "harvest", "delete"}
    BY <2>1, ProcsAssumption, Zenon DEF Inv, LockInv, Procs
  <2>3. \A d \in Closers : pc'[d] \notin {"final", "harvest", "delete"}
    BY <2>1, <2>2, Zenon
  <2> QED BY <2>1, <2>3, Zenon DEF CloseInv
<1>2. CASE CloseRunStopped(c) \/ CloseCtxDone(c) \/ CloseAgain(c)
  <2>1. /\ pc[c] \in {"wait", "commit"} /\ pc'[c] \in {"commit", "failed", "returned"}
        /\ pc'[c] = "returned" => ~dbOpen
        /\ UNCHANGED <<batch, db, runBatch, dbOpen, closeIdx, closed>>
    BY <1>0, <1>2, Zenon DEF CloseRunStopped, CloseCtxDone, CloseAgain
  <2>2. CloseStep(c)
    BY <1>2, Zenon DEF CloseStep
  <2>3. closed' /\ closeIdx'[c] = 1 /\ (~dbOpen' => batch' = {} /\ db' = {} /\ runBatch' = {})
    BY <2>1, Zenon DEF CloseInv
  <2> QED BY <2>1, <2>2, <2>3, CloseInvOther, Zenon
<1>3. CASE CloseCommit(c)
  <2>1. /\ pc[c] = "commit" /\ pc'[c] \in {"final", "failed"} /\ dbOpen
        /\ pc'[c] = "final" => batch' = {}
        /\ UNCHANGED <<dbOpen, closeIdx, closed>>
    BY <1>0, <1>3, Zenon DEF CloseCommit
  <2>2. CloseStep(c)
    BY <1>3, Zenon DEF CloseStep
  <2>3. closed' /\ closeIdx'[c] = 1
    BY <2>1, Zenon DEF CloseInv
  <2>4. \A j \in DOMAIN AggregationIntervals : j > closeIdx'[c] \/ j = closeIdx'[c]
    BY <1>0, <2>3
  <2> QED BY <2>1, <2>2, <2>3, <2>4, CloseInvOther, Zenon
<1>4. CASE CloseHarvest(c)
  <2>1. /\ pc[c] = "final" /\ pc'[c] = "harvest" /\ hIdx'[c] = 1
        /\ hEnd'[c] = FinalEnd(AggregationIntervals[closeIdx[c]])
        /\ UNCHANGED <<dbOpen, closeIdx, closed, batch, db, processingTime>>
    BY <1>0, <1>4, Zenon DEF CloseHarvest
  <2>2. CloseStep(c)
    BY <1>4, Zenon DEF CloseStep
  <2>3. closed' /\ dbOpen' /\ batch' = {}
        /\ \A o \in db', j \in DOMAIN AggregationIntervals :
              o.ivl = AggregationIntervals[j] => j > closeIdx'[c] \/ j = closeIdx'[c]
    BY <2>1, Zenon DEF CloseInv
  <2>4. hEnd'[c] = FinalEnd(AggregationIntervals[closeIdx[c]])'
    BY <2>1, Zenon DEF FinalEnd, KeyTime
  <2>5. \A j \in DOMAIN AggregationIntervals : hIdx'[c] <= j
    BY <1>0, <2>1, Zenon
  <2> QED BY <2>1, <2>2, <2>3, <2>4, <2>5, CloseInvOther, Zenon
<1>5. CASE CloseNext(c)
  <2>1. /\ pc[c] = "harvest" /\ hIdx[c] \notin DOMAIN AggregationIntervals
        /\ pc'[c] = "final" /\ closeIdx'[c] = closeIdx[c] + 1
        /\ UNCHANGED <<dbOpen, closed, batch, db>>
    BY <1>0, <1>5, Zenon DEF CloseNext, HarvestOver
  <2>2. CloseStep(c)
    BY <1>5, Zenon DEF CloseStep
  <2>3. ASSUME NEW o \in db', NEW j \in DOMAIN AggregationIntervals, o.ivl = AggregationIntervals[j]
        PROVE  j > closeIdx'[c] \/ j = closeIdx'[c]
    <3>1. j > closeIdx[c] \/ hIdx[c] <= j
      BY <2>1, <2>3, Zenon DEF CloseInv
    <3>2. ~(hIdx[c] <= j)
      BY <1>0, <2>1, IndexOver, Zenon
    <3> QED BY <1>0, <2>1, <3>1, <3>2, SMTT(30)
  <2>4. closed' /\ dbOpen' /\ batch' = {}
    BY <2>1, Zenon DEF CloseInv
  <2> QED BY <2>1, <2>2, <2>3, <2>4, CloseInvOther, Zenon
<1>6. CASE CloseReturn(c)
  <2>1. /\ pc[c] = "final" /\ closeIdx[c] \notin DOMAIN AggregationIntervals
        /\ pc'[c] \in {"failed", "returned"} /\ (pc'[c] = "returned" => ~dbOpen')
        /\ UNCHANGED <<closed, batch, db, runBatch, closeIdx>>
    BY <1>0, <1>6, Zenon DEF CloseReturn
  <2>2. CloseStep(c)
    BY <1>6, Zenon DEF CloseStep
  <2>3. closed /\ dbOpen /\ batch = {}
    BY <2>1, Zenon DEF CloseInv
  <2>4. runBatch = {}
    BY <2>1, PlacesIssued, Zenon DEF Inv, LockInv
  <2>5. ASSUME NEW o \in db PROVE FALSE
    <3>1. PICK j \in DOMAIN AggregationIntervals : o.ivl = AggregationIntervals[j]
      BY PlacesIssued, ItemBounds, Zenon DEF Places
    <3>2. j > closeIdx[c] \/ j = closeIdx[c]
      BY <2>1, <3>1, Zenon DEF CloseInv
    <3> QED BY <1>0, <2>1, <3>2, IntervalsNat
  <2> QED BY <2>1, <2>2, <2>3, <2>4, <2>5, CloseInvOther, Zenon
<1>7. CASE HarvestStep(c)
  <2>1. /\ pc[c] \in {"harvest", "delete"} /\ pc'[c] \in {"harvest", "delete"}
        /\ UNCHANGED <<closed, batch, closeIdx, dbOpen, hEnd, processingTime>> /\ db' \subseteq db
    BY <1>0, <1>7, Zenon DEF HarvestStep, HarvestSkip, HarvestForInterval, DeleteRange, Remaining
  <2>2. CloseStep(c)
    BY <1>7, Zenon DEF CloseStep
  <2>3. closed' /\ dbOpen' /\ batch' = {} /\ hEnd[c] = FinalEnd(AggregationIntervals[closeIdx[c]])
    BY <2>1, Zenon DEF CloseInv
  <2>4. hEnd'[c] = FinalEnd(AggregationIntervals[closeIdx[c]])'
    BY <2>1, <2>3, Zenon DEF FinalEnd, KeyTime
  <2>5. closeIdx[c] \in DOMAIN AggregationIntervals
    BY <2>1, Zenon DEF Inv, IndexInv
  <2>6. /\ Due(hEnd[c], AggregationIntervals[closeIdx[c]])
        /\ \A o \in db : o.ivl = AggregationIntervals[closeIdx[c]] =>
              InWindow(o, AggregationIntervals[closeIdx[c]], hEnd[c])
    BY <2>1, <2>3, <2>5, IntervalsNat, FinalWindow, Zenon
  <2>7. /\ hIdx[c] \in Nat /\ closeIdx[c] \in Nat /\ \A j \in DOMAIN AggregationIntervals : j \in Nat
        /\ \A j \in DOMAIN AggregationIntervals : j > closeIdx[c] => j # closeIdx[c]
    BY <1>0, IntervalsNat
  <2>8. ASSUME NEW o \in db', NEW j \in DOMAIN AggregationIntervals, o.ivl = AggregationIntervals[j]
        PROVE  j > closeIdx'[c] \/ (j = closeIdx'[c] /\ hIdx'[c] <= j)
    <3>1. o \in db /\ (j > closeIdx[c] \/ (j = closeIdx[c] /\ hIdx[c] <= j))
      BY <2>1, <2>8, Zenon DEF CloseInv
    <3>2. CASE HarvestSkip(c)
      <4>1. hIdx'[c] = hIdx[c] + 1 /\ ~Due(hEnd[c], AggregationIntervals[hIdx[c]])
        BY <1>0, <3>2, Zenon DEF HarvestSkip, HarvestIvl
      <4>2. hIdx[c] # closeIdx[c]
        BY <2>6, <4>1, Zenon
      <4>3. j = closeIdx[c] => hIdx[c] <= j /\ hIdx[c] # j
        BY <2>7, <3>1, <4>2, Zenon
      <4>4. j = closeIdx[c] => hIdx[c] + 1 <= j
        BY <2>7, <4>3, IndexPast, Zenon
      <4> QED BY <2>1, <3>1, <4>1, <4>4, Zenon
    <3>3. CASE HarvestForInterval(c)
      BY <2>1, <3>1, <3>3, Zenon DEF HarvestForInterval
    <3>4. CASE DeleteRange(c)
      <4>1. /\ hIdx'[c] = hIdx[c] + 1
            /\ ~InWindow(o, AggregationIntervals[hIdx[c]], hEnd[c])
        BY <1>0, <2>8, <3>4, Zenon DEF DeleteRange, Remaining, HarvestIvl, NoStorageFaults
      <4>2. j = closeIdx[c] => hIdx[c] # j
        BY <2>6, <2>8, <3>1, <4>1, Zenon
      <4>3. j = closeIdx[c] => hIdx[c] <= j /\ hIdx[c] # j
        BY <2>7, <3>1, <4>2, Zenon
      <4>4. j = closeIdx[c] => hIdx[c] + 1 <= j
        BY <2>7, <4>3, IndexPast, Zenon
      <4> QED BY <2>1, <3>1, <4>1, <4>4, Zenon
    <3> QED BY <1>7, <3>2, <3>3, <3>4, Zenon DEF HarvestStep
  <2> QED BY <2>1, <2>2, <2>3, <2>4, <2>8, CloseInvOther, Zenon
<1> QED BY <1>1, <1>2, <1>3, <1>4, <1>5, <1>6, <1>7, Zenon DEF CloseStep

\* Every step keeps the database that Close has gone through empty.
LEMMA CloseInvStep ==
  ASSUME NoStorageFaults, Inv, ClockInv, AheadInv, CloseInv, [L1Next]_vars
  PROVE  CloseInv'
BY CloseInvRunner, CloseInvBatch, CloseInvClose, Zenon DEF L1Next, Harvesting, RunnerStep

-----------------------------------------------------------------------------
(* A window is over when it has been delivered. *)

\* Steps other than the harvest of an interval.
LEMMA OverQuiet ==
  ASSUME OverInv, UNCHANGED delivered, Places' \ Settled' \subseteq Places \ Settled,
         ~closed' => ~closed /\ processingTime <= processingTime',
         Inv, Inv'
  PROVE  OverInv'
<1>1. ASSUME ~closed', NEW d \in delivered PROVE d.pt + d.ivl <= processingTime'
  <2>1. d.pt + d.ivl <= processingTime /\ processingTime <= processingTime'
    BY <1>1, Zenon DEF OverInv
  <2>2. d.pt + d.ivl \in Nat /\ processingTime \in Nat /\ processingTime' \in Nat
    <3>1. d \in issued
      BY Zenon DEF Inv, DeliveryInv, PlaceInv, Settled
    <3>2. d.pt \in Nat /\ d.ivl \in Nat
      BY <3>1, ItemBounds, Zenon
    <3>3. processingTime \in Nat /\ processingTime' \in Nat
      BY Zenon DEF Inv, TypeOK
    <3> QED BY <3>2, <3>3
  <2> QED BY <2>1, <2>2
<1> QED BY <1>1, Zenon DEF OverInv, Places

\* A harvest settles all there is of the windows it delivers.
LEMMA OverHarvest ==
  ASSUME NoStorageFaults, Inv, Inv', ClockInv, CloseInv, OverInv,
         NEW p \in Procs, HarvestForInterval(p)
  PROVE  OverInv'
<1>1. /\ pc[p] = "harvest" /\ Due(hEnd[p], HarvestIvl(p)) /\ hIdx[p] \in DOMAIN AggregationIntervals
      /\ UNCHANGED <<db, batch, runBatch, processingTime, closed>>
  BY Zenon DEF HarvestForInterval
<1>2. PICK good \in SUBSET Window(p) :
         delivered' = delivered \cup good /\ Settled' = Settled \cup Window(p)
  <2>1. PICK bad : /\ delivered' = delivered \cup {q \in Window(p) :
                           KeyOf(q) \in {KeyOf(x) : x \in Window(p)} \ bad}
                   /\ dropped' = dropped \cup {q \in Window(p) : KeyOf(q) \in bad}
    BY Zenon DEF HarvestForInterval, Iterated, NoStorageFaults
  <2> DEFINE good == {q \in Window(p) : KeyOf(q) \in {KeyOf(x) : x \in Window(p)} \ bad}
  <2>2. Settled' = Settled \cup Window(p)
    BY <2>1, Zenon DEF Settled
  <2> QED BY <2>1, <2>2, Zenon
<1>3. runBatch = {} /\ (p \in Closers => closed /\ batch = {})
      /\ (p = Runner => hEnd[p] = processingTime)
  <2>1. pc[Runner] # "commit"
    BY <1>1, Zenon DEF Inv, LockInv, Procs
  <2> QED BY <1>1, <2>1, PlacesIssued, Zenon DEF CloseInv, Inv, DeliveryInv, TimeInv
<1>4. ASSUME NEW d \in Window(p)
      PROVE  /\ d \in issued /\ d.ivl = HarvestIvl(p) /\ InWindow(d, HarvestIvl(p), hEnd[p])
  BY <1>1, Zenon DEF Window, InWindow, Inv, DeliveryInv, SnapInv
<1>5. ASSUME ~closed', NEW d \in delivered' PROVE d.pt + d.ivl <= processingTime'
  <2>1. CASE d \in delivered
    BY <1>1, <1>5, <2>1, Zenon DEF OverInv
  <2>2. CASE d \in Window(p)
    <3>1. p = Runner /\ hEnd[p] = processingTime
      BY <1>1, <1>3, <1>5, Zenon DEF Procs
    <3>2. d.pt \in Nat /\ d.ivl \in Nat \ {0} /\ d.pt % d.ivl = 0 /\ processingTime \in Nat
      BY <1>4, <2>2, ItemBounds, Zenon DEF ClockInv, Inv, TypeOK
    <3>3. d.pt < processingTime /\ processingTime - (processingTime % d.ivl) = processingTime
      BY <1>1, <1>4, <2>2, <3>1, Zenon DEF InWindow, Due, Truncate
    <3>4. processingTime % d.ivl = 0
      <4>1. PICK r \in Nat : r = processingTime % d.ivl
        BY <3>2, DivMod, Zenon
      <4>2. processingTime - r = processingTime
        BY <3>3, <4>1, Zenon
      <4>3. r = 0
        BY <3>2, <4>2
      <4> QED BY <4>1, <4>3, Zenon
    <3>5. d.pt + d.ivl <= processingTime
      BY <3>2, <3>3, <3>4, NextMultiple, Zenon
    <3> QED BY <1>1, <3>5, Zenon
  <2> QED BY <1>2, <2>1, <2>2, Zenon
<1>6. ASSUME NEW d \in delivered', NEW o \in Places' \ Settled', o.ivl = d.ivl, o.pt = d.pt
      PROVE  FALSE
  <2>1. o \in Places /\ o \notin Settled /\ o \notin Window(p)
    BY <1>1, <1>2, <1>6, Zenon DEF Places
  <2>2. CASE d \in delivered
    BY <1>6, <2>1, <2>2, Zenon DEF OverInv, Places
  <2>3. CASE d \in Window(p)
    <3>1. InWindow(o, HarvestIvl(p), hEnd[p]) /\ o.ivl = HarvestIvl(p)
      BY <1>4, <1>6, <2>3, Zenon DEF InWindow
    <3>2. o \notin db
      BY <1>1, <2>1, <3>1, Zenon DEF Inv, DeliveryInv, SnapInv, Window
    <3>3. o \in batch /\ p = Runner
      BY <1>3, <2>1, <3>2, Zenon DEF Places, Procs
    <3>4. o \in Item /\ o.pt = KeyTime(o.ivl)
      BY <3>3, Zenon DEF Inv, DeliveryInv, TimeInv, TypeOK
    <3> QED BY <1>1, <3>1, <3>3, <3>4, CurrentNotHarvested, Zenon DEF Inv, DeliveryInv
  <2> QED BY <1>2, <2>2, <2>3, Zenon
<1> QED BY <1>5, <1>6, Zenon DEF OverInv, Places

\* Every step keeps the delivered windows over.
LEMMA OverStep ==
  ASSUME NoStorageFaults, Inv, Inv', ClockInv, CloseInv, OverInv, [L1Next]_vars
  PROVE  OverInv'
<1> USE DEF outputVars
<1>0. processingTime \in Nat /\ processingTime <= processingTime
  BY DEF Inv, TypeOK
<1>1. ASSUME NEW p \in Procs, HarvestStep(p) PROVE OverInv'
  <2>1. CASE HarvestForInterval(p)
    BY <2>1, OverHarvest, Zenon
  <2>2. CASE HarvestSkip(p) \/ DeleteRange(p)
    <3>1. /\ UNCHANGED <<delivered, dropped, batch, runBatch, closed, processingTime>>
          /\ db' \subseteq db
      BY <2>2, Zenon DEF HarvestSkip, DeleteRange, Remaining
    <3> QED BY <1>0, <3>1, OverQuiet, Zenon DEF Places, Settled
  <2> QED BY <1>1, <2>1, <2>2, Zenon DEF HarvestStep
<1>2. CASE RunSwap
  <2>1. /\ UNCHANGED <<delivered, dropped, closed, db>> /\ Places' \subseteq Places
        /\ pc[Runner] = "lock" /\ processingTime' = to
    BY <1>2, Zenon DEF RunSwap, Places
  <2>2. to = processingTime + Lowest /\ Lowest \in Nat
    BY <2>1, IntervalsNat, Zenon DEF ClockInv
  <2>3. processingTime <= processingTime'
    BY <1>0, <2>1, <2>2
  <2> QED BY <2>1, <2>3, OverQuiet, Zenon DEF Settled
<1>3. CASE RunCommit
  BY <1>0, <1>3, OverQuiet, Zenon DEF RunCommit, Places, Settled
<1>4. CASE Tick \/ Run \/ RunReturn \/ RunTimer \/ RunSnapshot \/ RunNext \/ UNCHANGED vars
  <2>1. UNCHANGED <<delivered, dropped, batch, runBatch, db, closed, processingTime>>
    BY <1>4, Zenon DEF Tick, Run, RunReturn, RunTimer, RunSnapshot, RunNext, vars
  <2> QED BY <1>0, <2>1, OverQuiet, Zenon DEF Places, Settled
<1>5. ASSUME NEW c \in Closers, CloseBegin(c) \/ CloseStep(c), ~HarvestStep(c) PROVE OverInv'
  <2>1. /\ UNCHANGED <<delivered, dropped, runBatch, processingTime>> /\ (~closed' => ~closed)
        /\ batch' \cup db' \subseteq batch \cup db
    <3>1. CASE CloseBegin(c)
      BY <3>1, Zenon DEF CloseBegin
    <3>2. CASE CloseRunStopped(c) \/ CloseCtxDone(c) \/ CloseAgain(c)
      BY <3>2 DEF CloseRunStopped, CloseCtxDone, CloseAgain
    <3>3. CASE CloseCommit(c)
      BY <3>3, Zenon DEF CloseCommit
    <3>4. CASE CloseHarvest(c) \/ CloseNext(c)
      BY <3>4 DEF CloseHarvest, CloseNext
    <3>5. CASE CloseReturn(c)
      BY <3>5, Zenon DEF CloseReturn
    <3> QED BY <1>5, <3>1, <3>2, <3>3, <3>4, <3>5, Zenon DEF CloseStep
  <2> QED BY <1>0, <2>1, OverQuiet, Zenon DEF Places, Settled
<1>6. ASSUME NEW id \in IDs, NEW evs \in SUBSET Events, AggregateBatch(id, evs)
      PROVE  OverInv'
  <2>1. /\ UNCHANGED <<processingTime, runBatch, delivered, dropped, closed>> /\ ~closed
        /\ batch' \cup db' \subseteq batch \cup db \cup BatchOps(id, evs)
    BY <1>6, Zenon DEF AggregateBatch, Aggregate, Flushable
  <2>2. ASSUME NEW o \in BatchOps(id, evs), NEW d \in delivered PROVE ~(o.ivl = d.ivl /\ o.pt = d.pt)
    <3>1. o.ivl \in Intervals /\ o.pt = KeyTime(o.ivl)
      BY Zenon DEF BatchOps
    <3>2. processingTime < o.pt + o.ivl /\ o.pt \in Nat /\ o.ivl \in Nat
      BY <3>1, CurrentAhead, IntervalsNat, Zenon
    <3>3. d.pt + d.ivl <= processingTime
      BY <2>1, Zenon DEF OverInv
    <3> QED BY <1>0, <3>2, <3>3
  <2> QED BY <2>1, <2>2, Zenon DEF OverInv, Settled
<1>7. Runner \in Procs /\ \A c \in Closers : c \in Procs
  BY Zenon DEF Procs
<1> QED BY <1>1, <1>2, <1>3, <1>4, <1>5, <1>6, <1>7, Zenon DEF L1Next, Harvesting, RunStep, CloseStep

-----------------------------------------------------------------------------
(* The theorems about harvests. *)

\* A new aggregator has no items.
LEMMA HarvestInit == Init => HarvestInv
<1> SUFFICES ASSUME Init PROVE HarvestInv
  BY Zenon
<1>1. now \in Nat /\ processingTime = Truncate(now, Lowest)
  BY ConstantsAssumption, Zenon DEF Init
<1>2. processingTime % Lowest = 0
  BY <1>1, IntervalsNat, TruncateBounds, Zenon
<1>3. \A p \in Procs : pc[p] = "idle"
  BY Zenon DEF Init
<1>4. ClockInv
  BY <1>2, <1>3, Zenon DEF Init, ClockInv, Procs
<1>5. AheadInv /\ OverInv
  BY Zenon DEF Init, AheadInv, OverInv
<1>6. CloseInv
  BY <1>3, Zenon DEF Init, CloseInv, Procs
<1> QED BY <1>4, <1>5, <1>6, Zenon DEF HarvestInv

\* Every step of the l1 aggregator keeps the invariant.
LEMMA HarvestNext ==
  ASSUME NoStorageFaults, Inv, HarvestInv, [L1Next]_vars
  PROVE  Inv' /\ HarvestInv'
BY InvNext, ClockStep, AheadStep, CloseInvStep, OverStep, Zenon DEF HarvestInv

\* The invariant holds in every state.
LEMMA HarvestAlways == ASSUME NoStorageFaults PROVE L1Spec => [](Inv /\ HarvestInv)
<1>1. Init => Inv /\ HarvestInv
  BY TypeInit, LockInit, DeliveryInit, HarvestInit, Zenon DEF Inv
<1>2. Inv /\ HarvestInv /\ [L1Next]_vars => (Inv /\ HarvestInv)'
  BY HarvestNext, Zenon
<1> QED BY <1>1, <1>2, PTL DEF L1Spec

\* When DeleteRange and the iterator do not fail, every entry that is not settled between
\* two harvests of Run belongs to a window whose end is still ahead, so that harvest finds
\* it there: no batch commits an entry behind the processing time, for any number of
\* intervals, callers and calls of Close.
THEOREM L1Harvestable == ASSUME NoStorageFaults PROVE L1Spec => []Harvestable
<1>1. Inv /\ HarvestInv => Harvestable
  <2> SUFFICES ASSUME Inv, HarvestInv, ~Busy(Runner), NEW o \in (batch \cup db) \ Settled
               PROVE  processingTime < o.pt + o.ivl
    BY Zenon DEF Harvestable
  <2>1. ~Awaited(o)
    BY Zenon DEF Awaited, Busy
  <2> QED BY <2>1, Zenon DEF HarvestInv, AheadInv
<1> QED BY <1>1, HarvestAlways, PTL

\* While Run is on time, the unsettled entries of an interval all have the processing time
\* of the one window that the final harvest of Close covers, when DeleteRange and the
\* iterator do not fail.
THEOREM L1OneHarvestCandidate ==
  ASSUME NoStorageFaults PROVE L1Spec => []OneHarvestCandidate
<1>1. Inv /\ HarvestInv => OneHarvestCandidate
  <2> SUFFICES ASSUME Inv, HarvestInv, ~Busy(Runner), NEW o \in (batch \cup db) \ Settled
               PROVE  o.pt = KeyTime(o.ivl)
    BY Zenon DEF OneHarvestCandidate
  <2>1. ~Awaited(o)
    BY Zenon DEF Awaited, Busy
  <2>2. o \in issued /\ processingTime < o.pt + o.ivl
    BY <2>1, PlacesIssued, Zenon DEF HarvestInv, AheadInv, Places
  <2>3. /\ o.ivl \in Intervals /\ o.pt \in Nat /\ o.ivl \in Nat \ {0}
        /\ o.pt % o.ivl = 0 /\ o.pt <= processingTime /\ processingTime \in Nat
    BY <2>2, ItemBounds, Zenon DEF HarvestInv, ClockInv, Item, Inv, TypeOK
  <2> DEFINE pt == KeyTime(o.ivl)
  <2>4. pt \in Nat /\ pt % o.ivl = 0 /\ pt <= processingTime /\ processingTime < pt + o.ivl
    BY <2>3, CurrentAhead, Zenon
  <2> HIDE DEF pt
  <2>5. ~(o.pt < pt)
    BY <2>2, <2>3, <2>4, NextMultiple
  <2>6. ~(pt < o.pt)
    BY <2>2, <2>3, <2>4, NextMultiple
  <2> QED BY <2>3, <2>4, <2>5, <2>6 DEF pt
<1> QED BY <1>1, HarvestAlways, PTL

\* When Close has returned, nothing is left in the batch or in the database: the
\* windows of all intervals, the open ones included, are inside the ranges the final
\* harvest iterates over and deletes.
THEOREM L1FinalHarvestComplete ==
  ASSUME NoStorageFaults PROVE L1Spec => []FinalHarvestComplete
<1>1. HarvestInv => FinalHarvestComplete
  BY Zenon DEF HarvestInv, CloseInv, FinalHarvestComplete
<1> QED BY <1>1, HarvestAlways, PTL

\* An id and partition get one report for a window: when a harvest has delivered it, no
\* later one delivers the same key again.
THEOREM L1OneReportPerKey == ASSUME NoStorageFaults PROVE L1Spec => OneReportPerKey
<1> DEFINE Fresh == \A o \in delivered' \ delivered : \A d \in delivered : KeyOf(o) # KeyOf(d)
<1>1. Inv /\ HarvestInv /\ [L1Next]_vars => [Fresh]_delivered
  <2> SUFFICES ASSUME Inv, HarvestInv, [L1Next]_vars, NEW o \in delivered' \ delivered, NEW d \in delivered
               PROVE  KeyOf(o) # KeyOf(d)
    BY Zenon
  <2>1. PICK p \in Procs : HarvestForInterval(p)
    <3> USE DEF outputVars
    <3>1. ASSUME NEW p \in Procs, HarvestSkip(p) \/ DeleteRange(p) PROVE delivered' = delivered
      BY <3>1, Zenon DEF HarvestSkip, DeleteRange
    <3>2. CASE Tick \/ Run \/ RunReturn \/ RunTimer \/ RunSwap \/ RunCommit \/ RunSnapshot \/ RunNext
      BY <3>2, Zenon DEF Tick, Run, RunReturn, RunTimer, RunSwap, RunCommit, RunSnapshot, RunNext
    <3>3. ASSUME NEW c \in Closers, CloseBegin(c) \/ CloseStep(c), ~HarvestStep(c) PROVE delivered' = delivered
      BY <3>3, Zenon DEF CloseStep, CloseBegin, CloseRunStopped, CloseCtxDone, CloseAgain, CloseCommit,
                  CloseHarvest, CloseNext, CloseReturn
    <3>4. ASSUME NEW id, NEW evs, AggregateBatch(id, evs) PROVE delivered' = delivered
      BY <3>4, Zenon DEF AggregateBatch
    <3>5. CASE UNCHANGED vars
      BY <3>5, Zenon DEF vars
    <3>6. Runner \in Procs /\ \A c \in Closers : c \in Procs
      BY Zenon DEF Procs
    <3> QED BY <3>1, <3>2, <3>3, <3>4, <3>5, <3>6, Zenon DEF L1Next, Harvesting, RunStep, CloseStep, HarvestStep
  <2>2. o \in Window(p) /\ pc[p] = "harvest" /\ hIdx[p] \in DOMAIN AggregationIntervals
    BY <2>1, Zenon DEF HarvestForInterval
  <2>3. o \in issued /\ o \notin Settled
    BY <2>2, Zenon DEF Window, InWindow, HarvestIvl, Inv, DeliveryInv, SnapInv
  <2>4. o \in (batch \cup runBatch \cup db) \ Settled
    BY <2>3, Zenon DEF Inv, DeliveryInv, Accounted
  <2>5. ~(o.ivl = d.ivl /\ o.pt = d.pt)
    BY <2>4, Zenon DEF HarvestInv, OverInv
  <2> QED BY <2>5, Zenon DEF KeyOf
<1> QED BY <1>1, HarvestAlways, PTL DEF OneReportPerKey, L1Spec
=============================================================================
