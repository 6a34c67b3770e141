------------------------------ MODULE Lifecycle ------------------------------
(***************************************************************************)
(* Aggregators one after the other on one data directory.  The process may *)
(* end at any step, by a crash, a panic or an exit, and New may be called  *)
(* in the next one at any later time.  A life is what happens between New  *)
(* and the end of its process; it is fed with partial metrics.             *)
(***************************************************************************)
EXTENDS Aggregator

CONSTANTS
    InMemory,  \* the values of cfg.InMemory to consider
    MaxCrashes \* bound on how often the process ends

ASSUME LifecycleAssumption == InMemory \subseteq BOOLEAN /\ MaxCrashes \in Nat

VARIABLES
    inMemory,  \* cfg.InMemory
    up,        \* there is an aggregator
    crashes,   \* how often the process has ended
    born,      \* the processing time New has set
    forgotten, \* history: the items lost when the process ended
    stored,    \* history: the items that were ever committed
    left,      \* history: the items New has found in the data directory
    undeleted  \* history: delivered items that were not deleted, because DeleteRange
               \* failed or because the process ended before it

lifeVars == <<inMemory, up, crashes, born>>

historyVars == <<forgotten, stored, left, undeleted>>

allVars == <<vars, lifeVars, historyVars>>

\* A mutant of Surviving: the writes to a data directory were not synced either.
SurvivingUnsynced == {}

\* What a later process finds: batches are committed with pebble.Sync to a data directory,
\* and with pebble.NoSync to memory.
Surviving == IF inMemory THEN {} ELSE db

LifeInit ==
    /\ Init
    /\ inMemory \in InMemory
    /\ up = TRUE /\ crashes = 0
    /\ born = processingTime
    /\ forgotten = {} /\ stored = {} /\ left = {} /\ undeleted = {}

\* The aggregator of a process that has ended.
Crash ==
    /\ up
    /\ crashes < MaxCrashes
    /\ crashes' = crashes + 1
    /\ up' = FALSE
    /\ db' = Surviving
    /\ forgotten' = forgotten \cup ((batch \cup runBatch \cup db) \ (Surviving \cup Settled))
    /\ undeleted' = undeleted \cup (Surviving \cap delivered)
    /\ mu' = Free
    /\ batch' = {} /\ cached' = {}
    /\ closed' = FALSE /\ runStopped' = "nil"
    /\ dbOpen' = FALSE
    /\ pc' = [p \in Procs |-> "idle"]
    /\ to' = 0 /\ runBatch' = {}
    /\ hEnd' = [p \in Procs |-> 0] /\ hIdx' = [p \in Procs |-> 1]
    /\ hSnap' = [p \in Procs |-> {}] /\ hStats' = [p \in Procs |-> {}]
    /\ closeIdx' = [c \in Closers |-> 1] /\ failed' = [c \in Closers |-> FALSE]
    /\ UNCHANGED <<now, processingTime, outputVars, inputVars, inMemory, born, stored, left>>

\* New opens the database and takes the processing time from the clock, whatever the
\* database holds.
New ==
    /\ ~up
    /\ up' = TRUE
    /\ dbOpen' = TRUE
    /\ processingTime' = Truncate(now, Lowest)
    /\ born' = processingTime'
    /\ left' = left \cup db
    /\ UNCHANGED <<now, mu, batch, cached, closed, runStopped, db, pc, to, runBatch, harvestVars,
                   closeVars, outputVars, inputVars, inMemory, crashes, forgotten, stored, undeleted>>

Down == ~up /\ Tick /\ UNCHANGED <<lifeVars, historyVars>>

\* A step of the aggregator.
Live ==
    /\ up
    /\ L2Next
    /\ stored' = stored \cup db'
    /\ undeleted' = undeleted \cup
          {o \in db' \cap delivered :
              \E p \in Procs : pc[p] = "delete" /\ pc'[p] # "delete" /\ InWindow(o, HarvestIvl(p), hEnd[p])}
    /\ UNCHANGED <<lifeVars, forgotten, left>>

LifeNext == Live \/ Down \/ Crash \/ New

LifeSpec == LifeInit /\ [][LifeNext]_allVars

-----------------------------------------------------------------------------
(* Properties. *)

\* What the end of a process loses was only buffered: an item that was committed to a data
\* directory stays there until it is delivered or reported lost, and no harvest of a later
\* life deletes what it has not seen.
LostOnlyBuffered ==
    /\ issued \subseteq batch \cup runBatch \cup db \cup Settled \cup forgotten
    /\ ~inMemory => stored \subseteq db \cup Settled

\* The Processor is given an item again only if it was delivered and DeleteRange failed, or
\* the process ended before it: no two lives, and no two calls of Close, harvest an item
\* that was deleted, and no harvest covers the window of another one.
RedeliveredOnlyUndeleted == redelivered \subseteq undeleted

\* Between two harvests of Run, an entry that no harvest will find belongs to a window that
\* had ended when New was called: what an earlier life left in a window that is still open
\* is harvested in this one.
StrandedOnly ==
    up /\ ~Busy(Runner) =>
       \A o \in (batch \cup db) \ Settled :
          processingTime < o.pt + o.ivl \/ o.pt + o.ivl <= born

\* EventsProcessed exceeds EventsTotal only by items that an earlier life has stored: its
\* counts, which are not stored, are lost with its process.
TotalCoversLife == \A o \in delivered : StatOf(o) \in eventsTotal \/ o \in left
=============================================================================
