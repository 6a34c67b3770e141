------------------------------ MODULE Converter ------------------------------
(***************************************************************************)
(* EventToCombinedMetrics of aggregators/converter.go: the conversion of   *)
(* an event to metrics that are spread over partitions, with builders that *)
(* are pooled, reset when they are reused and shared by all goroutines.    *)
(*                                                                         *)
(* sync.Pool is external: Get returns any object that was put and not      *)
(* taken, or none.  A histogram is abstracted to what was recorded in it.  *)
(***************************************************************************)
EXTENDS Integers, Sequences, Functions

CONSTANTS
    Procs,     \* goroutines that convert events
    Events,    \* [type, rep, dur, outcome, target, txn, svctxn, spans]
    Hashes,    \* the functions that keys may be hashed to partitions with
    Builders,  \* the objects of type eventMetricsBuilder
    Pmbs,      \* the objects of type partitionedMetricsBuilder
    MaxSpans,  \* 128, the size of the arrays for span metrics
    MaxEvents, \* bound on the number of conversions
    Summary,   \* the key of an instance
    None

Keys == UNION {DOMAIN h : h \in Hashes}

Partitions == UNION {{h[k] : k \in DOMAIN h} : h \in Hashes}

\* Every key has a partition, a span that has a target has a key.
ASSUME EventsAssumption ==
    /\ \A h \in Hashes : DOMAIN h = Keys
    /\ Summary \in Keys
    /\ \A e \in Events :
          /\ e.rep \in Int /\ e.txn \in Keys /\ e.svctxn \in Keys /\ e.spans \in Seq(Keys)
          /\ e.type = "span" /\ e.target => e.spans # <<>>

ASSUME MaxSpansAssumption == MaxSpans \in Nat \ {0}

Counts == {e.rep : e \in Events} \cup {0}

\* The metrics of an event, and the memory of a builder that was made.
MetricSet == [kind : {"txn", "svctxn", "dropped", "span", "summary"}, key : Keys, n : Counts]

Histograms == [dur : {e.dur : e \in Events}, count : Counts]

OutcomeCounts == [success : Counts, failure : Counts]

SpanMetrics == Seq([key : Keys, n : Counts])

BuilderSet ==
    [part : Partitions, hist : Histograms \cup {None}, histSet : BOOLEAN,
     txnKey : Keys \cup {None}, txns : {0, 1}, svctxnKey : Keys \cup {None},
     outcomes : OutcomeCounts, svctxns : {0, 1}, spans : SpanMetrics]

ASSUME NoneAssumption == None \notin BuilderSet

VARIABLES
    hash,    \* the partition of a key
    mem,     \* the memory of each builder, None when it was never made
    pool,    \* eventMetricsBuilderPool
    held,    \* the field builders of each partitionedMetricsBuilder
    pmbPool, \* partitionedMetricsBuilderPool
    conv,    \* the conversion of each goroutine, [pc, event, pmb, todo, next]
    seen,    \* the metrics that the callback was called with in that conversion
    count    \* the number of conversions

vars == <<hash, mem, pool, held, pmbPool, conv, seen, count>>

-----------------------------------------------------------------------------
(* processEvent: the metrics of an event, in the order in which they are added. *)

Metric(kind, key, n) == [kind |-> kind, key |-> key, n |-> n]

Metrics(e) ==
    CASE e.type = "transaction" ->
            IF e.rep <= 0 THEN <<>>
            ELSE <<Metric("txn", e.txn, e.rep), Metric("svctxn", e.svctxn, e.rep)>>
                 \o [i \in DOMAIN e.spans |-> Metric("dropped", e.spans[i], e.rep)]
      [] e.type = "span" ->
            IF e.rep <= 0 \/ ~e.target THEN <<>> ELSE <<Metric("span", e.spans[1], e.rep)>>
      [] OTHER -> <<Metric("summary", Summary, 0)>>

\* hdrhistogram.New, RecordDuration and setHistogramProto.
Recorded(e) == [dur |-> e.dur, count |-> e.rep]

NoCounts == [success |-> 0, failure |-> 0]

Outcomes(e) ==
    [NoCounts EXCEPT !.success = IF e.outcome = "success" THEN e.rep ELSE 0,
                     !.failure = IF e.outcome = "failure" THEN e.rep ELSE 0]

-----------------------------------------------------------------------------
(* eventMetricsBuilder.  histSet: transactionMetrics.Histogram is not nil, hist: *)
(* transactionHistogram, txns, svctxns and spans: the slices of metrics.         *)

NewBuilder(part) ==
    [part |-> part, hist |-> None, histSet |-> FALSE, txnKey |-> None, txns |-> 0,
     svctxnKey |-> None, outcomes |-> NoCounts, svctxns |-> 0, spans |-> <<>>]

\* A mutant of Reset: the metrics keep the histogram of the event before.
ResetSlicesOnly(b, part) == [b EXCEPT !.part = part, !.txns = 0, !.svctxns = 0, !.spans = <<>>]

\* getEventMetricsBuilder: what is reset when a builder is taken from the pool.
Reset(b, part) ==
    [b EXCEPT !.part = part, !.outcomes = NoCounts, !.histSet = FALSE,
              !.txns = 0, !.svctxns = 0, !.spans = <<>>]

\* addTransactionMetrics, addServiceTransactionMetrics, addDroppedSpanStatsMetrics,
\* addSpanMetrics, addServiceSummaryMetrics
AddTo(b, m, e) ==
    CASE m.kind = "txn" ->
            [b EXCEPT !.txnKey = m.key, !.hist = Recorded(e), !.histSet = TRUE, !.txns = 1]
      [] m.kind = "svctxn" ->
            [b EXCEPT !.svctxnKey = m.key, !.hist = IF b.histSet THEN @ ELSE Recorded(e),
                      !.outcomes = Outcomes(e), !.svctxns = 1]
      [] m.kind = "dropped" ->
            IF Len(b.spans) = MaxSpans THEN b
            ELSE [b EXCEPT !.spans = Append(@, [key |-> m.key, n |-> m.n])]
      [] m.kind = "span" -> [b EXCEPT !.spans = Append(@, [key |-> m.key, n |-> m.n])]
      [] m.kind = "summary" -> b

\* The metrics that are set on the CombinedMetrics for the callback.
Contents(b) ==
    [txn |-> IF b.txns = 0 THEN None ELSE [key |-> b.txnKey, hist |-> b.hist],
     svctxn |-> IF b.svctxns = 0 THEN None
                ELSE [key |-> b.svctxnKey, hist |-> b.hist, outcomes |-> b.outcomes],
     spans |-> b.spans]

-----------------------------------------------------------------------------
Idle == [pc |-> "idle", event |-> None, pmb |-> None, todo |-> <<>>, next |-> 0]

Init ==
    /\ hash \in Hashes
    /\ mem = [b \in Builders |-> None] /\ pool = {}
    /\ held = [m \in Pmbs |-> <<>>] /\ pmbPool = Pmbs
    /\ conv = [p \in Procs |-> Idle]
    /\ seen = [p \in Procs |-> <<>>]
    /\ count = 0

\* getPartitionedMetricsBuilder, and the metrics that processEvent will add.  An object
\* that was never used is like one that was released.
Start(p, e) ==
    /\ conv[p].pc = "idle" /\ count < MaxEvents
    /\ count' = count + 1
    /\ \E m \in pmbPool :
          /\ pmbPool' = pmbPool \ {m}
          /\ conv' = [conv EXCEPT ![p] =
                        [pc |-> "process", event |-> e, pmb |-> m, todo |-> Metrics(e), next |-> 1]]
    /\ seen' = [seen EXCEPT ![p] = <<>>]
    /\ UNCHANGED <<hash, mem, pool, held>>

\* A mutant of Existing: the builders are not searched.
ExistingNever(m, part) == {}

\* The builders of m for a partition, of which get returns the first.
Existing(m, part) == {b \in Range(held[m]) : mem[b].part = part}

\* One add of processEvent, with the builder that get returns: one that the event uses for
\* the partition, one from the pool or a new one.
Add(p) ==
    LET c == conv[p]
        x == Head(c.todo)
        part == hash[x.key]
        old == Existing(c.pmb, part) IN
       /\ c.pc = "process" /\ c.todo # <<>>
       /\ \E b \in Builders :
             /\ \/ /\ b \in old
                   /\ mem' = [mem EXCEPT ![b] = AddTo(@, x, c.event)]
                   /\ UNCHANGED <<pool, held>>
                \/ /\ old = {} /\ b \in pool
                   /\ mem' = [mem EXCEPT ![b] = AddTo(Reset(@, part), x, c.event)]
                   /\ pool' = pool \ {b}
                   /\ held' = [held EXCEPT ![c.pmb] = Append(@, b)]
                \/ /\ old = {} /\ mem[b] = None
                   /\ mem' = [mem EXCEPT ![b] = AddTo(NewBuilder(part), x, c.event)]
                   /\ held' = [held EXCEPT ![c.pmb] = Append(@, b)]
                   /\ UNCHANGED pool
       /\ conv' = [conv EXCEPT ![p].todo = Tail(@)]
       /\ UNCHANGED <<hash, pmbPool, seen, count>>

\* The callback for one builder, with EventsTotal = 1 / total.  An error of the callback
\* does not stop the others.
Callback(p) ==
    LET c == conv[p]
        b == mem[held[c.pmb][c.next]] IN
       /\ c.pc = "process" /\ c.todo = <<>> /\ c.next <= Len(held[c.pmb])
       /\ seen' = [seen EXCEPT ![p] =
                     Append(@, [part |-> b.part, total |-> Len(held[c.pmb]), metrics |-> Contents(b)])]
       /\ conv' = [conv EXCEPT ![p].next = @ + 1]
       /\ UNCHANGED <<hash, mem, pool, held, pmbPool, count>>

\* A mutant of Release: the slice of builders is not truncated.
ReleaseKeepsBuilders(p) ==
    LET c == conv[p] IN
       /\ c.pc = "process" /\ c.todo = <<>> /\ c.next > Len(held[c.pmb])
       /\ pool' = pool \cup Range(held[c.pmb])
       /\ pmbPool' = pmbPool \cup {c.pmb}
       /\ conv' = [conv EXCEPT ![p] = [Idle EXCEPT !.event = c.event]]
       /\ UNCHANGED <<hash, mem, held, seen, count>>

\* release, when the callbacks are done or there are no builders.
Release(p) ==
    LET c == conv[p] IN
       /\ c.pc = "process" /\ c.todo = <<>> /\ c.next > Len(held[c.pmb])
       /\ pool' = pool \cup Range(held[c.pmb])
       /\ held' = [held EXCEPT ![c.pmb] = <<>>]
       /\ pmbPool' = pmbPool \cup {c.pmb}
       /\ conv' = [conv EXCEPT ![p] = [Idle EXCEPT !.event = c.event]]
       /\ UNCHANGED <<hash, mem, seen, count>>

Next ==
    \E p \in Procs : (\E e \in Events : Start(p, e)) \/ Add(p) \/ Callback(p) \/ Release(p)

Spec == Init /\ [][Next]_vars

-----------------------------------------------------------------------------
(* Properties. *)

IsTxn(e) == e.type = "transaction" /\ e.rep > 0

\* The places of the span metrics of an event that are for a partition.
SpansAt(h, e, part) ==
    {k \in DOMAIN Metrics(e) : Metrics(e)[k].kind \in {"dropped", "span"} /\ h[Metrics(e)[k].key] = part}

\* The first MaxSpans of the metrics of e at these places, in their order.
Listed(spans, e, at) ==
    /\ Len(spans) <= MaxSpans
    /\ \E f \in [DOMAIN spans -> at] :
          /\ \A i \in DOMAIN spans : spans[i] = [key |-> Metrics(e)[f[i]].key, n |-> Metrics(e)[f[i]].n]
          /\ \A i, j \in DOMAIN spans : i < j => f[i] < f[j]
          /\ \A k \in at \ Range(f) : Len(spans) = MaxSpans /\ \A i \in DOMAIN spans : f[i] < k

\* What an event is worth in a partition, from the event alone.
Worth(h, metrics, e, part) ==
    /\ metrics.txn = IF IsTxn(e) /\ h[e.txn] = part
                     THEN [key |-> e.txn, hist |-> Recorded(e)] ELSE None
    /\ metrics.svctxn = IF IsTxn(e) /\ h[e.svctxn] = part
                        THEN [key |-> e.svctxn, hist |-> Recorded(e), outcomes |-> Outcomes(e)]
                        ELSE None
    /\ Listed(metrics.spans, e, SpansAt(h, e, part))

\* The callback gets what the event is worth in its partition: nothing is left in a builder
\* from the event it was used for before, and no other goroutine writes to it.  The
\* histogram that the transaction and the service transaction share is the event's, be
\* they in one partition or in two.  Of the span metrics none is missing, repeated or of
\* another partition, except that those beyond MaxSpans are discarded.
CallbacksExact ==
    \A p \in Procs : \A i \in DOMAIN seen[p] :
       Worth(hash, seen[p][i].metrics, conv[p].event, seen[p][i].part)

\* When a conversion ends, the callback was called once for each partition that has
\* metrics of the event, and the shares of EventsTotal add up to one event.
EventWhole ==
    \A p \in Procs : conv[p].pc = "idle" /\ conv[p].event # None =>
       /\ {seen[p][i].part : i \in DOMAIN seen[p]} = {hash[m.key] : m \in Range(Metrics(conv[p].event))}
       /\ \A i, j \in DOMAIN seen[p] : seen[p][i].part = seen[p][j].part => i = j
       /\ \A i \in DOMAIN seen[p] : seen[p][i].total = Len(seen[p])

\* A builder is used by one conversion or it is in the pool.
BuildersOwned ==
    /\ \A m \in Pmbs : Range(held[m]) \cap pool = {}
    /\ \A m, n \in Pmbs : m # n => Range(held[m]) \cap Range(held[n]) = {}
=============================================================================
