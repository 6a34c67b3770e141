------------------------------ MODULE Publish ------------------------------
(***************************************************************************)
(* CombinedMetricsToBatch of aggregators/converter.go: the metricsets that *)
(* are published for the combined metrics a harvest reads, composed with   *)
(* the merges (module Merger) that produced them.                          *)
(*                                                                         *)
(* A published event is abstracted to its metricset, to what identifies it *)
(* and to the shares its values are computed from; service is All and      *)
(* group is NoName for a bucket.                                           *)
(***************************************************************************)
EXTENDS Merger

Event(metricset, service, group, shares) ==
    [metricset |-> metricset, service |-> service, group |-> group, shares |-> shares]

\* One event for each group of a kind.
GroupEvents(v, kind) ==
    {Event(kind, g.svc, g, {x.t : x \in {y \in v.kept : y.g = g}}) :
     g \in {h \in Groups(v) : h.kind = kind}}

TxnMetricsToAPMEvent(v) == GroupEvents(v, "txn")

SvcTxnMetricsToAPMEvent(v) == GroupEvents(v, "svctxn")

SpanMetricsToAPMEvent(v) == GroupEvents(v, "span")

\* serviceMetricsToAPMEvent
SummaryEvents(v) == {Event("summary", i.svc, i, {}) : i \in v.insts}

\* The kinds that have an estimator in the overflow bucket.
OverflowKinds(v, bucket) == {x.t.g.kind : x \in {y \in v.over : y.at = bucket}}

\* overflowTxnMetricsToAPMEvent, overflowSvcTxnMetricsToAPMEvent,
\* overflowSpanMetricsToAPMEvent
OverflowEvents(v, bucket) ==
    {Event(k, bucket, NoName, {x.t : x \in {y \in v.over : y.at = bucket /\ y.t.g.kind = k}}) :
     k \in OverflowKinds(v, bucket)}

\* A mutant: the overflow of the groups of a service is left out.
ServiceOverflowEventsNone(v) == {}

ServiceOverflowEvents(v) == UNION {OverflowEvents(v, s) : s \in v.svcs}

\* A mutant: overflowServiceMetricsToAPMEvent is left out.
OtherEventsNoSummary(v) == IF v.est = {} THEN {} ELSE OverflowEvents(v, All)

\* overflowServiceMetricsToAPMEvent, with the estimate of v.est, and the overflow of
\* services.
OtherEvents(v) ==
    IF v.est = {} THEN {} ELSE {Event("summary", All, NoName, {})} \cup OverflowEvents(v, All)

\* CombinedMetricsToBatch
Batch(v) ==
    IF v.svcs = {} THEN {}
    ELSE TxnMetricsToAPMEvent(v) \cup SvcTxnMetricsToAPMEvent(v) \cup SpanMetricsToAPMEvent(v)
            \cup SummaryEvents(v) \cup ServiceOverflowEvents(v) \cup OtherEvents(v)

-----------------------------------------------------------------------------
(* Properties. *)

\* Whatever merges led to the combined metrics, each share of an event is in the values of
\* exactly one published metricset, unless the metrics have no service at all, which
\* CombinedMetricsToBatch takes for empty.
PublishedOnce ==
    \A v \in operands : v.svcs # {} =>
       \A t \in Shares(v) : Cardinality({e \in Batch(v) : t \in e.shares}) = 1

\* Every instance that an event of the metrics came from has its service summary, or is
\* part of the estimate that the summary of the overflow is published with.
Summarised ==
    \A v \in operands : v.svcs # {} =>
       \A e \in {d \in Inputs : d.ev \in v.events} :
          LET i == [svc |-> e.svc, inst |-> e.inst] IN
             \/ Event("summary", e.svc, i, {}) \in Batch(v)
             \/ i \in v.est /\ Event("summary", All, NoName, {}) \in Batch(v)
=============================================================================
