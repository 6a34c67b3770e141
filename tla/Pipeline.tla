------------------------------ MODULE Pipeline ------------------------------
(***************************************************************************)
(* The way of metrics through the pooled messages of aggregationpb: from   *)
(* an event to the value that is written, through the operators that merge *)
(* values, to the harvest and the events that are published.  Every        *)
(* goroutine takes its messages from the same pools, sync.Pool.            *)
(*                                                                         *)
(* Merger models which groups are kept and which overflow, for limits of   *)
(* every kind; here one set of limits holds for the three kinds of groups  *)
(* and what matters is the memory the groups are in.  An estimator is      *)
(* abstracted to whether it is there.                                      *)
(***************************************************************************)
EXTENDS VTPool

CONSTANTS
    Workers, \* goroutines of the db and of the aggregator
    EventOf, \* events [labels, svc, span, key, weight, bucket, unknown], see EventMetrics
    Arrays,  \* the arrays behind the slices in the labels of events
    Configs  \* the systems that are checked, see the variable config

VARIABLES
    config,    \* [limits, picks, events, corrupted, maxMerges]: the limits of the merger
               \* [services, instances, perService, total], what sync.Pool.Get may do, the
               \* events that are given, values in the db that are not the encoding of a
               \* message, and a bound on the number of operands that are merged
    S,         \* the heap
    values,    \* the values that were written: [b, events]
    converted, \* the events that were converted
    pc,        \* what each worker does
    held,      \* the message each worker has taken from the pool
    merger,    \* the combinedMetrics of the merger of each worker
    operands,  \* the values that merger has merged, or the one that is harvested
    published, \* the batches: [events, items, over], see ToBatch
    merges     \* the number of operands that were merged

vars == <<config, S, values, converted, pc, held, merger, operands, published, merges>>

-----------------------------------------------------------------------------
(* Keys: the fields FromProto copies to the struct that is a key of a map. *)

serviceAggregationKey == 1..5

serviceInstanceAggregationKey == {1}

transactionAggregationKey == 1..29

serviceTransactionAggregationKey == {1}

spanAggregationKey == 1..5

GroupType == <<"KeyedTransactionMetrics", "KeyedServiceTransactionMetrics", "KeyedSpanMetrics">>

MetricsType == <<"TransactionMetrics", "ServiceTransactionMetrics", "SpanMetrics">>

GroupKey == <<transactionAggregationKey, serviceTransactionAggregationKey, spanAggregationKey>>

FromProto(H, id, key) == [n \in key |-> H.obj[id].f[n]]

\* ToProto of a service key and of a service instance key.
KeyToProto(H, t, k) ==
    LET Fill(pb) == At([pb.S EXCEPT !.obj[pb.v].f = [n \in DOMAIN @ |->
                                                        IF n \in DOMAIN k THEN k[n] ELSE @[n]]], pb.v) IN
    Fill(FromVTPool(H, t))

-----------------------------------------------------------------------------
(* Global labels.  The labels of an event are [s, n], two maps from keys to *)
(* [value, values], values a slice.                                         *)

\* One label, in the next element of the field n of the message pb.
PutLabel(H, pb, n, k, l) ==
    LET Fill(e) == [e.S EXCEPT !.obj[e.v].f = <<k, l.value, l.values>>] IN
    Fill(Extend(H, pb, n))

\* A mutant of SortLabels: the labels stay in the order of the map.
SortLabelsNot(H, pb, n, v) == H

\* sort.Slice by the keys, which begin with different bytes here.
SortLabels(H, pb, n, v) ==
    Set(H, pb, n, [v EXCEPT !.elems =
        SortSeq(Elements(v), LAMBDA a, b : H.obj[a].f[1][1] < H.obj[b].f[1][1])
            \o SubSeq(v.elems, v.len + 1, Len(v.elems))])

\* The labels of a map m, iterated over in some order.
PutLabels(H, pb, n, m, order) ==
    LET Sorted(R) == SortLabels(R, pb, n, R.obj[pb].f[n]) IN
    Sorted(FoldLeft(LAMBDA T, k : PutLabel(T, pb, n, k, m[k]), H, order))

\* marshalEventGlobalLabels: the heap and the bytes.
MarshalLabels(H, l, sOrder, nOrder) ==
    LET Done(R, pb) == At(ReturnToVTPool(R, pb), MarshalVT("GlobalLabels", Message(R, pb)))
        Fill(pb) == Done(PutLabels(PutLabels(pb.S, pb.v, 1, l.s, sOrder), pb.v, 2, l.n, nOrder), pb.v) IN
    IF sOrder = <<>> /\ nOrder = <<>> THEN At(H, <<>>) ELSE Fill(FromVTPool(H, "GlobalLabels"))

\* GlobalLabels.FromProto: a map of the labels in the field n.
GetLabels(H, pb, n) ==
    LET ids == Elements(H.obj[pb].f[n])
        f(i) == H.obj[ids[i]].f
        Index(k) == CHOOSE i \in DOMAIN ids : f(i)[1] = k IN
    [k \in {f(i)[1] : i \in DOMAIN ids} |-> [value |-> f(Index(k))[2], values |-> f(Index(k))[3]]]

NoLabels == [s |-> <<>>, n |-> <<>>]

\* GlobalLabels.UnmarshalBinary: [S, ok, v].  The labels keep the slices of the message that
\* is returned to the pool.
UnmarshalLabels(H, b) ==
    LET Done(u, pb) == [S |-> ReturnToVTPool(u.S, pb), ok |-> u.ok,
                        v |-> [s |-> GetLabels(u.S, pb, 1), n |-> GetLabels(u.S, pb, 2)]]
        Decode(pb) == Done(UnmarshalVT(pb.S, pb.v, b, 1), pb.v) IN
    IF b = <<>> THEN [S |-> H, ok |-> TRUE, v |-> NoLabels]
    ELSE Decode(FromVTPool(H, "GlobalLabels"))

\* The labels as they can be read now.
ReadLabels(H, l) ==
    LET Of(m) == [k \in DOMAIN m |-> <<m[k].value, ReadSlice(H, m[k].values)>>] IN
    [s |-> Of(l.s), n |-> Of(l.n)]

SlicesOf(l) == {l.s[k].values : k \in DOMAIN l.s} \cup {l.n[k].values : k \in DOMAIN l.n}

-----------------------------------------------------------------------------
(* combinedMetricsMerger.merge on a combinedMetrics [svcs, ov, est, total, youngest, *)
(* groups]: a service is [inst, ov], an instance has a map of groups of each kind,   *)
(* and the groups are messages of the heap.  An overflow has the metrics and the     *)
(* estimator of each kind.  groups are the values of the constraints.                *)

NoOverflow == [metrics |-> <<<<>>, <<>>, <<>>>>, est |-> <<FALSE, FALSE, FALSE>>]

NoService == [inst |-> <<>>, ov |-> NoOverflow]

NoMetrics ==
    [svcs |-> <<>>, ov |-> NoOverflow, est |-> FALSE, total |-> 0, youngest |-> 0,
     groups |-> <<0, 0, 0>>]

\* mergeHistogram, see the module Histogram.  to and from are the fields.
HistogramSum(to, from) ==
    LET Count(f, b) == SumOf([i \in DOMAIN f[5] |-> i], LAMBDA i : IF f[5][i] = b THEN f[4][i] ELSE 0)
        Sum(buckets) == [to EXCEPT ![4] = [i \in DOMAIN buckets |-> Count(to, buckets[i]) + Count(from, buckets[i])],
                                   ![5] = buckets] IN
    Sum(SetToSortSeq(ToSet(to[5] \o from[5]), <))

MergeHistogram(H, to, from) == [H EXCEPT !.obj[to].f = HistogramSum(@, H.obj[from].f)]

\* mergeTransactionMetrics, mergeServiceTransactionMetrics, mergeSpanMetrics: the field n,
\* which is x in the message to and y in the message that is merged.
MergeField(H, to, n, kind, x, y) ==
    LET Created(h) == MergeHistogram(Set(h.S, to, n, <<h.v>>), h.v, y[1]) IN
    CASE kind.k = "double" -> Set(H, to, n, x + y)
      [] kind.k = "msg" /\ y = <<>> -> H
      [] kind.k = "msg" /\ y # <<>> /\ x # <<>> -> MergeHistogram(H, x[1], y[1])
      [] kind.k = "msg" /\ y # <<>> /\ x = <<>> -> Created(FromVTPool(H, kind.of))

MergeMetrics(H, to, from) ==
    FoldLeft(LAMBDA T, n : MergeField(T, to, n, Schema[T.obj[to].t][n], T.obj[to].f[n], T.obj[from].f[n]),
             H, [n \in DOMAIN Schema[H.obj[to].t] |-> n])

\* overflowTransaction.Merge, overflowServiceTransaction.Merge, overflowSpan.Merge, and
\* MergeOverflow where there is an estimator: the metrics from are added to the overflow o.
MergeToOverflow(H, o, k, from) ==
    LET Into(to) == At(MergeMetrics(to.S, to.v, from),
                       [o EXCEPT !.metrics[k] = <<to.v>>, !.est[k] = TRUE]) IN
    Into(IF o.metrics[k] = <<>> THEN FromVTPool(H, MetricsType[k]) ELSE At(H, o.metrics[k][1]))

\* mergeOverflow: overflow.FromProto takes the metrics out of the message.
MergeOverflow(H, o, pbs) ==
    LET OfKind(x, k, f) ==
            IF f[k] = <<>> \/ f[3 + k] = <<>> THEN At(Set(x.S, pbs[1], k, <<>>), x.v)
            ELSE MergeToOverflow(Set(x.S, pbs[1], k, <<>>), x.v, k, f[k][1]) IN
    IF pbs = <<>> THEN At(H, o)
    ELSE FoldLeft(LAMBDA x, k : OfKind(x, k, x.S.obj[pbs[1]].f), At(H, o), <<1, 2, 3>>)

\* mergeToOverflowFromSIM: all groups of an instance.
MergeInstanceToOverflow(H, o, sim) ==
    LET OfKind(x, k) ==
            FoldLeft(LAMBDA y, g : MergeToOverflow(y.S, y.v, k, y.S.obj[g].f[2][1]),
                     x, Elements(H.obj[sim].f[k])) IN
    FoldLeft(OfKind, At(H, o), <<1, 2, 3>>)

\* A mutant of Adopt: the group is kept and not its clone.
AdoptItself(H, id) == At(H, id)

\* What is kept of a group that is new.
Adopt(H, id) == CloneVT(H, id)

\* mergeTransactionGroups, mergeServiceTransactionGroups, mergeSpanGroups: the group id of
\* the kind k with a key is merged into the groups of the instance si of the service s.
MergeGroup(H, m, s, si, k, id, key, groups) ==
    LET Created(c) == At(c.S, [m EXCEPT !.svcs[s].inst[si][k] = key :> c.v @@ @, !.groups[k] = @ + 1])
        Over(o) == At(o.S, [m EXCEPT !.svcs[s].ov = o.v]) IN
    CASE key \in DOMAIN groups ->
            At(MergeMetrics(H, H.obj[groups[key]].f[2][1], H.obj[id].f[2][1]), m)
      [] key \notin DOMAIN groups /\ (\/ Cardinality(DOMAIN groups) >= config.limits.perService
                                      \/ m.groups[k] >= config.limits.total) ->
            Over(MergeToOverflow(H, m.svcs[s].ov, k, H.obj[id].f[2][1]))
      [] OTHER -> Created(Adopt(H, id))

\* A new span loses its name when half of the groups are there.
MergeKeyed(H, m, s, si, k, id, key, groups) ==
    IF k = 3 /\ key \notin DOMAIN groups /\ Cardinality(DOMAIN groups) >= config.limits.perService \div 2
    THEN MergeGroup(Set(H, H.obj[id].f[1][1], 1, <<>>), m, s, si, k, id, [key EXCEPT ![1] = <<>>], groups)
    ELSE MergeGroup(H, m, s, si, k, id, key, groups)

\* The groups of the three kinds of an instance.
MergeGroups(x, s, si, sim) ==
    LET OfKind(y, k) ==
            FoldLeft(LAMBDA z, g : MergeKeyed(z.S, z.v, s, si, k, g,
                                              FromProto(z.S, z.S.obj[g].f[1][1], GroupKey[k]),
                                              z.v.svcs[s].inst[si][k]),
                     y, Elements(y.S.obj[sim].f[k])) IN
    FoldLeft(OfKind, x, <<1, 2, 3>>)

\* mergeServiceInstanceGroups: the instance si, with its metrics sim.
MergeInstance(x, s, si, sim) ==
    LET Over(o) == At(o.S, [x.v EXCEPT !.svcs[s].ov = o.v, !.est = TRUE])
        inst == x.v.svcs[s].inst IN
    CASE si \in DOMAIN inst -> MergeGroups(x, s, si, sim)
      [] si \notin DOMAIN inst /\ Cardinality(DOMAIN inst) >= config.limits.instances ->
            Over(MergeInstanceToOverflow(x.S, x.v.svcs[s].ov, sim))
      [] OTHER -> MergeGroups([x EXCEPT !.v.svcs[s].inst = si :> <<<<>>, <<>>, <<>>>> @@ @], s, si, sim)

MergeInstances(x, s, ksims) ==
    FoldLeft(LAMBDA y, ksim : MergeInstance(y, s, FromProto(y.S, y.S.obj[ksim].f[1][1], serviceInstanceAggregationKey),
                                            y.S.obj[ksim].f[2][1]),
             x, ksims)

\* The service s of the operand, with its metrics sm: into the service, or into the
\* overflow when there are too many services.
MergeService(x, s, sm) ==
    LET Own(o) == MergeInstances(At(o.S, [x.v EXCEPT !.svcs = s :> [(IF s \in DOMAIN @ THEN @[s] ELSE NoService)
                                                                     EXCEPT !.ov = o.v] @@ @]), s, Elements(sm[1]))
        Over(y, o) == At(o.S, [y.v EXCEPT !.ov = o.v])
        Instance(y, ksim) ==
            Over([y EXCEPT !.v.est = TRUE], MergeInstanceToOverflow(y.S, y.v.ov, y.S.obj[ksim].f[2][1])) IN
    IF s \notin DOMAIN x.v.svcs /\ Cardinality(DOMAIN x.v.svcs) >= config.limits.services
    THEN FoldLeft(Instance, Over(x, MergeOverflow(x.S, x.v.ov, sm[2])), Elements(sm[1]))
    ELSE Own(MergeOverflow(x.S, IF s \in DOMAIN x.v.svcs THEN x.v.svcs[s].ov ELSE NoOverflow, sm[2]))

\* merge: f are the fields of a CombinedMetrics.
Merge(H, m, f) ==
    LET Totals(o) == At(o.S, [m EXCEPT !.total = @ + f[4], !.youngest = IF @ < f[5] THEN f[5] ELSE @,
                                       !.ov = o.v, !.est = @ \/ f[3] # <<>>]) IN
    FoldLeft(LAMBDA x, ksm : MergeService(x, FromProto(x.S, x.S.obj[ksm].f[1][1], serviceAggregationKey),
                                          x.S.obj[x.S.obj[ksm].f[2][1]].f),
             Totals(MergeOverflow(H, m.ov, IF f[3] = <<>> THEN <<>> ELSE f[2])), Elements(f[1]))

-----------------------------------------------------------------------------
(* combinedMetrics.ToProto.  The maps are iterated over in some order. *)

Estimator == <<1>>

\* overflow.ToProto
OverflowToProto(H, o) ==
    LET Kinds(pb) == At(FoldLeft(LAMBDA T, k :
                                   IF ~o.est[k] THEN T
                                   ELSE Set(Set(T, pb.v, k, o.metrics[k]), pb.v, 3 + k, Estimator),
                                 pb.S, <<1, 2, 3>>), pb.v) IN
    Kinds(FromVTPool(H, "Overflow"))

\* serviceInstanceMetrics.ToProto: the groups of the merger become those of the message.
InstanceToProto(H, inst) ==
    LET OfKind(T, pb, k) ==
            FoldLeft(LAMBDA U, key : Push(U, pb, k, inst[k][key]), T, SetToSeq(DOMAIN inst[k]))
        Kinds(pb) == At(FoldLeft(LAMBDA T, k : OfKind(T, pb.v, k), pb.S, <<1, 2, 3>>), pb.v) IN
    Kinds(FromVTPool(H, "ServiceInstanceMetrics"))

\* A key and metrics in the message at e.
PutKeyed(e, key, m) == Set(Set(m.S, e, 1, <<key>>), e, 2, <<m.v>>)

\* serviceMetrics.ToProto
ServiceToProto(H, svc) ==
    LET Keyed(e, si, key) == PutKeyed(e, key.v, InstanceToProto(key.S, svc.inst[si]))
        Instance(e, si) == Keyed(e.v, si, KeyToProto(e.S, "ServiceInstanceAggregationKey", si))
        Instances(pb) == FoldLeft(LAMBDA T, si : Instance(Extend(T, pb.v, 1), si), pb.S, SetToSeq(DOMAIN svc.inst))
        Over(pb, o) == At(Set(o.S, pb.v, 2, <<o.v>>), pb.v)
        All(pb) == Over(pb, OverflowToProto(Instances(pb), svc.ov)) IN
    All(FromVTPool(H, "ServiceMetrics"))

ToProto(H, m) ==
    LET Keyed(e, s, key) == PutKeyed(e, key.v, ServiceToProto(key.S, m.svcs[s]))
        Service(e, s) == Keyed(e.v, s, KeyToProto(e.S, "ServiceAggregationKey", s))
        Services(pb) == FoldLeft(LAMBDA T, s : Service(Extend(T, pb.v, 1), s), pb.S, SetToSeq(DOMAIN m.svcs))
        Over(pb, o) == Set(Set(o.S, pb.v, 2, <<o.v>>), pb.v, 3, Estimator)
        Totals(pb, T) == At(Set(Set(T, pb.v, 4, m.total), pb.v, 5, m.youngest), pb.v)
        All(pb) == Totals(pb, IF m.est THEN Over(pb, OverflowToProto(Services(pb), m.ov)) ELSE Services(pb)) IN
    All(FromVTPool(H, "CombinedMetrics"))

-----------------------------------------------------------------------------
(* The measure of metrics: what the weights of events add up to. *)

Plus(a, b) == <<a[1] + b[1], a[2] + b[2], a[3] + b[3], a[4] + b[4]>>

NoMeasure == <<0, 0, 0, 0>>

SumAll(s) == FoldLeft(Plus, NoMeasure, s)

\* Of the metrics of a group or of an overflow, with the fields f: the counts of the
\* histograms of transactions and of service transactions, the successes, the spans.
Measure(H, k, f) ==
    LET Counts(h) == IF h = <<>> THEN 0 ELSE SumOf(H.obj[h[1]].f[4], LAMBDA n : n) IN
    CASE k = 1 -> <<Counts(f[1]), 0, 0, 0>>
      [] k = 2 -> <<0, Counts(f[1]), f[3], 0>>
      [] k = 3 -> <<0, 0, 0, f[1]>>

OverflowMeasure(H, f) ==
    SumAll([k \in 1..3 |-> IF f[k] = <<>> THEN NoMeasure ELSE Measure(H, k, H.obj[f[k][1]].f)])

\* Of the groups of an instance: <<kind, key, measure>> for each, where the key is the field
\* that differs between events.
GroupMeasures(H, f) ==
    LET Key(k, g) == H.obj[g[1][1]].f[IF k = 1 THEN 29 ELSE 1]
        Group(k, g) == <<k, Key(k, g), Measure(H, k, H.obj[g[2][1]].f)>>
        OfKind(k, ids) == [i \in DOMAIN ids |-> Group(k, H.obj[ids[i]].f)] IN
    OfKind(1, Elements(f[1])) \o OfKind(2, Elements(f[2])) \o OfKind(3, Elements(f[3]))

\* CombinedMetricsToBatch: an item [svc, labels, groups] for every instance of a service and
\* what the overflow adds up to.  A value without services is not published.
ToBatch(H, f) ==
    LET Over(T, pbs) == IF pbs = <<>> THEN NoMeasure ELSE OverflowMeasure(T, T.obj[pbs[1]].f)
        Item(x, svc, sim, l) ==
            [x EXCEPT !.S = l.S, !.ok = @ /\ l.ok,
                      !.items = Append(@, [svc |-> svc, labels |-> l.v,
                                           groups |-> GroupMeasures(x.S, x.S.obj[sim].f)])]
        Instance(x, svc, g) ==
            IF x.ok THEN Item(x, svc, g[2][1], UnmarshalLabels(x.S, x.S.obj[g[1][1]].f[1])) ELSE x
        Service(x, svc, sm) ==
            FoldLeft(LAMBDA y, ksim : Instance(y, svc, y.S.obj[ksim].f),
                     [x EXCEPT !.over = Plus(@, Over(x.S, sm[2]))], Elements(sm[1])) IN
    FoldLeft(LAMBDA x, ksm : Service(x, x.S.obj[x.S.obj[ksm].f[1][1]].f[2], x.S.obj[x.S.obj[ksm].f[2][1]].f),
             [S |-> H, ok |-> TRUE, items |-> <<>>, over |-> Over(H, f[2])], Elements(f[1]))

-----------------------------------------------------------------------------
(* Events.  EventOf[e].labels is [s, n], with [value, values, global] for a key. *)

Plain(f) == [f |-> f, unknown |-> <<>>]

\* EventToCombinedMetrics: one partition, and a transaction or a span.  A newer version of
\* the aggregator has put unknown fields.
EventMetrics(e, globalLabelsStr) ==
    LET v == EventOf[e]
        hist == <<Plain(<<1, 3600, 2, <<v.weight>>, <<v.bucket>>>>)>>
        tk == Plain([n \in 1..29 |-> CASE n = 1 -> 1 [] n = 16 -> 2 [] n = 29 -> v.key [] OTHER -> <<>>])
        txn == [f |-> <<<<tk>>, <<Plain(<<hist>>)>>>>, unknown |-> v.unknown]
        svctxn == Plain(<<<<Plain(<<v.key>>)>>, <<Plain(<<hist, 0, v.weight>>)>>>>)
        span == Plain(<<<<Plain(<<v.key, <<>>, <<>>, <<>>, <<>>>>)>>, <<Plain(<<v.weight, 0>>)>>>>)
        sim == Plain(IF v.span THEN <<<<>>, <<>>, <<span>>>> ELSE <<<<txn>>, <<svctxn>>, <<>>>>)
        ksim == Plain(<<<<Plain(<<globalLabelsStr>>)>>, <<sim>>>>)
        sk == Plain(<<200, v.svc, <<>>, <<>>, <<>>>>)
        ksm == Plain(<<<<sk>>, <<Plain(<<<<ksim>>, <<>>>>)>>>>) IN
    [f |-> <<<<ksm>>, <<>>, <<>>, 1, e>>, unknown |-> v.unknown]

EventMeasure(e) ==
    LET w == EventOf[e].weight IN IF EventOf[e].span THEN <<0, 0, 0, w>> ELSE <<w, w, w, 0>>

Orders(m) == SetToSeqs({k \in DOMAIN m : m[k].global})

-----------------------------------------------------------------------------
(* The steps of the goroutines. *)

GroupsOf(m) ==
    UNION {UNION {UNION {{m.svcs[s].inst[si][k][key] : key \in DOMAIN m.svcs[s].inst[si][k]} :
                         k \in 1..3} : si \in DOMAIN m.svcs[s].inst} : s \in DOMAIN m.svcs}

OverflowsOf(m) == {m.ov} \cup {m.svcs[s].ov : s \in DOMAIN m.svcs}

MergerIds(m) == GroupsOf(m) \cup UNION {ToSet(o.metrics[k]) : o \in OverflowsOf(m), k \in 1..3}

ItemsOf(batches) == UNION {ToSet(p.items) : p \in batches}

\* The heap after the collection of garbage, with what the other variables hold next.
Keep(H) ==
    Collect([H EXCEPT !.pick = "new"],
            UNION {ToSet(held'[w]) \cup MergerIds(merger'[w]) : w \in Workers},
            UNION {SlicesOf(EventOf[e].labels) : e \in config.events}
                \cup UNION {SlicesOf(x.labels) : x \in ItemsOf(published')})

EventsOf(vs) == UNION {v.events : v \in vs}

Picking(pick) == [S EXCEPT !.pick = pick]

Init ==
    /\ config \in Configs
    /\ S = [EmptyHeap("new") EXCEPT !.arr = Arrays]
    /\ values = {[b |-> b, events |-> {}] : b \in config.corrupted}
    /\ converted = {}
    /\ pc = [w \in Workers |-> "idle"]
    /\ held = [w \in Workers |-> <<>>]
    /\ merger = [w \in Workers |-> NoMetrics]
    /\ operands = [w \in Workers |-> {}]
    /\ published = {}
    /\ merges = 0

\* aggregateAPMEvent, EventToCombinedMetrics and aggregate.
Convert(e) ==
    /\ e \notin converted
    /\ converted' = converted \cup {e}
    /\ UNCHANGED <<config, pc, held, merger, operands, published, merges>>
    /\ \E pick \in config.picks, s \in Orders(EventOf[e].labels.s), n \in Orders(EventOf[e].labels.n) :
       \E l \in {MarshalLabels(Picking(pick), EventOf[e].labels, s, n)} :
          /\ S' = Keep(l.S)
          /\ values' = values \cup {[b |-> MarshalVT("CombinedMetrics", EventMetrics(e, l.v)),
                                     events |-> {e}]}

\* The decoding of a value into a message of the pool: [S, ok, id].  After an error the
\* message is returned.
Decoded(pick, b) ==
    LET After(u, id) == [S |-> IF u.ok THEN u.S ELSE ReturnToVTPool(u.S, id), ok |-> u.ok, id |-> id]
        Into(m) == After(UnmarshalVT(m.S, m.v, b, 1), m.v) IN
    Into(FromVTPool(Picking(pick), "CombinedMetrics"))

\* MergeNewer and MergeOlder, up to merge.  When an operand cannot be decoded the db drops
\* the merger and keeps the operands.
MergeDecode(w, v) ==
    /\ pc[w] \in {"idle", "merging"}
    /\ merges < config.maxMerges
    /\ merges' = merges + 1
    /\ UNCHANGED <<config, converted, published>>
    /\ \E pick \in config.picks : \E from \in {Decoded(pick, v.b)} :
          /\ IF from.ok
             THEN /\ pc' = [pc EXCEPT ![w] = "decoded"]
                  /\ held' = [held EXCEPT ![w] = <<from.id>>]
                  /\ operands' = [operands EXCEPT ![w] = @ \cup {v}]
                  /\ values' = values \ {v}
                  /\ UNCHANGED merger
             ELSE /\ pc' = [pc EXCEPT ![w] = "idle"]
                  /\ operands' = [operands EXCEPT ![w] = {}]
                  /\ values' = values \cup operands[w]
                  /\ merger' = [merger EXCEPT ![w] = NoMetrics]
                  /\ UNCHANGED held
          /\ S' = Keep(from.S)

\* merge and the deferred ReturnToVTPool.
MergeReturn(w) ==
    /\ pc[w] = "decoded"
    /\ pc' = [pc EXCEPT ![w] = "merging"]
    /\ held' = [held EXCEPT ![w] = <<>>]
    /\ UNCHANGED <<config, values, converted, operands, published, merges>>
    /\ \E pick \in config.picks :
       \E r \in {Merge(Picking(pick), merger[w], S.obj[held[w][1]].f)} :
          /\ merger' = [merger EXCEPT ![w] = r.v]
          /\ S' = Keep(ReturnToVTPool(r.S, held[w][1]))

Finish(w) ==
    /\ pc[w] = "merging"
    /\ pc' = [pc EXCEPT ![w] = "idle"]
    /\ merger' = [merger EXCEPT ![w] = NoMetrics]
    /\ operands' = [operands EXCEPT ![w] = {}]
    /\ UNCHANGED <<config, converted, held, published, merges>>
    /\ \E pick \in config.picks : \E pb \in {ToProto(Picking(pick), merger[w])} :
          /\ values' = values \cup {[b |-> MarshalVT("CombinedMetrics", Message(pb.S, pb.v)),
                                     events |-> EventsOf(operands[w])]}
          /\ S' = Keep(ReturnToVTPool(pb.S, pb.v))

\* processHarvest, up to the Processor.
HarvestDecode(w, v) ==
    /\ pc[w] = "idle"
    /\ values' = values \ {v}
    /\ UNCHANGED <<config, converted, merger, published, merges>>
    /\ \E pick \in config.picks : \E cm \in {Decoded(pick, v.b)} :
          /\ IF cm.ok
             THEN /\ pc' = [pc EXCEPT ![w] = "harvesting"]
                  /\ held' = [held EXCEPT ![w] = <<cm.id>>]
                  /\ operands' = [operands EXCEPT ![w] = {v}]
             ELSE UNCHANGED <<pc, held, operands>>
          /\ S' = Keep(cm.S)

\* The Processor publishes the batch, and the deferred ReturnToVTPool.
Process(w) ==
    /\ pc[w] = "harvesting"
    /\ pc' = [pc EXCEPT ![w] = "idle"]
    /\ held' = [held EXCEPT ![w] = <<>>]
    /\ operands' = [operands EXCEPT ![w] = {}]
    /\ UNCHANGED <<config, values, converted, merger, merges>>
    /\ \E pick \in config.picks : \E b \in {ToBatch(Picking(pick), S.obj[held[w][1]].f)} :
          /\ published' = IF b.ok /\ b.items # <<>>
                          THEN published \cup {[events |-> EventsOf(operands[w]),
                                                items |-> b.items, over |-> b.over]}
                          ELSE published
          /\ S' = Keep(ReturnToVTPool(b.S, held[w][1]))

Next ==
    \/ \E e \in config.events : Convert(e)
    \/ \E w \in Workers :
          \/ \E v \in values : MergeDecode(w, v) \/ HarvestDecode(w, v)
          \/ MergeReturn(w)
          \/ Finish(w)
          \/ Process(w)

Spec == Init /\ [][Next]_vars

-----------------------------------------------------------------------------
(* Properties. *)

\* Every pointer, as <<place, address>>.
Pointed ==
    {<<<<"pool", t, i>>, S.pool[t][i]>> : <<t, i>> \in {x \in Types \X (1..Cardinality(DOMAIN S.obj)) :
                                                        x[2] \in DOMAIN S.pool[x[1]]}}
    \cup UNION {{<<<<"child", id, i>>, Children(S, id)[i]>> : i \in DOMAIN Children(S, id)} :
                id \in DOMAIN S.obj}
    \cup {<<<<"held", w>>, held[w][1]>> : w \in {v \in Workers : held[v] # <<>>}}
    \cup {<<<<"merger", w>>, id>> : <<w, id>> \in {x \in Workers \X DOMAIN S.obj : x[2] \in MergerIds(merger[x[1]])}}

\* No message has two owners: the pools, the messages that point to it, the goroutines and
\* their mergers are one place each for every address.  A merger keeps clones of what it
\* decoded (merger.go:206, 238, 278), and what it had is only in the message that Finish
\* returns to the pool.
OneOwner == Cardinality(Pointed) = Cardinality({x[2] : x \in Pointed})

\* What is in a pool, or was left in the capacity of a slice, is as empty as a new message,
\* so that what is decoded into it is all that it has: ResetVT reaches every message below
\* the one that is returned, also after a decoding that has failed.
PooledClean ==
    LET Left(id) == UNION {ToSet(SubSeq(v.elems, v.len + 1, Len(v.elems))) :
                           v \in {S.obj[id].f[n] : n \in ToSet(NumbersOf(S.obj[id].t, {"msgs"}))}} IN
    \A id \in Reachable(S, Pooled(S) \cup UNION {Left(x) : x \in DOMAIN S.obj}) :
        Present(S.obj[id].t, Message(S, id)) = <<>> /\ S.obj[id].unknown = <<>>

\* The labels of an event as they were when it was given to the aggregator.
Original(e) ==
    LET l == EventOf[e].labels
        Global(m) == [k \in {j \in DOMAIN m : m[j].global} |-> m[k]] IN
    ReadLabels([S EXCEPT !.arr = Arrays], [s |-> Global(l.s), n |-> Global(l.n)])

TotalOf(events) == FoldSet(LAMBDA e, x : Plus(x, EventMeasure(e)), NoMeasure, events)

\* The groups of events of one instance.
ExpectedGroups(events) ==
    LET Kinds(e) == IF EventOf[e].span THEN {3} ELSE {1, 2}
        Part(k, m) == [i \in 1..4 |-> IF i \in <<{1}, {2, 3}, {4}>>[k] THEN m[i] ELSE 0]
        Group(k, key) == <<k, key, Part(k, TotalOf({e \in events : EventOf[e].key = key /\ k \in Kinds(e)}))>> IN
    UNION {{Group(k, EventOf[e].key) : k \in Kinds(e)} : e \in events}

\* What was published of a value is what the events that were merged into it add up to, and
\* stays so.  Every item has the labels of some of the events, and without an overflow it
\* has one group for each key of the events of the service with these labels, with what
\* these events add up to.
PublishedExact ==
    LET Exact(p, x, events) ==
            events # {} /\ (p.over = NoMeasure => ToSet(x.groups) = ExpectedGroups(events))
        Sum(x) == SumAll([i \in DOMAIN x.groups |-> x.groups[i][3]]) IN
    \A p \in published :
        /\ TotalOf(p.events) = SumAll([i \in DOMAIN p.items |-> Sum(p.items[i])] \o <<p.over>>)
        /\ \A x \in ToSet(p.items) :
              Exact(p, x, {e \in p.events : EventOf[e].svc = x.svc /\ Original(e) = ReadLabels(S, x.labels)})

\* Every event that was converted is in exactly one place: a value that was written, the
\* merger or the harvest of a goroutine, or a batch.  So what MarshalVT writes into a
\* buffer of SizeVT bytes can be decoded whatever the pools hold, and an operand that
\* cannot be decoded takes no other value with it.
NothingDropped ==
    LET places == {v.events : v \in values} \cup {EventsOf(operands[w]) : w \in Workers}
                  \cup {p.events : p \in published} IN
    /\ UNION places = converted
    /\ \A a, b \in places : a = b \/ a \cap b = {}
=============================================================================
