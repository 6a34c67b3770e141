-------------------------------- MODULE Merger --------------------------------
(***************************************************************************)
(* The merge operator of the database, aggregators/merger.go: how combined *)
(* metrics stored under one key are merged, under limits on the number of  *)
(* services, instances and groups.                                         *)
(*                                                                         *)
(* A share is what one event contributed to one group; its counts and its  *)
(* histogram are added up wherever the share goes (see Histogram), so that *)
(* the shares are all there is to know of a metric.  Pebble is             *)
(* external: it merges the operands of a key in any grouping, in reads and *)
(* in compactions, and stores the results of compactions as new operands.  *)
(* An operand may also come from an aggregator with other limits.          *)
(***************************************************************************)
EXTENDS Integers, FiniteSets

CONSTANTS
    Inputs,    \* the events: [ev, svc, inst, groups]
    LimitsSet, \* the limits of the aggregators: [svcs, insts, total, perSvc]
    NoName,    \* the empty span name
    NoInst,    \* no instance in a hash
    All        \* the overflow bucket for services

Kinds == {"txn", "svctxn", "span"}

\* The events are told apart, and the groups of an event are of its own service and
\* instance: EventToCombinedMetrics puts them there.
ASSUME InputsAssumption ==
    /\ \A d, e \in Inputs : d.ev = e.ev => d = e
    /\ \A e \in Inputs : \A g \in e.groups :
          /\ g = [svc |-> e.svc, inst |-> e.inst, kind |-> g.kind, key |-> g.key, name |-> g.name]
          /\ g.kind \in Kinds

\* The overflow bucket is not one of the services.
ASSUME AllAssumption == \A e \in Inputs : e.svc # All

ASSUME LimitsAssumption ==
    \A l \in LimitsSet :
       /\ l.svcs \in Nat /\ l.insts \in Nat
       /\ \A k \in Kinds : l.total[k] \in Nat /\ l.perSvc[k] \in Nat

VARIABLES
    operands, \* the combined metrics stored for the key
    active,   \* a merger exists
    lim,      \* its limits
    to,       \* its metrics
    counters, \* its constraints: the number of groups of each kind
    left      \* the part of the operand being merged that is still to be merged

vars == <<operands, active, lim, to, counters, left>>

-----------------------------------------------------------------------------
(* Combined metrics.  kept: the shares in groups, over: the shares in overflow *)
(* buckets, of a service or of All, each with the hash that was inserted into  *)
(* the estimator of its bucket, est: OverflowServiceInstancesEstimator.        *)

Empty == [svcs |-> {}, insts |-> {}, kept |-> {}, over |-> {}, est |-> {}, events |-> {}]

InstOf(g) == [svc |-> g.svc, inst |-> g.inst]

\* EventToCombinedMetrics: one service, one instance, no overflow.
EventMetrics(e) ==
    [svcs |-> {e.svc}, insts |-> {[svc |-> e.svc, inst |-> e.inst]},
     kept |-> {[g |-> g, t |-> [ev |-> e.ev, g |-> g]] : g \in e.groups},
     over |-> {}, est |-> {}, events |-> {e.ev}]

Groups(v) == {x.g : x \in v.kept}

GroupsOf(v, g) == {h \in Groups(v) : InstOf(h) = InstOf(g) /\ h.kind = g.kind}

InstsOf(v, s) == {i \in v.insts : i.svc = s}

Shares(v) == {x.t : x \in v.kept} \cup {x.t : x \in v.over}

\* The hash of a group, with the digest of its service or of its instance.
Hash(g, inst) == [svc |-> g.svc, inst |-> inst, kind |-> g.kind, key |-> g.key, name |-> g.name]

\* mergeToOverflowFromSIM: every group of the entries goes to the bucket.
Overflowed(entries, bucket) == {[at |-> bucket, t |-> x.t, h |-> Hash(x.g, x.g.inst)] : x \in entries}

\* combinedMetrics.ToProto leaves OverflowServices out when nothing was inserted
\* into the estimator of the overflowed instances.
ToProto(v) == IF v.est = {} THEN [v EXCEPT !.over = {x \in @ : x.at # All}] ELSE v

-----------------------------------------------------------------------------
(* Plausible mistakes in the definitions below, for showing that the properties *)
(* can tell them from the code.  No specification uses them.                    *)

ServiceOverflowsEarly(s) == s \notin to.svcs /\ Cardinality(to.svcs) + 1 >= lim.svcs

\* The instances of an overflowed service are not inserted into the estimator.
OverflowServiceNotEstimated(s) ==
    LET entries == {x \in left.kept : x.g.svc = s} IN
       /\ active /\ s \in left.svcs
       /\ s \notin to.svcs /\ Cardinality(to.svcs) >= lim.svcs
       /\ to' = [to EXCEPT !.over = @ \cup Overflowed(entries, All)]
       /\ left' = [left EXCEPT !.svcs = @ \ {s}, !.over = {x \in @ : x.at # s},
                               !.insts = @ \ InstsOf(left, s), !.kept = @ \ entries]
       /\ UNCHANGED <<operands, active, lim, counters>>

\* An overflowed service is also merged: the continue is missing.
OverflowServiceContinues(s) ==
    /\ active /\ s \in left.svcs
    /\ s \notin to.svcs /\ Cardinality(to.svcs) >= lim.svcs
    /\ to' = [to EXCEPT !.over = @ \cup Overflowed({x \in left.kept : x.g.svc = s}, All),
                        !.est = @ \cup InstsOf(left, s)]
    /\ left' = [left EXCEPT !.svcs = @ \ {s}]
    /\ UNCHANGED <<operands, active, lim, counters>>

OverflowInstanceNotEstimated(i) ==
    LET entries == {x \in left.kept : InstOf(x.g) = i} IN
       /\ active /\ i \in left.insts /\ i.svc \notin left.svcs
       /\ i \notin to.insts /\ Cardinality(InstsOf(to, i.svc)) >= lim.insts
       /\ to' = [to EXCEPT !.over = @ \cup Overflowed(entries, i.svc)]
       /\ left' = [left EXCEPT !.insts = @ \ {i}, !.kept = @ \ entries]
       /\ UNCHANGED <<operands, active, lim, counters>>

MaxedPerService(g) == Cardinality(GroupsOf(to, g)) >= lim.perSvc[g.kind]

-----------------------------------------------------------------------------
(* merge, one iteration of a loop at a time, in any order: the slices of an    *)
(* operand come from iterating over maps.                                      *)

Init ==
    /\ operands = {EventMetrics(e) : e \in Inputs}
    /\ active = FALSE
    /\ lim \in LimitsSet
    /\ to = Empty /\ left = Empty
    /\ counters = [k \in Kinds |-> 0]

\* The head of merge: totals, and the overflow of services if there is any.
MergeHead(base, v) ==
    LET shared == IF v.est = {} THEN {} ELSE {x \in v.over : x.at = All} IN
       /\ to' = [base EXCEPT !.events = @ \cup v.events,
                             !.over = @ \cup shared,
                             !.est = @ \cup v.est]
       /\ left' = [v EXCEPT !.events = {}, !.est = {}, !.over = {x \in @ : x.at # All}]

\* pebble.Merger.Merge: a merger for the first operand.
NewMerger(v) ==
    /\ ~active
    /\ active' = TRUE
    /\ operands' = operands \ {v}
    /\ lim' \in LimitsSet
    /\ counters' = [k \in Kinds |-> 0]
    /\ MergeHead(Empty, v)

\* The operand is merged to the end.
Merged == left.svcs = {} /\ left.insts = {} /\ left.kept = {}

\* MergeNewer, MergeOlder.
MergeOperand(v) ==
    /\ active /\ Merged
    /\ operands' = operands \ {v}
    /\ MergeHead(to, v)
    /\ UNCHANGED <<active, lim, counters>>

\* The loops are nested: an instance is merged when its service was taken, a group
\* when its instance was, and each of them before the next service or instance.
OpenInsts == {i \in left.insts : i.svc \notin left.svcs}

OpenGroups == {g \in Groups(left) : InstOf(g) \notin left.insts}

NextService(s) == active /\ s \in left.svcs /\ OpenInsts = {} /\ OpenGroups = {}

NextInstance(i) == active /\ i \in OpenInsts /\ OpenGroups = {}

\* getServiceMetrics
ServiceOverflows(s) == s \notin to.svcs /\ Cardinality(to.svcs) >= lim.svcs

\* getServiceInstanceMetrics
InstanceOverflows(i) == i \notin to.insts /\ Cardinality(InstsOf(to, i.svc)) >= lim.insts

MergeService(s) ==
    LET own == {x \in left.over : x.at = s} IN
       /\ NextService(s)
       /\ ~ServiceOverflows(s)
       /\ to' = [to EXCEPT !.svcs = @ \cup {s}, !.over = @ \cup own]
       /\ left' = [left EXCEPT !.svcs = @ \ {s}, !.over = @ \ own]
       /\ UNCHANGED <<operands, active, lim, counters>>

OverflowService(s) ==
    LET own == {x \in left.over : x.at = s}
        entries == {x \in left.kept : x.g.svc = s} IN
       /\ NextService(s)
       /\ ServiceOverflows(s)
       /\ to' = [to EXCEPT !.over = @ \cup {[x EXCEPT !.at = All] : x \in own}
                                      \cup Overflowed(entries, All),
                           !.est = @ \cup InstsOf(left, s)]
       /\ left' = [left EXCEPT !.svcs = @ \ {s}, !.over = @ \ own,
                               !.insts = @ \ InstsOf(left, s), !.kept = @ \ entries]
       /\ UNCHANGED <<operands, active, lim, counters>>

MergeInstance(i) ==
    /\ NextInstance(i)
    /\ ~InstanceOverflows(i)
    /\ to' = [to EXCEPT !.insts = @ \cup {i}]
    /\ left' = [left EXCEPT !.insts = @ \ {i}]
    /\ UNCHANGED <<operands, active, lim, counters>>

OverflowInstance(i) ==
    LET entries == {x \in left.kept : InstOf(x.g) = i} IN
       /\ NextInstance(i)
       /\ InstanceOverflows(i)
       /\ to' = [to EXCEPT !.over = @ \cup Overflowed(entries, i.svc), !.est = @ \cup {i}]
       /\ left' = [left EXCEPT !.insts = @ \ {i}, !.kept = @ \ entries]
       /\ UNCHANGED <<operands, active, lim, counters>>

\* The per-service constraint of mergeServiceInstanceGroups counts the groups of the
\* instance.
Value(g) == Cardinality(GroupsOf(to, g))

Maxed(g) == Value(g) >= lim.perSvc[g.kind] \/ counters[g.kind] >= lim.total[g.kind]

\* The key a group is merged under: a new span group loses its name when half of
\* the per-service limit is used up.
Target(g) ==
    IF g.kind = "span" /\ g \notin Groups(to) /\ Value(g) >= lim.perSvc["span"] \div 2
    THEN [g EXCEPT !.name = NoName]
    ELSE g

GroupShares(g) == {x.t : x \in {y \in left.kept : y.g = g}}

Take(g) == left' = [left EXCEPT !.kept = {x \in @ : x.g # g}]

Keep(g) == to' = [to EXCEPT !.kept = @ \cup {[g |-> Target(g), t |-> t] : t \in GroupShares(g)}]

MergeGroup(g) ==
    /\ active /\ g \in OpenGroups
    /\ Target(g) \in Groups(to)
    /\ Keep(g) /\ Take(g)
    /\ UNCHANGED <<operands, active, lim, counters>>

AddGroup(g) ==
    /\ active /\ g \in OpenGroups
    /\ Target(g) \notin Groups(to)
    /\ ~Maxed(g)
    /\ counters' = [counters EXCEPT ![g.kind] = @ + 1]
    /\ Keep(g) /\ Take(g)
    /\ UNCHANGED <<operands, active, lim>>

OverflowGroup(g) ==
    /\ active /\ g \in OpenGroups
    /\ Target(g) \notin Groups(to)
    /\ Maxed(g)
    /\ to' = [to EXCEPT !.over = @ \cup {[at |-> g.svc, t |-> t, h |-> Hash(Target(g), NoInst)] :
                                          t \in GroupShares(g)}]
    /\ Take(g)
    /\ UNCHANGED <<operands, active, lim, counters>>

Finish ==
    /\ active /\ Merged
    /\ operands' = operands \cup {ToProto(to)}
    /\ active' = FALSE
    /\ to' = Empty
    /\ counters' = [k \in Kinds |-> 0]
    /\ UNCHANGED <<lim, left>>

Next ==
    \/ \E v \in operands : NewMerger(v) \/ MergeOperand(v)
    \/ \E s \in left.svcs : MergeService(s) \/ OverflowService(s)
    \/ \E i \in left.insts : MergeInstance(i) \/ OverflowInstance(i)
    \/ \E g \in Groups(left) : MergeGroup(g) \/ AddGroup(g) \/ OverflowGroup(g)
    \/ Finish

Spec == Init /\ [][Next]_vars

-----------------------------------------------------------------------------
(* Properties. *)

Events == {e.ev : e \in Inputs}

\* Every share of every event.
AllShares == UNION {{[ev |-> e.ev, g |-> g] : g \in e.groups} : e \in Inputs}

\* All the metrics there are: the operands, the merger, and what it has still to merge.
Holders == operands \cup {to, left}

\* The metrics that no merge is in the middle of.
AtRest == operands \cup {v \in {to} : Merged}

\* No share is ever lost: whatever the limits are and however the operands of the key
\* are grouped into merges, a share is in a group or in an overflow bucket, also after
\* ToProto, which leaves the overflow of services out when its estimator is nil.
NothingLost ==
    /\ UNION {Shares(v) : v \in Holders} = AllShares
    /\ UNION {v.events : v \in Holders} = Events

\* No share is counted twice: it is in one operand, and there in one group or bucket.
NothingTwice ==
    /\ \A v, w \in operands \cup {to} : v # w => Shares(v) \cap Shares(w) = {}
    /\ \A v \in operands \cup {to} : \A x, y \in v.kept \cup v.over : x.t = y.t => x = y

\* merge respects the limits of the merger, of services, of instances in a service, of
\* groups in an instance and of groups in all, whatever the limits were that the operands
\* were built under.
WithinLimits ==
    /\ Cardinality(to.svcs) <= lim.svcs
    /\ \A s \in to.svcs : Cardinality(InstsOf(to, s)) <= lim.insts
    /\ \A g \in Groups(to) : Cardinality(GroupsOf(to, g)) <= lim.perSvc[g.kind]
    /\ \A k \in Kinds : Cardinality({g \in Groups(to) : g.kind = k}) <= lim.total[k]

\* A share that overflowed to the bucket of a service is of an instance that is still in
\* the service or that was inserted into the estimator of overflowed instances, and one
\* that overflowed with its service is always of an instance that was inserted, whenever
\* an operand was merged to the end: the estimate covers every instance that has metrics
\* in the overflow of services.
InstancesEstimated ==
    \A v \in AtRest : \A x \in v.over :
       \/ InstOf(x.t.g) \in v.est
       \/ x.at # All /\ InstOf(x.t.g) \in v.insts

\* Services overflow only where the metrics hold as many services as the limit of some
\* aggregator allows, and an instance overflows within a service only where the service
\* holds as many instances: no grouping of the merges makes room that is not used.
OverflowOnlyWhenFull ==
    \A v \in AtRest : \A x \in v.over :
       /\ x.at = All => \E l \in LimitsSet : Cardinality(v.svcs) >= l.svcs
       /\ x.at # All /\ x.h.inst # NoInst =>
             \E l \in LimitsSet : Cardinality(InstsOf(v, x.at)) >= l.insts
=============================================================================
