---------------------------- MODULE MergerProofs ----------------------------
(***************************************************************************)
(* Merger and Publish, for any events, any limits and any grouping of the  *)
(* operands of a key into merges: nothing is lost, nothing is counted      *)
(* twice, the limits hold, an overflow has its reason, and each share is   *)
(* published once.                                                         *)
(***************************************************************************)
EXTENDS Publish, FiniteSetTheorems, TLAPS

-----------------------------------------------------------------------------
(* The invariants. *)

\* Combined metrics are records of the six fields.
Shape(v) ==
    v = [svcs |-> v.svcs, insts |-> v.insts, kept |-> v.kept, over |-> v.over,
         est |-> v.est, events |-> v.events]

\* A share is kept in a group that differs from its own in the name at most.
IsKept(x) ==
    /\ x = [g |-> x.g, t |-> x.t]
    /\ x.t \in AllShares
    /\ x.g = [svc |-> x.t.g.svc, inst |-> x.t.g.inst, kind |-> x.t.g.kind,
              key |-> x.t.g.key, name |-> x.g.name]

\* A share overflows to the bucket of its own service or to that of the services.
IsOver(x) ==
    /\ x = [at |-> x.at, t |-> x.t, h |-> x.h]
    /\ x.t \in AllShares
    /\ x.at \in {x.t.g.svc, All}

\* What EventToCombinedMetrics builds and merge keeps up.
Formed(v) ==
    /\ Shape(v)
    /\ \A x \in v.kept : IsKept(x)
    /\ \A x \in v.over : IsOver(x)

\* Every metric there is is formed, and there is nothing in a merger that does not
\* exist.
Types ==
    /\ \A v \in Holders : Formed(v)
    /\ active \in BOOLEAN
    /\ lim \in LimitsSet
    /\ ~active => to = Empty /\ Merged

InstIn(e) == [svc |-> e.svc, inst |-> e.inst]

\* Where the services and instances of metrics are, the instances in more included.
Placed(v, more) ==
    /\ \A i \in v.insts : i.svc \in v.svcs
    /\ \A x \in v.kept : InstOf(x.t.g) \in v.insts
    /\ \A x \in v.over : x.at # All => x.at \in v.svcs
    /\ \A x \in v.over : x.at = All => InstOf(x.t.g) \in v.est
    /\ \A x \in v.over : InstOf(x.t.g) \in v.est \cup v.insts \cup more
    /\ \A e \in Inputs : e.ev \in v.events => InstIn(e) \in v.insts \cup v.est \cup more

\* The same for an operand that is being merged: what is missing in it is in the
\* merger.
LeftPlaced ==
    /\ left.est = {} /\ left.events = {}
    /\ \A i \in left.insts : i.svc \in left.svcs \cup to.svcs
    /\ \A x \in left.kept : InstOf(x.t.g) \in left.insts \cup to.insts
    /\ \A x \in left.over : x.at # All /\ x.at \in left.svcs
    /\ \A x \in left.over : InstOf(x.t.g) \in to.est \cup left.insts

\* The instances of all shares are known where the shares are, in groups and in
\* buckets.
Places ==
    /\ \A v \in operands : Placed(v, {})
    /\ Placed(to, left.insts)
    /\ LeftPlaced

\* A share is in one group or bucket of the metrics.
Unique(v) == \A x, y \in v.kept \cup v.over : x.t = y.t => x = y

\* No two metrics have a share in common, and none has it twice.
Once ==
    /\ \A v, w \in operands : v # w => Shares(v) \cap Shares(w) = {}
    /\ \A v \in operands : Shares(v) \cap (Shares(to) \cup Shares(left)) = {}
    /\ Shares(to) \cap Shares(left) = {}
    /\ \A v \in Holders : Unique(v)

\* The constraints of the merger count its groups.
Counted ==
    /\ IsFiniteSet(to.svcs) /\ IsFiniteSet(to.insts) /\ IsFiniteSet(Groups(to))
    /\ counters = [k \in Kinds |-> Cardinality({g \in Groups(to) : g.kind = k})]

\* Metrics have finitely many services and instances.
Finite ==
    /\ IsFiniteSet(left.svcs) /\ IsFiniteSet(left.insts)
    /\ \A v \in operands : IsFiniteSet(v.svcs) /\ IsFiniteSet(v.insts)

\* As many services, or instances, as the limit of some aggregator allows.
ServicesFull(S) == \E l \in LimitsSet : Cardinality(S) >= l.svcs

InstancesFull(S) == \E l \in LimitsSet : Cardinality(S) >= l.insts

\* The limit that an overflow in the metrics was about is used up there.
FullAt(v) ==
    \A x \in v.over :
       /\ x.at = All => ServicesFull(v.svcs)
       /\ x.at # All /\ x.h.inst # NoInst => InstancesFull(InstsOf(v, x.at))

\* The same during a merge, for the merger and the rest of its operand together.
FullBetween ==
    \A x \in to.over \cup left.over :
       /\ x.at = All => ServicesFull(to.svcs \cup left.svcs)
       /\ x.at # All /\ x.h.inst # NoInst =>
             InstancesFull(InstsOf(to, x.at) \cup InstsOf(left, x.at))

Full ==
    /\ \A v \in operands : FullAt(v)
    /\ FullBetween

-----------------------------------------------------------------------------
(* What the steps do, field by field. *)

Fields(a, b, c, d, e, f) ==
    [svcs |-> a, insts |-> b, kept |-> c, over |-> d, est |-> e, events |-> f]

\* A share is of one of the kinds of groups and of a service that is not a bucket.
LEMMA ShareShape ==
    ASSUME NEW t \in AllShares
    PROVE  /\ t = [ev |-> t.ev, g |-> t.g]
           /\ t.g = [svc |-> t.g.svc, inst |-> t.g.inst, kind |-> t.g.kind,
                     key |-> t.g.key, name |-> t.g.name]
           /\ t.g.kind \in Kinds
           /\ t.g.svc # All
<1>1. PICK e \in Inputs : \E g \in e.groups : t = [ev |-> e.ev, g |-> g]
  BY Zenon DEF AllShares
<1>2. PICK g \in e.groups : t = [ev |-> e.ev, g |-> g]
  BY <1>1, Zenon
<1>3. t.ev = e.ev /\ t.g = g
  BY <1>2, Zenon
<1> QED
  BY <1>2, <1>3, InputsAssumption, AllAssumption

\* The head of merge takes the totals and the overflow of services; ToProto has left
\* out none of that overflow, for Places gives it an estimator.
LEMMA HeadEffect ==
    ASSUME Types, Places, NEW v \in operands, NewMerger(v) \/ MergeOperand(v)
    PROVE  /\ Merged /\ active' = TRUE /\ operands' = operands \ {v} /\ lim' \in LimitsSet
           /\ to' = Fields(to.svcs, to.insts, to.kept,
                           to.over \cup {x \in v.over : x.at = All},
                           to.est \cup v.est, to.events \cup v.events)
           /\ left' = Fields(v.svcs, v.insts, v.kept, {x \in v.over : x.at # All}, {}, {})
           /\ \/ lim' = lim /\ counters' = counters
              \/ to = Empty /\ counters' = [k \in Kinds |-> 0]
<1>1. Shape(v) /\ Shape(to)
  BY Zenon DEF Types, Formed, Holders
<1>2. /\ Merged /\ active' = TRUE /\ operands' = operands \ {v} /\ lim' \in LimitsSet
      /\ MergeHead(to, v)
      /\ \/ lim' = lim /\ counters' = counters
         \/ to = Empty /\ counters' = [k \in Kinds |-> 0]
  BY Zenon DEF Types, NewMerger, MergeOperand
<1>3. (IF v.est = {} THEN {} ELSE {x \in v.over : x.at = All}) = {x \in v.over : x.at = All}
  BY Zenon DEF Places, Placed
<1>4. to' = Fields(to.svcs, to.insts, to.kept,
                   to.over \cup {x \in v.over : x.at = All},
                   to.est \cup v.est, to.events \cup v.events)
  BY <1>1, <1>2, <1>3, Zenon DEF MergeHead, Fields, Shape
<1>5. left' = Fields(v.svcs, v.insts, v.kept, {x \in v.over : x.at # All}, {}, {})
  BY <1>1, <1>2, Zenon DEF MergeHead, Fields, Shape
<1> QED
  BY <1>2, <1>4, <1>5, Zenon

\* getServiceMetrics finds or adds the service, with the overflow of its groups.
LEMMA ServiceEffect ==
    ASSUME Types, NEW s, MergeService(s)
    PROVE  /\ active /\ s \in left.svcs /\ ~ServiceOverflows(s)
           /\ UNCHANGED <<operands, active, lim, counters>>
           /\ to' = Fields(to.svcs \cup {s}, to.insts, to.kept,
                           to.over \cup {x \in left.over : x.at = s}, to.est, to.events)
           /\ left' = Fields(left.svcs \ {s}, left.insts, left.kept,
                             {x \in left.over : x.at # s}, left.est, left.events)
<1>1. Shape(left) /\ Shape(to)
  BY Zenon DEF Types, Formed, Holders
<1>2. to' = Fields(to.svcs \cup {s}, to.insts, to.kept,
                   to.over \cup {x \in left.over : x.at = s}, to.est, to.events)
  BY <1>1, Zenon DEF MergeService, Fields, Shape
<1>3. left.over \ {x \in left.over : x.at = s} = {x \in left.over : x.at # s}
  BY Zenon
<1>4. left' = Fields(left.svcs \ {s}, left.insts, left.kept,
                     {x \in left.over : x.at # s}, left.est, left.events)
  BY <1>1, <1>3, Zenon DEF MergeService, Fields, Shape
<1> QED
  BY <1>2, <1>4, Zenon DEF MergeService, NextService

Moved(s) == {[x EXCEPT !.at = All] : x \in {y \in left.over : y.at = s}}

\* All of a service that does not fit, its own overflow included, goes to the bucket of
\* the services, and its instances to the estimator.
LEMMA OverflowServiceEffect ==
    ASSUME Types, NEW s, OverflowService(s)
    PROVE  /\ active /\ s \in left.svcs /\ ServiceOverflows(s)
           /\ UNCHANGED <<operands, active, lim, counters>>
           /\ to' = Fields(to.svcs, to.insts, to.kept,
                           to.over \cup Moved(s)
                              \cup Overflowed({x \in left.kept : x.g.svc = s}, All),
                           to.est \cup InstsOf(left, s), to.events)
           /\ left' = Fields(left.svcs \ {s}, left.insts \ InstsOf(left, s),
                             {x \in left.kept : x.g.svc # s},
                             {x \in left.over : x.at # s}, left.est, left.events)
<1>1. Shape(left) /\ Shape(to)
  BY Zenon DEF Types, Formed, Holders
<1>2. to' = Fields(to.svcs, to.insts, to.kept,
                   to.over \cup Moved(s)
                      \cup Overflowed({x \in left.kept : x.g.svc = s}, All),
                   to.est \cup InstsOf(left, s), to.events)
  BY <1>1, Zenon DEF OverflowService, Fields, Shape, Moved
<1>3. /\ left.over \ {x \in left.over : x.at = s} = {x \in left.over : x.at # s}
      /\ left.kept \ {x \in left.kept : x.g.svc = s} = {x \in left.kept : x.g.svc # s}
  BY Zenon
<1>4. left' = Fields(left.svcs \ {s}, left.insts \ InstsOf(left, s),
                     {x \in left.kept : x.g.svc # s},
                     {x \in left.over : x.at # s}, left.est, left.events)
  BY <1>1, <1>3, Zenon DEF OverflowService, Fields, Shape
<1> QED
  BY <1>2, <1>4, Zenon DEF OverflowService, NextService

\* getServiceInstanceMetrics finds or adds the instance.
LEMMA InstanceEffect ==
    ASSUME Types, NEW i, MergeInstance(i)
    PROVE  /\ active /\ i \in OpenInsts /\ ~InstanceOverflows(i)
           /\ UNCHANGED <<operands, active, lim, counters>>
           /\ to' = Fields(to.svcs, to.insts \cup {i}, to.kept, to.over, to.est, to.events)
           /\ left' = Fields(left.svcs, left.insts \ {i}, left.kept, left.over, left.est,
                             left.events)
<1>1. Shape(left) /\ Shape(to)
  BY Zenon DEF Types, Formed, Holders
<1> QED
  BY <1>1, Zenon DEF MergeInstance, NextInstance, Fields, Shape

\* All groups of an instance that does not fit go to the bucket of its service.
LEMMA OverflowInstanceEffect ==
    ASSUME Types, NEW i, OverflowInstance(i)
    PROVE  /\ active /\ i \in OpenInsts /\ InstanceOverflows(i)
           /\ UNCHANGED <<operands, active, lim, counters>>
           /\ to' = Fields(to.svcs, to.insts, to.kept,
                           to.over \cup Overflowed({x \in left.kept : InstOf(x.g) = i}, i.svc),
                           to.est \cup {i}, to.events)
           /\ left' = Fields(left.svcs, left.insts \ {i}, {x \in left.kept : InstOf(x.g) # i},
                             left.over, left.est, left.events)
<1>1. Shape(left) /\ Shape(to)
  BY Zenon DEF Types, Formed, Holders
<1>2. to' = Fields(to.svcs, to.insts, to.kept,
                   to.over \cup Overflowed({x \in left.kept : InstOf(x.g) = i}, i.svc),
                   to.est \cup {i}, to.events)
  BY <1>1, Zenon DEF OverflowInstance, Fields, Shape
<1>3. left.kept \ {x \in left.kept : InstOf(x.g) = i} = {x \in left.kept : InstOf(x.g) # i}
  BY Zenon
<1>4. left' = Fields(left.svcs, left.insts \ {i}, {x \in left.kept : InstOf(x.g) # i},
                     left.over, left.est, left.events)
  BY <1>1, <1>3, Zenon DEF OverflowInstance, Fields, Shape
<1> QED
  BY <1>2, <1>4, Zenon DEF OverflowInstance, NextInstance

Without(g) ==
    Fields(left.svcs, left.insts, {x \in left.kept : x.g # g}, left.over, left.est, left.events)

KeptIn(g) == {[g |-> Target(g), t |-> t] : t \in GroupShares(g)}

\* A group is added to the group of its target, and counted when that group is new.
LEMMA KeepEffect ==
    ASSUME Types, NEW g, MergeGroup(g) \/ AddGroup(g)
    PROVE  /\ active /\ g \in OpenGroups
           /\ UNCHANGED <<operands, active, lim>>
           /\ \/ Target(g) \in Groups(to) /\ counters' = counters
              \/ /\ Target(g) \notin Groups(to) /\ ~Maxed(g)
                 /\ counters' = [counters EXCEPT ![g.kind] = @ + 1]
           /\ to' = Fields(to.svcs, to.insts, to.kept \cup KeptIn(g), to.over, to.est,
                           to.events)
           /\ left' = Without(g)
<1>1. Shape(left) /\ Shape(to)
  BY Zenon DEF Types, Formed, Holders
<1>2. Keep(g) /\ Take(g)
  BY Zenon DEF MergeGroup, AddGroup
<1>3. to' = Fields(to.svcs, to.insts, to.kept \cup KeptIn(g), to.over, to.est, to.events)
  BY <1>1, <1>2, Zenon DEF Keep, Fields, Shape, KeptIn
<1>4. left' = Without(g)
  BY <1>1, <1>2, Zenon DEF Take, Without, Fields, Shape
<1> QED
  BY <1>3, <1>4, Zenon DEF MergeGroup, AddGroup

OverIn(g) == {[at |-> g.svc, t |-> t, h |-> Hash(Target(g), NoInst)] : t \in GroupShares(g)}

\* A group that does not fit goes to the bucket of its service.
LEMMA OverflowGroupEffect ==
    ASSUME Types, NEW g, OverflowGroup(g)
    PROVE  /\ active /\ g \in OpenGroups
           /\ UNCHANGED <<operands, active, lim, counters>>
           /\ to' = Fields(to.svcs, to.insts, to.kept, to.over \cup OverIn(g), to.est,
                           to.events)
           /\ left' = Without(g)
<1>1. Shape(left) /\ Shape(to)
  BY Zenon DEF Types, Formed, Holders
<1>3. to' = Fields(to.svcs, to.insts, to.kept, to.over \cup OverIn(g), to.est, to.events)
  BY <1>1, Zenon DEF OverflowGroup, Fields, Shape, OverIn
<1>4. left' = Without(g)
  BY <1>1, Zenon DEF OverflowGroup, Take, Without, Fields, Shape
<1> QED
  BY <1>3, <1>4, Zenon DEF OverflowGroup

\* ServiceEffect, with the fields named.
LEMMA ServiceFields ==
    ASSUME Types, NEW s, MergeService(s)
    PROVE  /\ s \in left.svcs /\ ~ServiceOverflows(s)
           /\ operands' = operands /\ active' = active /\ lim' = lim /\ counters' = counters
           /\ to'.svcs = to.svcs \cup {s}
           /\ to'.insts = to.insts
           /\ to'.kept = to.kept
           /\ to'.over = to.over \cup {x \in left.over : x.at = s}
           /\ to'.est = to.est
           /\ to'.events = to.events
           /\ left'.svcs = left.svcs \ {s}
           /\ left'.insts = left.insts
           /\ left'.kept = left.kept
           /\ left'.over = {x \in left.over : x.at # s}
           /\ left'.est = left.est
           /\ left'.events = left.events
BY ServiceEffect DEF Fields

\* OverflowServiceEffect, with the fields named.
LEMMA OverflowServiceFields ==
    ASSUME Types, NEW s, OverflowService(s)
    PROVE  /\ s \in left.svcs /\ ServiceOverflows(s)
           /\ operands' = operands /\ active' = active /\ lim' = lim /\ counters' = counters
           /\ to'.svcs = to.svcs
           /\ to'.insts = to.insts
           /\ to'.kept = to.kept
           /\ to'.over = to.over \cup Moved(s)
                           \cup Overflowed({x \in left.kept : x.g.svc = s}, All)
           /\ to'.est = to.est \cup InstsOf(left, s)
           /\ to'.events = to.events
           /\ left'.svcs = left.svcs \ {s}
           /\ left'.insts = left.insts \ InstsOf(left, s)
           /\ left'.kept = {x \in left.kept : x.g.svc # s}
           /\ left'.over = {x \in left.over : x.at # s}
           /\ left'.est = left.est
           /\ left'.events = left.events
BY OverflowServiceEffect DEF Fields

\* InstanceEffect, with the fields named.
LEMMA InstanceFields ==
    ASSUME Types, NEW i, MergeInstance(i)
    PROVE  /\ i \in left.insts /\ i.svc \notin left.svcs /\ ~InstanceOverflows(i)
           /\ operands' = operands /\ active' = active /\ lim' = lim /\ counters' = counters
           /\ to'.svcs = to.svcs
           /\ to'.insts = to.insts \cup {i}
           /\ to'.kept = to.kept
           /\ to'.over = to.over
           /\ to'.est = to.est
           /\ to'.events = to.events
           /\ left'.svcs = left.svcs
           /\ left'.insts = left.insts \ {i}
           /\ left'.kept = left.kept
           /\ left'.over = left.over
           /\ left'.est = left.est
           /\ left'.events = left.events
BY InstanceEffect DEF Fields, OpenInsts

\* OverflowInstanceEffect, with the fields named.
LEMMA OverflowInstanceFields ==
    ASSUME Types, NEW i, OverflowInstance(i)
    PROVE  /\ i \in left.insts /\ i.svc \notin left.svcs /\ InstanceOverflows(i)
           /\ operands' = operands /\ active' = active /\ lim' = lim /\ counters' = counters
           /\ to'.svcs = to.svcs
           /\ to'.insts = to.insts
           /\ to'.kept = to.kept
           /\ to'.over = to.over \cup Overflowed({x \in left.kept : InstOf(x.g) = i}, i.svc)
           /\ to'.est = to.est \cup {i}
           /\ to'.events = to.events
           /\ left'.svcs = left.svcs
           /\ left'.insts = left.insts \ {i}
           /\ left'.kept = {x \in left.kept : InstOf(x.g) # i}
           /\ left'.over = left.over
           /\ left'.est = left.est
           /\ left'.events = left.events
BY OverflowInstanceEffect DEF Fields, OpenInsts

\* KeepEffect, with the fields named.
LEMMA KeepFields ==
    ASSUME Types, NEW g, MergeGroup(g) \/ AddGroup(g)
    PROVE  /\ g \in Groups(left) /\ InstOf(g) \notin left.insts
           /\ operands' = operands /\ lim' = lim
           /\ to'.svcs = to.svcs
           /\ to'.insts = to.insts
           /\ to'.kept = to.kept \cup KeptIn(g)
           /\ to'.over = to.over
           /\ to'.est = to.est
           /\ to'.events = to.events
           /\ left'.svcs = left.svcs
           /\ left'.insts = left.insts
           /\ left'.kept = {x \in left.kept : x.g # g}
           /\ left'.over = left.over
           /\ left'.est = left.est
           /\ left'.events = left.events
BY KeepEffect DEF Fields, Without, OpenGroups

\* OverflowGroupEffect, with the fields named.
LEMMA OverflowGroupFields ==
    ASSUME Types, NEW g, OverflowGroup(g)
    PROVE  /\ g \in Groups(left) /\ InstOf(g) \notin left.insts
           /\ operands' = operands /\ lim' = lim
           /\ counters' = counters
           /\ to'.svcs = to.svcs
           /\ to'.insts = to.insts
           /\ to'.kept = to.kept
           /\ to'.over = to.over \cup OverIn(g)
           /\ to'.est = to.est
           /\ to'.events = to.events
           /\ left'.svcs = left.svcs
           /\ left'.insts = left.insts
           /\ left'.kept = {x \in left.kept : x.g # g}
           /\ left'.over = left.over
           /\ left'.est = left.est
           /\ left'.events = left.events
BY OverflowGroupEffect DEF Fields, Without, OpenGroups

\* Finish stores what was merged; ToProto leaves nothing out.
LEMMA FinishEffect ==
    ASSUME Types, Places, Finish
    PROVE  /\ Merged /\ operands' = operands \cup {to} /\ active' = FALSE
           /\ to' = Empty /\ left' = left /\ lim' = lim
           /\ counters' = [k \in Kinds |-> 0]
<1>1. Shape(to)
  BY Zenon DEF Types, Formed, Holders
<1>2. to.est = {} => {x \in to.over : x.at # All} = to.over
  BY Zenon DEF Places, Placed
<1>3. ToProto(to) = to
  BY <1>1, <1>2, Zenon DEF ToProto, Shape
<1> QED
  BY <1>3, Zenon DEF Finish

-----------------------------------------------------------------------------
(* Shapes and places. *)

\* Formed, for metrics given by their fields.
LEMMA FormedFields ==
    ASSUME NEW a, NEW b, NEW c, NEW d, NEW e, NEW f,
           \A x \in c : IsKept(x), \A x \in d : IsOver(x)
    PROVE  Formed(Fields(a, b, c, d, e, f))
BY Zenon DEF Formed, Shape, Fields

\* A group that keeps a share is of the service, the instance and the kind of the
\* share.
LEMMA FormedKept ==
    ASSUME NEW v, Formed(v), NEW x \in v.kept
    PROVE  /\ IsKept(x) /\ x.t \in AllShares
           /\ x.g.svc = x.t.g.svc /\ x.g.inst = x.t.g.inst /\ x.g.kind = x.t.g.kind
           /\ InstOf(x.g) = InstOf(x.t.g)
           /\ x.g.kind \in Kinds
           /\ x.g.svc # All
<1>1. IsKept(x)
  BY Zenon DEF Formed
<1>2. x.g.svc = x.t.g.svc /\ x.g.inst = x.t.g.inst /\ x.g.kind = x.t.g.kind
  BY <1>1 DEF IsKept
<1>3. x.t \in AllShares
  BY <1>1, Zenon DEF IsKept
<1>4. x.t.g.kind \in Kinds /\ x.t.g.svc # All
  BY <1>3, ShareShape, Zenon
<1> QED
  BY <1>1, <1>2, <1>3, <1>4, Zenon DEF InstOf

\* What mergeToOverflowFromSIM puts in a bucket is formed.
LEMMA OverflowedForm ==
    ASSUME NEW v, Formed(v), NEW S \in SUBSET v.kept, NEW at,
           \A x \in S : at \in {x.g.svc, All}
    PROVE  \A y \in Overflowed(S, at) : IsOver(y)
<1> SUFFICES ASSUME NEW x \in S, NEW y, y = [at |-> at, t |-> x.t, h |-> Hash(x.g, x.g.inst)]
             PROVE  IsOver(y)
  BY Zenon DEF Overflowed
<1>1. x.t \in AllShares /\ x.g.svc = x.t.g.svc
  BY FormedKept, Zenon
<1> QED
  BY <1>1, Zenon DEF IsOver

\* The target of a group differs from it in the name at most.
LEMMA TargetForm ==
    ASSUME NEW g, g = [svc |-> g.svc, inst |-> g.inst, kind |-> g.kind, key |-> g.key,
                       name |-> g.name]
    PROVE  /\ Target(g) = [svc |-> g.svc, inst |-> g.inst, kind |-> g.kind, key |-> g.key,
                           name |-> Target(g).name]
           /\ InstOf(Target(g)) = InstOf(g)
           /\ Target(g).kind = g.kind
<1>1. Target(g) = [g EXCEPT !.name = NoName] \/ Target(g) = g
  BY Zenon DEF Target
<1>2. Target(g) = [svc |-> g.svc, inst |-> g.inst, kind |-> g.kind, key |-> g.key,
                   name |-> Target(g).name]
  BY <1>1, Zenon
<1> QED
  BY <1>2 DEF InstOf

\* A group of the operand and the shares it keeps are of one service, instance and
\* kind.
LEMMA GroupForm ==
    ASSUME Types, NEW g \in Groups(left)
    PROVE  /\ g = [svc |-> g.svc, inst |-> g.inst, kind |-> g.kind, key |-> g.key,
                   name |-> g.name]
           /\ g.kind \in Kinds /\ g.svc # All
           /\ \A t \in GroupShares(g) :
                 /\ t \in AllShares /\ g.svc = t.g.svc /\ g.inst = t.g.inst
                 /\ g.kind = t.g.kind /\ g.key = t.g.key
                 /\ [g |-> g, t |-> t] \in left.kept
<1>1. PICK x \in left.kept : g = x.g
  BY Zenon DEF Groups
<1>2. Formed(left)
  BY Zenon DEF Types, Holders
<1>3. /\ g = [svc |-> g.svc, inst |-> g.inst, kind |-> g.kind, key |-> g.key, name |-> g.name]
  BY <1>1, <1>2, Zenon DEF Formed, IsKept
<1>4. g.kind \in Kinds /\ g.svc # All
  BY <1>1, <1>2, FormedKept, Zenon
<1>5. ASSUME NEW t \in GroupShares(g)
      PROVE  /\ t \in AllShares /\ g.svc = t.g.svc /\ g.inst = t.g.inst
             /\ g.kind = t.g.kind /\ g.key = t.g.key
             /\ [g |-> g, t |-> t] \in left.kept
  <2>1. PICK y \in left.kept : y.g = g /\ y.t = t
    BY Zenon DEF GroupShares
  <2>2. IsKept(y)
    BY <1>2, Zenon DEF Formed
  <2> QED
    BY <2>1, <2>2 DEF IsKept
<1> QED
  BY <1>3, <1>4, <1>5, Zenon

\* What the merge of a group puts in a group or in a bucket is formed.
LEMMA KeptInForm ==
    ASSUME Types, NEW g \in Groups(left)
    PROVE  /\ \A x \in KeptIn(g) : IsKept(x)
           /\ \A x \in OverIn(g) : IsOver(x)
<1>1. ASSUME NEW t \in GroupShares(g) PROVE IsKept([g |-> Target(g), t |-> t])
  <2>1. Target(g) = [svc |-> g.svc, inst |-> g.inst, kind |-> g.kind, key |-> g.key,
                     name |-> Target(g).name]
    BY GroupForm, TargetForm, Zenon
  <2>2. t \in AllShares /\ g.svc = t.g.svc /\ g.inst = t.g.inst /\ g.kind = t.g.kind
        /\ g.key = t.g.key
    BY GroupForm, Zenon
  <2> QED
    BY <2>1, <2>2, Zenon DEF IsKept
<1>2. ASSUME NEW t \in GroupShares(g)
      PROVE  IsOver([at |-> g.svc, t |-> t, h |-> Hash(Target(g), NoInst)])
  <2>1. t \in AllShares /\ g.svc = t.g.svc
    BY GroupForm, Zenon
  <2> QED
    BY <2>1, Zenon DEF IsOver
<1> QED
  BY <1>1, <1>2, Zenon DEF KeptIn, OverIn

\* The overflow of a service, moved to the bucket of the services, is formed.
LEMMA MovedForm ==
    ASSUME Types, NEW s
    PROVE  \A x \in Moved(s) : IsOver(x)
<1> SUFFICES ASSUME NEW y \in left.over PROVE IsOver([y EXCEPT !.at = All])
  BY Zenon DEF Moved
<1>1. IsOver(y)
  BY Zenon DEF Types, Formed, Holders
<1> QED
  BY <1>1 DEF IsOver

\* Every step of merge keeps metrics formed.
LEMMA TypesStep ==
    ASSUME Types, Places, [Next]_vars
    PROVE  Types'
<1>0. /\ \A x \in to.kept : IsKept(x)
      /\ \A x \in to.over : IsOver(x)
      /\ \A x \in left.kept : IsKept(x)
      /\ \A x \in left.over : IsOver(x)
      /\ Formed(to) /\ Formed(left)
      /\ \A v \in operands : Formed(v)
      /\ \A v \in operands : \A x \in v.kept : IsKept(x)
      /\ \A v \in operands : \A x \in v.over : IsOver(x)
  BY Zenon DEF Types, Holders, Formed
<1>1. ASSUME UNCHANGED vars PROVE Types'
  BY <1>1, Zenon DEF Types, vars, Holders, Merged
<1>2. ASSUME NEW v \in operands, NewMerger(v) \/ MergeOperand(v) PROVE Types'
  <2>1. to' = Fields(to.svcs, to.insts, to.kept, to.over \cup {x \in v.over : x.at = All},
                     to.est \cup v.est, to.events \cup v.events)
    BY <1>2, HeadEffect, Zenon
  <2>2. left' = Fields(v.svcs, v.insts, v.kept, {x \in v.over : x.at # All}, {}, {})
    BY <1>2, HeadEffect, Zenon
  <2>3. Formed(to')
    <3>1. /\ \A x \in to.kept : IsKept(x)
          /\ \A x \in to.over \cup {x \in v.over : x.at = All} : IsOver(x)
      BY <1>0, Zenon
    <3> QED
      BY <2>1, <3>1, FormedFields, Zenon
  <2>4. Formed(left')
    <3>1. /\ \A x \in v.kept : IsKept(x)
          /\ \A x \in {x \in v.over : x.at # All} : IsOver(x)
      BY <1>0, Zenon
    <3> QED
      BY <2>2, <3>1, FormedFields, Zenon
  <2>5. active' = TRUE /\ operands' = operands \ {v} /\ lim' \in LimitsSet
    BY <1>2, HeadEffect, Zenon
  <2> QED
    BY <1>0, <2>3, <2>4, <2>5, Zenon DEF Types, Holders
<1>3. ASSUME NEW s, MergeService(s) PROVE Types'
  <2>1. to' = Fields(to.svcs \cup {s}, to.insts, to.kept,
                     to.over \cup {x \in left.over : x.at = s}, to.est, to.events)
    BY <1>3, ServiceEffect, Zenon
  <2>2. left' = Fields(left.svcs \ {s}, left.insts, left.kept, {x \in left.over : x.at # s},
                       left.est, left.events)
    BY <1>3, ServiceEffect, Zenon
  <2>3. Formed(to')
    <3>1. /\ \A x \in to.kept : IsKept(x)
          /\ \A x \in to.over \cup {x \in left.over : x.at = s} : IsOver(x)
      BY <1>0, Zenon
    <3> QED
      BY <2>1, <3>1, FormedFields, Zenon
  <2>4. Formed(left')
    <3>1. /\ \A x \in left.kept : IsKept(x)
          /\ \A x \in {x \in left.over : x.at # s} : IsOver(x)
      BY <1>0, Zenon
    <3> QED
      BY <2>2, <3>1, FormedFields, Zenon
  <2>5. active' = TRUE /\ operands' = operands /\ lim' = lim
    BY <1>3, ServiceEffect, Zenon DEF Types
  <2> QED
    BY <1>0, <2>3, <2>4, <2>5, Zenon DEF Types, Holders
<1>4. ASSUME NEW s, OverflowService(s) PROVE Types'
  <2> DEFINE entries == {x \in left.kept : x.g.svc = s}
  <2>0. \A x \in Overflowed(entries, All) : IsOver(x)
    BY <1>0, OverflowedForm, Zenon
  <2>1. to' = Fields(to.svcs, to.insts, to.kept,
                     to.over \cup Moved(s) \cup Overflowed(entries, All), to.est \cup InstsOf(left, s), to.events)
    BY <1>4, OverflowServiceEffect, Zenon
  <2>2. left' = Fields(left.svcs \ {s}, left.insts \ InstsOf(left, s),
                       {x \in left.kept : x.g.svc # s}, {x \in left.over : x.at # s}, left.est, left.events)
    BY <1>4, OverflowServiceEffect, Zenon
  <2>3. Formed(to')
    <3>1. /\ \A x \in to.kept : IsKept(x)
          /\ \A x \in to.over \cup Moved(s) \cup Overflowed(entries, All) : IsOver(x)
      BY <1>0, <2>0, MovedForm, Zenon
    <3> QED
      BY <2>1, <3>1, FormedFields, Zenon
  <2>4. Formed(left')
    <3>1. /\ \A x \in {x \in left.kept : x.g.svc # s} : IsKept(x)
          /\ \A x \in {x \in left.over : x.at # s} : IsOver(x)
      BY <1>0, Zenon
    <3> QED
      BY <2>2, <3>1, FormedFields, Zenon
  <2>5. active' = TRUE /\ operands' = operands /\ lim' = lim
    BY <1>4, OverflowServiceEffect, Zenon DEF Types
  <2> QED
    BY <1>0, <2>3, <2>4, <2>5, Zenon DEF Types, Holders
<1>5. ASSUME NEW i, MergeInstance(i) PROVE Types'
  <2>1. to' = Fields(to.svcs, to.insts \cup {i}, to.kept, to.over, to.est, to.events)
    BY <1>5, InstanceEffect, Zenon
  <2>2. left' = Fields(left.svcs, left.insts \ {i}, left.kept, left.over, left.est, left.events)
    BY <1>5, InstanceEffect, Zenon
  <2>3. Formed(to')
    <3>1. /\ \A x \in to.kept : IsKept(x)
          /\ \A x \in to.over : IsOver(x)
      BY <1>0, Zenon
    <3> QED
      BY <2>1, <3>1, FormedFields, Zenon
  <2>4. Formed(left')
    <3>1. /\ \A x \in left.kept : IsKept(x)
          /\ \A x \in left.over : IsOver(x)
      BY <1>0, Zenon
    <3> QED
      BY <2>2, <3>1, FormedFields, Zenon
  <2>5. active' = TRUE /\ operands' = operands /\ lim' = lim
    BY <1>5, InstanceEffect, Zenon DEF Types
  <2> QED
    BY <1>0, <2>3, <2>4, <2>5, Zenon DEF Types, Holders
<1>6. ASSUME NEW i, OverflowInstance(i) PROVE Types'
  <2> DEFINE entries == {x \in left.kept : InstOf(x.g) = i}
  <2>0. \A x \in Overflowed(entries, i.svc) : IsOver(x)
    <3>1. \A x \in entries : i.svc = x.g.svc
      BY DEF InstOf
    <3> QED
      BY <1>0, <3>1, OverflowedForm, Zenon
  <2>1. to' = Fields(to.svcs, to.insts, to.kept, to.over \cup Overflowed(entries, i.svc),
                     to.est \cup {i}, to.events)
    BY <1>6, OverflowInstanceEffect, Zenon
  <2>2. left' = Fields(left.svcs, left.insts \ {i}, {x \in left.kept : InstOf(x.g) # i},
                       left.over, left.est, left.events)
    BY <1>6, OverflowInstanceEffect, Zenon
  <2>3. Formed(to')
    <3>1. /\ \A x \in to.kept : IsKept(x)
          /\ \A x \in to.over \cup Overflowed(entries, i.svc) : IsOver(x)
      BY <1>0, <2>0, Zenon
    <3> QED
      BY <2>1, <3>1, FormedFields, Zenon
  <2>4. Formed(left')
    <3>1. /\ \A x \in {x \in left.kept : InstOf(x.g) # i} : IsKept(x)
          /\ \A x \in left.over : IsOver(x)
      BY <1>0, Zenon
    <3> QED
      BY <2>2, <3>1, FormedFields, Zenon
  <2>5. active' = TRUE /\ operands' = operands /\ lim' = lim
    BY <1>6, OverflowInstanceEffect, Zenon DEF Types
  <2> QED
    BY <1>0, <2>3, <2>4, <2>5, Zenon DEF Types, Holders
<1>7. ASSUME NEW g, MergeGroup(g) \/ AddGroup(g) PROVE Types'
  <2>0. g \in Groups(left)
    BY <1>7, Zenon DEF MergeGroup, AddGroup, OpenGroups
  <2>1. to' = Fields(to.svcs, to.insts, to.kept \cup KeptIn(g), to.over, to.est, to.events)
    BY <1>7, KeepEffect, Zenon DEF Without
  <2>2. left' = Fields(left.svcs, left.insts, {x \in left.kept : x.g # g}, left.over,
                       left.est, left.events)
    BY <1>7, KeepEffect, Zenon DEF Without
  <2>3. Formed(to')
    <3>1. /\ \A x \in to.kept \cup KeptIn(g) : IsKept(x)
          /\ \A x \in to.over : IsOver(x)
      BY <1>0, <2>0, KeptInForm, Zenon
    <3> QED
      BY <2>1, <3>1, FormedFields, Zenon
  <2>4. Formed(left')
    <3>1. /\ \A x \in {x \in left.kept : x.g # g} : IsKept(x)
          /\ \A x \in left.over : IsOver(x)
      BY <1>0, Zenon
    <3> QED
      BY <2>2, <3>1, FormedFields, Zenon
  <2>5. active' = TRUE /\ operands' = operands /\ lim' = lim
    BY <1>7, KeepEffect, Zenon DEF Types
  <2> QED
    BY <1>0, <2>3, <2>4, <2>5, Zenon DEF Types, Holders
<1>8. ASSUME NEW g, OverflowGroup(g) PROVE Types'
  <2>0. g \in Groups(left)
    BY <1>8, Zenon DEF OverflowGroup, OpenGroups
  <2>1. to' = Fields(to.svcs, to.insts, to.kept, to.over \cup OverIn(g), to.est, to.events)
    BY <1>8, OverflowGroupEffect, Zenon DEF Without
  <2>2. left' = Fields(left.svcs, left.insts, {x \in left.kept : x.g # g}, left.over,
                       left.est, left.events)
    BY <1>8, OverflowGroupEffect, Zenon DEF Without
  <2>3. Formed(to')
    <3>1. /\ \A x \in to.kept : IsKept(x)
          /\ \A x \in to.over \cup OverIn(g) : IsOver(x)
      BY <1>0, <2>0, KeptInForm, Zenon
    <3> QED
      BY <2>1, <3>1, FormedFields, Zenon
  <2>4. Formed(left')
    <3>1. /\ \A x \in {x \in left.kept : x.g # g} : IsKept(x)
          /\ \A x \in left.over : IsOver(x)
      BY <1>0, Zenon
    <3> QED
      BY <2>2, <3>1, FormedFields, Zenon
  <2>5. active' = TRUE /\ operands' = operands /\ lim' = lim
    BY <1>8, OverflowGroupEffect, Zenon DEF Types
  <2> QED
    BY <1>0, <2>3, <2>4, <2>5, Zenon DEF Types, Holders
<1>9. ASSUME Finish PROVE Types'
  <2>1. Formed(Empty)
    BY Zenon DEF Formed, Empty, Shape
  <2> QED
    BY <1>0, <1>9, <2>1, FinishEffect, Zenon DEF Types, Holders, Merged
<1> QED
  BY <1>1, <1>2, <1>3, <1>4, <1>5, <1>6, <1>7, <1>8, <1>9, Zenon DEF Next

\* Every step of merge keeps the instances of all shares known: a service, an instance
\* or a group that overflows goes where the estimator has its instances.
LEMMA PlacesStep ==
    ASSUME Types, Places, [Next]_vars
    PROVE  Places'
<1>0. Formed(to) /\ Formed(left) /\ \A v \in operands : Formed(v)
  BY Zenon DEF Types, Holders
<1>1. ASSUME UNCHANGED vars PROVE Places'
  BY <1>1, Zenon DEF Places, Placed, LeftPlaced, vars
<1>2. ASSUME NEW v \in operands, NewMerger(v) \/ MergeOperand(v) PROVE Places'
  <2>0. /\ Merged /\ operands' = operands \ {v}
        /\ to' = Fields(to.svcs, to.insts, to.kept, to.over \cup {x \in v.over : x.at = All},
                        to.est \cup v.est, to.events \cup v.events)
        /\ left' = Fields(v.svcs, v.insts, v.kept, {x \in v.over : x.at # All}, {}, {})
    BY <1>2, HeadEffect, Zenon
  <2>1. /\ Merged /\ operands' = operands \ {v}
        /\ to'.svcs = to.svcs /\ to'.insts = to.insts /\ to'.kept = to.kept
        /\ to'.over = to.over \cup {x \in v.over : x.at = All}
        /\ to'.est = to.est \cup v.est /\ to'.events = to.events \cup v.events
        /\ left'.svcs = v.svcs /\ left'.insts = v.insts /\ left'.kept = v.kept
        /\ left'.over = {x \in v.over : x.at # All}
        /\ left'.est = {} /\ left'.events = {}
    BY <2>0, Zenon DEF Fields
  <2>2. Placed(v, {}) /\ Placed(to, left.insts) /\ left.insts = {}
    BY <2>1, Zenon DEF Places, Merged
  <2>3. Placed(to, left.insts)'
    BY <2>1, <2>2, Zenon DEF Placed
  <2>4. LeftPlaced'
    BY <2>1, <2>2, Zenon DEF Placed, LeftPlaced
  <2> QED
    BY <2>1, <2>3, <2>4, Zenon DEF Places, Placed
<1>3. ASSUME NEW s, MergeService(s) PROVE Places'
  <2>1. /\ s \in left.svcs /\ operands' = operands
        /\ to'.svcs = to.svcs \cup {s} /\ to'.insts = to.insts /\ to'.kept = to.kept
        /\ to'.over = to.over \cup {x \in left.over : x.at = s}
        /\ to'.est = to.est /\ to'.events = to.events
        /\ left'.svcs = left.svcs \ {s} /\ left'.insts = left.insts /\ left'.kept = left.kept
        /\ left'.over = {x \in left.over : x.at # s}
        /\ left'.est = left.est /\ left'.events = left.events
    BY <1>3, ServiceFields, Zenon
  <2>2. Placed(to, left.insts) /\ LeftPlaced
    BY Zenon DEF Places
  <2>3. Placed(to, left.insts)'
    BY <2>1, <2>2, Zenon DEF Placed, LeftPlaced
  <2>4. LeftPlaced'
    BY <2>1, <2>2, Zenon DEF LeftPlaced
  <2> QED
    BY <2>1, <2>3, <2>4, Zenon DEF Places, Placed
<1>4. ASSUME NEW s, OverflowService(s) PROVE Places'
  <2> DEFINE entries == {x \in left.kept : x.g.svc = s}
  <2>1. /\ s \in left.svcs /\ operands' = operands /\ s \notin to.svcs
        /\ to'.svcs = to.svcs /\ to'.insts = to.insts /\ to'.kept = to.kept
        /\ to'.over = to.over \cup Moved(s) \cup Overflowed(entries, All)
        /\ to'.est = to.est \cup InstsOf(left, s) /\ to'.events = to.events
        /\ left'.svcs = left.svcs \ {s} /\ left'.insts = left.insts \ InstsOf(left, s)
        /\ left'.kept = {x \in left.kept : x.g.svc # s}
        /\ left'.over = {x \in left.over : x.at # s}
        /\ left'.est = left.est /\ left'.events = left.events
    BY <1>4, OverflowServiceFields DEF ServiceOverflows
  <2>2. Placed(to, left.insts) /\ LeftPlaced
    BY Zenon DEF Places
  <2>3. \A x \in Moved(s) : x.at = All /\ InstOf(x.t.g) \in to'.est
    <3> SUFFICES ASSUME NEW y \in left.over, y.at = s
                 PROVE  LET x == [y EXCEPT !.at = All]
                        IN  x.at = All /\ InstOf(x.t.g) \in to'.est
      BY Zenon DEF Moved
    <3>1. IsOver(y)
      BY <1>0, Zenon DEF Formed
    <3>2. [y EXCEPT !.at = All].at = All /\ [y EXCEPT !.at = All].t = y.t
      BY <3>1, Zenon DEF IsOver
    <3>3. y.t.g.svc = s
      BY <2>2, <3>1, Zenon DEF IsOver, LeftPlaced
    <3>4. InstOf(y.t.g).svc = s
      BY <3>3, Zenon DEF InstOf
    <3>5. InstOf(y.t.g) \in to.est \cup left.insts
      BY <2>2, Zenon DEF LeftPlaced
    <3> QED
      BY <2>1, <3>2, <3>4, <3>5, Zenon DEF InstsOf
  <2>4. \A x \in Overflowed(entries, All) : x.at = All /\ InstOf(x.t.g) \in to'.est
    <3> SUFFICES ASSUME NEW y \in left.kept, y.g.svc = s
                 PROVE  InstOf(y.t.g) \in to'.est
      BY DEF Overflowed
    <3>1. InstOf(y.t.g).svc = s
      BY <1>0, FormedKept, Zenon DEF InstOf
    <3>2. InstOf(y.t.g) \in left.insts \cup to.insts
      BY <2>2, Zenon DEF LeftPlaced
    <3> QED
      BY <2>1, <2>2, <3>1, <3>2, Zenon DEF InstsOf, Placed
  <2>5. Placed(to, left.insts)'
    BY <2>1, <2>2, <2>3, <2>4, Zenon DEF Placed, InstsOf
  <2>6. LeftPlaced'
    <3>1. \A i \in left'.insts : i.svc \in left'.svcs \cup to'.svcs
      BY <2>1, <2>2, Zenon DEF LeftPlaced, InstsOf
    <3>2. \A x \in left'.kept : InstOf(x.t.g) \in left'.insts \cup to'.insts
      <4> SUFFICES ASSUME NEW x \in left.kept, x.g.svc # s
                   PROVE  InstOf(x.t.g) \in left'.insts \cup to'.insts
        BY <2>1, Zenon
      <4>1. InstOf(x.t.g).svc # s
        BY <1>0, FormedKept, Zenon DEF InstOf
      <4> QED
        BY <2>1, <2>2, <4>1, Zenon DEF LeftPlaced, InstsOf
    <3> QED
      BY <2>1, <2>2, <3>1, <3>2, Zenon DEF LeftPlaced, InstsOf
  <2> QED
    BY <2>1, <2>5, <2>6, Zenon DEF Places, Placed
<1>5. ASSUME NEW i, MergeInstance(i) PROVE Places'
  <2>1. /\ i \in left.insts /\ i.svc \notin left.svcs /\ operands' = operands
        /\ to'.svcs = to.svcs /\ to'.insts = to.insts \cup {i} /\ to'.kept = to.kept
        /\ to'.over = to.over /\ to'.est = to.est /\ to'.events = to.events
        /\ left'.svcs = left.svcs /\ left'.insts = left.insts \ {i} /\ left'.kept = left.kept
        /\ left'.over = left.over /\ left'.est = left.est /\ left'.events = left.events
    BY <1>5, InstanceFields, Zenon
  <2>2. Placed(to, left.insts) /\ LeftPlaced
    BY Zenon DEF Places
  <2>3. Placed(to, left.insts)'
    BY <2>1, <2>2, Zenon DEF Placed, LeftPlaced
  <2>4. \A x \in left.over : InstOf(x.t.g) # i
    BY <1>0, <2>1, <2>2 DEF LeftPlaced, Formed, IsOver, InstOf
  <2>5. LeftPlaced'
    BY <2>1, <2>2, <2>4, Zenon DEF LeftPlaced
  <2> QED
    BY <2>1, <2>3, <2>5, Zenon DEF Places, Placed
<1>6. ASSUME NEW i, OverflowInstance(i) PROVE Places'
  <2> DEFINE entries == {x \in left.kept : InstOf(x.g) = i}
  <2>1. /\ i \in left.insts /\ i.svc \notin left.svcs /\ operands' = operands
        /\ to'.svcs = to.svcs /\ to'.insts = to.insts /\ to'.kept = to.kept
        /\ to'.over = to.over \cup Overflowed(entries, i.svc)
        /\ to'.est = to.est \cup {i} /\ to'.events = to.events
        /\ left'.svcs = left.svcs /\ left'.insts = left.insts \ {i}
        /\ left'.kept = {x \in left.kept : InstOf(x.g) # i}
        /\ left'.over = left.over /\ left'.est = left.est /\ left'.events = left.events
    BY <1>6, OverflowInstanceFields, Zenon
  <2>2. Placed(to, left.insts) /\ LeftPlaced
    BY Zenon DEF Places
  <2>3. \A x \in Overflowed(entries, i.svc) : x.at = i.svc /\ InstOf(x.t.g) = i
    BY <1>0, FormedKept DEF Overflowed
  <2>4. i.svc \in to.svcs
    BY <2>1, <2>2, Zenon DEF LeftPlaced
  <2>5. Placed(to, left.insts)'
    BY <2>1, <2>2, <2>3, <2>4, Zenon DEF Placed
  <2>6. \A x \in left.over : InstOf(x.t.g) # i
    BY <1>0, <2>1, <2>2 DEF LeftPlaced, Formed, IsOver, InstOf
  <2>7. \A x \in left.kept : InstOf(x.g) = InstOf(x.t.g)
    BY <1>0, FormedKept, Zenon
  <2>8. LeftPlaced'
    BY <2>1, <2>2, <2>6, <2>7, Zenon DEF LeftPlaced
  <2> QED
    BY <2>1, <2>5, <2>8, Zenon DEF Places, Placed
<1>7. ASSUME NEW g, MergeGroup(g) \/ AddGroup(g) \/ OverflowGroup(g) PROVE Places'
  <2>1. /\ g \in Groups(left) /\ InstOf(g) \notin left.insts /\ operands' = operands
        /\ to'.svcs = to.svcs /\ to'.insts = to.insts
        /\ to'.est = to.est /\ to'.events = to.events
        /\ \/ to'.kept = to.kept \cup KeptIn(g) /\ to'.over = to.over
           \/ to'.kept = to.kept /\ to'.over = to.over \cup OverIn(g)
        /\ left'.svcs = left.svcs /\ left'.insts = left.insts
        /\ left'.kept = {x \in left.kept : x.g # g}
        /\ left'.over = left.over /\ left'.est = left.est /\ left'.events = left.events
    <3>1. CASE MergeGroup(g) \/ AddGroup(g)
      BY <3>1, KeepFields, Zenon
    <3>2. CASE OverflowGroup(g)
      BY <3>2, OverflowGroupFields, Zenon
    <3> QED
      BY <1>7, <3>1, <3>2, Zenon
  <2>2. Placed(to, left.insts) /\ LeftPlaced
    BY Zenon DEF Places
  <2>3. \A t \in GroupShares(g) : InstOf(t.g) = InstOf(g)
    BY <2>1, GroupForm, Zenon DEF InstOf
  <2>4. InstOf(g) \in to.insts
    <3>1. PICK x \in left.kept : x.g = g
      BY <2>1, Zenon DEF Groups
    <3>2. InstOf(g) = InstOf(x.t.g)
      BY <1>0, <3>1, FormedKept, Zenon
    <3> QED
      BY <2>1, <2>2, <3>2, Zenon DEF LeftPlaced
  <2>5. g.svc \in to.svcs /\ g.svc # All
    <3>1. InstOf(g).svc = g.svc
      BY Zenon DEF InstOf
    <3> QED
      BY <2>1, <2>2, <2>4, <3>1, GroupForm, Zenon DEF Placed
  <2>6. \A x \in KeptIn(g) : InstOf(x.t.g) \in to.insts
    BY <2>3, <2>4 DEF KeptIn
  <2>7. \A x \in OverIn(g) : x.at = g.svc /\ InstOf(x.t.g) \in to.insts
    BY <2>3, <2>4 DEF OverIn
  <2>8. Placed(to, left.insts)'
    BY <2>1, <2>2, <2>5, <2>6, <2>7, Zenon DEF Placed
  <2>9. LeftPlaced'
    BY <2>1, <2>2, Zenon DEF LeftPlaced
  <2> QED
    BY <2>1, <2>8, <2>9, Zenon DEF Places, Placed
<1>8. ASSUME Finish PROVE Places'
  <2>1. /\ Merged /\ operands' = operands \cup {to} /\ to' = Empty /\ left' = left
    BY <1>8, FinishEffect, Zenon
  <2>2. left.insts = {} /\ Placed(to, {}) /\ LeftPlaced
    BY <2>1, Zenon DEF Places, Merged
  <2>3. Placed(to, left.insts)'
    BY <2>1, Zenon DEF Placed, Empty
  <2>4. LeftPlaced'
    BY <2>1, <2>2, Zenon DEF LeftPlaced, Merged, Empty
  <2>5. \A v \in operands' : Placed(v, {})
    BY <2>1, <2>2, Zenon DEF Places
  <2> QED
    BY <2>3, <2>4, <2>5, Zenon DEF Places, Placed
<1> QED
  BY <1>1, <1>2, <1>3, <1>4, <1>5, <1>6, <1>7, <1>8, Zenon DEF Next

\* EventToCombinedMetrics places what it builds.
LEMMA PlacesInit ==
    ASSUME Init
    PROVE  Types /\ Places
<1>1. ASSUME NEW e \in Inputs PROVE Formed(EventMetrics(e)) /\ Placed(EventMetrics(e), {})
  <2> DEFINE kept == {[g |-> g, t |-> [ev |-> e.ev, g |-> g]] : g \in e.groups}
  <2>1. EventMetrics(e) = Fields({e.svc}, {InstIn(e)}, kept, {}, {}, {e.ev})
    BY Zenon DEF EventMetrics, Fields, InstIn
  <2>2. ASSUME NEW g \in e.groups
        PROVE  LET x == [g |-> g, t |-> [ev |-> e.ev, g |-> g]]
               IN  IsKept(x) /\ InstOf(x.t.g) = InstIn(e)
    <3>1. [ev |-> e.ev, g |-> g] \in AllShares
      BY DEF AllShares
    <3>2. g = [svc |-> e.svc, inst |-> e.inst, kind |-> g.kind, key |-> g.key, name |-> g.name]
      BY InputsAssumption, Zenon
    <3> QED
      BY <3>1, <3>2 DEF IsKept, InstOf, InstIn
  <2>3. \A x \in kept : IsKept(x) /\ InstOf(x.t.g) = InstIn(e)
    BY <2>2, Zenon
  <2>4. Formed(EventMetrics(e))
    BY <2>1, <2>3, FormedFields
  <2>5. \A d \in Inputs : d.ev = e.ev => d = e
    BY InputsAssumption, Zenon
  <2>6. Placed(EventMetrics(e), {})
    BY <2>1, <2>3, <2>5 DEF Placed, Fields, InstIn
  <2> QED
    BY <2>4, <2>6, Zenon
<1>2. Formed(Empty)
  BY Zenon DEF Formed, Empty, Shape
<1>3. Types
  BY <1>1, <1>2, Zenon DEF Init, Types, Holders, Merged, Empty
<1>4. Placed(to, left.insts) /\ LeftPlaced
  BY Zenon DEF Init, Placed, LeftPlaced, Empty
<1> QED
  BY <1>1, <1>3, <1>4, Zenon DEF Init, Places

\* In every state of every merge, metrics are formed and the instance of each share is
\* a stored instance or one that was inserted into the estimator. That is the invariant
\* behind the results on ToProto and on CombinedMetricsToBatch.
THEOREM SpecPlaces == Spec => [](Types /\ Places)
<1>1. Init => Types /\ Places
  BY PlacesInit, Zenon
<1>2. Types /\ Places /\ [Next]_vars => (Types /\ Places)'
  BY TypesStep, PlacesStep, Zenon
<1> QED
  BY <1>1, <1>2, PTL DEF Spec

\* The instances of the shares in overflow buckets are in the estimator or stored, for
\* metrics that no merge is in the middle of: mergeToOverflowFromSIM, getServiceMetrics
\* and getServiceInstanceMetrics insert what they turn away, however the operands are
\* grouped.
THEOREM SpecInstancesEstimated == Spec => []InstancesEstimated
<1>1. Types /\ Places => InstancesEstimated
  <2> SUFFICES ASSUME Types, Places, NEW v \in AtRest, NEW x \in v.over
               PROVE  \/ InstOf(x.t.g) \in v.est
                      \/ x.at # All /\ InstOf(x.t.g) \in v.insts
    BY Zenon DEF InstancesEstimated
  <2>1. Placed(v, {})
    BY Zenon DEF AtRest, Places, Merged
  <2> QED
    BY <2>1, Zenon DEF Placed
<1> QED
  BY <1>1, SpecPlaces, PTL

\* CombinedMetricsToBatch publishes a service summary for every instance an event came
\* from, or counts it in the estimate of the summary of the overflow.
THEOREM SpecSummarised == Spec => []Summarised
<1>1. Places => Summarised
  <2> SUFFICES ASSUME Places, NEW v \in operands, v.svcs # {}, NEW e \in Inputs,
                      e.ev \in v.events
               PROVE  \/ Event("summary", e.svc, InstIn(e), {}) \in Batch(v)
                      \/ InstIn(e) \in v.est /\ Event("summary", All, NoName, {}) \in Batch(v)
    BY Zenon DEF Summarised, InstIn
  <2>1. InstIn(e) \in v.insts \cup v.est
    BY Zenon DEF Places, Placed
  <2>2. CASE InstIn(e) \in v.insts
    <3>1. InstIn(e).svc = e.svc
      BY Zenon DEF InstIn
    <3>2. Event("summary", e.svc, InstIn(e), {}) \in SummaryEvents(v)
      BY <2>2, <3>1, Zenon DEF SummaryEvents
    <3> QED
      BY <3>2, Zenon DEF Batch
  <2>3. CASE InstIn(e) \in v.est
    <3>1. Event("summary", All, NoName, {}) \in OtherEvents(v)
      BY <2>3, Zenon DEF OtherEvents
    <3> QED
      BY <2>3, <3>1, Zenon DEF Batch
  <2> QED
    BY <2>1, <2>2, <2>3, Zenon
<1> QED
  BY <1>1, SpecPlaces, PTL

-----------------------------------------------------------------------------

Items(v) == v.kept \cup v.over

\* The shares of metrics are those of the entries of their groups and buckets.
LEMMA SharesItems ==
    ASSUME NEW v
    PROVE  Shares(v) = {x.t : x \in Items(v)}
BY Zenon DEF Shares, Items

\* An entry of a group is not an entry of a bucket.
LEMMA KeptNotOver ==
    ASSUME NEW x, IsKept(x), IsOver(x)
    PROVE  FALSE
<1>1. DOMAIN x = {"g", "t"}
  BY Zenon DEF IsKept
<1>2. DOMAIN x = {"at", "t", "h"}
  BY Zenon DEF IsOver
<1> QED
  BY <1>1, <1>2

\* mergeToOverflowFromSIM puts every share in the bucket.
LEMMA OverflowedShares ==
    ASSUME NEW S, NEW at
    PROVE  \A y \in S : \E x \in Overflowed(S, at) : x.t = y.t
<1> TAKE y \in S
<1>1. [at |-> at, t |-> y.t, h |-> Hash(y.g, y.g.inst)] \in Overflowed(S, at)
  BY Zenon DEF Overflowed
<1> QED
  BY <1>1, Zenon

\* The items in R of what is left become those in N, of the same shares.
Transfer(R, N) ==
    /\ R \subseteq Items(left)
    /\ Items(to') = Items(to) \cup N
    /\ Items(left') = Items(left) \ R
    /\ \A x \in N : \E y \in R : x.t = y.t
    /\ \A y \in R : \E x \in N : x.t = y.t
    /\ \A x, y \in N : x.t = y.t => x = y

\* A step of merge that hands entries over, share by share, loses none and doubles
\* none.
LEMMA TransferShares ==
    ASSUME Once, NEW R, NEW N, Transfer(R, N)
    PROVE  /\ Unique(to') /\ Unique(left')
           /\ Shares(to') \cap Shares(left') = {}
           /\ Shares(to') \cup Shares(left') = Shares(to) \cup Shares(left)
<1>0. /\ \A x, y \in Items(to) : x.t = y.t => x = y
      /\ \A x, y \in Items(left) : x.t = y.t => x = y
      /\ \A x \in Items(to), y \in Items(left) : x.t # y.t
  <2>1. Unique(to) /\ Unique(left) /\ Shares(to) \cap Shares(left) = {}
    BY Zenon DEF Once, Holders
  <2>2. \A x \in Items(to), y \in Items(left) : x.t # y.t
    BY <2>1, SharesItems, Zenon
  <2> QED
    BY <2>1, <2>2, Zenon DEF Unique, Items
<1>1. Unique(left')
  BY <1>0, Zenon DEF Unique, Transfer, Items
<1>2. \A x \in N : \E y \in R : x.t = y.t
  BY Zenon DEF Transfer
<1>3. \A y \in R : \E x \in N : x.t = y.t
  BY Zenon DEF Transfer
<1>4. \A x, y \in Items(to') : x.t = y.t => x = y
  BY <1>0, <1>2 DEF Transfer
<1>5. Unique(to')
  BY <1>4, Zenon DEF Unique, Items
<1>6. \A x \in Items(to'), y \in Items(left') : x.t # y.t
  <2> SUFFICES ASSUME NEW x \in Items(to) \cup N, NEW y \in Items(left), y \notin R, x.t = y.t
               PROVE  FALSE
    BY Zenon DEF Transfer
  <2>1. x \in N
    BY <1>0, Zenon
  <2>2. PICK z \in R : z.t = x.t
    BY <1>2, <2>1, Zenon
  <2> QED
    BY <1>0, <2>2, Zenon DEF Transfer
<1>7. Shares(to') \cap Shares(left') = {}
  BY <1>6, SharesItems, Zenon
<1>8. \A t : (\E x \in Items(to') \cup Items(left') : x.t = t)
                <=> (\E x \in Items(to) \cup Items(left) : x.t = t)
  <2> TAKE t
  <2>1. ASSUME NEW x \in Items(to') \cup Items(left'), x.t = t
        PROVE  \E y \in Items(to) \cup Items(left) : y.t = t
    BY <1>2, <2>1, Zenon DEF Transfer
  <2>2. ASSUME NEW x \in Items(to) \cup Items(left), x.t = t
        PROVE  \E y \in Items(to') \cup Items(left') : y.t = t
    <3>1. CASE x \in R
      BY <1>3, <2>2, <3>1, Zenon DEF Transfer
    <3>2. CASE x \notin R
      BY <2>2, <3>2, Zenon DEF Transfer
    <3> QED
      BY <3>1, <3>2, Zenon
  <2> QED
    BY <2>1, <2>2, Zenon
<1>9. Shares(to') \cup Shares(left') = Shares(to) \cup Shares(left)
  BY <1>8, SharesItems, Zenon
<1> QED
  BY <1>1, <1>5, <1>7, <1>9, Zenon

\* Every step of a loop of merge transfers items.
LEMMA LoopTransfers ==
    ASSUME Types, Places, Once,
           \/ \E s \in left.svcs : MergeService(s) \/ OverflowService(s)
           \/ \E i \in left.insts : MergeInstance(i) \/ OverflowInstance(i)
           \/ \E g \in Groups(left) : MergeGroup(g) \/ AddGroup(g) \/ OverflowGroup(g)
    PROVE  /\ operands' = operands
           /\ to'.events = to.events /\ left'.events = left.events
           /\ \E R, N : Transfer(R, N)
<1> DEFINE Goal == /\ operands' = operands
                   /\ to'.events = to.events /\ left'.events = left.events
                   /\ \E R, N : Transfer(R, N)
<1>0. /\ Formed(left) /\ Unique(left)
      /\ \A x \in left.kept : IsKept(x) /\ x \notin left.over
      /\ \A x \in left.over : IsOver(x) /\ x \notin left.kept
      /\ \A x, y \in Items(left) : x.t = y.t => x = y
  BY KeptNotOver, Zenon DEF Types, Holders, Formed, Once, Unique, Items
<1>1. ASSUME NEW s, MergeService(s) PROVE Goal
  <2> DEFINE own == {x \in left.over : x.at = s}
  <2>1. /\ operands' = operands
        /\ to'.kept = to.kept /\ to'.over = to.over \cup own
        /\ left'.kept = left.kept /\ left'.over = {x \in left.over : x.at # s}
        /\ to'.events = to.events /\ left'.events = left.events
    BY <1>1, ServiceFields, Zenon
  <2>2. Items(left') = Items(left) \ own
    BY <1>0, <2>1, Zenon DEF Items
  <2>3. Transfer(own, own)
    BY <1>0, <2>1, <2>2, Zenon DEF Transfer, Items
  <2> QED
    BY <2>1, <2>3, Zenon
<1>2. ASSUME NEW s, OverflowService(s) PROVE Goal
  <2> DEFINE own == {x \in left.over : x.at = s}
             entries == {x \in left.kept : x.g.svc = s}
             R == own \cup entries
             N == Moved(s) \cup Overflowed(entries, All)
  <2>1. /\ operands' = operands
        /\ to'.kept = to.kept /\ to'.over = to.over \cup Moved(s) \cup Overflowed(entries, All)
        /\ left'.kept = {x \in left.kept : x.g.svc # s}
        /\ left'.over = {x \in left.over : x.at # s}
        /\ to'.events = to.events /\ left'.events = left.events
    BY <1>2, OverflowServiceFields
  <2>2. Items(left') = Items(left) \ R
    BY <1>0, <2>1, Zenon DEF Items
  <2>3. \A y \in own : [y EXCEPT !.at = All].t = y.t
    BY <1>0 DEF IsOver
  <2>4. \A x \in Moved(s) : \E y \in own : x = [y EXCEPT !.at = All] /\ x.t = y.t
    BY <2>3, Zenon DEF Moved
  <2>5. \A y \in own : \E x \in Moved(s) : x.t = y.t
    BY <2>3, Zenon DEF Moved
  <2>6. \A x \in Overflowed(entries, All) : \E y \in entries :
           x = [at |-> All, t |-> y.t, h |-> Hash(y.g, y.g.inst)] /\ x.t = y.t
    BY DEF Overflowed
  <2>7. \A y \in entries : \E x \in Overflowed(entries, All) : x.t = y.t
    BY OverflowedShares, Zenon
  <2>8. (\A x \in N : \E y \in R : x.t = y.t) /\ (\A y \in R : \E x \in N : x.t = y.t)
    BY <2>4, <2>5, <2>6, <2>7, Zenon
  <2>9. \A y \in own, z \in entries : y.t # z.t
    BY <1>0, Zenon DEF Items
  <2>10. \A x, y \in N : x.t = y.t => x = y
    BY <1>0, <2>4, <2>6, <2>9 DEF Items
  <2>11. Transfer(R, N)
    BY <2>1, <2>2, <2>8, <2>10, Zenon DEF Transfer, Items
  <2> QED
    BY <2>1, <2>11, Zenon
<1>3. ASSUME NEW i, MergeInstance(i) PROVE Goal
  <2>1. /\ operands' = operands
        /\ to'.kept = to.kept /\ to'.over = to.over
        /\ left'.kept = left.kept /\ left'.over = left.over
        /\ to'.events = to.events /\ left'.events = left.events
    BY <1>3, InstanceFields, Zenon
  <2>2. Transfer({}, {})
    BY <2>1, Zenon DEF Transfer, Items
  <2> QED
    BY <2>1, <2>2, Zenon
<1>4. ASSUME NEW i, OverflowInstance(i) PROVE Goal
  <2> DEFINE entries == {x \in left.kept : InstOf(x.g) = i}
             N == Overflowed(entries, i.svc)
  <2>1. /\ operands' = operands
        /\ to'.kept = to.kept /\ to'.over = to.over \cup N
        /\ left'.kept = {x \in left.kept : InstOf(x.g) # i} /\ left'.over = left.over
        /\ to'.events = to.events /\ left'.events = left.events
    BY <1>4, OverflowInstanceFields, Zenon
  <2>2. Items(left') = Items(left) \ entries
    BY <1>0, <2>1, Zenon DEF Items
  <2>3. \A y \in entries : \E x \in N : x.t = y.t
    BY OverflowedShares, Zenon
  <2>4. \A x \in N : \E y \in entries :
           x = [at |-> i.svc, t |-> y.t, h |-> Hash(y.g, y.g.inst)] /\ x.t = y.t
    BY DEF Overflowed
  <2>5. \A x, y \in N : x.t = y.t => x = y
    BY <1>0, <2>4 DEF Items
  <2>6. Transfer(entries, N)
    BY <2>1, <2>2, <2>3, <2>4, <2>5, Zenon DEF Transfer, Items
  <2> QED
    BY <2>1, <2>6, Zenon
<1>5. ASSUME NEW g \in Groups(left), MergeGroup(g) \/ AddGroup(g) \/ OverflowGroup(g) PROVE Goal
  <2> DEFINE R == {x \in left.kept : x.g = g}
  <2>0. /\ left'.kept = {x \in left.kept : x.g # g} /\ left'.over = left.over
        /\ to'.events = to.events /\ left'.events = left.events
        /\ operands' = operands
        /\ \/ to'.kept = to.kept \cup KeptIn(g) /\ to'.over = to.over
           \/ to'.kept = to.kept /\ to'.over = to.over \cup OverIn(g)
    <3>1. CASE MergeGroup(g) \/ AddGroup(g)
      BY <3>1, KeepFields, Zenon
    <3>2. CASE OverflowGroup(g)
      BY <3>2, OverflowGroupFields, Zenon
    <3> QED
      BY <1>5, <3>1, <3>2, Zenon
  <2>1. Items(left') = Items(left) \ R
    BY <1>0, <2>0, Zenon DEF Items
  <2>2. /\ \A x \in KeptIn(g) \cup OverIn(g) : \E y \in R : x.t = y.t
        /\ \A y \in R : \E x \in KeptIn(g) : x.t = y.t
        /\ \A y \in R : \E x \in OverIn(g) : x.t = y.t
    <3>1. \A y \in R : y.t \in GroupShares(g)
      BY Zenon DEF GroupShares
    <3>2. \A t \in GroupShares(g) : \E y \in R : y.t = t
      BY Zenon DEF GroupShares
    <3>3. \A t \in GroupShares(g) : /\ \E x \in KeptIn(g) : x.t = t
                                    /\ \E x \in OverIn(g) : x.t = t
      <4> TAKE t \in GroupShares(g)
      <4>1. [g |-> Target(g), t |-> t] \in KeptIn(g)
        BY Zenon DEF KeptIn
      <4>2. [at |-> g.svc, t |-> t, h |-> Hash(Target(g), NoInst)] \in OverIn(g)
        BY Zenon DEF OverIn
      <4> QED
        BY <4>1, <4>2, Zenon
    <3>4. \A x \in KeptIn(g) \cup OverIn(g) : x.t \in GroupShares(g)
      BY DEF KeptIn, OverIn
    <3> QED
      BY <3>1, <3>2, <3>3, <3>4, Zenon
  <2>3. /\ \A x, y \in KeptIn(g) : x.t = y.t => x = y
        /\ \A x, y \in OverIn(g) : x.t = y.t => x = y
    BY DEF KeptIn, OverIn
  <2>4. Items(to') = Items(to) \cup KeptIn(g) \/ Items(to') = Items(to) \cup OverIn(g)
    BY <2>0, Zenon DEF Items
  <2>5. Transfer(R, KeptIn(g)) \/ Transfer(R, OverIn(g))
    BY <2>1, <2>2, <2>3, <2>4, Zenon DEF Transfer, Items
  <2> QED
    BY <2>0, <2>5, Zenon
<1> QED
  BY <1>1, <1>2, <1>3, <1>4, <1>5, Zenon

\* An operand that is merged to the end has no shares left.
LEMMA MergedItems ==
    ASSUME Places, Merged
    PROVE  Items(left) = {} /\ Shares(left) = {}
<1>1. Items(left) = {}
  BY Zenon DEF Places, LeftPlaced, Merged, Items
<1> QED
  BY <1>1, SharesItems, Zenon

\* The head of merge takes the shares of the operand between the merger and the rest to
\* be merged.
LEMMA HeadShares ==
    ASSUME Types, Places, Once, NEW v \in operands, NewMerger(v) \/ MergeOperand(v)
    PROVE  /\ Unique(to') /\ Unique(left')
           /\ Shares(to') \cap Shares(left') = {}
           /\ Shares(to') \cup Shares(left') = Shares(to) \cup Shares(v)
<1>1. /\ Merged
      /\ to' = Fields(to.svcs, to.insts, to.kept, to.over \cup {x \in v.over : x.at = All},
                      to.est \cup v.est, to.events \cup v.events)
      /\ left' = Fields(v.svcs, v.insts, v.kept, {x \in v.over : x.at # All}, {}, {})
  BY HeadEffect, Zenon
<1>2. /\ to'.kept = to.kept /\ to'.over = to.over \cup {x \in v.over : x.at = All}
      /\ left'.kept = v.kept /\ left'.over = {x \in v.over : x.at # All}
  BY <1>1, Zenon DEF Fields
<1>3. /\ Items(to') = Items(to) \cup {x \in v.over : x.at = All}
      /\ Items(left') = v.kept \cup {x \in v.over : x.at # All}
  BY <1>2, Zenon DEF Items
<1>4. /\ \A x, y \in Items(to) : x.t = y.t => x = y
      /\ \A x, y \in Items(v) : x.t = y.t => x = y
      /\ \A x \in Items(to), y \in Items(v) : x.t # y.t
  <2>1. Unique(to) /\ Unique(v) /\ Shares(to) \cap Shares(v) = {}
    BY Zenon DEF Once, Holders
  <2>2. \A x \in Items(to), y \in Items(v) : x.t # y.t
    BY <2>1, SharesItems, Zenon
  <2> QED
    BY <2>1, <2>2, Zenon DEF Unique, Items
<1>5. \A x \in v.kept : x \notin v.over
  BY KeptNotOver, Zenon DEF Types, Formed, Holders
<1>6. Unique(to') /\ Unique(left')
  <2>1. \A x, y \in Items(to') : x.t = y.t => x = y
    BY <1>3, <1>4, Zenon DEF Items
  <2>2. \A x, y \in Items(left') : x.t = y.t => x = y
    BY <1>3, <1>4, Zenon DEF Items
  <2> QED
    BY <2>1, <2>2, Zenon DEF Unique, Items
<1>7. Shares(to') \cap Shares(left') = {}
  <2>1. \A x \in Items(to'), y \in Items(left') : x.t # y.t
    BY <1>3, <1>4, <1>5, Zenon DEF Items
  <2> QED
    BY <2>1, SharesItems, Zenon
<1>8. Shares(to') \cup Shares(left') = Shares(to) \cup Shares(v)
  <2>1. Items(to') \cup Items(left') = Items(to) \cup Items(v)
    BY <1>3, Zenon DEF Items
  <2> QED
    BY <2>1, SharesItems, Zenon
<1> QED
  BY <1>6, <1>7, <1>8, Zenon

\* Every step of merge keeps each share in one place.
LEMMA OnceStep ==
    ASSUME Types, Places, Once, [Next]_vars
    PROVE  Once'
<1>0. /\ \A v, w \in operands : v # w => Shares(v) \cap Shares(w) = {}
      /\ \A v \in operands : Shares(v) \cap (Shares(to) \cup Shares(left)) = {}
      /\ \A v \in operands : Unique(v)
      /\ Unique(to) /\ Unique(left)
  BY Zenon DEF Once, Holders
<1>1. ASSUME UNCHANGED vars PROVE Once'
  BY <1>1, Zenon DEF Once, Holders, vars, Shares, Unique
<1>2. ASSUME NEW v \in operands, NewMerger(v) \/ MergeOperand(v) PROVE Once'
  <2>1. operands' = operands \ {v} /\ Merged
    BY <1>2, HeadEffect, Zenon
  <2>2. /\ Unique(to') /\ Unique(left')
        /\ Shares(to') \cap Shares(left') = {}
        /\ Shares(to') \cup Shares(left') = Shares(to) \cup Shares(v)
    BY <1>2, HeadShares, Zenon
  <2>3. \A w \in operands' : Shares(w) \cap (Shares(to') \cup Shares(left')) = {}
    BY <1>0, <2>1, <2>2, Zenon
  <2>4. \A u, w \in operands' : u # w => Shares(u) \cap Shares(w) = {}
    BY <1>0, <2>1, Zenon
  <2>5. \A w \in operands' : Unique(w)
    BY <1>0, <2>1, Zenon
  <2> QED
    BY <2>2, <2>3, <2>4, <2>5, Zenon DEF Once, Holders, Shares, Unique
<1>3. ASSUME \/ \E s \in left.svcs : MergeService(s) \/ OverflowService(s)
             \/ \E i \in left.insts : MergeInstance(i) \/ OverflowInstance(i)
             \/ \E g \in Groups(left) : MergeGroup(g) \/ AddGroup(g) \/ OverflowGroup(g)
      PROVE  Once'
  <2>1. operands' = operands
    BY <1>3, LoopTransfers, Zenon
  <2>2. /\ Unique(to') /\ Unique(left')
        /\ Shares(to') \cap Shares(left') = {}
        /\ Shares(to') \cup Shares(left') = Shares(to) \cup Shares(left)
    BY <1>3, LoopTransfers, TransferShares, Zenon
  <2> QED
    BY <1>0, <2>1, <2>2, Zenon DEF Once, Holders, Shares, Unique
<1>4. ASSUME Finish PROVE Once'
  <2>1. Merged /\ operands' = operands \cup {to} /\ to' = Empty /\ left' = left
    BY <1>4, FinishEffect, Zenon
  <2>2. Shares(left') = {} /\ Shares(to') = {}
    BY <2>1, MergedItems, Zenon DEF Shares, Empty
  <2>3. Unique(to') /\ Unique(left')
    BY <1>0, <2>1, Zenon DEF Unique, Empty
  <2>4. \A u, w \in operands' : u # w => Shares(u) \cap Shares(w) = {}
    BY <1>0, <2>1, Zenon
  <2>5. \A w \in operands' : Unique(w)
    BY <1>0, <2>1, Zenon
  <2> QED
    BY <2>2, <2>3, <2>4, <2>5, Zenon DEF Once, Holders, Shares, Unique
<1> QED
  BY <1>1, <1>2, <1>3, <1>4, Zenon DEF Next

\* Two events have no share in common.
LEMMA OnceInit ==
    ASSUME Init
    PROVE  Once
<1>1. ASSUME NEW e \in Inputs
      PROVE  /\ Unique(EventMetrics(e))
             /\ \A t \in Shares(EventMetrics(e)) : t.ev = e.ev
  <2>1. /\ EventMetrics(e).kept = {[g |-> g, t |-> [ev |-> e.ev, g |-> g]] : g \in e.groups}
        /\ EventMetrics(e).over = {}
    BY Zenon DEF EventMetrics
  <2>2. \A x \in EventMetrics(e).kept : x = [g |-> x.g, t |-> [ev |-> e.ev, g |-> x.g]]
    BY <2>1
  <2> QED
    BY <2>1, <2>2 DEF Unique, Shares
<1>2. \A v, w \in operands : v # w => Shares(v) \cap Shares(w) = {}
  <2> SUFFICES ASSUME NEW d \in Inputs, NEW e \in Inputs, NEW t \in Shares(EventMetrics(d)),
                      t \in Shares(EventMetrics(e))
               PROVE  EventMetrics(d) = EventMetrics(e)
    BY Zenon DEF Init
  <2>1. d.ev = e.ev
    BY <1>1, Zenon
  <2> QED
    BY <2>1, InputsAssumption, Zenon
<1>3. Shares(to) = {} /\ Shares(left) = {} /\ Unique(to) /\ Unique(left)
  BY Zenon DEF Init, Shares, Unique, Empty
<1> QED
  BY <1>1, <1>2, <1>3, Zenon DEF Init, Once, Holders

\* Every step of merge keeps all the shares and all the events.
LEMMA LostStep ==
    ASSUME Types, Places, Once, NothingLost, [Next]_vars
    PROVE  NothingLost'
<1> DEFINE Had == UNION {Shares(v) : v \in operands}
           HadEv == UNION {v.events : v \in operands}
<1>0. /\ AllShares = Had \cup Shares(to) \cup Shares(left)
      /\ Events = HadEv \cup to.events \cup left.events
  BY Zenon DEF NothingLost, Holders
<1>9. SUFFICES /\ Had' \cup Shares(to') \cup Shares(left') = Had \cup Shares(to) \cup Shares(left)
               /\ HadEv' \cup to'.events \cup left'.events = HadEv \cup to.events \cup left.events
  <2>1. UNION {Shares(v) : v \in Holders}' = Had' \cup Shares(to') \cup Shares(left')
    BY Zenon DEF Holders, Shares
  <2>2. UNION {v.events : v \in Holders}' = HadEv' \cup to'.events \cup left'.events
    BY Zenon DEF Holders
  <2>3. AllShares' = AllShares /\ Events' = Events
    BY Zenon DEF AllShares, Events
  <2> QED
    BY <1>0, <1>9, <2>1, <2>2, <2>3, Zenon DEF NothingLost
<1>1. CASE UNCHANGED vars
  BY <1>1, Zenon DEF vars, Shares
<1>2. ASSUME NEW v \in operands, NewMerger(v) \/ MergeOperand(v) 
      PROVE  /\ Had' \cup Shares(to') \cup Shares(left') = Had \cup Shares(to) \cup Shares(left)
             /\ HadEv' \cup to'.events \cup left'.events = HadEv \cup to.events \cup left.events
  <2>1. /\ operands' = operands \ {v} /\ Merged
        /\ to' = Fields(to.svcs, to.insts, to.kept, to.over \cup {x \in v.over : x.at = All},
                        to.est \cup v.est, to.events \cup v.events)
        /\ left' = Fields(v.svcs, v.insts, v.kept, {x \in v.over : x.at # All}, {}, {})
    BY <1>2, HeadEffect, Zenon
  <2>2. to'.events = to.events \cup v.events /\ left'.events = {}
    BY <2>1, Zenon DEF Fields
  <2>3. Shares(left) = {} /\ left.events = {}
    BY <2>1, MergedItems, Zenon DEF Places, LeftPlaced
  <2>4. Shares(to') \cup Shares(left') = Shares(to) \cup Shares(v)
    BY <1>2, HeadShares, Zenon
  <2>5. Had = Had' \cup Shares(v) /\ HadEv = HadEv' \cup v.events
    BY <2>1, Zenon DEF Shares
  <2> QED
    BY <2>2, <2>3, <2>4, <2>5, Zenon
<1>3. ASSUME \/ \E s \in left.svcs : MergeService(s) \/ OverflowService(s)
             \/ \E i \in left.insts : MergeInstance(i) \/ OverflowInstance(i)
             \/ \E g \in Groups(left) : MergeGroup(g) \/ AddGroup(g) \/ OverflowGroup(g)
      PROVE  /\ Had' \cup Shares(to') \cup Shares(left') = Had \cup Shares(to) \cup Shares(left)
             /\ HadEv' \cup to'.events \cup left'.events = HadEv \cup to.events \cup left.events
  <2>1. operands' = operands /\ to'.events = to.events /\ left'.events = left.events
    BY <1>3, LoopTransfers, Zenon
  <2>2. Shares(to') \cup Shares(left') = Shares(to) \cup Shares(left)
    BY <1>3, LoopTransfers, TransferShares, Zenon
  <2>3. Had' = Had /\ HadEv' = HadEv
    BY <2>1, Zenon DEF Shares
  <2> QED
    BY <2>1, <2>2, <2>3, Zenon
<1>4. ASSUME Finish
      PROVE  /\ Had' \cup Shares(to') \cup Shares(left') = Had \cup Shares(to) \cup Shares(left)
             /\ HadEv' \cup to'.events \cup left'.events = HadEv \cup to.events \cup left.events
  <2>1. operands' = operands \cup {to} /\ to' = Empty /\ left' = left
    BY <1>4, FinishEffect, Zenon
  <2>2. Shares(to') = {} /\ to'.events = {} /\ Shares(left') = Shares(left)
    BY <2>1, Zenon DEF Shares, Empty
  <2>3. Had' = Had \cup Shares(to) /\ HadEv' = HadEv \cup to.events
    BY <2>1, Zenon DEF Shares
  <2> QED
    BY <2>1, <2>2, <2>3, Zenon
<1> QED
  BY <1>1, <1>2, <1>3, <1>4, Zenon DEF Next

\* All shares of the events are in the operands that were stored for them.
LEMMA LostInit ==
    ASSUME Init
    PROVE  NothingLost
<1>1. ASSUME NEW e \in Inputs
      PROVE  /\ Shares(EventMetrics(e)) = {[ev |-> e.ev, g |-> g] : g \in e.groups}
             /\ EventMetrics(e).events = {e.ev}
  <2>1. /\ EventMetrics(e).kept = {[g |-> g, t |-> [ev |-> e.ev, g |-> g]] : g \in e.groups}
        /\ EventMetrics(e).over = {}
        /\ EventMetrics(e).events = {e.ev}
    BY Zenon DEF EventMetrics
  <2>2. \A g \in e.groups : [ev |-> e.ev, g |-> g] \in Shares(EventMetrics(e))
    <3> TAKE g \in e.groups
    <3>1. [g |-> g, t |-> [ev |-> e.ev, g |-> g]] \in EventMetrics(e).kept
      BY <2>1, Zenon
    <3> QED
      BY <3>1 DEF Shares
  <2>3. \A t \in Shares(EventMetrics(e)) : \E g \in e.groups : t = [ev |-> e.ev, g |-> g]
    BY <2>1 DEF Shares
  <2> QED
    BY <2>1, <2>2, <2>3
<1>2. Shares(to) = {} /\ Shares(left) = {} /\ to.events = {} /\ left.events = {}
  BY Zenon DEF Init, Shares, Empty
<1>3. UNION {Shares(v) : v \in Holders} = AllShares
  BY <1>1, <1>2 DEF Init, Holders, AllShares
<1>4. UNION {v.events : v \in Holders} = Events
  BY <1>1, <1>2 DEF Init, Holders, Events
<1> QED
  BY <1>3, <1>4, Zenon DEF NothingLost

\* In every state of every merge, each share is in exactly one place: the invariant
\* behind the three results that follow.
THEOREM SpecOnce == Spec => [](Types /\ Places /\ Once /\ NothingLost)
<1>1. Init => Types /\ Places /\ Once /\ NothingLost
  BY PlacesInit, OnceInit, LostInit, Zenon
<1>2. Types /\ Places /\ Once /\ NothingLost /\ [Next]_vars
      => (Types /\ Places /\ Once /\ NothingLost)'
  BY TypesStep, PlacesStep, OnceStep, LostStep, Zenon
<1> QED
  BY <1>1, <1>2, PTL DEF Spec

\* No share and no event is ever lost by merge, by ToProto or by Finish, for any
\* events, any limits (also limits that differ between operands) and any grouping of
\* the merges.
THEOREM SpecNothingLost == Spec => []NothingLost
BY SpecOnce, PTL

\* No share is ever counted twice by merge: it is in one operand, and there in one
\* group or one overflow bucket.
THEOREM SpecNothingTwice == Spec => []NothingTwice
<1>1. Once => NothingTwice
  BY Zenon DEF Once, NothingTwice, Holders, Unique
<1> QED
  BY <1>1, SpecOnce, PTL

-----------------------------------------------------------------------------
(* What is published. *)

GroupValues(v, g) == {x.t : x \in {y \in v.kept : y.g = g}}

BucketValues(v, b, k) == {x.t : x \in {y \in v.over : y.at = b /\ y.t.g.kind = k}}

\* CombinedMetricsToBatch has an event for each group and one for each kind in each
\* bucket, and no other event has shares.
LEMMA BatchEvents ==
    ASSUME NEW v, Formed(v), Placed(v, {}), v.svcs # {}
    PROVE  /\ \A x \in v.kept : Event(x.g.kind, x.g.svc, x.g, GroupValues(v, x.g)) \in Batch(v)
           /\ \A x \in v.over :
                 Event(x.t.g.kind, x.at, NoName, BucketValues(v, x.at, x.t.g.kind)) \in Batch(v)
           /\ \A e \in Batch(v) :
                 \/ \E g : e = Event(g.kind, g.svc, g, GroupValues(v, g))
                 \/ \E b, k : e = Event(k, b, NoName, BucketValues(v, b, k))
                 \/ e.shares = {}
<1>1. ASSUME NEW x \in v.kept
      PROVE  Event(x.g.kind, x.g.svc, x.g, GroupValues(v, x.g)) \in Batch(v)
  <2>1. x.g \in Groups(v) /\ x.g.kind \in Kinds
    BY FormedKept, Zenon DEF Groups
  <2>2. Event(x.g.kind, x.g.svc, x.g, GroupValues(v, x.g)) \in GroupEvents(v, x.g.kind)
    BY <2>1, Zenon DEF GroupEvents, GroupValues
  <2> QED
    BY <2>1, <2>2, Zenon DEF Batch, Kinds, TxnMetricsToAPMEvent, SvcTxnMetricsToAPMEvent,
                      SpanMetricsToAPMEvent
<1>2. ASSUME NEW x \in v.over
      PROVE  Event(x.t.g.kind, x.at, NoName, BucketValues(v, x.at, x.t.g.kind)) \in Batch(v)
  <2>1. x.t.g.kind \in OverflowKinds(v, x.at)
    BY Zenon DEF OverflowKinds
  <2>2. Event(x.t.g.kind, x.at, NoName, BucketValues(v, x.at, x.t.g.kind))
           \in OverflowEvents(v, x.at)
    BY <2>1, Zenon DEF OverflowEvents, BucketValues
  <2>3. CASE x.at = All
    <3>1. v.est # {}
      BY <2>3, Zenon DEF Placed
    <3> QED
      BY <2>2, <2>3, <3>1, Zenon DEF Batch, OtherEvents
  <2>4. CASE x.at # All
    <3>1. x.at \in v.svcs
      BY <2>4, Zenon DEF Placed
    <3> QED
      BY <2>2, <3>1, Zenon DEF Batch, ServiceOverflowEvents
  <2> QED
    BY <2>3, <2>4, Zenon
<1>3. ASSUME NEW e \in Batch(v)
      PROVE  \/ \E g : e = Event(g.kind, g.svc, g, GroupValues(v, g))
             \/ \E b, k : e = Event(k, b, NoName, BucketValues(v, b, k))
             \/ e.shares = {}
  <2>1. \A kind : \A d \in GroupEvents(v, kind) :
           \E g : d = Event(g.kind, g.svc, g, GroupValues(v, g))
    BY Zenon DEF GroupEvents, GroupValues
  <2>2. \A b : \A d \in OverflowEvents(v, b) :
           \E k : d = Event(k, b, NoName, BucketValues(v, b, k))
    BY Zenon DEF OverflowEvents, BucketValues
  <2>3. \A d \in SummaryEvents(v) : d.shares = {}
    BY DEF SummaryEvents, Event
  <2>4. Event("summary", All, NoName, {}).shares = {}
    BY Zenon DEF Event
  <2>5. \/ \E kind : e \in GroupEvents(v, kind)
        \/ \E b : e \in OverflowEvents(v, b)
        \/ e \in SummaryEvents(v)
        \/ e = Event("summary", All, NoName, {})
    BY Zenon DEF Batch, TxnMetricsToAPMEvent, SvcTxnMetricsToAPMEvent, SpanMetricsToAPMEvent,
           ServiceOverflowEvents, OtherEvents
  <2> QED
    BY <2>1, <2>2, <2>3, <2>4, <2>5, Zenon
<1> QED
  BY <1>1, <1>2, <1>3, Zenon

\* Each share of metrics that have a service is in the values of exactly one metricset
\* that CombinedMetricsToBatch publishes.
THEOREM SpecPublishedOnce == Spec => []PublishedOnce
<1>1. Types /\ Places /\ Once => PublishedOnce
  <2> SUFFICES ASSUME Types, Places, Once, NEW v \in operands, v.svcs # {}, NEW t \in Shares(v)
               PROVE  Cardinality({e \in Batch(v) : t \in e.shares}) = 1
    BY Zenon DEF PublishedOnce
  <2>0. Formed(v) /\ Placed(v, {}) /\ Unique(v)
    BY Zenon DEF Types, Places, Once, Holders
  <2>1. \A m, s, g, S : Event(m, s, g, S).shares = S
    BY Zenon DEF Event
  <2>2. \A x \in v.kept : x \notin v.over
    BY <2>0, KeptNotOver, Zenon DEF Formed
  <2>3. \E E : {e \in Batch(v) : t \in e.shares} = {E}
    <3>1. ASSUME NEW x \in v.kept, x.t = t
          PROVE  \E E : {e \in Batch(v) : t \in e.shares} = {E}
      <4> DEFINE E == Event(x.g.kind, x.g.svc, x.g, GroupValues(v, x.g))
      <4>1. E \in Batch(v)
        BY <2>0, BatchEvents, Zenon
      <4>2. t \in E.shares
        BY <2>1, <3>1 DEF GroupValues
      <4>3. \A g : t \in GroupValues(v, g) => g = x.g
        BY <2>0, <3>1, Zenon DEF GroupValues, Unique
      <4>4. \A b, k : t \notin BucketValues(v, b, k)
        BY <2>0, <2>2, <3>1, Zenon DEF BucketValues, Unique
      <4>5. ASSUME NEW e \in Batch(v), t \in e.shares PROVE e = E
        <5>1. \/ \E g : e = Event(g.kind, g.svc, g, GroupValues(v, g))
              \/ \E b, k : e = Event(k, b, NoName, BucketValues(v, b, k))
              \/ e.shares = {}
          BY <2>0, BatchEvents, Zenon
        <5> QED
          BY <2>1, <4>3, <4>4, <4>5, <5>1
      <4> HIDE DEF E
      <4> QED
        BY <4>1, <4>2, <4>5, Zenon
    <3>2. ASSUME NEW x \in v.over, x.t = t
          PROVE  \E E : {e \in Batch(v) : t \in e.shares} = {E}
      <4> DEFINE E == Event(x.t.g.kind, x.at, NoName, BucketValues(v, x.at, x.t.g.kind))
      <4>1. E \in Batch(v)
        BY <2>0, BatchEvents, Zenon
      <4>2. t \in E.shares
        BY <2>1, <3>2 DEF BucketValues
      <4>3. \A g : t \notin GroupValues(v, g)
        BY <2>0, <2>2, <3>2, Zenon DEF GroupValues, Unique
      <4>4. \A b, k : t \in BucketValues(v, b, k) => b = x.at /\ k = x.t.g.kind
        BY <2>0, <3>2, Zenon DEF BucketValues, Unique
      <4>5. ASSUME NEW e \in Batch(v), t \in e.shares PROVE e = E
        <5>1. \/ \E g : e = Event(g.kind, g.svc, g, GroupValues(v, g))
              \/ \E b, k : e = Event(k, b, NoName, BucketValues(v, b, k))
              \/ e.shares = {}
          BY <2>0, BatchEvents, Zenon
        <5> QED
          BY <2>1, <4>3, <4>4, <4>5, <5>1
      <4> HIDE DEF E
      <4> QED
        BY <4>1, <4>2, <4>5, Zenon
    <3> QED
      BY <3>1, <3>2, Zenon DEF Shares
  <2> QED
    BY <2>3, FS_Singleton, Zenon
<1> QED
  BY <1>1, SpecOnce, PTL

-----------------------------------------------------------------------------

\* An element added to a set below a limit, or that was there, keeps the set within it.
LEMMA CardLess ==
    ASSUME NEW S, IsFiniteSet(S), NEW x, NEW n \in Nat, x \in S \/ ~(Cardinality(S) >= n),
           Cardinality(S) <= n
    PROVE  IsFiniteSet(S \cup {x}) /\ Cardinality(S \cup {x}) <= n
<1>1. IsFiniteSet(S \cup {x}) /\ Cardinality(S) \in Nat
  BY FS_AddElement, FS_CardinalityType, Zenon
<1>2. CASE x \in S
  <2>1. S \cup {x} = S
    BY <1>2, Zenon
  <2> QED
    BY <1>1, <2>1, Zenon
<1>3. CASE x \notin S
  <2>1. Cardinality(S \cup {x}) = Cardinality(S) + 1
    BY <1>3, FS_AddElement, Zenon
  <2> QED
    BY <1>1, <1>3, <2>1
<1> QED
  BY <1>2, <1>3, Zenon

\* The limits of the merger are natural numbers.
LEMMA LimNat ==
    ASSUME Types
    PROVE  /\ lim.svcs \in Nat /\ lim.insts \in Nat
           /\ \A k \in Kinds : lim.total[k] \in Nat /\ lim.perSvc[k] \in Nat
BY LimitsAssumption, Zenon DEF Types

OfKind(S, k) == {g \in S : g.kind = k}

NoGroups ==
    /\ to.svcs = {} /\ to.insts = {} /\ Groups(to) = {}
    /\ lim \in LimitsSet
    /\ counters = [k \in Kinds |-> 0]

\* A new merger counts no groups and is within its limits.
LEMMA EmptyWithin == NoGroups => Counted /\ WithinLimits
<1> SUFFICES ASSUME NoGroups PROVE Counted /\ WithinLimits
  BY Zenon
<1>1. to.svcs = {} /\ to.insts = {} /\ Groups(to) = {}
  BY Zenon DEF NoGroups
<1>2. /\ lim.svcs \in Nat
      /\ \A k \in Kinds : lim.total[k] \in Nat
  BY LimitsAssumption, Zenon DEF NoGroups
<1>3. IsFiniteSet({}) /\ Cardinality({}) = 0
  BY FS_EmptySet, Zenon
<1>4. \A k \in Kinds : {g \in Groups(to) : g.kind = k} = {}
  BY <1>1, Zenon
<1>5. Counted
  BY <1>1, <1>3, <1>4, Zenon DEF Counted, NoGroups
<1>6. WithinLimits
  BY <1>1, <1>2, <1>3, <1>4 DEF WithinLimits
<1> QED
  BY <1>5, <1>6, Zenon

\* The same for the state after a step.
LEMMA EmptyWithinNext == NoGroups' => Counted' /\ WithinLimits'
BY EmptyWithin, PTL

\* The counts depend on the services, instances and groups only.
LEMMA SameWithin ==
    ASSUME Counted, WithinLimits, lim' = lim, counters' = counters,
           to'.svcs = to.svcs, to'.insts = to.insts, Groups(to') = Groups(to)
    PROVE  Counted' /\ WithinLimits'
<1>1. /\ \A s : InstsOf(to', s) = InstsOf(to, s)
      /\ \A g : GroupsOf(to', g) = GroupsOf(to, g)
  BY Zenon DEF InstsOf, GroupsOf
<1>2. Counted'
  BY Zenon DEF Counted
<1>3. WithinLimits'
  BY <1>1, Zenon DEF WithinLimits
<1> QED
  BY <1>2, <1>3, Zenon

\* Every step of merge keeps the constraints equal to the number of groups, and the
\* merger within its limits.
LEMMA WithinStep ==
    ASSUME Types, Places, Counted, WithinLimits, [Next]_vars, Types'
    PROVE  Counted' /\ WithinLimits'
<1>1. CASE UNCHANGED vars
  BY <1>1, SameWithin, Zenon DEF vars, Groups
<1>2. ASSUME NEW v \in operands, NewMerger(v) \/ MergeOperand(v) PROVE Counted' /\ WithinLimits'
  <2>1. /\ lim' \in LimitsSet
        /\ to' = Fields(to.svcs, to.insts, to.kept, to.over \cup {x \in v.over : x.at = All},
                        to.est \cup v.est, to.events \cup v.events)
        /\ \/ lim' = lim /\ counters' = counters
           \/ to = Empty /\ counters' = [k \in Kinds |-> 0]
    BY <1>2, HeadEffect, Zenon
  <2>2. to'.svcs = to.svcs /\ to'.insts = to.insts /\ to'.kept = to.kept
    BY <2>1, Zenon DEF Fields
  <2>3. Groups(to') = Groups(to)
    BY <2>2, Zenon DEF Groups
  <2>4. CASE lim' = lim /\ counters' = counters
    BY <2>2, <2>3, <2>4, SameWithin, Zenon
  <2>5. CASE to = Empty /\ counters' = [k \in Kinds |-> 0]
    <3>1. to.svcs = {} /\ to.insts = {} /\ Groups(to) = {}
      BY <2>5, Zenon DEF Empty, Groups
    <3>2. NoGroups'
      BY <2>1, <2>2, <2>3, <2>5, <3>1, Zenon DEF NoGroups
    <3> QED
      BY <3>2, EmptyWithinNext, Zenon
  <2> QED
    BY <2>1, <2>4, <2>5, Zenon
<1>3. ASSUME NEW s, MergeService(s) PROVE Counted' /\ WithinLimits'
  <2>1. /\ ~ServiceOverflows(s) /\ lim' = lim /\ counters' = counters
        /\ to'.svcs = to.svcs \cup {s} /\ to'.insts = to.insts /\ to'.kept = to.kept
    BY <1>3, ServiceFields, Zenon
  <2>2. /\ Groups(to') = Groups(to)
        /\ \A r : InstsOf(to', r) = InstsOf(to, r)
        /\ \A g : GroupsOf(to', g) = GroupsOf(to, g)
    BY <2>1, Zenon DEF Groups, GroupsOf, InstsOf
  <2>3. IsFiniteSet(to'.svcs) /\ Cardinality(to'.svcs) <= lim.svcs
    <3>1. /\ IsFiniteSet(to.svcs) /\ Cardinality(to.svcs) <= lim.svcs /\ lim.svcs \in Nat
          /\ s \in to.svcs \/ ~(Cardinality(to.svcs) >= lim.svcs)
      BY <2>1, LimNat, Zenon DEF Counted, WithinLimits, ServiceOverflows
    <3>2. /\ IsFiniteSet(to.svcs \cup {s}) /\ Cardinality(to.svcs \cup {s}) <= lim.svcs
      BY <3>1, CardLess, Zenon
    <3> QED BY <2>1, <3>2, Zenon
  <2>4. Cardinality(InstsOf(to, s)) <= lim.insts
    <3>1. CASE s \in to.svcs
      BY <3>1, Zenon DEF WithinLimits
    <3>2. CASE s \notin to.svcs
      <4>1. InstsOf(to, s) = {}
        BY <3>2, Zenon DEF InstsOf, Places, Placed
      <4> QED
        BY <4>1, FS_EmptySet, LimNat
    <3> QED
      BY <3>1, <3>2, Zenon
  <2>5. Counted'
    BY <2>1, <2>2, <2>3, Zenon DEF Counted
  <2>6. WithinLimits'
    BY <2>1, <2>2, <2>3, <2>4, Zenon DEF WithinLimits
  <2> QED
    BY <2>5, <2>6, Zenon
<1>4. ASSUME NEW s, OverflowService(s) PROVE Counted' /\ WithinLimits'
  <2>1. /\ lim' = lim /\ counters' = counters
        /\ to'.svcs = to.svcs /\ to'.insts = to.insts /\ to'.kept = to.kept
    BY <1>4, OverflowServiceFields, Zenon
  <2> QED
    BY <2>1, SameWithin, Zenon DEF Groups
<1>5. ASSUME NEW i, MergeInstance(i) PROVE Counted' /\ WithinLimits'
  <2>1. /\ ~InstanceOverflows(i) /\ lim' = lim /\ counters' = counters
        /\ to'.svcs = to.svcs /\ to'.insts = to.insts \cup {i} /\ to'.kept = to.kept
        /\ i \in left.insts /\ i.svc \notin left.svcs
    BY <1>5, InstanceFields, Zenon
  <2>2. /\ Groups(to') = Groups(to)
        /\ \A g : GroupsOf(to', g) = GroupsOf(to, g)
    BY <2>1, Zenon DEF Groups, GroupsOf
  <2>3. /\ InstsOf(to', i.svc) = InstsOf(to, i.svc) \cup {i}
        /\ \A r : r # i.svc => InstsOf(to', r) = InstsOf(to, r)
    BY <2>1, Zenon DEF InstsOf
  <2>4. IsFiniteSet(to'.insts)
    BY <2>1, FS_AddElement, Zenon DEF Counted
  <2>5. Cardinality(InstsOf(to', i.svc)) <= lim.insts
    <3>1. i.svc \in to.svcs
      BY <2>1, Zenon DEF Places, LeftPlaced
    <3>2. IsFiniteSet(InstsOf(to, i.svc)) /\ Cardinality(InstsOf(to, i.svc)) <= lim.insts
      BY <3>1, FS_Subset, Zenon DEF Counted, WithinLimits, InstsOf
    <3>3. i \in InstsOf(to, i.svc) \/ ~(Cardinality(InstsOf(to, i.svc)) >= lim.insts)
      BY <2>1, Zenon DEF InstanceOverflows, InstsOf
    <3> QED
      BY <2>3, <3>2, <3>3, CardLess, LimNat, Zenon
  <2>6. Counted'
    BY <2>1, <2>2, <2>4, Zenon DEF Counted
  <2>7. WithinLimits'
    BY <2>1, <2>2, <2>3, <2>5, Zenon DEF WithinLimits
  <2> QED
    BY <2>6, <2>7, Zenon
<1>6. ASSUME NEW i, OverflowInstance(i) PROVE Counted' /\ WithinLimits'
  <2>1. /\ lim' = lim /\ counters' = counters
        /\ to'.svcs = to.svcs /\ to'.insts = to.insts /\ to'.kept = to.kept
    BY <1>6, OverflowInstanceFields, Zenon
  <2> QED
    BY <2>1, SameWithin, Zenon DEF Groups
<1>7. ASSUME NEW g \in Groups(left), MergeGroup(g) \/ AddGroup(g) PROVE Counted' /\ WithinLimits'
  <2>1. /\ lim' = lim
        /\ \/ Target(g) \in Groups(to) /\ counters' = counters
           \/ /\ Target(g) \notin Groups(to) /\ ~Maxed(g)
              /\ counters' = [counters EXCEPT ![g.kind] = @ + 1]
        /\ to' = Fields(to.svcs, to.insts, to.kept \cup KeptIn(g), to.over, to.est, to.events)
    BY <1>7, KeepEffect, Zenon
  <2>2. to'.svcs = to.svcs /\ to'.insts = to.insts /\ to'.kept = to.kept \cup KeptIn(g)
    BY <2>1, Zenon DEF Fields
  <2>3. Groups(to') = Groups(to) \cup {Target(g)}
    <3>1. \E t : t \in GroupShares(g)
      BY Zenon DEF GroupShares, Groups
    <3>2. \A x \in KeptIn(g) : x.g = Target(g)
      BY DEF KeptIn
    <3>3. \E x \in KeptIn(g) : x.g = Target(g)
      <4>1. PICK t \in GroupShares(g) : TRUE
        BY <3>1, Zenon
      <4>2. [g |-> Target(g), t |-> t] \in KeptIn(g)
        BY Zenon DEF KeptIn
      <4> QED
        BY <4>2, Zenon
    <3> QED
      BY <2>2, <3>2, <3>3, Zenon DEF Groups
  <2>4. CASE Target(g) \in Groups(to) /\ counters' = counters
    <3>1. Groups(to') = Groups(to)
      BY <2>3, <2>4, Zenon
    <3> QED
      BY <2>1, <2>2, <2>4, <3>1, SameWithin, Zenon
  <2>5. CASE /\ Target(g) \notin Groups(to) /\ ~Maxed(g)
             /\ counters' = [counters EXCEPT ![g.kind] = @ + 1]
    <3> DEFINE T == Target(g)
               k == g.kind
    <3>1. InstOf(T) = InstOf(g) /\ T.kind = k /\ k \in Kinds
      BY GroupForm, TargetForm, Zenon
    <3> HIDE DEF T
    <3>2. /\ GroupsOf(to', T) = GroupsOf(to, g) \cup {T}
          /\ \A h : ~(InstOf(h) = InstOf(T) /\ h.kind = T.kind) =>
                   GroupsOf(to', h) = GroupsOf(to, h)
          /\ \A h : InstOf(h) = InstOf(T) /\ h.kind = T.kind =>
                   GroupsOf(to', h) = GroupsOf(to', T)
      BY <2>3, <3>1, Zenon DEF GroupsOf, T
    <3>3. IsFiniteSet(Groups(to')) /\ IsFiniteSet(GroupsOf(to, g)) /\ T \notin Groups(to)
      BY <2>3, <2>5, FS_AddElement, FS_Subset, Zenon DEF Counted, GroupsOf, T
    <3>4. ~(Cardinality(GroupsOf(to, g)) >= lim.perSvc[k]) /\ ~(counters[k] >= lim.total[k])
      BY <2>5, Zenon DEF Maxed, Value
    <3>5. Cardinality(GroupsOf(to', T)) <= lim.perSvc[k]
      <4>1. Cardinality(GroupsOf(to, g)) \in Nat /\ lim.perSvc[k] \in Nat
        BY <3>1, <3>3, FS_CardinalityType, LimNat, Zenon
      <4>2. Cardinality(GroupsOf(to, g)) <= lim.perSvc[k]
        BY <3>4, <4>1
      <4> QED
        BY <3>2, <3>3, <3>4, <4>1, <4>2, CardLess, Zenon
    <3>6. /\ OfKind(Groups(to'), k) = OfKind(Groups(to), k) \cup {T}
          /\ \A j \in Kinds \ {k} : OfKind(Groups(to'), j) = OfKind(Groups(to), j)
      BY <2>3, <3>1, Zenon DEF OfKind, T
    <3>7. IsFiniteSet(OfKind(Groups(to), k)) /\ T \notin OfKind(Groups(to), k)
      BY <3>3, FS_Subset, Zenon DEF OfKind, Counted
    <3>8. /\ Cardinality(OfKind(Groups(to'), k)) = Cardinality(OfKind(Groups(to), k)) + 1
          /\ Cardinality(OfKind(Groups(to), k)) \in Nat
      BY <3>6, <3>7, FS_AddElement, FS_CardinalityType
    <3>9. counters = [j \in Kinds |-> Cardinality(OfKind(Groups(to), j))]
      BY Zenon DEF Counted, OfKind
    <3>10. counters' = [j \in Kinds |-> Cardinality(OfKind(Groups(to'), j))]
      BY <2>5, <3>1, <3>6, <3>8, <3>9, Zenon
    <3>11. \A j \in Kinds : Cardinality(OfKind(Groups(to'), j)) <= lim.total[j]
      <4>1. Cardinality(OfKind(Groups(to'), k)) <= lim.total[k]
        <5>1. counters[k] = Cardinality(OfKind(Groups(to), k)) /\ lim.total[k] \in Nat
          BY <3>1, <3>9, LimNat, Zenon
        <5> QED
          BY <3>4, <3>8, <5>1
      <4>2. \A j \in Kinds \ {k} : Cardinality(OfKind(Groups(to'), j)) <= lim.total[j]
        BY <3>6, Zenon DEF WithinLimits, OfKind
      <4> QED
        BY <4>1, <4>2, Zenon
    <3>12. Counted'
      BY <2>2, <3>3, <3>10, Zenon DEF Counted, OfKind
    <3>13. \A h \in Groups(to') : Cardinality(GroupsOf(to', h)) <= lim.perSvc[h.kind]
      BY <2>3, <3>1, <3>2, <3>5, Zenon DEF WithinLimits, T
    <3>14. \A s : InstsOf(to', s) = InstsOf(to, s)
      BY <2>2, Zenon DEF InstsOf
    <3>15. WithinLimits'
      BY <2>1, <2>2, <3>11, <3>13, <3>14, Zenon DEF WithinLimits, OfKind
    <3> QED
      BY <3>12, <3>15, Zenon
  <2> QED
    BY <2>1, <2>4, <2>5, Zenon
<1>8. ASSUME NEW g, OverflowGroup(g) PROVE Counted' /\ WithinLimits'
  <2>1. /\ lim' = lim /\ counters' = counters
        /\ to'.svcs = to.svcs /\ to'.insts = to.insts /\ to'.kept = to.kept
    BY <1>8, OverflowGroupFields, Zenon
  <2> QED
    BY <2>1, SameWithin, Zenon DEF Groups
<1>9. ASSUME Finish PROVE Counted' /\ WithinLimits'
  <2>1. to' = Empty /\ lim' = lim /\ counters' = [k \in Kinds |-> 0]
    BY <1>9, FinishEffect, Zenon
  <2>2. lim' \in LimitsSet
    BY <2>1, Zenon DEF Types
  <2>3. to'.svcs = {} /\ to'.insts = {} /\ Groups(to') = {}
    BY <2>1, Zenon DEF Empty, Groups
  <2> QED
    BY <2>1, <2>2, <2>3, EmptyWithinNext, Zenon DEF NoGroups
<1> QED
  BY <1>1, <1>2, <1>3, <1>4, <1>5, <1>6, <1>7, <1>8, <1>9, Zenon DEF Next

-----------------------------------------------------------------------------
(* Overflow only where the metrics are full. *)

\* A limit that is used up stays used up as the set grows.
LEMMA FullMore ==
    ASSUME NEW S, NEW T, S \subseteq T, IsFiniteSet(T)
    PROVE  /\ ServicesFull(S) => ServicesFull(T)
           /\ InstancesFull(S) => InstancesFull(T)
<1>1. Cardinality(S) \in Nat /\ Cardinality(T) \in Nat /\ Cardinality(S) <= Cardinality(T)
  BY FS_Subset, FS_CardinalityType, Zenon
<1> QED
  BY <1>1, LimitsAssumption DEF ServicesFull, InstancesFull

\* Every step of merge keeps metrics finite.
LEMMA FiniteStep ==
    ASSUME Types, Places, Counted, Finite, [Next]_vars
    PROVE  Finite'
<1> USE DEF Finite
<1>1. CASE UNCHANGED vars
  BY <1>1, Zenon DEF vars
<1>2. ASSUME NEW v \in operands, NewMerger(v) \/ MergeOperand(v) PROVE Finite'
  <2>1. operands' = operands \ {v} /\ left'.svcs = v.svcs /\ left'.insts = v.insts
    <3>1. /\ operands' = operands \ {v}
          /\ left' = Fields(v.svcs, v.insts, v.kept, {x \in v.over : x.at # All}, {}, {})
      BY <1>2, HeadEffect, Zenon
    <3> QED
      BY <3>1, Zenon DEF Fields
  <2> QED
    BY <2>1, Zenon
<1>3. ASSUME \/ \E s \in left.svcs : MergeService(s) \/ OverflowService(s)
             \/ \E i \in left.insts : MergeInstance(i) \/ OverflowInstance(i)
             \/ \E g \in Groups(left) : MergeGroup(g) \/ AddGroup(g) \/ OverflowGroup(g)
      PROVE  Finite'
  <2>1. operands' = operands /\ left'.svcs \subseteq left.svcs /\ left'.insts \subseteq left.insts
    <3>1. ASSUME NEW s, MergeService(s)
          PROVE  operands' = operands /\ left'.svcs \subseteq left.svcs
                 /\ left'.insts \subseteq left.insts
      BY <3>1, ServiceFields, Zenon
    <3>2. ASSUME NEW s, OverflowService(s)
          PROVE  operands' = operands /\ left'.svcs \subseteq left.svcs
                 /\ left'.insts \subseteq left.insts
      BY <3>2, OverflowServiceFields, Zenon
    <3>3. ASSUME NEW i, MergeInstance(i)
          PROVE  operands' = operands /\ left'.svcs \subseteq left.svcs
                 /\ left'.insts \subseteq left.insts
      BY <3>3, InstanceFields, Zenon
    <3>4. ASSUME NEW i, OverflowInstance(i)
          PROVE  operands' = operands /\ left'.svcs \subseteq left.svcs
                 /\ left'.insts \subseteq left.insts
      BY <3>4, OverflowInstanceFields, Zenon
    <3>5. ASSUME NEW g, MergeGroup(g) \/ AddGroup(g)
          PROVE  operands' = operands /\ left'.svcs \subseteq left.svcs
                 /\ left'.insts \subseteq left.insts
      BY <3>5, KeepFields, Zenon
    <3>6. ASSUME NEW g, OverflowGroup(g)
          PROVE  operands' = operands /\ left'.svcs \subseteq left.svcs
                 /\ left'.insts \subseteq left.insts
      BY <3>6, OverflowGroupFields, Zenon
    <3> QED
      BY <1>3, <3>1, <3>2, <3>3, <3>4, <3>5, <3>6, Zenon
  <2> QED
    BY <2>1, FS_Subset, Zenon
<1>4. ASSUME Finish PROVE Finite'
  BY <1>4, FinishEffect, Zenon DEF Counted
<1> QED
  BY <1>1, <1>2, <1>3, <1>4, Zenon DEF Next

\* Every step of merge keeps the reason of every overflow, moved or new.
LEMMA FullStep ==
    ASSUME Types, Places, Counted, Finite, Full, [Next]_vars, Counted', Finite'
    PROVE  Full'
<1>0. /\ \A v \in operands : FullAt(v)
      /\ FullBetween
      /\ lim \in LimitsSet
  BY Zenon DEF Full, Types
<1>f. /\ IsFiniteSet(to'.svcs \cup left'.svcs)
      /\ \A s : IsFiniteSet(InstsOf(to', s) \cup InstsOf(left', s))
      /\ IsFiniteSet(to.svcs) /\ \A s : IsFiniteSet(InstsOf(to, s))
  <2>1. /\ IsFiniteSet(to'.svcs) /\ IsFiniteSet(left'.svcs)
        /\ IsFiniteSet(to'.insts) /\ IsFiniteSet(left'.insts)
        /\ IsFiniteSet(to.svcs) /\ IsFiniteSet(to.insts)
    BY Zenon DEF Counted, Finite
  <2>2. IsFiniteSet(to'.svcs \cup left'.svcs) /\ IsFiniteSet(to'.insts \cup left'.insts)
    BY <2>1, FS_Union, Zenon
  <2>3. \A s : InstsOf(to', s) \cup InstsOf(left', s) \subseteq to'.insts \cup left'.insts
    BY Zenon DEF InstsOf
  <2>4. \A s : InstsOf(to, s) \subseteq to.insts
    BY Zenon DEF InstsOf
  <2> QED
    BY <2>1, <2>2, <2>3, <2>4, FS_Subset, Zenon
<1>1. CASE UNCHANGED vars
  BY <1>0, <1>1, Zenon DEF vars, Full, FullAt, FullBetween, InstsOf
<1>2. ASSUME NEW v \in operands, NewMerger(v) \/ MergeOperand(v) PROVE Full'
  <2>1. /\ Merged /\ operands' = operands \ {v}
        /\ to' = Fields(to.svcs, to.insts, to.kept, to.over \cup {x \in v.over : x.at = All},
                        to.est \cup v.est, to.events \cup v.events)
        /\ left' = Fields(v.svcs, v.insts, v.kept, {x \in v.over : x.at # All}, {}, {})
    BY <1>2, HeadEffect, Zenon
  <2>2. /\ to'.svcs = to.svcs /\ to'.insts = to.insts
        /\ to'.over \cup left'.over = to.over \cup v.over
        /\ left'.svcs = v.svcs /\ left'.insts = v.insts
        /\ left.svcs = {} /\ left.insts = {}
    BY <2>1, Zenon DEF Fields, Merged
  <2>3. \A s : InstsOf(to', s) = InstsOf(to, s) /\ InstsOf(left', s) = InstsOf(v, s)
               /\ InstsOf(left, s) = {}
    BY <2>2, Zenon DEF InstsOf
  <2>4. ASSUME NEW x \in to.over
        PROVE  /\ x.at = All => ServicesFull(to'.svcs \cup left'.svcs)
               /\ x.at # All /\ x.h.inst # NoInst =>
                     InstancesFull(InstsOf(to', x.at) \cup InstsOf(left', x.at))
    <3>1. /\ x.at = All => ServicesFull(to.svcs)
          /\ x.at # All /\ x.h.inst # NoInst => InstancesFull(InstsOf(to, x.at))
      <4>1. to.svcs \cup {} = to.svcs /\ InstsOf(to, x.at) \cup {} = InstsOf(to, x.at)
        BY Zenon
      <4> QED
        BY <1>0, <2>2, <2>3, <4>1, SMTT(30) DEF FullBetween
    <3>2. /\ to.svcs \subseteq to'.svcs \cup left'.svcs
          /\ InstsOf(to, x.at) \subseteq InstsOf(to', x.at) \cup InstsOf(left', x.at)
      BY <2>2, <2>3, Zenon
    <3> QED
      BY <1>f, <3>1, <3>2, FullMore, Zenon
  <2>5. ASSUME NEW x \in v.over
        PROVE  /\ x.at = All => ServicesFull(to'.svcs \cup left'.svcs)
               /\ x.at # All /\ x.h.inst # NoInst =>
                     InstancesFull(InstsOf(to', x.at) \cup InstsOf(left', x.at))
    <3>1. /\ x.at = All => ServicesFull(v.svcs)
          /\ x.at # All /\ x.h.inst # NoInst => InstancesFull(InstsOf(v, x.at))
      BY <1>0, Zenon DEF FullAt
    <3>2. /\ v.svcs \subseteq to'.svcs \cup left'.svcs
          /\ InstsOf(v, x.at) \subseteq InstsOf(to', x.at) \cup InstsOf(left', x.at)
      BY <2>2, <2>3, Zenon
    <3> QED
      BY <1>f, <3>1, <3>2, FullMore, Zenon
  <2>6. FullBetween'
    BY <2>2, <2>4, <2>5, Zenon DEF FullBetween, InstsOf
  <2> QED
    BY <1>0, <2>1, <2>6, Zenon DEF Full, FullAt, InstsOf
<1>3. ASSUME NEW s, MergeService(s) PROVE Full'
  <2>1. /\ s \in left.svcs /\ operands' = operands
        /\ to'.svcs = to.svcs \cup {s} /\ to'.insts = to.insts
        /\ to'.over = to.over \cup {x \in left.over : x.at = s}
        /\ left'.svcs = left.svcs \ {s} /\ left'.insts = left.insts
        /\ left'.over = {x \in left.over : x.at # s}
    BY <1>3, ServiceFields, Zenon
  <2>2. /\ to'.svcs \cup left'.svcs = to.svcs \cup left.svcs
        /\ to'.over \cup left'.over = to.over \cup left.over
        /\ \A r : InstsOf(to', r) = InstsOf(to, r) /\ InstsOf(left', r) = InstsOf(left, r)
    BY <2>1, Zenon DEF InstsOf
  <2>3. FullBetween'
    BY <1>0, <2>2, Zenon DEF FullBetween
  <2> QED
    BY <1>0, <2>1, <2>3, Zenon DEF Full, FullAt, InstsOf
<1>4. ASSUME NEW s, OverflowService(s) PROVE Full'
  <2> DEFINE entries == {x \in left.kept : x.g.svc = s}
  <2>1. /\ s \in left.svcs /\ operands' = operands /\ ServiceOverflows(s)
        /\ to'.svcs = to.svcs /\ to'.insts = to.insts
        /\ to'.over = to.over \cup Moved(s) \cup Overflowed(entries, All)
        /\ left'.svcs = left.svcs \ {s} /\ left'.insts = left.insts \ InstsOf(left, s)
        /\ left'.over = {x \in left.over : x.at # s}
    BY <1>4, OverflowServiceFields
  <2>2. ServicesFull(to'.svcs \cup left'.svcs)
    <3>1. ServicesFull(to.svcs)
      BY <1>0, <2>1, Zenon DEF ServicesFull, ServiceOverflows
    <3>2. to.svcs \subseteq to'.svcs \cup left'.svcs
      BY <2>1, Zenon
    <3> QED
      BY <1>f, <3>1, <3>2, FullMore, Zenon
  <2>3. \A x \in Moved(s) \cup Overflowed(entries, All) : x.at = All
    <3>1. ASSUME NEW x \in Moved(s) PROVE x.at = All
      <4>1. PICK y \in left.over : x = [y EXCEPT !.at = All]
        BY Zenon DEF Moved
      <4>2. IsOver(y)
        BY Zenon DEF Types, Formed, Holders
      <4> QED
        BY <4>1, <4>2, Zenon DEF IsOver
    <3>2. \A x \in Overflowed(entries, All) : x.at = All
      BY DEF Overflowed
    <3> QED
      BY <3>1, <3>2, Zenon
  <2>4. \A r : r # s => InstsOf(to', r) = InstsOf(to, r) /\ InstsOf(left', r) = InstsOf(left, r)
    BY <2>1, Zenon DEF InstsOf
  <2>5. \A x \in to.over : x.at # All => x.at # s
    BY <2>1, Zenon DEF ServiceOverflows, Places, Placed
  <2>6. FullBetween'
    BY <1>0, <2>1, <2>2, <2>3, <2>4, <2>5, Zenon DEF FullBetween
  <2> QED
    BY <1>0, <2>1, <2>6, Zenon DEF Full, FullAt, InstsOf
<1>5. ASSUME NEW i, MergeInstance(i) PROVE Full'
  <2>1. /\ i \in left.insts /\ operands' = operands
        /\ to'.svcs = to.svcs /\ to'.insts = to.insts \cup {i} /\ to'.over = to.over
        /\ left'.svcs = left.svcs /\ left'.insts = left.insts \ {i} /\ left'.over = left.over
    BY <1>5, InstanceFields, Zenon
  <2>2. \A r : InstsOf(to', r) \cup InstsOf(left', r) = InstsOf(to, r) \cup InstsOf(left, r)
    BY <2>1, Zenon DEF InstsOf
  <2>3. FullBetween'
    BY <1>0, <2>1, <2>2, Zenon DEF FullBetween
  <2> QED
    BY <1>0, <2>1, <2>3, Zenon DEF Full, FullAt, InstsOf
<1>6. ASSUME NEW i, OverflowInstance(i) PROVE Full'
  <2> DEFINE entries == {x \in left.kept : InstOf(x.g) = i}
  <2>1. /\ i \in left.insts /\ operands' = operands /\ InstanceOverflows(i)
        /\ to'.svcs = to.svcs /\ to'.insts = to.insts
        /\ to'.over = to.over \cup Overflowed(entries, i.svc)
        /\ left'.svcs = left.svcs /\ left'.insts = left.insts \ {i} /\ left'.over = left.over
    BY <1>6, OverflowInstanceFields, Zenon
  <2>2. InstancesFull(InstsOf(to', i.svc) \cup InstsOf(left', i.svc))
    <3>1. InstancesFull(InstsOf(to, i.svc))
      BY <1>0, <2>1, Zenon DEF InstancesFull, InstanceOverflows
    <3>2. InstsOf(to, i.svc) \subseteq InstsOf(to', i.svc) \cup InstsOf(left', i.svc)
      BY <2>1, Zenon DEF InstsOf
    <3> QED
      BY <1>f, <3>1, <3>2, FullMore, Zenon
  <2>3. \A r : r # i.svc =>
           InstsOf(to', r) \cup InstsOf(left', r) = InstsOf(to, r) \cup InstsOf(left, r)
    BY <2>1, Zenon DEF InstsOf
  <2>4. \A x \in Overflowed(entries, i.svc) : x.at = i.svc /\ x.at # All
    <3>1. \A x \in entries : i.svc = x.g.svc
      BY DEF InstOf
    <3>2. \A x \in left.kept : x.g.svc # All
      BY FormedKept, Zenon DEF Types, Holders
    <3> QED
      BY <3>1, <3>2 DEF Overflowed
  <2>5. FullBetween'
    BY <1>0, <2>1, <2>2, <2>3, <2>4, Zenon DEF FullBetween
  <2> QED
    BY <1>0, <2>1, <2>5, Zenon DEF Full, FullAt, InstsOf
<1>7. ASSUME NEW g \in Groups(left), MergeGroup(g) \/ AddGroup(g) \/ OverflowGroup(g) PROVE Full'
  <2>1. /\ operands' = operands /\ to'.svcs = to.svcs /\ to'.insts = to.insts
        /\ to'.over = to.over \/ to'.over = to.over \cup OverIn(g)
        /\ left'.svcs = left.svcs /\ left'.insts = left.insts /\ left'.over = left.over
    <3>1. CASE MergeGroup(g) \/ AddGroup(g)
      BY <3>1, KeepFields, Zenon
    <3>2. CASE OverflowGroup(g)
      BY <3>2, OverflowGroupFields, Zenon
    <3> QED
      BY <1>7, <3>1, <3>2, Zenon
  <2>2. \A x \in OverIn(g) : x.at # All /\ x.h.inst = NoInst
    BY GroupForm DEF OverIn, Hash
  <2>3. \A r : InstsOf(to', r) = InstsOf(to, r) /\ InstsOf(left', r) = InstsOf(left, r)
    BY <2>1, Zenon DEF InstsOf
  <2>4. FullBetween'
    BY <1>0, <2>1, <2>2, <2>3, Zenon DEF FullBetween
  <2> QED
    BY <1>0, <2>1, <2>4, Zenon DEF Full, FullAt, InstsOf
<1>8. ASSUME Finish PROVE Full'
  <2>1. Merged /\ operands' = operands \cup {to} /\ to' = Empty /\ left' = left
    BY <1>8, FinishEffect, Zenon
  <2>2. /\ left.over = {} /\ to.svcs \cup left.svcs = to.svcs
        /\ \A s : InstsOf(to, s) \cup InstsOf(left, s) = InstsOf(to, s)
    BY <2>1, Zenon DEF Places, LeftPlaced, Merged, InstsOf
  <2>3. FullAt(to)
    BY <1>0, <2>2, Zenon DEF FullBetween, FullAt
  <2>4. FullBetween'
    BY <2>1, <2>2, Zenon DEF FullBetween, Empty
  <2>5. \A v \in operands' : FullAt(v)
    BY <1>0, <2>1, <2>3, Zenon
  <2> QED
    BY <2>4, <2>5, Zenon DEF Full, FullAt, InstsOf
<1> QED
  BY <1>1, <1>2, <1>3, <1>4, <1>5, <1>6, <1>7, <1>8, Zenon DEF Next

\* Metrics of one event have no overflow.
LEMMA LimitsInit ==
    ASSUME Init
    PROVE  Counted /\ Finite /\ Full /\ WithinLimits
<1>1. /\ to.svcs = {} /\ to.insts = {} /\ to.over = {} /\ Groups(to) = {}
      /\ left.svcs = {} /\ left.insts = {} /\ left.over = {}
  BY Zenon DEF Init, Empty, Groups
<1>2. Counted /\ WithinLimits
  BY <1>1, EmptyWithin, Zenon DEF NoGroups, Init
<1>3. \A e \in Inputs : /\ EventMetrics(e).svcs = {e.svc}
                        /\ EventMetrics(e).insts = {InstIn(e)}
                        /\ EventMetrics(e).over = {}
  BY Zenon DEF EventMetrics, InstIn
<1>4. \A v \in operands : IsFiniteSet(v.svcs) /\ IsFiniteSet(v.insts) /\ FullAt(v)
  <2> SUFFICES ASSUME NEW e \in Inputs
               PROVE  /\ IsFiniteSet(EventMetrics(e).svcs) /\ IsFiniteSet(EventMetrics(e).insts)
                      /\ FullAt(EventMetrics(e))
    BY Zenon DEF Init
  <2>1. FullAt(EventMetrics(e))
    BY <1>3, Zenon DEF FullAt
  <2>2. IsFiniteSet({e.svc}) /\ IsFiniteSet({InstIn(e)})
    BY FS_Singleton, Zenon
  <2> QED
    BY <1>3, <2>1, <2>2, Zenon
<1>5. Finite
  BY <1>1, <1>4, FS_EmptySet, Zenon DEF Finite
<1>6. Full
  BY <1>1, <1>4, Zenon DEF Full, FullBetween
<1> QED
  BY <1>2, <1>5, <1>6, Zenon

\* merge never exceeds a limit of the merger, of services, of instances in a service,
\* of groups in an instance or of groups in all, whatever the limits were that its
\* operands were built under.
THEOREM SpecWithinLimits == Spec => []WithinLimits
<1> DEFINE Inv == Types /\ Places /\ Counted /\ WithinLimits
<1>1. Init => Inv
  BY PlacesInit, LimitsInit, Zenon
<1>2. Inv /\ [Next]_vars => Inv'
  BY TypesStep, PlacesStep, WithinStep, Zenon
<1> QED
  BY <1>1, <1>2, PTL DEF Spec

\* A share is in an overflow bucket only where a limit of some aggregator is used up:
\* getServiceMetrics and getServiceInstanceMetrics turn nothing away while there is
\* room, and what they turned away stays next to what used up the room.
THEOREM SpecOverflowOnlyWhenFull == Spec => []OverflowOnlyWhenFull
<1> DEFINE Inv == Types /\ Places /\ Counted /\ WithinLimits /\ Finite /\ Full
<1>1. Init => Inv
  BY PlacesInit, LimitsInit, Zenon
<1>2. Inv /\ [Next]_vars => Inv'
  BY TypesStep, PlacesStep, WithinStep, FiniteStep, FullStep, Zenon
<1>3. Inv => OverflowOnlyWhenFull
  <2> SUFFICES ASSUME Inv, NEW v \in AtRest, NEW x \in v.over
               PROVE  /\ x.at = All => ServicesFull(v.svcs)
                      /\ x.at # All /\ x.h.inst # NoInst => InstancesFull(InstsOf(v, x.at))
    BY Zenon DEF OverflowOnlyWhenFull, ServicesFull, InstancesFull
  <2>1. CASE v \in operands
    BY <2>1, Zenon DEF Full, FullAt
  <2>2. CASE v = to /\ Merged
    <3>1. to.svcs \cup left.svcs = to.svcs
      BY <2>2, Zenon DEF Merged
    <3>2. InstsOf(to, x.at) \cup InstsOf(left, x.at) = InstsOf(to, x.at)
      BY <2>2, Zenon DEF Merged, InstsOf
    <3> QED
      BY <2>2, <3>1, <3>2, Zenon DEF Full, FullBetween
  <2> QED
    BY <2>1, <2>2, Zenon DEF AtRest
<1> QED
  BY <1>1, <1>2, <1>3, PTL DEF Spec
=============================================================================
