-------------------------------- MODULE Keys --------------------------------
(***************************************************************************)
(* The configuration (config.go) and the encoding of keys (codec.go): why  *)
(* the ranges of encoded keys that a harvest reads and deletes are the     *)
(* windows of its interval.                                                *)
(*                                                                         *)
(* Module Aggregator works with windows of time.  Here intervals and times *)
(* are in ticks, keys are encoded to whole seconds in fields of fixed      *)
(* width, and pebble orders them byte by byte, which is field by field     *)
(* for big-endian fields.                                                  *)
(***************************************************************************)
EXTENDS Integers, Sequences, FiniteSets

CONSTANTS
    TicksPerSecond, \* the resolution of time.Duration
    IvlFieldSize,   \* 2^16, the size of the field for the interval
    MaxInterval,    \* 18 hours
    Configs,        \* the configurations that are tried
    IDs,            \* numbers, the IDs of combined metrics
    Starts,         \* the times at which the aggregator is made
    MaxNow          \* bound on the processing time

\* Durations are signed; the other numbers are not.  18 hours fit into the field for the
\* interval.
ASSUME KeysAssumption ==
    /\ TicksPerSecond \in Nat \ {0} /\ IvlFieldSize \in Nat \ {0} /\ MaxInterval \in Nat
    /\ MaxInterval < IvlFieldSize * TicksPerSecond
    /\ \A c \in Configs : c.intervals \in Seq(Int) /\ c.partitions \in Nat
    /\ IDs \subseteq Nat /\ Starts \subseteq Nat

VARIABLES
    cfg,       \* the configuration, [dataDir, processor, partitions, intervals]
    now,       \* processingTime
    stored,    \* the keys that were aggregated to and are not harvested
    db,        \* the encoded keys in the database
    delivered  \* history: the keys given to the Processor, with the ones they are from

vars == <<cfg, now, stored, db, delivered>>

-----------------------------------------------------------------------------
(* validateCfg *)

Lowest(c) == c.intervals[1]

Highest(c) == c.intervals[Len(c.intervals)]

\* Mutant of ValidateCfg.
ValidateCfgUnbounded(c) ==
    /\ c.dataDir /\ c.processor /\ c.partitions # 0 /\ Len(c.intervals) # 0
    /\ \A i \in 1 .. Len(c.intervals) - 1 : c.intervals[i] <= c.intervals[i + 1]
    /\ \A i \in 2 .. Len(c.intervals) : c.intervals[i] % Lowest(c) = 0
    /\ Lowest(c) >= TicksPerSecond

ValidateCfg(c) ==
    /\ c.dataDir /\ c.processor
    /\ c.partitions # 0
    /\ Len(c.intervals) # 0
    /\ \A i \in 1 .. Len(c.intervals) - 1 : c.intervals[i] <= c.intervals[i + 1]
    /\ \A i \in 2 .. Len(c.intervals) : c.intervals[i] % Lowest(c) = 0
    /\ Lowest(c) >= TicksPerSecond
    /\ Highest(c) <= MaxInterval

\* The intervals, without repetitions.
Ivls == {cfg.intervals[i] : i \in DOMAIN cfg.intervals}

-----------------------------------------------------------------------------
(* CombinedMetricsKey *)

Truncate(t, d) == t - (t % d)

\* MarshalBinaryToSizedBuffer
Marshal(k) ==
    <<(k.ivl \div TicksPerSecond) % IvlFieldSize, k.pt \div TicksPerSecond, k.id, k.part>>

\* UnmarshalBinary
Unmarshal(b) ==
    [ivl |-> b[1] * TicksPerSecond, pt |-> b[2] * TicksPerSecond, id |-> b[3], part |-> b[4]]

\* The order of pebble.
Less(a, b) ==
    \E i \in 1 .. 4 : a[i] < b[i] /\ \A j \in 1 .. i - 1 : a[j] = b[j]

\* The bounds of harvestForInterval have a zero ID and a zero partition.
Bound(ivl, t) == Marshal([ivl |-> ivl, pt |-> t, id |-> 0, part |-> 0])

\* Mutant of InRange.
InRangeAfterLower(b, ivl, end) == Less(Bound(ivl, end - ivl), b) /\ Less(b, Bound(ivl, end))

InRange(b, ivl, end) == ~Less(b, Bound(ivl, end - ivl)) /\ Less(b, Bound(ivl, end))

-----------------------------------------------------------------------------
Init ==
    /\ cfg \in {c \in Configs : ValidateCfg(c)}
    /\ \E t \in Starts : now = Truncate(t, Lowest(cfg))
    /\ stored = {} /\ db = {} /\ delivered = {}

\* An event with metrics in one partition.
Aggregate(id, part) ==
    LET keys == {[ivl |-> ivl, pt |-> Truncate(now, ivl), id |-> id, part |-> part] : ivl \in Ivls} IN
       /\ stored' = stored \cup keys
       /\ db' = db \cup {Marshal(k) : k \in keys}
       /\ UNCHANGED <<cfg, now, delivered>>

\* The window of each interval that ends now, in time: what a harvest should take.
InWindow(k, end) == k.pt >= end - k.ivl /\ k.pt < end

\* Mutant of DueIvls.
DueIvlsAlways(end) == Ivls

\* The intervals that are harvested at end.
DueIvls(end) == {ivl \in Ivls : end % ivl = 0}

\* Run advances the processing time, and harvest iterates over the range of every
\* interval that is due, decodes its keys for the Processor and deletes the range.
Harvest ==
    LET end == now + Lowest(cfg)
        taken == {b \in db : \E ivl \in DueIvls(end) : InRange(b, ivl, end)} IN
       /\ end <= MaxNow
       /\ now' = end
       /\ db' = db \ taken
       /\ stored' = {k \in stored : ~(k.ivl \in DueIvls(end) /\ InWindow(k, end))}
       /\ delivered' = delivered \cup {[key |-> Unmarshal(Marshal(k)), of |-> k] :
                                       k \in {l \in stored : Marshal(l) \in taken}}
       /\ UNCHANGED cfg

Next == (\E id \in IDs, part \in 0 .. cfg.partitions - 1 : Aggregate(id, part)) \/ Harvest

Spec == Init /\ [][Next]_vars

-----------------------------------------------------------------------------
(* Properties. *)

\* The database holds the keys of exactly the windows that are not harvested, each one
\* under an encoding of its own: the ranges of encoded keys that harvests delete are the
\* windows of their interval, for every configuration that is accepted, also when the
\* intervals are no whole seconds, and nothing of another interval or window is in them.
RangesAreWindows ==
    /\ db = {Marshal(k) : k \in stored}
    /\ \A k, l \in stored : Marshal(k) = Marshal(l) => k = l

\* The key that a Processor is given encodes to the key it was harvested from, so that an
\* l2 aggregator files it in the same window, and is that key when the intervals are
\* whole seconds.
KeysDecoded ==
    \A d \in delivered :
       /\ Marshal(d.key) = Marshal(d.of)
       /\ (\A ivl \in Ivls : ivl % TicksPerSecond = 0) => d.key = d.of

\* Nothing is aggregated under the encoded key of a combined metrics that was already
\* given to the Processor: successive windows stay apart after they are rounded to
\* seconds, so no window is harvested in two parts.
WindowsApart == \A k \in stored, d \in delivered : Marshal(d.of) # Marshal(k)
=============================================================================
