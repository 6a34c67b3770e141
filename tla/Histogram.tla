------------------------------ MODULE Histogram ------------------------------
(***************************************************************************)
(* The histograms of transaction durations: recording into the sparse HDR  *)
(* representation of internal/hdrhistogram, its protobuf form, the merge   *)
(* of two protobuf forms in merger.go, and the buckets that are published. *)
(*                                                                         *)
(* A bar [b, n] is a bucket with its scaled count.  The parameters of the  *)
(* HDR histogram are constants here, because those of the code are out of  *)
(* reach of TLC; the code derives everything else from them, as below.     *)
(***************************************************************************)
EXTENDS Integers, Sequences, FiniteSets, SequencesExt

CONSTANTS
    SubBucketHalfCountMagnitude, \* 7 in the code, for two significant figures
    HighestTrackableValue,       \* 3.6e9 in the code, an hour in microseconds
    CountScale,                  \* histogramCountScale, 1000 in the code
    Values,                      \* the durations that are recorded
    Counts,                      \* the scaled representative counts of events
    MaxRecords,                  \* bound on the number of values recorded
    Nil                          \* a nil slice

VARIABLES
    h,        \* a histogram: [bucket, value, s], see HybridCountsRep
    to,       \* a stored histogram, a sequence of bars
    recorded, \* what was recorded in h: a count for every value
    merged,   \* what was merged into to
    refused,  \* the values that were too large to be recorded
    records   \* the number of values recorded

vars == <<h, to, recorded, merged, refused, records>>

-----------------------------------------------------------------------------
(* The index of a value. *)

SubBucketHalfCount == 2 ^ SubBucketHalfCountMagnitude

SubBucketCount == 2 * SubBucketHalfCount

\* getBucketCount
RECURSIVE BucketsNeeded(_)
BucketsNeeded(smallestUntrackable) ==
    IF smallestUntrackable < HighestTrackableValue
    THEN 1 + BucketsNeeded(2 * smallestUntrackable)
    ELSE 1

BucketCount == BucketsNeeded(SubBucketCount)

\* A mistake, for showing that the properties can tell it from the code: the first
\* bucket has twice the sub-buckets of the others.
CountsLenShort == BucketCount * (SubBucketCount \div 2)

CountsLen == (BucketCount + 1) * (SubBucketCount \div 2)

\* 64 - bits.LeadingZeros64: the length in bits, where a negative number is a large one.
RECURSIVE BitLen(_)
BitLen(v) == CASE v < 0 -> 64 [] v = 0 -> 0 [] v > 0 -> 1 + BitLen(v \div 2)

\* getBucketIndex: v|subBucketMask is at least as long as the mask.
BucketIndex(v) == Max({BitLen(v), SubBucketHalfCountMagnitude + 1}) - (SubBucketHalfCountMagnitude + 1)

\* getSubBucketIdx: all but the sign is shifted out of a negative duration.
SubBucketIdx(v, idx) == IF v < 0 THEN -1 ELSE v \div 2 ^ idx

CountsIndex(bucketIdx, subBucketIdx) ==
    (bucketIdx + 1) * SubBucketHalfCount + subBucketIdx - SubBucketHalfCount

CountsIndexFor(v) == CountsIndex(BucketIndex(v), SubBucketIdx(v, BucketIndex(v)))

ValueFromIndex(bucketIdx, subBucketIdx) == subBucketIdx * 2 ^ bucketIdx

\* A mistake, for showing that the properties can tell it from the code: the lower end
\* of the equivalent values.
LowestEquivalentValue(v) == ValueFromIndex(BucketIndex(v), SubBucketIdx(v, BucketIndex(v)))

\* nextNonEquivalentValue(v) - 1
HighestEquivalentValue(v) ==
    LET idx == BucketIndex(v)
        sub == SubBucketIdx(v, idx)
        adjusted == IF sub >= SubBucketCount THEN idx + 1 ELSE idx IN
    ValueFromIndex(idx, sub) + 2 ^ adjusted - 1

\* The iterator: the position after n steps of nextCountAtIdx from <<0, 0>>.
RECURSIVE Advance(_, _)
Advance(pos, n) ==
    IF n = 0 THEN pos
    ELSE Advance(IF pos[2] + 1 >= SubBucketCount THEN <<pos[1] + 1, SubBucketHalfCount>>
                 ELSE <<pos[1], pos[2] + 1>>, n - 1)

-----------------------------------------------------------------------------
(* HybridCountsRep: one bar in place, or a sorted slice of bars. *)

NoCounts == [bucket |-> 0, value |-> 0, s |-> Nil]

Bar(b, n) == [b |-> b, n |-> n]

\* The position slices.BinarySearchFunc and sort.Find return, from 1 on.
Position(bars, b) == Cardinality({i \in DOMAIN bars : bars[i].b < b}) + 1

Found(bars, b) == \E i \in DOMAIN bars : bars[i].b = b

Add(c, b, n) ==
    LET bars == IF c.s = Nil THEN <<Bar(c.bucket, c.value)>> ELSE c.s
        at == Position(bars, b) IN
    IF c.s = Nil /\ c.bucket = 0 /\ c.value = 0
    THEN [c EXCEPT !.bucket = b, !.value = n]
    ELSE [bucket |-> 0, value |-> 0,
          s |-> IF Found(bars, b) THEN [bars EXCEPT ![at].n = @ + n]
                ELSE InsertAt(bars, at, Bar(b, n))]

\* The bars in the order of ForEach.
ForEach(c) ==
    CASE c.s # Nil -> c.s
      [] c.s = Nil /\ (c.bucket # 0 \/ c.value # 0) -> <<Bar(c.bucket, c.value)>>
      [] OTHER -> <<>>

\* A mistake, for showing that the properties can tell it from the code: the slice keeps
\* its bars.
ResetInPlaceOnly(c) == [c EXCEPT !.bucket = 0, !.value = 0]

\* Reset keeps the memory of the slice.
ResetCounts(c) == [bucket |-> 0, value |-> 0, s |-> IF c.s = Nil THEN Nil ELSE <<>>]

\* histogramFromProto
FromProto(c, bars) == FoldLeft(LAMBDA d, bar : Add(d, bar.b, bar.n), ResetCounts(c), bars)

\* Buckets: the bars with a positive count, with the value the iterator has reached, as
\* far as it goes.
Buckets(c) ==
    LET bars == SelectSeq(ForEach(c), LAMBDA bar :
                             bar.n > 0 /\ Advance(<<0, 0>>, bar.b)[1] < BucketCount)
        Pos(i) == Advance(<<0, 0>>, bars[i].b) IN
    [i \in DOMAIN bars |->
        [count |-> (2 * bars[i].n + CountScale) \div (2 * CountScale),
         value |-> HighestEquivalentValue(ValueFromIndex(Pos(i)[1], Pos(i)[2]))]]

-----------------------------------------------------------------------------
(* mergeHistogram, in place and from the back. *)

\* The length of the merged slices: one less for every common bucket.
RECURSIVE RequiredLen(_, _, _, _, _)
RequiredLen(a, b, toIdx, fromIdx, len) ==
    IF toIdx > Len(a) \/ fromIdx > Len(b) THEN len
    ELSE CASE a[toIdx].b = b[fromIdx].b -> RequiredLen(a, b, toIdx + 1, fromIdx + 1, len - 1)
           [] a[toIdx].b < b[fromIdx].b -> RequiredLen(a, b, toIdx + 1, fromIdx, len)
           [] a[toIdx].b > b[fromIdx].b -> RequiredLen(a, b, toIdx, fromIdx + 1, len)

\* The loop over idx.  When the searched part of to is used up, the rest of from is copied.
RECURSIVE MergeBack(_, _, _, _, _, _)
MergeBack(a, b, start, idx, toIdx, fromIdx) ==
    IF idx < 1 \/ fromIdx < 1 THEN a
    ELSE IF toIdx < start
    THEN [i \in DOMAIN a |-> IF i \in start .. idx /\ i - start + 1 <= fromIdx
                             THEN b[i - start + 1] ELSE a[i]]
    ELSE CASE a[toIdx].b = b[fromIdx].b ->
                 MergeBack([a EXCEPT ![idx] = Bar(a[toIdx].b, a[toIdx].n + b[fromIdx].n)],
                           b, start, idx - 1, toIdx - 1, fromIdx - 1)
           [] a[toIdx].b > b[fromIdx].b ->
                 MergeBack([a EXCEPT ![idx] = a[toIdx]], b, start, idx - 1, toIdx - 1, fromIdx)
           [] a[toIdx].b < b[fromIdx].b ->
                 MergeBack([a EXCEPT ![idx] = b[fromIdx]], b, start, idx - 1, toIdx, fromIdx - 1)

\* slices.Grow leaves what was in the memory before: bars of no use.
Grown(a, len) == [i \in 1 .. len |-> IF i <= Len(a) THEN a[i] ELSE Bar(-1, -1)]

\* A mistake, for showing that the properties can tell it from the code: common buckets
\* are searched from the bar after the first one that may be common.
MergeHistogramAfter(a, b) ==
    LET start == Position(a, b[1].b)
        len == RequiredLen(a, b, start + 1, 1, Len(a) + Len(b)) IN
    CASE b = <<>> -> a
      [] b # <<>> /\ a = <<>> -> b
      [] OTHER -> MergeBack(Grown(a, len), b, start, len, Len(a), Len(b))

MergeHistogram(a, b) ==
    LET start == Position(a, b[1].b)
        len == RequiredLen(a, b, start, 1, Len(a) + Len(b)) IN
    CASE b = <<>> -> a
      [] b # <<>> /\ a = <<>> -> b
      [] b # <<>> /\ a # <<>> /\ Len(b) = 1 /\ Found(a, b[1].b) -> [a EXCEPT ![start].n = @ + b[1].n]
      [] OTHER -> MergeBack(Grown(a, len), b, start, len, Len(a), Len(b))

-----------------------------------------------------------------------------
Nothing == [v \in Values |-> 0]

Init ==
    /\ h = NoCounts /\ to = <<>>
    /\ recorded = Nothing /\ merged = Nothing
    /\ refused = {} /\ records = 0

\* RecordDuration, RecordValues: an index out of range is an error, which the callers drop.
InRange(idx) == 0 <= idx /\ idx < CountsLen

Record(v, n) ==
    /\ records < MaxRecords
    /\ records' = records + 1
    /\ IF InRange(CountsIndexFor(v))
       THEN /\ h' = Add(h, CountsIndexFor(v), n)
            /\ recorded' = [recorded EXCEPT ![v] = @ + n]
            /\ UNCHANGED refused
       ELSE refused' = refused \cup {v} /\ UNCHANGED <<h, recorded>>
    /\ UNCHANGED <<to, merged>>

\* setHistogramProto, mergeHistogram, and the histogram is used for another event.
MergeProto ==
    /\ to' = MergeHistogram(to, ForEach(h))
    /\ merged' = [v \in Values |-> merged[v] + recorded[v]]
    /\ h' = ResetCounts(h)
    /\ recorded' = Nothing
    /\ UNCHANGED <<refused, records>>

\* histogramFromProto, for publishing or for an operand of many values.
Load ==
    /\ h' = FromProto(h, to)
    /\ recorded' = merged
    /\ to' = <<>>
    /\ merged' = Nothing
    /\ UNCHANGED <<refused, records>>

Next == (\E v \in Values, n \in Counts : Record(v, n)) \/ MergeProto \/ Load

Spec == Init /\ [][Next]_vars

-----------------------------------------------------------------------------
(* Properties. *)

\* The count of a bucket in what was recorded.
Total(rec, b) == MapThenSumSet(LAMBDA v : rec[v], {v \in Values : CountsIndexFor(v) = b})

Ascending(bars) == \A i, j \in DOMAIN bars : i < j => bars[i].b < bars[j].b

\* The bars hold exactly the counts of rec.
Represents(bars, rec) ==
    /\ Ascending(bars)
    /\ \A i \in DOMAIN bars : bars[i].n = Total(rec, bars[i].b)
    /\ \A v \in Values : rec[v] > 0 => Found(bars, CountsIndexFor(v))

\* The sparse representation counts every recorded value once in the bucket of its
\* index, sorted by bucket, also after it was reset and used again, or was loaded.
RecordsExact == Represents(ForEach(h), recorded)

\* mergeHistogram adds two histograms: the result is sorted, which the next merge
\* relies on, and has the sum of the counts in every bucket, whichever buckets the two
\* have in common and wherever those of the one lie among those of the other.
MergeExact == Represents(to, merged)

\* A value up to the highest trackable one is never refused.
TrackableRecorded == \A v \in refused : v < 0 \/ v > HighestTrackableValue

\* The published value of a bar is at least that of every value recorded in it, and not
\* more than the precision of the histogram above it: the iterator of Buckets reaches the
\* position that countsIndexFor gave the value.
ValuesPrecise ==
    \A v \in Values : recorded[v] > 0 =>
       \E i \in DOMAIN Buckets(h) :
          /\ v <= Buckets(h)[i].value
          /\ (Buckets(h)[i].value - v) * SubBucketHalfCount <= v
=============================================================================
