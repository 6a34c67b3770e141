-------------------------------- MODULE Wire --------------------------------
(***************************************************************************)
(* The wire format of the generated code of aggregationpb: what MarshalVT  *)
(* writes into a buffer of SizeVT bytes and how UnmarshalVT reads fields.  *)
(*                                                                         *)
(* A message is [f, unknown]: its fields in the order of their numbers,    *)
(* which are 1, 2, ... in every message, and unknownFields.  An optional   *)
(* message is a sequence of at most one message.  Bytes are numbers, a     *)
(* string is a sequence of bytes, and a double a natural number, with      *)
(* eight bytes of its own in place of its IEEE 754 bits.                   *)
(***************************************************************************)
EXTENDS Integers, Sequences, SequencesExt

Kind(k, of) == [k |-> k, of |-> of]

Varint == Kind("varint", "")   \* uint64, uint32, int64, bool
Double == Kind("double", "")
Text == Kind("text", "")       \* string and bytes
Packed == Kind("packed", "")   \* repeated int64, repeated int32
Texts == Kind("texts", "")     \* repeated string
Doubles == Kind("doubles", "") \* repeated double
Msg(t) == Kind("msg", t)
Msgs(t) == Kind("msgs", t)

-----------------------------------------------------------------------------
(* The fields of the messages, as UnmarshalVT switches on them. *)

CombinedMetrics == <<Msgs("KeyedServiceMetrics"), Msg("Overflow"), Text, Double, Varint>>

KeyedServiceMetrics == <<Msg("ServiceAggregationKey"), Msg("ServiceMetrics")>>

ServiceAggregationKey == <<Varint, Text, Text, Text, Text>>

ServiceMetrics == <<Msgs("KeyedServiceInstanceMetrics"), Msg("Overflow")>>

ServiceInstanceAggregationKey == <<Text>>

ServiceInstanceMetrics ==
    <<Msgs("KeyedTransactionMetrics"), Msgs("KeyedServiceTransactionMetrics"),
      Msgs("KeyedSpanMetrics")>>

KeyedServiceInstanceMetrics ==
    <<Msg("ServiceInstanceAggregationKey"), Msg("ServiceInstanceMetrics")>>

KeyedTransactionMetrics == <<Msg("TransactionAggregationKey"), Msg("TransactionMetrics")>>

\* trace_root is a bool and faas_coldstart, the sixteenth field, a uint32.
TransactionAggregationKey == [n \in 1..29 |-> IF n \in {1, 16} THEN Varint ELSE Text]

TransactionMetrics == <<Msg("HDRHistogram")>>

KeyedServiceTransactionMetrics ==
    <<Msg("ServiceTransactionAggregationKey"), Msg("ServiceTransactionMetrics")>>

ServiceTransactionAggregationKey == <<Text>>

ServiceTransactionMetrics == <<Msg("HDRHistogram"), Double, Double>>

KeyedSpanMetrics == <<Msg("SpanAggregationKey"), Msg("SpanMetrics")>>

SpanAggregationKey == <<Text, Text, Text, Text, Text>>

SpanMetrics == <<Double, Double>>

Overflow ==
    <<Msg("TransactionMetrics"), Msg("ServiceTransactionMetrics"), Msg("SpanMetrics"),
      Text, Text, Text>>

HDRHistogram == <<Varint, Varint, Varint, Packed, Packed>>

GlobalLabels == <<Msgs("Label"), Msgs("NumericLabel")>>

Label == <<Text, Text, Texts>>

NumericLabel == <<Text, Double, Doubles>>

Schema ==
    [CombinedMetrics |-> CombinedMetrics,
     KeyedServiceMetrics |-> KeyedServiceMetrics,
     ServiceAggregationKey |-> ServiceAggregationKey,
     ServiceMetrics |-> ServiceMetrics,
     ServiceInstanceAggregationKey |-> ServiceInstanceAggregationKey,
     ServiceInstanceMetrics |-> ServiceInstanceMetrics,
     KeyedServiceInstanceMetrics |-> KeyedServiceInstanceMetrics,
     KeyedTransactionMetrics |-> KeyedTransactionMetrics,
     TransactionAggregationKey |-> TransactionAggregationKey,
     TransactionMetrics |-> TransactionMetrics,
     KeyedServiceTransactionMetrics |-> KeyedServiceTransactionMetrics,
     ServiceTransactionAggregationKey |-> ServiceTransactionAggregationKey,
     ServiceTransactionMetrics |-> ServiceTransactionMetrics,
     KeyedSpanMetrics |-> KeyedSpanMetrics,
     SpanAggregationKey |-> SpanAggregationKey,
     SpanMetrics |-> SpanMetrics,
     Overflow |-> Overflow,
     HDRHistogram |-> HDRHistogram,
     GlobalLabels |-> GlobalLabels,
     Label |-> Label,
     NumericLabel |-> NumericLabel]

-----------------------------------------------------------------------------
(* MarshalVT and SizeVT. *)

\* bits.Len64
Len64[x \in Nat] == IF x = 0 THEN 0 ELSE 1 + Len64[x \div 2]

\* A mutant of sov: a byte of a varint would hold eight bits of the number.
SovOfBytes(x) == (Len64[x] + 7) \div 8

sov(x) == (Len64[IF x % 2 = 0 THEN x + 1 ELSE x] + 6) \div 7

EncodeVarint[x \in Nat] ==
    IF x < 128 THEN <<x>> ELSE <<(x % 128) + 128>> \o EncodeVarint[x \div 128]

\* binary.LittleEndian.PutUint64 of the stand-in for math.Float64bits
Float64Bytes(x) == <<x % 256, x \div 256, 0, 0, 0, 0, 0, 0>>

WireType(kind) == CASE kind.k = "varint" -> 0 [] kind.k = "double" -> 1 [] OTHER -> 2

Tag(n, kind) == EncodeVarint[n * 8 + WireType(kind)]

\* The size of a tag, a literal in SizeVT.
TagSize(n) == IF n < 16 THEN 1 ELSE 2

SumOf(v, Size(_)) ==
    LET sum[i \in 0..Len(v)] == IF i = 0 THEN 0 ELSE sum[i - 1] + Size(v[i]) IN sum[Len(v)]

Each(v, Write(_)) ==
    LET bytes[i \in 0..Len(v)] == IF i = 0 THEN <<>> ELSE bytes[i - 1] \o Write(v[i]) IN bytes[Len(v)]

\* The numbers of the fields that are written: numbers that are not zero, and what is not
\* empty and not nil.
Present(t, m) ==
    SelectSeq([n \in DOMAIN Schema[t] |-> n],
              LAMBDA n : IF Schema[t][n].k \in {"varint", "double"} THEN m.f[n] # 0
                         ELSE m.f[n] # <<>>)

RECURSIVE SizeVT(_, _)
SizeVT(t, m) ==
    LET Delimited(n, l) == TagSize(n) + sov(l) + l
        Size(n, kind, v) ==
            CASE kind.k = "varint" -> TagSize(n) + sov(v)
              [] kind.k = "double" -> TagSize(n) + 8
              [] kind.k = "text" -> Delimited(n, Len(v))
              [] kind.k = "packed" -> Delimited(n, SumOf(v, sov))
              [] kind.k = "doubles" -> Delimited(n, 8 * Len(v))
              [] kind.k = "texts" -> SumOf(v, LAMBDA x : Delimited(n, Len(x)))
              [] OTHER -> SumOf(v, LAMBDA x : Delimited(n, SizeVT(kind.of, x))) IN
    SumOf(Present(t, m), LAMBDA n : Size(n, Schema[t][n], m.f[n])) + Len(m.unknown)

\* MarshalToSizedBufferVT fills the buffer from its end with the last field first.
RECURSIVE MarshalToSizedBufferVT(_, _)
MarshalToSizedBufferVT(t, m) ==
    LET Delimited(n, kind, b) == Tag(n, kind) \o EncodeVarint[Len(b)] \o b
        Field(n, kind, v) ==
            CASE kind.k = "varint" -> Tag(n, kind) \o EncodeVarint[v]
              [] kind.k = "double" -> Tag(n, kind) \o Float64Bytes(v)
              [] kind.k = "text" -> Delimited(n, kind, v)
              [] kind.k = "packed" ->
                    Delimited(n, kind, Each(v, LAMBDA x : EncodeVarint[x]))
              [] kind.k = "doubles" -> Delimited(n, kind, Each(v, Float64Bytes))
              [] kind.k = "texts" -> Each(v, LAMBDA x : Delimited(n, kind, x))
              [] OTHER -> Each(v, LAMBDA x :
                            Delimited(n, kind, MarshalToSizedBufferVT(kind.of, x))) IN
    Each(Present(t, m), LAMBDA n : Field(n, Schema[t][n], m.f[n])) \o m.unknown

\* The buffer of SizeVT bytes is filled from its end and as many bytes as were written
\* are returned from its start; a buffer that is too short makes the code panic.
Panic == <<-1>>

MarshalVT(t, m) ==
    LET written == MarshalToSizedBufferVT(t, m)
        spare == SizeVT(t, m) - Len(written) IN
    IF spare < 0 THEN Panic
    ELSE SubSeq([i \in 1..spare |-> 0] \o written, 1, Len(written))

-----------------------------------------------------------------------------
(* Reading: [ok, v, i] is a value and the index after it. *)

Read(v, i) == [ok |-> TRUE, v |-> v, i |-> i]

Failed == [ok |-> FALSE, v |-> 0, i |-> 0]

RECURSIVE ReadVarint(_, _, _)
ReadVarint(b, i, shift) ==
    IF shift >= 64 \/ i > Len(b) THEN Failed
    ELSE IF b[i] < 128 THEN Read(b[i], i + 1)
    ELSE LET rest == ReadVarint(b, i + 1, shift + 7) IN
         IF rest.ok THEN Read(b[i] - 128 + 128 * rest.v, rest.i) ELSE Failed

ReadDouble(b, i) == IF i + 7 > Len(b) THEN Failed ELSE Read(b[i] + 256 * b[i + 1], i + 8)

\* A length and as many bytes.
ReadDelimited(b, i) ==
    LET l == ReadVarint(b, i, 0) IN
    IF ~l.ok \/ l.i + l.v - 1 > Len(b) THEN Failed
    ELSE Read(SubSeq(b, l.i, l.i + l.v - 1), l.i + l.v)

\* The elements of a packed field, varints or doubles: read up to the index end.
RECURSIVE ReadPacked(_, _, _, _)
ReadPacked(kind, b, i, end) ==
    IF i >= end THEN Read(<<>>, i)
    ELSE LET x == IF kind.k = "doubles" THEN ReadDouble(b, i) ELSE ReadVarint(b, i, 0)
             rest == ReadPacked(kind, b, x.i, end) IN
         IF x.ok /\ rest.ok THEN Read(<<x.v>> \o rest.v, rest.i) ELSE Failed

\* skip: the index after an unknown field and all of its groups.
RECURSIVE Skip(_, _, _)
Skip(b, i, depth) ==
    LET tag == ReadVarint(b, i, 0)
        After(r, d) == IF ~r.ok THEN Failed ELSE IF d = 0 THEN Read(0, r.i) ELSE Skip(b, r.i, d)
        wt == tag.v % 8 IN
    CASE ~tag.ok -> Failed
      [] tag.ok /\ wt = 0 -> After(ReadVarint(b, tag.i, 0), depth)
      [] tag.ok /\ wt = 1 -> After(Read(0, tag.i + 8), depth)
      [] tag.ok /\ wt = 2 ->
            LET l == ReadVarint(b, tag.i, 0) IN
            After(IF l.ok THEN Read(0, l.i + l.v) ELSE Failed, depth)
      [] tag.ok /\ wt = 3 -> After(Read(0, tag.i), depth + 1)
      [] tag.ok /\ wt = 4 -> IF depth = 0 THEN Failed ELSE After(Read(0, tag.i), depth - 1)
      [] tag.ok /\ wt = 5 -> After(Read(0, tag.i + 4), depth)
      [] OTHER -> Failed
=============================================================================
