------------------------------- MODULE VTPool -------------------------------
(***************************************************************************)
(* The memory of the messages of aggregationpb: objects, the pools they    *)
(* are taken from and returned to, and UnmarshalVT, CloneVT and ResetVT on *)
(* them.  A heap is [obj, arr, pool, pick]:                                *)
(*   obj   the objects [t, f, unknown] by their addresses.  A field holds  *)
(*         the addresses of the messages it points to: an optional one as  *)
(*         a sequence of at most one, repeated ones as [len, elems], where *)
(*         elems past len are the pointers left in the capacity.           *)
(*   arr   the arrays behind the slices Values of labels, which share them *)
(*         with the labels of events.  A slice is [a, len], nil has a = 0. *)
(*   pool  the sync.Pool of each type, in the order of the calls of Put.   *)
(*   pick  what Get does: it takes the object that was put last, the one   *)
(*         that was put first, or makes a new one.                         *)
(***************************************************************************)
EXTENDS Wire, FiniteSets, TLC

Types == DOMAIN Schema

NilSlice == [a |-> 0, len |-> 0]

ZeroOf(kind) ==
    CASE kind.k \in {"varint", "double"} -> 0
      [] kind.k \in {"text", "packed", "msg"} -> <<>>
      [] kind.k = "msgs" -> [len |-> 0, elems |-> <<>>]
      [] kind.k \in {"texts", "doubles"} -> NilSlice

\* &T{}
Zero(t) == [t |-> t, f |-> [n \in DOMAIN Schema[t] |-> ZeroOf(Schema[t][n])], unknown |-> <<>>]

EmptyHeap(pick) == [obj |-> <<>>, arr |-> <<>>, pool |-> [t \in Types |-> <<>>], pick |-> pick]

\* A result: a heap and an address or a slice.
At(S, v) == [S |-> S, v |-> v]

Unused(map) == CHOOSE n \in 1..Cardinality(DOMAIN map) + 1 : n \notin DOMAIN map

New(S, t) == At([S EXCEPT !.obj = Unused(S.obj) :> Zero(t) @@ @], Unused(S.obj))

NewArray(S, values) == At([S EXCEPT !.arr = Unused(S.arr) :> values @@ @], Unused(S.arr))

\* The numbers of the fields of some kinds.
NumbersOf(t, kinds) ==
    SelectSeq([n \in DOMAIN Schema[t] |-> n], LAMBDA n : Schema[t][n].k \in kinds)

Set(S, id, n, v) == [S EXCEPT !.obj[id].f[n] = v]

\* sync.Pool.Get
FromVTPool(S, t) ==
    LET p == S.pool[t]
        i == IF S.pick = "newest" THEN Len(p) ELSE 1 IN
    IF S.pick = "new" \/ p = <<>> THEN New(S, t)
    ELSE At([S EXCEPT !.pool[t] = RemoveAt(p, i)], p[i])

-----------------------------------------------------------------------------
(* Slices. *)

Elements(v) == SubSeq(v.elems, 1, v.len)

\* The next element of a repeated message: the pointer in the capacity or a new one.
Extend(S, id, n) ==
    LET v == S.obj[id].f[n]
        new == New(S, Schema[S.obj[id].t][n].of) IN
    IF v.len < Len(v.elems)
    THEN At(Set(S, id, n, [v EXCEPT !.len = @ + 1]), v.elems[v.len + 1])
    ELSE At(Set(new.S, id, n, [len |-> v.len + 1, elems |-> Append(v.elems, new.v)]), new.v)

\* append(m.X, p): the pointer in the capacity is overwritten.
Push(S, id, n, p) ==
    LET v == S.obj[id].f[n] IN
    Set(S, id, n, [len |-> v.len + 1,
                   elems |-> SubSeq(v.elems, 1, v.len) \o <<p>>
                             \o SubSeq(v.elems, v.len + 2, Len(v.elems))])

ReadSlice(S, s) == IF s.a = 0 THEN <<>> ELSE SubSeq(S.arr[s.a], 1, s.len)

Capacity(S, s) == IF s.a = 0 THEN 0 ELSE Len(S.arr[s.a])

\* append(s, x): in place while there is capacity, else in an array of twice the size,
\* whose free places hold x here until they are written.
AppendSlice(S, s, x) ==
    IF s.len < Capacity(S, s)
    THEN At([S EXCEPT !.arr[s.a][s.len + 1] = x], [s EXCEPT !.len = @ + 1])
    ELSE LET size == IF s.len = 0 THEN 1 ELSE 2 * s.len
             new == NewArray(S, [i \in 1..size |-> IF i <= s.len THEN S.arr[s.a][i] ELSE x]) IN
         At(new.S, [a |-> new.v, len |-> s.len + 1])

\* make([]float64, 0, n) before a packed field is read into a slice that is too small.
Reserve(S, s, xs) ==
    IF xs # <<>> /\ s.len = 0 /\ Capacity(S, s) < Len(xs)
    THEN LET new == NewArray(S, xs) IN At(new.S, [a |-> new.v, len |-> 0])
    ELSE At(S, s)

-----------------------------------------------------------------------------
(* ResetVT and ReturnToVTPool. *)

\* A mutant of Kept: the counts and the buckets of a histogram keep their length.
KeptPacked(kind, v) ==
    CASE kind.k \in {"msgs", "texts", "doubles"} -> [v EXCEPT !.len = 0]
      [] kind.k = "packed" -> v
      [] OTHER -> ZeroOf(kind)

\* Reset clears a message; the memory of its slices is kept.
Kept(kind, v) ==
    IF kind.k \in {"msgs", "texts", "doubles"} THEN [v EXCEPT !.len = 0] ELSE ZeroOf(kind)

RECURSIVE ReturnToVTPool(_, _)

RECURSIVE ResetVT(_, _)
ResetVT(S, id) ==
    LET fields == Schema[S.obj[id].t]
        Release(T, n) ==
            LET v == T.obj[id].f[n] IN
            CASE fields[n].k = "msgs" -> FoldLeft(LAMBDA U, e : ResetVT(U, e), T, Elements(v))
              [] fields[n].k = "msg" -> FoldLeft(LAMBDA U, e : ReturnToVTPool(U, e), T, v)
        R == FoldLeft(Release, S, NumbersOf(S.obj[id].t, {"msg", "msgs"})) IN
    [R EXCEPT !.obj[id].f = [n \in DOMAIN fields |-> Kept(fields[n], R.obj[id].f[n])],
              !.obj[id].unknown = <<>>]

ReturnToVTPool(S, id) ==
    [ResetVT(S, id) EXCEPT !.pool[S.obj[id].t] = Append(@, id)]

-----------------------------------------------------------------------------
(* UnmarshalVT: [S, ok, i], the heap, whether there was no error and the index after *)
(* what was read.  On an error the object keeps what was read before it.             *)

Go(S, r) == [S |-> S, ok |-> r.ok, i |-> r.i]

Stop(S) == Go(S, Failed)

RECURSIVE UnmarshalVT(_, _, _, _)

\* Into the message at x.v, which is new in the message or has been there.
UnmarshalMessage(x, r) ==
    LET After(u) == IF u.ok THEN Go(u.S, r) ELSE Stop(u.S) IN
    After(UnmarshalVT(x.S, x.v, r.v, 1))

\* An optional message that is nil is taken from the pool.
Optional(S, id, n, v) ==
    LET Got(p) == At(Set(p.S, id, n, <<p.v>>), p.v) IN
    IF v # <<>> THEN At(S, v[1]) ELSE Got(FromVTPool(S, Schema[S.obj[id].t][n].of))

Put(x, id, n, r) == Go(Set(x.S, id, n, x.v), r)

\* What was read, r, is put in the field n, which is v.
PutField(S, id, n, kind, v, wt, r) ==
    CASE ~r.ok -> Stop(S)
      [] r.ok /\ kind.k \in {"varint", "double", "text"} -> Put(At(S, r.v), id, n, r)
      [] r.ok /\ kind.k = "packed" -> Put(At(S, v \o r.v), id, n, r)
      [] r.ok /\ kind.k = "texts" -> Put(AppendSlice(S, v, r.v), id, n, r)
      [] r.ok /\ kind.k = "doubles" ->
            Put(FoldLeft(LAMBDA x, e : AppendSlice(x.S, x.v, e),
                         IF wt = 2 THEN Reserve(S, v, r.v) ELSE At(S, v), r.v), id, n, r)
      [] r.ok /\ kind.k = "msgs" -> UnmarshalMessage(Extend(S, id, n), r)
      [] r.ok /\ kind.k = "msg" -> UnmarshalMessage(Optional(S, id, n, v), r)

\* The value of a field of a kind and a wire type.
ReadField(kind, wt, b, i) ==
    LET One(r) == [r EXCEPT !.v = <<r.v>>]
        All(l) == IF l.ok THEN ReadPacked(kind, b, l.i - Len(l.v), l.i) ELSE Failed IN
    CASE kind.k = "packed" /\ wt = 0 -> One(ReadVarint(b, i, 0))
      [] kind.k = "doubles" /\ wt = 1 -> One(ReadDouble(b, i))
      [] kind.k \in {"packed", "doubles"} /\ wt = 2 -> All(ReadDelimited(b, i))
      [] kind.k = "varint" /\ wt = 0 -> ReadVarint(b, i, 0)
      [] kind.k = "double" /\ wt = 1 -> ReadDouble(b, i)
      [] kind.k \in {"text", "texts", "msg", "msgs"} /\ wt = 2 -> ReadDelimited(b, i)
      [] OTHER -> Failed

\* A field that is not known is kept as it is.
PutUnknown(S, id, b, i, r) ==
    IF ~r.ok \/ r.i > Len(b) + 1 THEN Stop(S)
    ELSE Go([S EXCEPT !.obj[id].unknown = @ \o SubSeq(b, i, r.i - 1)], r)

\* The field whose tag was read at the index i.
UnmarshalField(S, id, fields, b, i, tag) ==
    LET Of(n, wt) ==
            IF n \notin DOMAIN fields THEN PutUnknown(S, id, b, i, Skip(b, i, 0))
            ELSE PutField(S, id, n, fields[n], S.obj[id].f[n], wt, ReadField(fields[n], wt, b, tag.i)) IN
    IF ~tag.ok \/ tag.v % 8 = 4 \/ tag.v \div 8 = 0 THEN Stop(S)
    ELSE Of(tag.v \div 8, tag.v % 8)

UnmarshalVT(S, id, b, i) ==
    LET Then(r) == IF r.ok THEN UnmarshalVT(r.S, id, b, r.i) ELSE r IN
    IF i > Len(b) THEN Go(S, Read(0, i))
    ELSE Then(UnmarshalField(S, id, Schema[S.obj[id].t], b, i, ReadVarint(b, i, 0)))

-----------------------------------------------------------------------------
(* CloneVT, and the message that is at an address. *)

RECURSIVE CloneVT(_, _)
CloneVT(S, id) ==
    LET o == S.obj[id]
        new == New(S, o.t)
        Clone(x, e) == LET c == CloneVT(x.S, e) IN At(c.S, Append(x.v, c.v))
        Copy(T, n) ==
            LET kind == Schema[o.t][n]
                v == o.f[n]
                c == FoldLeft(Clone, At(T, <<>>), IF kind.k = "msg" THEN v ELSE Elements(v))
                array == NewArray(T, ReadSlice(T, v)) IN
            CASE kind.k = "msg" -> Set(c.S, new.v, n, c.v)
              [] kind.k = "msgs" -> Set(c.S, new.v, n, [len |-> v.len, elems |-> c.v])
              [] OTHER -> IF v.a = 0 THEN T
                          ELSE Set(array.S, new.v, n, [a |-> array.v, len |-> v.len]) IN
    At(FoldLeft(Copy, [new.S EXCEPT !.obj[new.v] = o],
                NumbersOf(o.t, {"msg", "msgs", "texts", "doubles"})), new.v)

RECURSIVE Message(_, _)
Message(S, id) ==
    LET o == S.obj[id]
        Value(n) ==
            LET kind == Schema[o.t][n]
                v == o.f[n]
                ids == IF kind.k = "msgs" THEN Elements(v) ELSE v IN
            CASE kind.k \in {"msg", "msgs"} -> [i \in DOMAIN ids |-> Message(S, ids[i])]
              [] kind.k \in {"texts", "doubles"} -> ReadSlice(S, v)
              [] OTHER -> v IN
    [f |-> [n \in DOMAIN o.f |-> Value(n)], unknown |-> o.unknown]

-----------------------------------------------------------------------------
(* The garbage collector, which frees what nothing points to. *)

\* The addresses in the fields, of messages in use and of those left in the capacity.
Children(S, id) ==
    Each(NumbersOf(S.obj[id].t, {"msg", "msgs"}),
         LAMBDA n : IF Schema[S.obj[id].t][n].k = "msg" THEN S.obj[id].f[n] ELSE S.obj[id].f[n].elems)

RECURSIVE Reachable(_, _)
Reachable(S, ids) ==
    IF ids = {} THEN {} ELSE ids \cup Reachable(S, UNION {ToSet(Children(S, id)) : id \in ids})

Slices(S, id) == {S.obj[id].f[n] : n \in {m \in DOMAIN S.obj[id].f :
                                            Schema[S.obj[id].t][m].k \in {"texts", "doubles"}}}

Pooled(S) == UNION {ToSet(S.pool[t]) : t \in Types}

Collect(S, ids, slices) ==
    LET live == Reachable(S, ids \cup Pooled(S))
        arrays == {s.a : s \in slices \cup UNION {Slices(S, id) : id \in live}} IN
    [S EXCEPT !.obj = [id \in live |-> S.obj[id]],
              !.arr = [a \in arrays \ {0} |-> S.arr[a]]]
=============================================================================
