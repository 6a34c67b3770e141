----------------------------- MODULE MCPipeline -----------------------------
(* Instances of Pipeline: see README.md. *)
EXTENDS Pipeline

Nothing == [value |-> <<>>, values |-> NilSlice, global |-> TRUE]

One(v) == [Nothing EXCEPT !.value = v]

Many(a, n) == [Nothing EXCEPT !.values = [a |-> a, len |-> n]]

Private(v) == [One(v) EXCEPT !.global = FALSE]

Event(s, n, svc, span, key, weight, bucket, unknown) ==
    [labels |-> [s |-> s, n |-> n], svc |-> svc, span |-> span, key |-> key,
     weight |-> weight, bucket |-> bucket, unknown |-> unknown]

NoArrays == <<>>

KeyA == <<97>>
KeyB == <<98>>

\* A field of wire type 2 that this version does not know.
Unknown == <<74, 2, 5, 6>>

TwoLabels == (KeyA :> One(<<1>>)) @@ (KeyB :> One(<<2>>))
OtherLabels == (KeyA :> One(<<3>>)) @@ (KeyB :> Private(<<4>>))

PoolEvents ==
    <<Event(TwoLabels, <<>>, <<115, 49>>, FALSE, <<1>>, 1, 3, Unknown),
      Event(TwoLabels, <<>>, <<115, 49>>, FALSE, <<2>>, 200, 2, <<>>),
      Event(OtherLabels, KeyA :> [One(<<>>) EXCEPT !.value = 7], <<115, 49>>, TRUE, <<3>>, 20, 1, <<>>),
      Event(<<>>, <<>>, <<115, 50>>, FALSE, <<1>>, 5, 3, <<>>)>>

Limit(s, i, p, t) == [services |-> s, instances |-> i, perService |-> p, total |-> t]

Config(limits, events) ==
    [limits |-> limits, events |-> events, picks |-> {"newest"}, corrupted |-> {}, maxMerges |-> 2]

\* The encoding of a message with one service, cut off in its name.
Cut == {<<10, 12, 10, 8, 8, 200, 1, 18>>}

PoolConfigs ==
    {Config(Limit(2, 2, 4, 4), {1, 2}),
     Config(Limit(1, 1, 2, 2), {1, 3}),
     Config(Limit(1, 2, 0, 0), {3, 4}),
     [Config(Limit(1, 1, 2, 2), {1}) EXCEPT !.corrupted = Cut, !.picks = {"newest", "oldest", "new"}]}

ManyEvents ==
    <<Event(KeyA :> Many(1, 2), <<>>, <<115, 49>>, FALSE, <<1>>, 1, 3, <<>>),
      Event(KeyA :> Many(2, 2), <<>>, <<115, 49>>, FALSE, <<1>>, 4, 3, <<>>)>>

ManyArrays == <<<<<<1>>, <<2>>>>, <<<<3>>, <<4>>>>>>

ManyConfigs == {Config(Limit(2, 2, 4, 4), {1, 2})}

Symmetry == Permutations(Workers)
=============================================================================
