------------------------------ MODULE MCMerger ------------------------------
(* Small instances of Merger for TLC. *)
EXTENDS Publish

Group1(s, i, k, key, n) == [svc |-> s, inst |-> i, kind |-> k, key |-> key, name |-> n]

Txn(s, i, key) == Group1(s, i, "txn", key, NoName)
SvcTxn(s, i) == Group1(s, i, "svctxn", "k", NoName)
Span(s, i, n) == Group1(s, i, "span", "k", n)

Input(e, s, i, gs) == [ev |-> e, svc |-> s, inst |-> i, groups |-> gs]

Limits(svcs, insts, total, perSvc) ==
    [svcs |-> svcs, insts |-> insts, total |-> [k \in Kinds |-> total],
     perSvc |-> [k \in Kinds |-> perSvc]]

\* Three services, one of them with two instances and one without groups, spans of
\* several names, and a transaction group that two events share.
SomeInputs ==
    {Input("e1", "s1", "i1", {Txn("s1", "i1", "k1"), Span("s1", "i1", "n1")}),
     Input("e2", "s1", "i1", {Txn("s1", "i1", "k1"), Span("s1", "i1", "n2"), SvcTxn("s1", "i1")}),
     Input("e3", "s1", "i2", {Txn("s1", "i2", "k2")}),
     Input("e4", "s2", "i1", {Txn("s2", "i1", "k1")}),
     Input("e5", "s3", "i1", {})}

\* Aggregators with different limits feed each other.
SomeLimits == {Limits(1, 1, 2, 2), Limits(2, 2, 2, 5)}
=============================================================================
