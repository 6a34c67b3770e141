----------------------------- MODULE MCConverter -----------------------------
(* A small instance of Converter for TLC. *)
EXTENDS Converter, TLC

Event(type, rep, dur, outcome, target, spans) ==
    [type |-> type, rep |-> rep, dur |-> dur, outcome |-> outcome, target |-> target,
     txn |-> "t", svctxn |-> "st", spans |-> spans]

\* Transactions of every outcome, with more dropped spans than fit, with none and with
\* no representative count, spans with and without a target, and a log.
SomeEvents ==
    {Event("transaction", 1, 1, "success", FALSE, <<"x", "y", "x", "x">>),
     Event("transaction", 2, 2, "failure", FALSE, <<>>),
     Event("transaction", 0, 1, "success", FALSE, <<"x">>),
     Event("span", 2, 1, "success", TRUE, <<"y">>),
     Event("span", 1, 1, "success", FALSE, <<"x">>),
     Event("log", 0, 0, "unknown", FALSE, <<>>)}

\* Every way of hashing to two partitions.
AllHashes == [{"t", "st", "x", "y", Summary} -> 0 .. 1]

Symmetric == Permutations(Procs) \cup Permutations(Builders) \cup Permutations(Pmbs)
=============================================================================
