----------------------------- MODULE MCLifecycle -----------------------------
(* A small instance of Lifecycle for TLC. *)
EXTENDS Lifecycle

\* Two intervals, the second one aligned with the first every other time.
Intervals2 == <<1, 2>>

AllParts == [e \in Events |-> Partitions]
=============================================================================
