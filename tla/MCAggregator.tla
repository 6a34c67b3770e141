---------------------------- MODULE MCAggregator ----------------------------
(* Small instances of Aggregator for TLC. *)
EXTENDS Aggregator

\* Two intervals, the second one aligned with the first every other time.
Intervals2 == <<1, 2>>

\* Three intervals whose windows are not nested in each other.
Intervals3 == <<1, 2, 3>>

\* e1 is spread over two partitions, e2 is in one, other events have no metrics.
Parts2 == [e \in Events |-> CASE e = "e1" -> {0, 1} [] e = "e2" -> {1} [] OTHER -> {}]
=============================================================================
