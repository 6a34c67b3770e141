----------------------------- MODULE MCHistogram -----------------------------
(* A small instance of Histogram for TLC. *)
EXTENDS Histogram

\* Zero, the boundaries of buckets and sub-buckets, the highest value that can be
\* tracked and is recorded, and values that are refused.
SomeValues == {-1, 0, 3, 4, 5, 12, 15, 16, 40, 64, 200}
=============================================================================
