--------------------------- MODULE MCCachedEvents ---------------------------
(* A small instance of CachedEvents for TLC. *)
EXTENDS CachedEvents, TLC

Symmetry == Permutations(Ptrs) \cup Permutations(Adders)
=============================================================================
