--------------------------- MODULE MCBoundedQueue ---------------------------
(* Small instances of BoundedQueue for TLC. *)
EXTENDS BoundedQueue, TLC

Symmetry == Permutations(Callers) \cup Permutations(Consumers)
=============================================================================
