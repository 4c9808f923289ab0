---------------------------- MODULE MCEpollServer ----------------------------
(* Small instances of EpollServer for TLC. *)
EXTENDS EpollServer

Symmetry == Permutations(Clients) \cup Permutations(Workers)
=============================================================================
