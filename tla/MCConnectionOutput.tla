------------------------- MODULE MCConnectionOutput -------------------------
(* Small instances of ConnectionOutput for TLC. *)
EXTENDS ConnectionOutput
=============================================================================
