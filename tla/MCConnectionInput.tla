-------------------------- MODULE MCConnectionInput --------------------------
(* Small instances of ConnectionInput for TLC. *)
EXTENDS ConnectionInput

\* Two-byte headers; an empty frame, a small one, one that exactly fills the
\* input buffer, one that is a byte too large for it, one that no decoder
\* accepts, and a malformed one.
Frames == [payload : {0, 1, 3, 4, 5}, valid : {TRUE}]
            \cup {[payload |-> 0, valid |-> FALSE]}
ShortStreams == UNION {[1..n -> Frames] : n \in 1..3}
=============================================================================
