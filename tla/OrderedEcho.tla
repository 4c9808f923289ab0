----------------------------- MODULE OrderedEcho -----------------------------
(***************************************************************************)
(* What the epoll server promises its clients, without sockets, threads,   *)
(* queues or limits: the responses a client is sent answer its requests,   *)
(* in the order it made them, each once; and every request is answered     *)
(* unless the server gives up on the whole connection.                     *)
(***************************************************************************)
EXTENDS Integers, Sequences

CONSTANT Clients

VARIABLES
  asked,      \* how many requests each client has made
  delivered,  \* the requests answered, in the order of the responses
  finished    \* whether the server is done with the client

vars == <<asked, delivered, finished>>

Init ==
  /\ asked = [k \in Clients |-> 0]
  /\ delivered = [k \in Clients |-> <<>>]
  /\ finished = [k \in Clients |-> FALSE]

Ask(k) ==
  /\ asked' = [asked EXCEPT ![k] = @ + 1]
  /\ UNCHANGED <<delivered, finished>>

\* The next requests are answered, up to request n; the server may be done
\* with the client after that.
Deliver(k, n) ==
  /\ ~finished[k]
  /\ Len(delivered[k]) <= n /\ n <= asked[k]
  /\ delivered' = [delivered EXCEPT ![k] = [i \in 1..n |-> i]]
  /\ \E done \in BOOLEAN : finished' = [finished EXCEPT ![k] = done]
  /\ UNCHANGED asked

Shutdown ==
  /\ finished' = [k \in Clients |-> TRUE]
  /\ UNCHANGED <<asked, delivered>>

Next ==
  \/ \E k \in Clients : Ask(k) \/ \E n \in 0..asked[k] : Deliver(k, n)
  \/ Shutdown

Progress(k) == \E n \in (Len(delivered[k]) + 1)..asked[k] : Deliver(k, n)

Spec == Init /\ [][Next]_vars /\ \A k \in Clients : WF_vars(Progress(k))
=============================================================================
