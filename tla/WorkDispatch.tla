---------------------------- MODULE WorkDispatch ----------------------------
(***************************************************************************)
(* What network::WorkerPool promises its owner, without threads, mutex or  *)
(* queue: an accepted item is completed exactly once, with a bounded       *)
(* number outstanding; once closed nothing more is accepted; Stop returns  *)
(* only when everything accepted has been completed.                       *)
(***************************************************************************)
EXTENDS Integers, Sequences, FiniteSets, Functions

CONSTANTS
  Item,
  MaxOutstanding

VARIABLES
  accepted,   \* items for which TrySubmit returned true
  completed,  \* on_complete_ calls, in order
  open,       \* Stop has not closed the pool
  joined      \* Stop has returned

vars == <<accepted, completed, open, joined>>

Outstanding == accepted \ Range(completed)

Init ==
  /\ accepted = {}
  /\ completed = <<>>
  /\ open = TRUE
  /\ joined = FALSE

Accept(x) ==
  /\ open
  /\ x \notin accepted
  /\ Cardinality(Outstanding) < MaxOutstanding
  /\ accepted' = accepted \cup {x}
  /\ UNCHANGED <<completed, open, joined>>

Complete(x) ==
  /\ x \in Outstanding
  /\ completed' = Append(completed, x)
  /\ UNCHANGED <<accepted, open, joined>>

CloseDispatch ==
  /\ open
  /\ open' = FALSE
  /\ UNCHANGED <<accepted, completed, joined>>

Join ==
  /\ ~open
  /\ Outstanding = {}
  /\ joined' = TRUE
  /\ UNCHANGED <<accepted, completed, open>>

Next ==
  \/ \E x \in Item : Accept(x) \/ Complete(x)
  \/ CloseDispatch
  \/ Join

\* An accepted item does not wait for ever, and neither does the caller of Stop.
Fairness ==
  /\ \A x \in Item : WF_vars(Complete(x))
  /\ WF_vars(Join)

Spec == Init /\ [][Next]_vars /\ Fairness
=============================================================================
