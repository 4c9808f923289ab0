---------------------------- MODULE BoundedQueue ----------------------------
(***************************************************************************)
(* core::BoundedQueue<T> (include/pulsecore/core/bounded_queue.hpp): a     *)
(* deque behind one mutex, with the condition variable not_empty_.         *)
(*                                                                         *)
(* A critical section (the body of a lock_guard, or one evaluation of the  *)
(* wait predicate together with what follows it before the mutex is        *)
(* released) is one step.  The calls to notify_one and notify_all come     *)
(* after the mutex is released, so they are steps of their own.  A thread  *)
(* inside Pop is either awake (it holds the mutex or contends for it) or   *)
(* asleep in not_empty_.wait; a thread put to sleep is removed from        *)
(* "waiting" by a notification, or spuriously.                             *)
(***************************************************************************)
EXTENDS Integers, Sequences, FiniteSets

CONSTANTS
  Callers,    \* threads that call TryPush or Close
  Consumers,  \* threads that call Pop
  Item,       \* the values of T
  Capacity    \* capacity_

\* The constructor throws for a capacity of zero.
ASSUME CapacityAssumption == Capacity \in Nat \ {0}

ASSUME ThreadsAssumption == IsFiniteSet(Callers) /\ IsFiniteSet(Consumers)

VARIABLES
  items,    \* items_
  closed,   \* closed_
  popping,  \* consumers inside Pop and awake
  waiting,  \* consumers asleep in not_empty_.wait
  notify    \* the notification each caller still owes: its mutex is released,
            \* its notify_one ("one") or notify_all ("all") not yet called

vars == <<items, closed, popping, waiting, notify>>

TypeOK ==
  /\ items \in Seq(Item)
  /\ Len(items) <= Capacity
  /\ closed \in BOOLEAN
  /\ popping \subseteq Consumers
  /\ waiting \subseteq Consumers
  /\ popping \cap waiting = {}
  /\ notify \in [Callers -> {"none", "one", "all"}]

Init ==
  /\ items = <<>>
  /\ closed = FALSE
  /\ popping = {}
  /\ waiting = {}
  /\ notify = [p \in Callers |-> "none"]

-----------------------------------------------------------------------------
(* Mutated forms: plausible bugs, none of them in the code.                *)

\* The notification is sent only when the queue was empty, Close wakes one
\* consumer, and the capacity test uses > where it needs >=.
OwedIfEmpty == IF items = <<>> THEN "one" ELSE "none"
OwedToOne == "one"
OverFull == Len(items) > Capacity

-----------------------------------------------------------------------------
(* TryPush *)

Full == Len(items) >= Capacity

\* The notification a call still has to make once it has released the mutex.
OwedByPush == "one"
OwedByClose == "all"

\* The item is stored under the mutex; notify_one is still to come.
TryPush(p, x) ==
  /\ notify[p] = "none"
  /\ ~closed
  /\ ~Full
  /\ items' = Append(items, x)
  /\ notify' = [notify EXCEPT ![p] = OwedByPush]
  /\ UNCHANGED <<closed, popping, waiting>>

\* TryPush returns false and changes nothing.
TryPushRejected(p) ==
  /\ notify[p] = "none"
  /\ closed \/ Full
  /\ UNCHANGED vars

\* notify_one wakes one sleeping consumer, if there is one.
NotifyOne(p) ==
  /\ notify[p] = "one"
  /\ notify' = [notify EXCEPT ![p] = "none"]
  /\ \/ /\ waiting = {}
        /\ UNCHANGED <<popping, waiting>>
     \/ \E c \in waiting :
          /\ waiting' = waiting \ {c}
          /\ popping' = popping \cup {c}
  /\ UNCHANGED <<items, closed>>

(* Close *)

Close(p) ==
  /\ notify[p] = "none"
  /\ closed' = TRUE
  /\ notify' = [notify EXCEPT ![p] = OwedByClose]
  /\ UNCHANGED <<items, popping, waiting>>

NotifyAll(p) ==
  /\ notify[p] = "all"
  /\ notify' = [notify EXCEPT ![p] = "none"]
  /\ popping' = popping \cup waiting
  /\ waiting' = {}
  /\ UNCHANGED <<items, closed>>

(* Pop *)

BeginPop(c) ==
  /\ c \notin popping \cup waiting
  /\ popping' = popping \cup {c}
  /\ UNCHANGED <<items, closed, waiting, notify>>

\* The predicate is false: the mutex is released and the thread sleeps, in one
\* step for every other thread.
PopWait(c) ==
  /\ c \in popping
  /\ ~closed
  /\ items = <<>>
  /\ popping' = popping \ {c}
  /\ waiting' = waiting \cup {c}
  /\ UNCHANGED <<items, closed, notify>>

\* The wait may also return without a notification; the predicate is then
\* evaluated again.
SpuriousWakeup(c) ==
  /\ c \in waiting
  /\ waiting' = waiting \ {c}
  /\ popping' = popping \cup {c}
  /\ UNCHANGED <<items, closed, notify>>

\* Pop returns the front item.
PopItem(c) ==
  /\ c \in popping
  /\ items # <<>>
  /\ items' = Tail(items)
  /\ popping' = popping \ {c}
  /\ UNCHANGED <<closed, waiting, notify>>

\* Pop returns nullopt: closed, and every item was handed out.
PopClosed(c) ==
  /\ c \in popping
  /\ closed
  /\ items = <<>>
  /\ popping' = popping \ {c}
  /\ UNCHANGED <<items, closed, waiting, notify>>

CallerStep(p) ==
  \/ \E x \in Item : TryPush(p, x)
  \/ TryPushRejected(p)
  \/ NotifyOne(p)
  \/ Close(p)
  \/ NotifyAll(p)

ConsumerStep(c) ==
  \/ BeginPop(c)
  \/ PopWait(c)
  \/ SpuriousWakeup(c)
  \/ PopItem(c)
  \/ PopClosed(c)

Next ==
  \/ \E p \in Callers : CallerStep(p)
  \/ \E c \in Consumers : ConsumerStep(c)

Spec == Init /\ [][Next]_vars

-----------------------------------------------------------------------------
(* Properties *)

\* Callers that stored an item and have not yet called notify_one.
Notifying == {p \in Callers : notify[p] = "one"}

\* No lost wake-up: while a consumer sleeps, every queued item has a wake-up of
\* its own under way, either a consumer already awake inside Pop or a
\* notify_one still to be called.  This is what makes it safe for TryPush to
\* notify after releasing the mutex, and for Pop to take one item per wake-up.
EnoughWakeups ==
  waiting # {} => Len(items) <= Cardinality(popping) + Cardinality(Notifying)

\* Nobody sleeps through Close: a consumer is still asleep in a closed queue
\* only while the notify_all of some Close call is still to come.
CloseWakesAll ==
  closed /\ waiting # {} => \E p \in Callers : notify[p] = "all"
=============================================================================
