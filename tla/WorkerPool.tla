----------------------------- MODULE WorkerPool -----------------------------
(***************************************************************************)
(* network::WorkerPool (src/network/worker_pool.cpp): the constructor that *)
(* starts the threads, TrySubmit, WorkerLoop and Stop, over the            *)
(* BoundedQueue of module BoundedQueue, whose steps are used as they are.  *)
(*                                                                         *)
(* A work item stands for its connection id, sequence and request: nothing *)
(* here depends on them, and the caller never submits the same triple      *)
(* twice.  The handler is any total function that returns or throws.       *)
(***************************************************************************)
EXTENDS Integers, Sequences, FiniteSets, Functions

CONSTANTS
  Workers,     \* the threads the constructor starts (config_.worker_count)
  Submitters,  \* threads that call TrySubmit
  Owner,       \* the thread that constructs and stops the pool
  Item,        \* work items
  NoItem,
  Capacity     \* config_.queue_capacity

ASSUME NoItemAssumption == NoItem \notin Item
\* The constructor throws for a worker count of zero.
ASSUME WorkersAssumption == IsFiniteSet(Workers) /\ Workers # {}

VARIABLES
  items, closed, popping, waiting, notify,  \* queue_
  phase,     \* where the owner is in the life of the pool
  thread,    \* the state of each worker thread
  held,      \* the item each worker has popped and not completed
  accepted,  \* history: items for which TrySubmit returned true
  results    \* history: the on_complete_ calls, in order

queueVars == <<items, closed, popping, waiting, notify>>
vars == <<queueVars, phase, thread, held, accepted, results>>

Callers == Submitters \cup {Owner}

Queue == INSTANCE BoundedQueue WITH Consumers <- Workers

Started == {w \in Workers : thread[w] # "none"}
Held == {held[w] : w \in Workers} \ {NoItem}
CompletedItems == [i \in DOMAIN results |-> results[i].item]

Init ==
  /\ Queue!Init
  /\ phase = "constructing"
  /\ thread = [w \in Workers |-> "none"]
  /\ held = [w \in Workers |-> NoItem]
  /\ accepted = {}
  /\ results = <<>>

-----------------------------------------------------------------------------
(* The constructor *)

\* emplace_back starts the next thread; it runs at once.
StartWorker(w) ==
  /\ phase = "constructing"
  /\ thread[w] = "none"
  /\ thread' = [thread EXCEPT ![w] = "looping"]
  /\ phase' = IF Started' = Workers THEN "running" ELSE phase
  /\ UNCHANGED <<queueVars, held, accepted, results>>

\* A bug that is not in the code: Stop is not called.
NoClose == UNCHANGED queueVars
CloseInCatch == Queue!Close(Owner)

\* std::thread throws: the catch block calls Stop and rethrows.
ThreadCreationFails ==
  /\ phase = "constructing"
  /\ Started # Workers
  /\ CloseInCatch
  /\ phase' = "stopping"
  /\ UNCHANGED <<thread, held, accepted, results>>

(* TrySubmit *)

TrySubmit(p, x) ==
  /\ phase # "constructing"
  /\ x \notin accepted
  /\ Queue!TryPush(p, x)
  /\ accepted' = accepted \cup {x}
  /\ UNCHANGED <<phase, thread, held, results>>

TrySubmitRejected(p) ==
  /\ phase # "constructing"
  /\ Queue!TryPushRejected(p)
  /\ UNCHANGED <<phase, thread, held, accepted, results>>

TrySubmitNotifies(p) ==
  /\ Queue!NotifyOne(p)
  /\ UNCHANGED <<phase, thread, held, accepted, results>>

(* WorkerLoop *)

\* The thread calls Pop, and what Pop does without returning.
CallPop(w) ==
  /\ thread[w] = "looping"
  /\ held[w] = NoItem
  /\ Queue!BeginPop(w)
  /\ UNCHANGED <<phase, thread, held, accepted, results>>

Sleep(w) ==
  /\ Queue!PopWait(w)
  /\ UNCHANGED <<phase, thread, held, accepted, results>>

WakeSpuriously(w) ==
  /\ Queue!SpuriousWakeup(w)
  /\ UNCHANGED <<phase, thread, held, accepted, results>>

TakeItem(w) ==
  /\ Queue!PopItem(w)
  /\ held' = [held EXCEPT ![w] = Head(items)]
  /\ UNCHANGED <<phase, thread, accepted, results>>

\* Pop returned nullopt: the loop ends and the thread with it.
ExitLoop(w) ==
  /\ Queue!PopClosed(w)
  /\ thread' = [thread EXCEPT ![w] = "exited"]
  /\ UNCHANGED <<phase, held, accepted, results>>

\* A bug that is not in the code: a handler that throws gets no completion.
OnlyIfHandled(x, response) ==
  IF response = "handler" THEN Append(results, [item |-> x, response |-> response])
  ELSE results

\* on_complete_, under the connection, sequence and request id of the item.
Completed(x, response) == Append(results, [item |-> x, response |-> response])

\* handler_ is done: it has returned, ...
HandlerReturns(w) ==
  /\ held[w] # NoItem
  /\ results' = Completed(held[w], "handler")
  /\ held' = [held EXCEPT ![w] = NoItem]
  /\ UNCHANGED <<queueVars, phase, thread, accepted>>

\* ... or thrown, and the response is WorkerHandlerErrorResponse.
HandlerThrows(w) ==
  /\ held[w] # NoItem
  /\ results' = Completed(held[w], "error")
  /\ held' = [held EXCEPT ![w] = NoItem]
  /\ UNCHANGED <<queueVars, phase, thread, accepted>>

(* Stop *)

Stop ==
  /\ phase = "running"
  /\ Queue!Close(Owner)
  /\ phase' = "stopping"
  /\ UNCHANGED <<thread, held, accepted, results>>

\* The destructor calls Stop again: Close repeats, and no thread is joinable.
StopAgain ==
  /\ phase = "stopped"
  /\ Queue!Close(Owner)
  /\ UNCHANGED <<phase, thread, held, accepted, results>>

StopNotifies ==
  /\ Queue!NotifyAll(Owner)
  /\ UNCHANGED <<phase, thread, held, accepted, results>>

\* Every thread that was started has been joined, and Stop returns.
JoinWorkers ==
  /\ phase = "stopping"
  /\ notify[Owner] = "none"
  /\ \A w \in Started : thread[w] = "exited"
  /\ phase' = "stopped"
  /\ UNCHANGED <<queueVars, thread, held, accepted, results>>

-----------------------------------------------------------------------------
OwnerStep ==
  \/ \E w \in Workers : StartWorker(w)
  \/ ThreadCreationFails
  \/ Stop
  \/ StopAgain
  \/ StopNotifies
  \/ JoinWorkers

SubmitterStep(p) ==
  \/ \E x \in Item : TrySubmit(p, x)
  \/ TrySubmitRejected(p)
  \/ TrySubmitNotifies(p)

\* What a running thread does next; the spurious wake-up is not its doing.
WorkerStep(w) ==
  \/ CallPop(w)
  \/ Sleep(w)
  \/ TakeItem(w)
  \/ ExitLoop(w)
  \/ HandlerReturns(w)
  \/ HandlerThrows(w)

Next ==
  \/ OwnerStep
  \/ \E p \in Submitters : SubmitterStep(p)
  \/ \E w \in Workers : WorkerStep(w) \/ WakeSpuriously(w)

\* The operating system keeps running a thread that can run, and a handler
\* returns or throws after a finite time.  Nothing makes a caller submit, or
\* the owner stop the pool, and nothing guarantees a spurious wake-up.
Fairness ==
  /\ \A w \in Workers : WF_vars(WorkerStep(w))
  /\ \A p \in Submitters : WF_vars(TrySubmitNotifies(p))
  /\ WF_vars(StopNotifies)
  /\ WF_vars(JoinWorkers)

Spec == Init /\ [][Next]_vars /\ Fairness

-----------------------------------------------------------------------------
(* Properties *)

\* Every accepted item is in exactly one place: in queue_, in the hands of one
\* worker, or handed to on_complete_ once.  Nothing is lost or run twice,
\* whatever interleaving of TrySubmit, Pop, handler exceptions and Stop.
ExactlyOnePlace ==
  LET pending == items \o CompletedItems
  IN  /\ IsInjective(pending)
      /\ Range(pending) \cap Held = {}
      /\ \A v, w \in Workers : held[v] = held[w] => v = w \/ held[v] = NoItem
      /\ accepted = Range(pending) \cup Held

\* The pool is a WorkDispatch: the safety and the liveness of what it promises.
Dispatch == INSTANCE WorkDispatch WITH
  completed <- CompletedItems,
  open <- ~closed,
  joined <- phase = "stopped",
  MaxOutstanding <- Capacity + Cardinality(Workers)

ImplementsDispatch == Dispatch!Spec

\* The owner never blocks for ever in Stop, also when Stop runs because a
\* thread could not be created: Close wakes every worker, each drains and exits.
StopReturns == (phase = "stopping") ~> (phase = "stopped")
=============================================================================
