-------------------------- MODULE EpollServer_proofs --------------------------
(***************************************************************************)
(* Proofs about EpollServer, for any clients, workers and limits.          *)
(***************************************************************************)
EXTENDS EpollServer, TLAPS

(***************************************************************************)
(* NoLostWakeup, the handshake of workers and reactor over the eventfd.    *)
(* It is inductive with the types of the counter and of the workers.       *)
(***************************************************************************)

WakeupInv ==
  /\ eventfd \in Nat
  /\ worker = [w \in Workers |-> worker[w]]
  /\ NoLostWakeup

\* A step that leaves counter, results and workers alone does no harm, unless
\* it takes the reactor away from the swap of completed_work_.
LEMMA QuietStep ==
  ASSUME WakeupInv, UNCHANGED <<eventfd, completed_work, worker>>,
         pc = "swap" => pc' = "swap"
  PROVE  WakeupInv'
  BY DEF WakeupInv, NoLostWakeup

\* Whoever writes the eventfd leaves it readable, a full counter included.
LEMMA NotifyMakesReadable ==
  ASSUME eventfd \in Nat, NotifyWorkerWakeup
  PROVE  eventfd' \in Nat /\ eventfd' > 0
<1>1. EventfdMax \in Nat \ {0}
  BY OptionsAssumption
<1>2. QED
  BY <1>1 DEF NotifyWorkerWakeup

LEMMA ClientStepQuiet ==
  ASSUME WakeupInv, NEW k \in Clients, ClientStep(k)
  PROVE  WakeupInv'
  BY QuietStep DEF ClientStep, OnlyNet, sharedVars, wakeVars, poolVars

LEMMA ReactorStepKeepsWakeup ==
  ASSUME WakeupInv, ReactorStep \/ ReactorThrows
  PROVE  WakeupInv'
<1> DEFINE Quiet == /\ UNCHANGED <<eventfd, completed_work, worker>>
                    /\ pc = "swap" => pc' = "swap"
<1> USE DEF sharedVars, wakeVars, poolVars, reactorVars
<1>1. CASE LoopTop
  BY <1>1, QuietStep DEF LoopTop
<1>2. CASE EpollWait
  BY <1>2, QuietStep DEF EpollWait
<1>3. CASE BatchDone
  BY <1>3, QuietStep DEF BatchDone
<1>4. CASE AcceptDone
  BY <1>4, QuietStep DEF AcceptDone
<1>5. ASSUME NEW k \in Clients,
             AcceptOverLimit(k) \/ AcceptConnection(k) \/ AcceptThrows(k)
      PROVE  WakeupInv'
  BY <1>5, QuietStep DEF AcceptOverLimit, AcceptConnection, AcceptThrows, Accepting
<1>6. ASSUME NEW e \in batch,
             \/ BeginAccept(e) \/ ShutdownSignal(e) \/ StaleEvent(e)
             \/ ErrorEvent(e) \/ ReadEvent(e) \/ WriteOnlyEvent(e)
      PROVE  WakeupInv'
  <2>1. Quiet
    BY <1>6 DEF BeginAccept, ShutdownSignal, StaleEvent, ErrorEvent, ReadEvent,
                WriteOnlyEvent, LiveEvent, NextEvent
  <2>2. QED
    BY <2>1, QuietStep
\* The counter is cleared, and the reactor is about to take the results.
<1>7. ASSUME NEW e \in batch, DrainWakeup(e) PROVE WakeupInv'
  BY <1>7 DEF DrainWakeup, WakeupInv, NoLostWakeup
<1>8. CASE SubmitMessage \/ SubmitRejected \/ FinishEvent
  <2>1. Quiet
    BY <1>8 DEF SubmitMessage, SubmitRejected, FinishEvent, CtlFails
  <2>2. QED
    BY <2>1, QuietStep
\* Every stored result is taken.
<1>9. CASE SwapCompleted
  BY <1>9 DEF SwapCompleted, WakeupInv, NoLostWakeup
<1>10. CASE DropResult \/ StoreResult \/ ResultsDone
  <2>1. Quiet
    BY <1>10 DEF DropResult, StoreResult, ResultsDone, NextResult, CtlFails
  <2>2. QED
    BY <2>1, QuietStep
<1>11. ASSUME NEW id \in DOMAIN flows, CloseOne(id) PROVE WakeupInv'
  BY <1>11, QuietStep DEF CloseOne
<1>12. CASE RunReturns \/ HandlerThrows
  BY <1>12, QuietStep DEF RunReturns, HandlerThrows
<1>13. QED
  BY <1>1, <1>2, <1>3, <1>4, <1>5, <1>6, <1>7, <1>8, <1>9, <1>10, <1>11, <1>12
  DEF ReactorStep, ReactorThrows

LEMMA WorkerStepKeepsWakeup ==
  ASSUME WakeupInv, NEW w \in Workers, WorkerStep(w)
  PROVE  WakeupInv'
\* A worker that takes an item was idle: it did not owe a notification.
<1>1. CASE TakeWork(w)
  <2>1. /\ worker' = [worker EXCEPT ![w] = [pc |-> "run", item |-> Head(queue)]]
        /\ worker[w] = [pc |-> "idle"]
        /\ UNCHANGED <<eventfd, completed_work, pc>>
    BY <1>1 DEF TakeWork, Idle, wakeVars
  <2>2. \A v \in Workers : worker[v].pc = "notify" => worker'[v].pc = "notify"
    BY <2>1 DEF WakeupInv
  <2>3. QED
    BY <2>1, <2>2 DEF WakeupInv, NoLostWakeup
\* A worker that stores a result is about to notify.
<1>2. CASE StoreCompletedWork(w)
  <2>1. worker' = [worker EXCEPT ![w] = [pc |-> "notify"]] /\ eventfd' = eventfd
    BY <1>2 DEF StoreCompletedWork, wakeVars
  <2>2. worker'[w].pc = "notify"
    BY <2>1 DEF WakeupInv
  <2>3. QED
    BY <2>1, <2>2 DEF WakeupInv, NoLostWakeup
<1>3. CASE WorkerNotifies(w)
  <2>1. eventfd' \in Nat /\ eventfd' > 0
    BY <1>3, NotifyMakesReadable DEF WorkerNotifies, WakeupInv
  <2>2. QED
    BY <1>3, <2>1 DEF WorkerNotifies, WakeupInv, NoLostWakeup
<1>4. QED
  BY <1>1, <1>2, <1>3 DEF WorkerStep

LEMMA StopKeepsWakeup ==
  ASSUME WakeupInv, Stop \/ StopNotifies \/ SignalArrives
  PROVE  WakeupInv'
<1>1. CASE Stop \/ SignalArrives
  BY <1>1, QuietStep DEF Stop, SignalArrives, poolVars
<1>2. CASE StopNotifies
  <2>1. eventfd' \in Nat /\ eventfd' > 0
    BY <1>2, NotifyMakesReadable DEF StopNotifies, WakeupInv
  <2>2. QED
    BY <1>2, <2>1 DEF StopNotifies, WakeupInv, NoLostWakeup, poolVars
<1>3. QED
  BY <1>1, <1>2

\* A result a worker has stored is always going to be picked up: between the
\* push to completed_work_, the write of the eventfd, the read that clears it
\* and the swap, no interleaving leaves results behind a silent descriptor.
THEOREM NoResultForgotten == Spec => []NoLostWakeup
<1>1. Init => WakeupInv
  BY DEF Init, WakeupInv, NoLostWakeup
<1>2. WakeupInv /\ [Next]_vars => WakeupInv'
  <2> SUFFICES ASSUME WakeupInv, [Next]_vars PROVE WakeupInv'
    OBVIOUS
  <2>1. CASE Next
    BY <2>1, ClientStepQuiet, ReactorStepKeepsWakeup, WorkerStepKeepsWakeup,
       StopKeepsWakeup
    DEF Next
  <2>2. CASE UNCHANGED vars
    BY <2>2, QuietStep DEF vars, sharedVars, wakeVars, poolVars
  <2>3. QED
    BY <2>1, <2>2
<1>3. WakeupInv => NoLostWakeup
  BY DEF WakeupInv
<1>4. QED
  BY <1>1, <1>2, <1>3, PTL DEF Spec
=============================================================================
