--------------------------- MODULE ServerLifecycle ---------------------------
(***************************************************************************)
(* The life of an EpollEchoServer (src/network/epoll_echo_server.cpp) in   *)
(* the process that owns it (apps/epoll_server/main.cpp): the constructor  *)
(* member by member, Run seen from outside, the destructor, and what an    *)
(* exception leaves to be destroyed; the descriptors (module UniqueFd),    *)
(* the worker threads (module WorkerPool), and the shutdown signals with   *)
(* the mask that ShutdownSignalMaskState changes and puts back.            *)
(*                                                                         *)
(* The reactor's work inside Run is the subject of EpollServer.  Here it   *)
(* only accepts and closes sockets, submits work and reads the signalfd.   *)
(***************************************************************************)
EXTENDS CommandLine, FiniteSets

CONSTANTS
  Main,          \* the thread that constructs, runs and destroys the server
  Workers,       \* options.worker_count threads
  Item, NoItem, Capacity,
  Signals,       \* SIGINT and SIGTERM
  Connections,   \* bound: connections at a time
  MaxFd,         \* bound: the largest descriptor number
  CommandLines,  \* the arguments the program is started with
  DefaultConfig  \* a ServerConfig as it is before ParseArgs

ASSUME MainAssumption == Main \notin Workers

VARIABLES
  items, closed, popping, waiting, notify, phase, thread, held, accepted,
  results,         \* worker_pool_, see WorkerPool
  fd_, open,       \* the descriptors, see UniqueFd
  pc,              \* where the main thread is
  built,           \* how many members of the server are constructed
  caller,          \* who constructs the server: main, or a user of the library
  zeros,           \* the options that are zero, or not set
  signals,         \* options.shutdown_signals
  exception,       \* what was thrown, "none" if nothing
  stop_requested,  \* stop_requested_
  completing,      \* each worker's place in on_complete_
  original_mask,   \* the mask the process was started with
  sigmask,         \* each thread's signal mask
  pending,         \* signals sent to the process and blocked by every thread
  previous_mask, active  \* signal_mask_state_

poolVars == <<items, closed, popping, waiting, notify, phase, thread, held,
              accepted, results>>
fdVars == <<fd_, open>>
sigVars == <<sigmask, pending, previous_mask, active>>
optionVars == <<caller, zeros, signals, original_mask>>
mainVars == <<pc, built, exception, stop_requested>>
vars == <<poolVars, fdVars, sigVars, optionVars, mainVars, completing>>

\* The members in the order of their declaration, as far as they own something
\* or may throw.  "local" is the UniqueFd a function returns or moves from.
Members == <<"listener_", "epoll_", "signal_mask_state_", "worker_wakeup_",
             "shutdown_signal_", "connections_", "completed_work_", "worker_pool_">>
Descriptors == {"listener_", "epoll_", "worker_wakeup_", "shutdown_signal_"}

Pool == INSTANCE WorkerPool WITH Submitters <- {Main}, Owner <- Main
Fd == INSTANCE UniqueFd WITH Objects <- Descriptors \cup {"local"} \cup Connections

\* A connection is none of the server's other descriptors.
ASSUME ConnectionsAssumption == Connections \cap (Descriptors \cup {"local"}) = {}

Exited == pc \in {"exit0", "exit1"}
Ended == Exited \/ pc \in {"killed", "aborted"}

-----------------------------------------------------------------------------
(* main *)

ServerOptions ==
  {"--workers", "--queue-capacity", "--max-connections", "--max-in-flight",
   "--max-read-bytes", "--max-write-bytes", "--max-input-buffer",
   "--max-output-buffer"}
LimitOptions == {"--max-input-buffer", "--max-output-buffer"}

ServerValue(option, a) ==
  IF option = "port" THEN ParsePort(a) ELSE ParsePositiveSize(a)

ParseArgs(args) ==
  LET values == [i \in DOMAIN args |->
                   [o \in ServerOptions \cup {"port"} |-> ServerValue(o, args[i])]]
  IN  ParseLoop(args, values, DefaultConfig, ServerOptions, "port")

\* A user of the library passes any options; the process may have been started
\* with signals blocked.
Init ==
  /\ Pool!Init /\ Fd!Init
  /\ \/ caller = "main" /\ pc = "main" /\ signals = {} /\ zeros = {}
     \/ /\ caller = "library" /\ pc = "construct"
        /\ signals \in SUBSET Signals
        /\ zeros \in {{}} \cup {{o} : o \in ServerOptions \cup {"handler"}}
  /\ built = 0
  /\ exception = "none"
  /\ stop_requested = FALSE
  /\ completing = [w \in Workers |-> "none"]
  /\ original_mask \in SUBSET Signals
  /\ sigmask = [t \in {Main} \cup Workers |-> original_mask]
  /\ pending = {} /\ previous_mask = {} /\ active = FALSE

StartProgram ==
  /\ pc = "main"
  /\ \E args \in CommandLines :
       \/ /\ AsksForHelp(args)
          /\ pc' = "exit0" /\ UNCHANGED <<zeros, signals>>
       \/ /\ ~AsksForHelp(args) /\ ParseArgs(args) = {}
          /\ pc' = "exit1" /\ UNCHANGED <<zeros, signals>>
       \/ \E c \in ParseArgs(args) :
            /\ zeros' = {o \in ServerOptions : c[o] = 0}
            /\ signals' = Signals
            /\ pc' = "construct"
  /\ UNCHANGED <<poolVars, fdVars, sigVars, caller, original_mask, built,
                 exception, stop_requested, completing>>

-----------------------------------------------------------------------------
(* Threads and signals.  The default action of a shutdown signal ends the  *)
(* process; it is taken as soon as some thread does not block the signal.  *)

Alive(th) == {Main} \cup {w \in Workers : th[w] = "looping"}
Delivered(mask, pend) == \E t \in Alive(thread) : pend \ mask[t] # {}

SignalArrives(s) ==
  /\ ~Ended
  /\ s \notin pending
  /\ IF Delivered(sigmask, {s})
     THEN pc' = "killed" /\ UNCHANGED pending
     ELSE pending' = pending \cup {s} /\ UNCHANGED pc
  /\ UNCHANGED <<poolVars, fdVars, sigmask, previous_mask, active, optionVars,
                 built, exception, stop_requested, completing>>

\* A bug that is not in the code: a worker's mask is the one the process had
\* before the server was constructed.
InheritPrevious == previous_mask
Inherited == sigmask[Main]

\* ShutdownSignalMaskState::Restore; the main thread goes on at "next".
Restore(next) ==
  /\ sigmask' = IF active THEN [sigmask EXCEPT ![Main] = previous_mask] ELSE sigmask
  /\ active' = FALSE
  /\ pc' = IF Delivered(sigmask', pending) THEN "killed" ELSE next
  /\ UNCHANGED <<pending, previous_mask>>

-----------------------------------------------------------------------------
(* The constructor *)

Constructing(member) ==
  /\ pc = "construct"
  /\ built < Len(Members) /\ Members[built + 1] = member

\* A member is constructed; or it throws, and what was built is destroyed.
Built == built' = built + 1 /\ UNCHANGED <<pc, exception>>
Throw(e) == exception' = e /\ pc' = "destroy" /\ UNCHANGED built

\* CreateListener, CreateEpoll, CreateWorkerWakeup, CreateShutdownSignalFd: a
\* system call returns the descriptor, others may fail, and the local is moved
\* to the member.
OpenDescriptor(m) ==
  /\ Constructing(m)
  /\ m = "shutdown_signal_" => signals # {}
  /\ Fd!Open("local")
  /\ UNCHANGED <<poolVars, sigVars, optionVars, mainVars, completing>>

CreateDescriptor(m) ==
  /\ Constructing(m)
  /\ \/ Fd!Move(m, "local")
     \/ m = "shutdown_signal_" /\ signals = {} /\ UNCHANGED fdVars
  /\ Built
  /\ UNCHANGED <<poolVars, sigVars, optionVars, stop_requested, completing>>

CreateThrows(m) ==
  /\ Constructing(m)
  /\ m = "shutdown_signal_" => signals # {}
  /\ Fd!Destroy("local")
  /\ Throw("runtime_error")
  /\ UNCHANGED <<poolVars, sigVars, optionVars, stop_requested, completing>>

BlockShutdownSignals ==
  /\ Constructing("signal_mask_state_")
  /\ IF signals = {} THEN UNCHANGED sigVars
     ELSE /\ previous_mask' = sigmask[Main]
          /\ sigmask' = [sigmask EXCEPT ![Main] = @ \cup signals]
          /\ active' = TRUE
          /\ UNCHANGED pending
  /\ Built
  /\ UNCHANGED <<poolVars, fdVars, optionVars, stop_requested, completing>>

\* sigaddset rejects a number that is no signal.
BlockThrows ==
  /\ Constructing("signal_mask_state_")
  /\ signals # {} /\ Throw("runtime_error")
  /\ UNCHANGED <<poolVars, fdVars, sigVars, optionVars, stop_requested, completing>>

\* RequireConnectionLimits for connections_; completed_work_ cannot throw.
CreateTables(m) ==
  /\ Constructing(m)
  /\ \/ m = "connections_" /\ zeros \cap LimitOptions = {} /\ Built
     \/ m = "connections_" /\ zeros \cap LimitOptions # {} /\ Throw("invalid_argument")
     \/ m = "completed_work_" /\ Built
  /\ UNCHANGED <<poolVars, fdVars, sigVars, optionVars, stop_requested, completing>>

\* RequirePositiveBudget, then the checks of BoundedQueue and WorkerPool; with
\* options that pass them workers_.reserve may still throw.
PoolRejectsOptions ==
  /\ Constructing("worker_pool_")
  /\ \/ zeros # {} /\ Throw("invalid_argument")
     \/ zeros = {} /\ Pool!Started = {} /\ Throw("length_error")
  /\ UNCHANGED <<poolVars, fdVars, sigVars, optionVars, stop_requested, completing>>

\* A thread starts with the mask of the thread that creates it.
StartWorker(w) ==
  /\ Constructing("worker_pool_")
  /\ zeros = {}
  /\ Pool!StartWorker(w)
  /\ sigmask' = [sigmask EXCEPT ![w] = Inherited]
  /\ built' = IF phase' = "running" THEN built + 1 ELSE built
  /\ UNCHANGED <<fdVars, pending, previous_mask, active, optionVars, pc, exception,
                 stop_requested, completing>>

ThreadCreationFails ==
  /\ Constructing("worker_pool_")
  /\ zeros = {}
  /\ Pool!ThreadCreationFails
  /\ pc' = "catch"
  /\ UNCHANGED <<fdVars, sigVars, optionVars, built, exception, stop_requested,
                 completing>>

\* The catch block of WorkerPool's constructor rethrows after Stop.
Rethrow ==
  /\ pc = "catch"
  /\ phase = "stopped"
  /\ Throw("system_error")
  /\ UNCHANGED <<poolVars, fdVars, sigVars, optionVars, stop_requested, completing>>

\* BoundPort and the three EPOLL_CTL_ADD of the body, which may fail.
FinishConstruction ==
  /\ pc = "construct" /\ built = Len(Members)
  /\ \/ pc' = "run" /\ UNCHANGED <<built, exception>>
     \/ Throw("runtime_error")
  /\ UNCHANGED <<poolVars, fdVars, sigVars, optionVars, stop_requested, completing>>

-----------------------------------------------------------------------------
(* Run, from outside *)

Unowned(o) == fd_[o] = Fd!kInvalidFd
Running == pc = "run" /\ notify[Main] = "none"

\* AcceptNonBlocking; the socket becomes a connection or is closed again.
Accept ==
  /\ Running /\ ~stop_requested
  /\ Fd!Open("local")
  /\ UNCHANGED <<poolVars, sigVars, optionVars, mainVars, completing>>

AddConnection(c) ==
  /\ Running
  /\ Fd!Move(c, "local")
  /\ UNCHANGED <<poolVars, sigVars, optionVars, mainVars, completing>>

\* RemoveConnection, one of CloseAllConnections, or a client over the limit.
CloseSocket(o) ==
  /\ Running
  /\ ~Unowned(o)
  /\ o # "local" => Unowned("local")
  /\ Fd!Destroy(o)
  /\ UNCHANGED <<poolVars, sigVars, optionVars, mainVars, completing>>

SubmitWork(x) ==
  /\ Running /\ ~stop_requested /\ Unowned("local")
  /\ Pool!TrySubmit(Main, x)
  /\ UNCHANGED <<fdVars, sigVars, optionVars, mainVars, completing>>

SubmitNotifies ==
  /\ pc = "run"
  /\ Pool!TrySubmitNotifies(Main)
  /\ UNCHANGED <<fdVars, sigVars, optionVars, mainVars, completing>>

\* The signalfd is read until it would block: each read takes a pending signal.
\* With a stop requested the loop ends, and a later signal stays pending.
HandleShutdownSignal ==
  /\ Running /\ ~stop_requested /\ Unowned("local")
  /\ ~Unowned("shutdown_signal_")
  /\ pending \cap signals # {}
  /\ pending' = pending \ signals
  /\ stop_requested' = TRUE
  /\ UNCHANGED <<poolVars, fdVars, sigmask, previous_mask, active, optionVars, pc,
                 built, exception, completing>>

RunReturns ==
  /\ Running /\ stop_requested
  /\ \A o \in Connections \cup {"local"} : Unowned(o)
  /\ pc' = "stop"
  /\ UNCHANGED <<poolVars, fdVars, sigVars, optionVars, built, exception,
                 stop_requested, completing>>

\* An exception leaves Run, past CloseAllConnections.
RunThrows ==
  /\ Running
  /\ Fd!Destroy("local")
  /\ exception' = "runtime_error"
  /\ pc' = "stop"
  /\ UNCHANGED <<poolVars, sigVars, optionVars, built, stop_requested, completing>>

-----------------------------------------------------------------------------
(* The destructor, and the destruction of the members in reverse order     *)

\* Stop() and worker_pool_.Stop(); also ~WorkerPool, which finds the pool
\* running when the body of the constructor has thrown.
StopPool ==
  /\ \/ pc = "stop"
     \/ pc = "destroy" /\ built = Len(Members)
  /\ Pool!Stop
  /\ stop_requested' = (stop_requested \/ pc = "stop")
  /\ UNCHANGED <<fdVars, sigVars, optionVars, pc, built, exception, completing>>

StopPoolProceeds ==
  /\ ~Ended
  /\ Pool!StopNotifies \/ Pool!JoinWorkers
  /\ UNCHANGED <<fdVars, sigVars, optionVars, mainVars, completing>>

\* The body of ~EpollEchoServer ends.
RestoreMask ==
  /\ pc = "stop" /\ phase = "stopped"
  /\ Restore("destroy")
  /\ UNCHANGED <<poolVars, fdVars, optionVars, built, exception, stop_requested,
                 completing>>

Destroying(member) ==
  /\ pc = "destroy"
  /\ built > 0 /\ Members[built] = member

\* Bugs that are not in the code: ~WorkerPool only closes the queue; the mask's
\* destructor does nothing.
DestroyedUnjoined == phase \in {"stopping", "stopped"}
Joined == phase = "stopped"
RestoreNothing == pc' = pc /\ UNCHANGED sigVars
DestroyMaskState == Restore("destroy")

DestroyMember(m) ==
  /\ Destroying(m)
  /\ m = "worker_pool_" => Joined
  /\ m = "connections_" => \A c \in Connections : Unowned(c)
  /\ IF m \in Descriptors THEN Fd!Destroy(m) ELSE UNCHANGED fdVars
  /\ IF m = "signal_mask_state_" THEN DestroyMaskState ELSE UNCHANGED <<sigVars, pc>>
  /\ built' = built - 1
  /\ UNCHANGED <<poolVars, optionVars, exception, stop_requested, completing>>

\* The Connection objects go with connections_.
DestroyConnection(c) ==
  /\ Destroying("connections_")
  /\ ~Unowned(c)
  /\ Fd!Destroy(c)
  /\ UNCHANGED <<poolVars, sigVars, optionVars, mainVars, completing>>

\* main returns, with 1 from its catch block.
Exit ==
  /\ pc = "destroy" /\ built = 0
  /\ pc' = IF exception = "none" THEN "exit0" ELSE "exit1"
  /\ UNCHANGED <<poolVars, fdVars, sigVars, optionVars, built, exception,
                 stop_requested, completing>>

-----------------------------------------------------------------------------
(* Worker threads: WorkerLoop, with StoreCompletedWork as on_complete_     *)

WorkerLoop(w) ==
  /\ ~Ended
  /\ Pool!CallPop(w) \/ Pool!Sleep(w) \/ Pool!TakeItem(w) \/ Pool!ExitLoop(w)
  /\ UNCHANGED <<fdVars, sigVars, optionVars, mainVars, completing>>

WakeSpuriously(w) ==
  /\ ~Ended
  /\ Pool!WakeSpuriously(w)
  /\ UNCHANGED <<fdVars, sigVars, optionVars, mainVars, completing>>

\* The handler is done, and its result is pushed to completed_work_.
StoreCompletedWork(w) ==
  /\ ~Ended
  /\ held[w] # NoItem /\ completing[w] = "none"
  /\ completing' = [completing EXCEPT ![w] = "stored"]
  /\ UNCHANGED <<poolVars, fdVars, sigVars, optionVars, mainVars>>

\* push_back throws: nothing catches it in the thread, and the process ends.
CompletionThrows(w) ==
  /\ ~Ended
  /\ held[w] # NoItem /\ completing[w] = "none"
  /\ pc' = "aborted"
  /\ UNCHANGED <<poolVars, fdVars, sigVars, optionVars, built, exception,
                 stop_requested, completing>>

\* The write of worker_wakeup_ ends on_complete_.
NotifyWorkerWakeup(w) ==
  /\ ~Ended
  /\ completing[w] = "stored"
  /\ Pool!HandlerReturns(w)
  /\ completing' = [completing EXCEPT ![w] = "none"]
  /\ UNCHANGED <<fdVars, sigVars, optionVars, mainVars>>

-----------------------------------------------------------------------------
Construct ==
  \/ \E m \in Descriptors : OpenDescriptor(m) \/ CreateDescriptor(m) \/ CreateThrows(m)
  \/ BlockShutdownSignals \/ BlockThrows
  \/ \E m \in {"connections_", "completed_work_"} : CreateTables(m)
  \/ PoolRejectsOptions
  \/ \E w \in Workers : StartWorker(w)
  \/ ThreadCreationFails \/ Rethrow
  \/ FinishConstruction

Run ==
  \/ Accept
  \/ \E c \in Connections : AddConnection(c)
  \/ \E o \in Connections \cup {"local"} : CloseSocket(o)
  \/ \E x \in Item : SubmitWork(x)
  \/ SubmitNotifies
  \/ HandleShutdownSignal
  \/ RunReturns \/ RunThrows

Destruct ==
  \/ StopPool \/ StopPoolProceeds \/ RestoreMask
  \/ \E i \in DOMAIN Members : DestroyMember(Members[i])
  \/ \E c \in Connections : DestroyConnection(c)
  \/ Exit

MainStep == StartProgram \/ Construct \/ Run \/ Destruct

WorkerStep(w) ==
  WorkerLoop(w) \/ StoreCompletedWork(w) \/ CompletionThrows(w) \/ NotifyWorkerWakeup(w)

Next ==
  \/ MainStep
  \/ \E w \in Workers : WorkerStep(w) \/ WakeSpuriously(w)
  \/ \E s \in Signals : SignalArrives(s)

\* Threads are scheduled.  The reactor comes to a readable signalfd however much
\* else it has to do: epoll reports it with every batch until it is read.
Fairness ==
  /\ WF_vars(MainStep)
  /\ SF_vars(HandleShutdownSignal)
  /\ \A w \in Workers : WF_vars(WorkerStep(w))

Spec == Init /\ [][Next]_vars /\ Fairness

-----------------------------------------------------------------------------
(* Properties *)

\* Across the constructor, accepted sockets, exceptions and destruction every
\* open descriptor has one owner and every owner's descriptor is open.
DescriptorsOwnedOnce == Fd!OwnedOnce

\* A worker never reaches for a member of the server that is gone: while it
\* runs, completed_work_, its mutex and worker_wakeup_ exist, also when the
\* constructor fails half-way and while the members are being destroyed.
WorkersFindMembers ==
  \A w \in Workers : thread[w] = "looping" =>
    /\ built >= Len(Members) - 1
    /\ fd_["worker_wakeup_"] \in open

\* A server that is gone, or was never completed, leaves nothing behind: no open
\* descriptor, no thread, and the signal mask as it was.
NothingLeftBehind ==
  Exited =>
    /\ open = {}
    /\ \A w \in Workers : thread[w] # "looping"
    /\ sigmask[Main] = original_mask

\* While the mask is in force, and at all times in Run, every thread of the
\* process blocks the shutdown signals: none is delivered to a worker, whose
\* mask nobody sets, nor to the main thread before the destructor's Restore.
SignalsHeld ==
  active \/ pc = "run" => \A t \in Alive(thread) : signals \subseteq sigmask[t]

\* Options that the program's ParseArgs accepts pass every check that the
\* constructors of server, registry, pool and queue make.
AcceptedOptionsConstruct ==
  caller = "main" => exception # "invalid_argument"

\* A shutdown signal that was held back, at whatever moment of construction or
\* service, ends the process: Run returns, the pool is joined and the members
\* go, or the restored mask lets the signal through.
HeldSignalEndsProcess ==
  \A s \in Signals : (s \in pending \cap signals) ~> Ended
=============================================================================
