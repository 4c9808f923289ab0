------------------------ MODULE ServerLifecycle_proofs ------------------------
(***************************************************************************)
(* Proofs about ServerLifecycle, for any workers, connections, signals and *)
(* command lines: who owns the descriptors, which members the workers find *)
(* and what the signal masks are, on every path through the constructor,   *)
(* Run and the destructor.                                                 *)
(***************************************************************************)
EXTENDS ServerLifecycle, TLAPS

Objects == Descriptors \cup {"local"} \cup Connections
Looping(w) == thread[w] = "looping"

-----------------------------------------------------------------------------
(* The inductive invariant *)

TypeInv ==
  /\ built \in 0..8
  /\ pc = "main" => built = 0
  /\ pc \in {"run", "stop"} => built = 8
  /\ pc = "catch" => built = 7
  /\ pc \in {"exit0", "exit1"} => built = 0

\* A member that does not exist owns nothing; one that does has its descriptor.
\* A local owns one only inside the function that opened it.
FdInv ==
  /\ fd_ \in [Objects -> Int]
  /\ Fd!kInvalidFd \notin open
  /\ Fd!OwnedOnce
  /\ built < 1 => fd_["listener_"] = Fd!kInvalidFd
  /\ built < 2 => fd_["epoll_"] = Fd!kInvalidFd
  /\ built < 4 <=> fd_["worker_wakeup_"] = Fd!kInvalidFd
  /\ built < 5 => fd_["shutdown_signal_"] = Fd!kInvalidFd
  /\ built < 6 => \A c \in Connections : fd_[c] = Fd!kInvalidFd
  /\ \/ fd_["local"] = Fd!kInvalidFd
     \/ pc \in {"run", "killed", "aborted"}
     \/ pc = "construct" /\ built \in {0, 1, 3}
     \/ pc = "construct" /\ built = 4 /\ signals # {}

\* Threads run only once every other member exists, and are gone before the
\* first of them is.
ThreadInv ==
  /\ thread \in [Workers -> {"none", "looping", "exited"}]
  /\ \A w \in Workers : Looping(w) =>
       /\ built >= 7
       /\ phase # "stopped"
       /\ zeros = {}
       /\ pc = "destroy" => built = 8

\* The mask is in force from BlockShutdownSignals to Restore, and the threads
\* are started in between.
MaskInv ==
  /\ sigmask \in [{Main} \cup Workers -> SUBSET Signals]
  /\ signals \subseteq Signals
  /\ previous_mask \subseteq Signals
  /\ active \in BOOLEAN
  /\ active => built >= 3 /\ signals \subseteq sigmask[Main]
  /\ active => previous_mask = original_mask
  /\ ~active => sigmask[Main] = original_mask
  /\ built >= 3 /\ pc \in {"construct", "catch", "run", "stop"} =>
       signals \subseteq sigmask[Main]
  /\ \A w \in Workers : Looping(w) => signals \subseteq sigmask[w]

IInv == TypeInv /\ FdInv /\ ThreadInv /\ MaskInv

-----------------------------------------------------------------------------
(* Members and descriptors *)

\* The place of each member in the order of declaration.
LEMMA MemberPlaces ==
  /\ Len(Members) = 8 /\ DOMAIN Members = 1..8
  /\ Members[1] = "listener_" /\ Members[2] = "epoll_"
  /\ Members[3] = "signal_mask_state_" /\ Members[4] = "worker_wakeup_"
  /\ Members[5] = "shutdown_signal_" /\ Members[6] = "connections_"
  /\ Members[7] = "completed_work_" /\ Members[8] = "worker_pool_"
BY DEF Members

\* i is the place of member m.
At(m, i) ==
  \/ m = "listener_" /\ i = 1
  \/ m = "epoll_" /\ i = 2
  \/ m = "signal_mask_state_" /\ i = 3
  \/ m = "worker_wakeup_" /\ i = 4
  \/ m = "shutdown_signal_" /\ i = 5
  \/ m = "connections_" /\ i = 6
  \/ m = "completed_work_" /\ i = 7
  \/ m = "worker_pool_" /\ i = 8

LEMMA PlaceOfMember ==
  ASSUME NEW i \in 1..8
  PROVE  At(Members[i], i)
<1>1. i = 1 \/ i = 2 \/ i = 3 \/ i = 4 \/ i = 5 \/ i = 6 \/ i = 7 \/ i = 8
  OBVIOUS
<1>2. QED
  BY <1>1, MemberPlaces DEF At

\* Which member is constructed, or destroyed, is known from "built".
LEMMA ConstructingPlace ==
  ASSUME TypeInv, NEW m, Constructing(m)
  PROVE  pc = "construct" /\ built \in 0..7 /\ At(m, built + 1)
<1>1. built \in 0..7 /\ built + 1 \in 1..8 /\ Members[built + 1] = m
      /\ pc = "construct"
  BY MemberPlaces DEF TypeInv, Constructing
<1>2. QED
  BY <1>1, PlaceOfMember

LEMMA DestroyingPlace ==
  ASSUME TypeInv, NEW m, Destroying(m)
  PROVE  pc = "destroy" /\ built \in 1..8 /\ At(m, built)
<1>1. built \in 1..8 /\ Members[built] = m /\ pc = "destroy"
  BY DEF TypeInv, Destroying
<1>2. QED
  BY <1>1, PlaceOfMember

\* The objects that own descriptors are told apart by their names.
LEMMA ObjectNames ==
  /\ {"listener_", "epoll_", "worker_wakeup_", "shutdown_signal_", "local"} \subseteq Objects
  /\ \A c \in Connections :
       /\ c \in Objects
       /\ c \notin {"listener_", "epoll_", "worker_wakeup_", "shutdown_signal_", "local"}
BY ConnectionsAssumption DEF Objects, Descriptors

\* A system call's new descriptor gets one owner.
LEMMA OpenKeepsOwnership ==
  ASSUME NEW o \in Objects, fd_ \in [Objects -> Int], Fd!kInvalidFd \notin open,
         Fd!OwnedOnce, Fd!Open(o)
  PROVE  /\ fd_' \in [Objects -> Int]
         /\ Fd!kInvalidFd \notin open'
         /\ Fd!OwnedOnce'
         /\ \A p \in Objects : p # o => fd_'[p] = fd_[p]
<1>1. PICK fd \in 0..MaxFd \ open :
        fd_' = [fd_ EXCEPT ![o] = fd] /\ open' = open \cup {fd}
  BY DEF Fd!Open
<1>2. fd \in Int /\ fd # -1 /\ fd \notin open
  OBVIOUS
<1>3. fd_' \in [Objects -> Int]
      /\ \A p \in Objects : fd_'[p] = IF p = o THEN fd ELSE fd_[p]
  BY <1>1, <1>2
<1>4. \A p \in Objects : fd_[p] # fd
  BY <1>2 DEF Fd!OwnedOnce, Fd!kInvalidFd, Objects
<1>5. fd_[o] = -1
  BY DEF Fd!Open, Fd!kInvalidFd
<1>6. Fd!OwnedOnce'
  BY <1>1, <1>2, <1>3, <1>4, <1>5 DEF Fd!OwnedOnce, Fd!kInvalidFd, Objects
<1>7. QED
  BY <1>1, <1>2, <1>3, <1>6 DEF Fd!kInvalidFd

\* std::exchange: the owner changes, and it remains one.
LEMMA MoveKeepsOwnership ==
  ASSUME NEW to \in Objects, NEW from \in Objects,
         fd_ \in [Objects -> Int], Fd!kInvalidFd \notin open,
         Fd!OwnedOnce, Fd!Move(to, from)
  PROVE  /\ fd_' \in [Objects -> Int]
         /\ Fd!kInvalidFd \notin open'
         /\ Fd!OwnedOnce'
         /\ fd_'[from] = Fd!kInvalidFd /\ fd_'[to] # Fd!kInvalidFd
         /\ \A p \in Objects \ {to, from} : fd_'[p] = fd_[p]
<1>1. /\ fd_[to] = -1 /\ fd_[from] # -1 /\ to # from /\ open' = open
      /\ fd_' = [fd_ EXCEPT ![to] = fd_[from], ![from] = -1]
  BY DEF Fd!Move, Fd!Exchange, Fd!kInvalidFd
<1>2. /\ fd_' \in [Objects -> Int]
      /\ \A p \in Objects :
           fd_'[p] = IF p = from THEN -1 ELSE IF p = to THEN fd_[from] ELSE fd_[p]
  BY <1>1
<1>3. Fd!OwnedOnce'
  BY <1>1, <1>2 DEF Fd!OwnedOnce, Fd!kInvalidFd, Objects
<1>4. QED
  BY <1>1, <1>2, <1>3 DEF Fd!kInvalidFd

\* ~UniqueFd closes what nobody else owns.
LEMMA DestroyKeepsOwnership ==
  ASSUME NEW o \in Objects, fd_ \in [Objects -> Int], Fd!kInvalidFd \notin open,
         Fd!OwnedOnce, Fd!Destroy(o)
  PROVE  /\ fd_' \in [Objects -> Int]
         /\ Fd!kInvalidFd \notin open'
         /\ Fd!OwnedOnce'
         /\ fd_'[o] = Fd!kInvalidFd
         /\ \A p \in Objects : p # o => fd_'[p] = fd_[p]
<1>1. fd_' = [fd_ EXCEPT ![o] = -1] /\ open' = open \ {fd_[o]}
  BY DEF Fd!Destroy, Fd!kInvalidFd
<1>2. /\ fd_' \in [Objects -> Int]
      /\ \A p \in Objects : fd_'[p] = IF p = o THEN -1 ELSE fd_[p]
  BY <1>1
<1>3. Fd!OwnedOnce'
  BY <1>1, <1>2 DEF Fd!OwnedOnce, Fd!kInvalidFd, Objects
<1>4. QED
  BY <1>1, <1>2, <1>3 DEF Fd!kInvalidFd
-----------------------------------------------------------------------------
(* Steps *)

\* What most steps leave alone: the members, their descriptors and the masks.
\* They start no thread, and the process goes on or ends.
Quiet ==
  /\ UNCHANGED <<fdVars, sigmask, previous_mask, active, optionVars, built>>
  /\ pc' = pc \/ pc' \in {"killed", "aborted"}
  /\ thread' \in [Workers -> {"none", "looping", "exited"}]
  /\ \A w \in Workers : thread'[w] = "looping" => Looping(w) /\ phase' # "stopped"

LEMMA QuietKeeps ==
  ASSUME IInv, Quiet
  PROVE  IInv'
<1> USE DEF Quiet, optionVars
<1>1. TypeInv'
  BY DEF IInv, TypeInv
<1>2. FdInv'
  BY DEF IInv, FdInv, fdVars, Fd!OwnedOnce, Fd!kInvalidFd
<1>3. ThreadInv'
  BY DEF IInv, ThreadInv, Looping
<1>4. MaskInv'
  BY DEF IInv, MaskInv, Looping
<1>5. QED
  BY <1>1, <1>2, <1>3, <1>4 DEF IInv

\* The threads' own steps, signals, and what Run and Stop do with the pool.
LEMMA QuietSteps ==
  ASSUME IInv
  PROVE  (\/ \E x \in Item : SubmitWork(x)
          \/ SubmitNotifies \/ HandleShutdownSignal \/ StopPool \/ StopPoolProceeds
          \/ \E w \in Workers : WorkerStep(w) \/ WakeSpuriously(w)
          \/ \E s \in Signals : SignalArrives(s)
          \/ UNCHANGED vars)
         => IInv'
<1> USE DEF IInv, ThreadInv, Looping, Quiet
<1>1. CASE UNCHANGED vars
  BY <1>1, QuietKeeps DEF vars, mainVars, poolVars, sigVars
<1>2. CASE (\E x \in Item : SubmitWork(x)) \/ SubmitNotifies \/ HandleShutdownSignal
  BY <1>2, QuietKeeps DEF SubmitWork, SubmitNotifies, HandleShutdownSignal,
     mainVars,
     poolVars, sigVars, Pool!TrySubmit, Pool!TrySubmitNotifies
<1>3. CASE StopPool
  BY <1>3, QuietKeeps DEF StopPool, sigVars, Pool!Stop
<1>4. CASE StopPoolProceeds
  <2>1. CASE Pool!StopNotifies
    BY <1>4, <2>1, QuietKeeps DEF StopPoolProceeds, mainVars, sigVars,
       Pool!StopNotifies
  <2>2. CASE Pool!JoinWorkers
    BY <1>4, <2>2, QuietKeeps DEF StopPoolProceeds, mainVars, sigVars,
       Pool!JoinWorkers,
       Pool!Started
  <2>3. QED
    BY <1>4, <2>1, <2>2 DEF StopPoolProceeds
<1>5. ASSUME NEW w \in Workers, WorkerStep(w) \/ WakeSpuriously(w)
      PROVE  IInv'
  <2>1. CASE WorkerLoop(w)
    BY <2>1, QuietKeeps DEF WorkerLoop, mainVars, sigVars, Pool!CallPop, Pool!Sleep,
       Pool!TakeItem, Pool!ExitLoop
  <2>2. CASE StoreCompletedWork(w) \/ CompletionThrows(w) \/ NotifyWorkerWakeup(w)
    BY <2>2, QuietKeeps DEF StoreCompletedWork, CompletionThrows,
       NotifyWorkerWakeup,
       mainVars, poolVars, sigVars, Pool!HandlerReturns
  <2>3. CASE WakeSpuriously(w)
    BY <2>3, QuietKeeps DEF WakeSpuriously, mainVars, sigVars, Pool!WakeSpuriously
  <2>4. QED
    BY <1>5, <2>1, <2>2, <2>3 DEF WorkerStep
<1>6. CASE \E s \in Signals : SignalArrives(s)
  BY <1>6, QuietKeeps DEF SignalArrives, poolVars
<1>7. QED
  BY <1>1, <1>2, <1>3, <1>4, <1>5, <1>6

\* The constructor, member by member, and its failures.
LEMMA ConstructSteps ==
  ASSUME IInv
  PROVE  Construct => IInv'
<1> USE DEF IInv
<1>1. ASSUME NEW m \in Descriptors, OpenDescriptor(m)
      PROVE  IInv'
  <2>1. pc = "construct" /\ built \in 0..7 /\ At(m, built + 1) /\ built' = built
        /\ pc' = pc /\ built \in {0, 1, 3, 4} /\ (built = 4 => signals # {})
        /\ UNCHANGED <<signals, zeros>>
    BY <1>1, ConstructingPlace DEF OpenDescriptor, optionVars, mainVars, At,
       Descriptors
  <2>2. /\ fd_' \in [Objects -> Int] /\ Fd!kInvalidFd \notin open' /\ Fd!OwnedOnce'
        /\ \A p \in Objects : p # "local" => fd_'[p] = fd_[p]
    BY <1>1, OpenKeepsOwnership, ObjectNames DEF OpenDescriptor, FdInv,
       Descriptors, Objects
  <2>3. FdInv'
    BY <2>1, <2>2, ObjectNames DEF FdInv, Fd!kInvalidFd, Objects, Descriptors, At
  <2>4. TypeInv'
    BY <2>1 DEF TypeInv, At
  <2>5. ThreadInv'
    BY <1>1, <2>1 DEF OpenDescriptor, ThreadInv, TypeInv, Looping, poolVars, At
  <2>6. MaskInv'
    BY <1>1, <2>1 DEF OpenDescriptor, MaskInv, ThreadInv, TypeInv, Looping,
       poolVars, sigVars, optionVars, At
  <2>7. QED
    BY <2>3, <2>4, <2>5, <2>6
<1>2. ASSUME NEW m \in Descriptors, CreateDescriptor(m)
      PROVE  IInv'
  <2>1. pc = "construct" /\ built \in 0..7 /\ At(m, built + 1)
        /\ built' = built + 1 /\ pc' = pc
        /\ built \in {0, 1, 3, 4} /\ UNCHANGED <<signals, zeros>>
    BY <1>2, ConstructingPlace DEF CreateDescriptor, optionVars, Built, At,
       Descriptors
  <2>2. \/ UNCHANGED fdVars /\ m = "shutdown_signal_" /\ signals = {}
        \/ /\ fd_' \in [Objects -> Int] /\ Fd!kInvalidFd \notin open' /\ Fd!OwnedOnce'
           /\ fd_'["local"] = Fd!kInvalidFd /\ fd_'[m] # Fd!kInvalidFd
           /\ \A p \in Objects \ {m, "local"} : fd_'[p] = fd_[p]
    BY <1>2, MoveKeepsOwnership, ObjectNames DEF CreateDescriptor, FdInv,
       Descriptors, Objects
  <2>3. FdInv'
    <3>1. CASE UNCHANGED fdVars /\ m = "shutdown_signal_" /\ signals = {}
      BY <2>1, <3>1 DEF FdInv, fdVars, Fd!OwnedOnce, Fd!kInvalidFd, Objects, At
    <3>2. CASE ~(UNCHANGED fdVars /\ m = "shutdown_signal_" /\ signals = {})
      <4>1. \A c \in Connections : fd_'[c] = Fd!kInvalidFd
        BY <2>1, <2>2, <3>2, ObjectNames DEF FdInv, Descriptors
      <4>2. QED
        BY <2>1, <2>2, <3>2, <4>1, ObjectNames DEF FdInv, Fd!kInvalidFd,
           Descriptors, At
    <3>3. QED
      BY <3>1, <3>2
  <2>4. TypeInv'
    BY <2>1 DEF TypeInv, At
  <2>5. ThreadInv'
    BY <1>2, <2>1 DEF CreateDescriptor, ThreadInv, TypeInv, Looping, poolVars, At
  <2>6. MaskInv'
    BY <1>2, <2>1 DEF CreateDescriptor, MaskInv, ThreadInv, TypeInv, Looping,
       poolVars, sigVars, optionVars, At
  <2>7. QED
    BY <2>3, <2>4, <2>5, <2>6
<1>3. ASSUME NEW m \in Descriptors, CreateThrows(m)
      PROVE  IInv'
  <2>1. pc = "construct" /\ built \in 0..7 /\ At(m, built + 1) /\ built' = built
        /\ pc' = "destroy"
        /\ built \in {0, 1, 3, 4} /\ UNCHANGED <<signals, zeros>>
    BY <1>3, ConstructingPlace DEF CreateThrows, optionVars, Throw, At, Descriptors
  <2>2. /\ fd_' \in [Objects -> Int] /\ Fd!kInvalidFd \notin open' /\ Fd!OwnedOnce'
        /\ fd_'["local"] = Fd!kInvalidFd
        /\ \A p \in Objects : p # "local" => fd_'[p] = fd_[p]
    BY <1>3, DestroyKeepsOwnership, ObjectNames DEF CreateThrows, FdInv,
       Descriptors, Objects
  <2>3. FdInv'
    BY <2>1, <2>2, ObjectNames DEF FdInv, Fd!kInvalidFd, Objects, Descriptors, At
  <2>4. TypeInv'
    BY <2>1 DEF TypeInv, At
  <2>5. ThreadInv'
    BY <1>3, <2>1 DEF CreateThrows, ThreadInv, TypeInv, Looping, poolVars, At
  <2>6. MaskInv'
    BY <1>3, <2>1 DEF CreateThrows, MaskInv, ThreadInv, TypeInv, Looping, poolVars,
       sigVars, optionVars, At
  <2>7. QED
    BY <2>3, <2>4, <2>5, <2>6
<1>4. ASSUME BlockShutdownSignals
      PROVE  IInv'
  <2>1. pc = "construct" /\ built \in 0..7
        /\ At("signal_mask_state_", built + 1) /\ built' = built + 1 /\ pc' = pc
        /\ UNCHANGED <<signals, zeros>>
    BY <1>4, ConstructingPlace DEF BlockShutdownSignals, optionVars, Built
  <2>3. FdInv'
    BY <1>4, <2>1 DEF BlockShutdownSignals, FdInv, fdVars, Fd!OwnedOnce,
       Fd!kInvalidFd, At, Objects
  <2>4. TypeInv'
    BY <2>1 DEF TypeInv, At
  <2>5. ThreadInv'
    BY <1>4, <2>1 DEF BlockShutdownSignals, ThreadInv, TypeInv, Looping, poolVars,
       At
  <2>6. MaskInv'
    <3>1. /\ built = 2 /\ ~active /\ sigmask[Main] = original_mask
          /\ original_mask' = original_mask /\ thread' = thread
          /\ \A w \in Workers : ~Looping(w)
      BY <1>4, <2>1 DEF BlockShutdownSignals, At, MaskInv, ThreadInv, optionVars,
         poolVars
    <3>2. CASE signals = {}
      BY <1>4, <2>1, <3>1, <3>2 DEF BlockShutdownSignals, MaskInv, sigVars, Looping
    <3>3. CASE signals # {}
      <4>1. /\ previous_mask' = sigmask[Main] /\ active' = TRUE
            /\ sigmask' = [sigmask EXCEPT ![Main] = sigmask[Main] \cup signals]
        BY <1>4, <3>3 DEF BlockShutdownSignals
      <4>2. sigmask[Main] \subseteq Signals
            /\ sigmask'[Main] = sigmask[Main] \cup signals
        BY <4>1 DEF MaskInv
      <4>3. sigmask' \in [{Main} \cup Workers -> SUBSET Signals]
        BY <4>1, <4>2 DEF MaskInv
      <4>4. QED
        BY <2>1, <3>1, <4>1, <4>2, <4>3 DEF MaskInv, Looping
    <3>4. QED
      BY <3>2, <3>3
  <2>7. QED
    BY <2>3, <2>4, <2>5, <2>6
<1>5. ASSUME BlockThrows
      PROVE  IInv'
  <2>1. pc = "construct" /\ built \in 0..7
        /\ At("signal_mask_state_", built + 1) /\ built' = built /\ pc' = "destroy"
        /\ UNCHANGED <<signals, zeros>>
    BY <1>5, ConstructingPlace DEF BlockThrows, optionVars, Throw
  <2>3. FdInv'
    BY <1>5, <2>1 DEF BlockThrows, FdInv, fdVars, Fd!OwnedOnce, Fd!kInvalidFd, At,
       Objects
  <2>4. TypeInv'
    BY <2>1 DEF TypeInv, At
  <2>5. ThreadInv'
    BY <1>5, <2>1 DEF BlockThrows, ThreadInv, TypeInv, Looping, poolVars, At
  <2>6. MaskInv'
    BY <1>5, <2>1 DEF BlockThrows, MaskInv, ThreadInv, TypeInv, Looping, poolVars,
       sigVars, optionVars, At
  <2>7. QED
    BY <2>3, <2>4, <2>5, <2>6
<1>6. ASSUME NEW m \in {"connections_", "completed_work_"}, CreateTables(m)
      PROVE  IInv'
  <2>1. pc = "construct" /\ built \in 0..7 /\ At(m, built + 1)
        /\ ((built' = built + 1 /\ pc' = pc) \/ (built' = built /\ pc' = "destroy"))
        /\ UNCHANGED <<signals, zeros>>
    <3>1. pc = "construct" /\ built \in 0..7 /\ At(m, built + 1)
      BY <1>6, ConstructingPlace DEF CreateTables
    <3>2. Built \/ \E e \in {"invalid_argument"} : Throw(e)
      BY <1>6 DEF CreateTables
    <3>3. UNCHANGED <<signals, zeros>>
      BY <1>6 DEF CreateTables, optionVars
    <3>4. QED
      BY <3>1, <3>2, <3>3 DEF Built, Throw
  <2>3. FdInv'
    BY <1>6, <2>1 DEF CreateTables, FdInv, fdVars, Fd!OwnedOnce, Fd!kInvalidFd, At,
       Objects
  <2>4. TypeInv'
    BY <2>1 DEF TypeInv, At
  <2>5. ThreadInv'
    BY <1>6, <2>1 DEF CreateTables, ThreadInv, TypeInv, Looping, poolVars, At
  <2>6. MaskInv'
    BY <1>6, <2>1 DEF CreateTables, MaskInv, ThreadInv, TypeInv, Looping, poolVars,
       sigVars, optionVars, At
  <2>7. QED
    BY <2>3, <2>4, <2>5, <2>6
<1>7. ASSUME PoolRejectsOptions
      PROVE  IInv'
  <2>1. pc = "construct" /\ built \in 0..7 /\ At("worker_pool_", built + 1)
        /\ built' = built /\ pc' = "destroy"
        /\ UNCHANGED <<signals, zeros>>
    BY <1>7, ConstructingPlace DEF PoolRejectsOptions, optionVars, Throw
  <2>3. FdInv'
    BY <1>7, <2>1 DEF PoolRejectsOptions, FdInv, fdVars, Fd!OwnedOnce,
       Fd!kInvalidFd, At, Objects
  <2>4. TypeInv'
    BY <2>1 DEF TypeInv, At
  <2>5. ThreadInv'
    BY <1>7, <2>1 DEF PoolRejectsOptions, Pool!Started, ThreadInv, TypeInv,
       Looping, poolVars, At
  <2>6. MaskInv'
    BY <1>7, <2>1 DEF PoolRejectsOptions, MaskInv, ThreadInv, TypeInv, Looping,
       poolVars, sigVars, optionVars, At
  <2>7. QED
    BY <2>3, <2>4, <2>5, <2>6
<1>8. ASSUME NEW w \in Workers, StartWorker(w)
      PROVE  IInv'
  <2>1. pc = "construct" /\ built \in 0..7 /\ At("worker_pool_", built + 1)
        /\ built' \in {built, built + 1} /\ pc' = pc
        /\ UNCHANGED <<signals, zeros>>
    BY <1>8, ConstructingPlace DEF StartWorker, optionVars
  <2>3. FdInv'
    BY <1>8, <2>1 DEF StartWorker, FdInv, fdVars, Fd!OwnedOnce, Fd!kInvalidFd, At,
       Objects
  <2>4. TypeInv'
    BY <2>1 DEF TypeInv, At
  <2>5. ThreadInv'
    BY <1>8, <2>1 DEF StartWorker, Pool!StartWorker, ThreadInv, TypeInv, Looping,
       poolVars, At
  <2>6. MaskInv'
    BY <1>8, <2>1, MainAssumption DEF StartWorker, Inherited, Pool!StartWorker,
       MaskInv, ThreadInv, TypeInv, Looping, poolVars, sigVars, optionVars, At
  <2>7. QED
    BY <2>3, <2>4, <2>5, <2>6
<1>9. ASSUME ThreadCreationFails
      PROVE  IInv'
  <2>1. pc = "construct" /\ built \in 0..7 /\ At("worker_pool_", built + 1)
        /\ built' = built /\ pc' = "catch"
        /\ UNCHANGED <<signals, zeros>>
    BY <1>9, ConstructingPlace DEF ThreadCreationFails, optionVars
  <2>3. FdInv'
    BY <1>9, <2>1 DEF ThreadCreationFails, FdInv, fdVars, Fd!OwnedOnce,
       Fd!kInvalidFd, At, Objects
  <2>4. TypeInv'
    BY <2>1 DEF TypeInv, At
  <2>5. ThreadInv'
    BY <1>9, <2>1 DEF ThreadCreationFails, Pool!ThreadCreationFails, ThreadInv,
       TypeInv, Looping, poolVars, At
  <2>6. MaskInv'
    BY <1>9, <2>1 DEF ThreadCreationFails, Pool!ThreadCreationFails, MaskInv,
       ThreadInv, TypeInv, Looping, poolVars, sigVars, optionVars, At
  <2>7. QED
    BY <2>3, <2>4, <2>5, <2>6
<1>10. ASSUME Rethrow
      PROVE  IInv'
  <2>1. pc = "catch" /\ phase = "stopped" /\ built' = built /\ pc' = "destroy"
        /\ UNCHANGED <<signals, zeros>>
    BY <1>10 DEF Rethrow, optionVars, Throw
  <2>3. FdInv'
    BY <1>10, <2>1 DEF Rethrow, FdInv, fdVars, Fd!OwnedOnce, Fd!kInvalidFd, At,
       Objects
  <2>4. TypeInv'
    BY <2>1 DEF TypeInv
  <2>5. ThreadInv'
    BY <1>10, <2>1 DEF Rethrow, ThreadInv, TypeInv, Looping, poolVars, At
  <2>6. MaskInv'
    BY <1>10, <2>1 DEF Rethrow, MaskInv, ThreadInv, TypeInv, Looping, poolVars,
       sigVars, optionVars, At
  <2>7. QED
    BY <2>3, <2>4, <2>5, <2>6
<1>11. ASSUME FinishConstruction
      PROVE  IInv'
  <2>1. pc = "construct" /\ built = 8 /\ built' = built
        /\ pc' \in {"run", "destroy"}
        /\ UNCHANGED <<signals, zeros>>
    BY <1>11, MemberPlaces DEF FinishConstruction, optionVars, Throw
  <2>3. FdInv'
    BY <1>11, <2>1 DEF FinishConstruction, FdInv, fdVars, Fd!OwnedOnce,
       Fd!kInvalidFd, At, Objects
  <2>4. TypeInv'
    BY <2>1 DEF TypeInv
  <2>5. ThreadInv'
    BY <1>11, <2>1 DEF FinishConstruction, ThreadInv, TypeInv, Looping, poolVars, At
  <2>6. MaskInv'
    BY <1>11, <2>1 DEF FinishConstruction, MaskInv, ThreadInv, TypeInv, Looping,
       poolVars, sigVars, optionVars, At
  <2>7. QED
    BY <2>3, <2>4, <2>5, <2>6
<1>12. QED
  BY <1>1, <1>2, <1>3, <1>4, <1>5, <1>6, <1>7, <1>8, <1>9, <1>10,
     <1>11 DEF Construct

\* The program starts; Run, as far as it opens and closes sockets and ends.
LEMMA RunSteps ==
  ASSUME IInv
  PROVE  (\/ StartProgram \/ Accept \/ RunReturns \/ RunThrows
          \/ \E c \in Connections : AddConnection(c)
          \/ \E o \in Connections \cup {"local"} : CloseSocket(o))
         => IInv'
<1> USE DEF IInv
<1>1. ASSUME StartProgram
      PROVE  IInv'
  <2>1. pc = "main" /\ built = 0 /\ built' = 0
        /\ pc' \in {"exit0", "exit1", "construct"}
    BY <1>1 DEF StartProgram, optionVars, TypeInv
  <2>3. FdInv'
    BY <1>1, <2>1 DEF StartProgram, FdInv, fdVars, Fd!OwnedOnce, Fd!kInvalidFd, At,
       Objects
  <2>4. TypeInv'
    BY <2>1 DEF TypeInv
  <2>5. ThreadInv'
    BY <1>1, <2>1 DEF StartProgram, ThreadInv, TypeInv, Looping, poolVars, At
  <2>6. MaskInv'
    BY <1>1, <2>1 DEF StartProgram, MaskInv, ThreadInv, TypeInv, Looping, poolVars,
       sigVars, optionVars, At
  <2>7. QED
    BY <2>3, <2>4, <2>5, <2>6
<1>2. ASSUME Accept
      PROVE  IInv'
  <2>1. pc = "run" /\ built = 8 /\ built' = built /\ pc' = pc
        /\ UNCHANGED <<signals, zeros>>
    BY <1>2 DEF Accept, optionVars, TypeInv, Running, mainVars
  <2>2. /\ fd_' \in [Objects -> Int] /\ Fd!kInvalidFd \notin open' /\ Fd!OwnedOnce'
        /\ \A p \in Objects : p # "local" => fd_'[p] = fd_[p]
    BY <1>2, OpenKeepsOwnership, ObjectNames DEF Accept, FdInv, Descriptors, Objects
  <2>3. FdInv'
    BY <2>1, <2>2, ObjectNames DEF FdInv, Fd!kInvalidFd, Objects, Descriptors, At
  <2>4. TypeInv'
    BY <2>1 DEF TypeInv
  <2>5. ThreadInv'
    BY <1>2, <2>1 DEF Accept, ThreadInv, TypeInv, Looping, poolVars, At
  <2>6. MaskInv'
    BY <1>2, <2>1 DEF Accept, MaskInv, ThreadInv, TypeInv, Looping, poolVars,
       sigVars, optionVars, At
  <2>7. QED
    BY <2>3, <2>4, <2>5, <2>6
<1>3. ASSUME NEW c \in Connections, AddConnection(c)
      PROVE  IInv'
  <2>1. pc = "run" /\ built = 8 /\ built' = built /\ pc' = pc
        /\ UNCHANGED <<signals, zeros>>
    BY <1>3 DEF AddConnection, optionVars, TypeInv, Running, mainVars
  <2>2. /\ fd_' \in [Objects -> Int] /\ Fd!kInvalidFd \notin open' /\ Fd!OwnedOnce'
        /\ fd_'["local"] = Fd!kInvalidFd
        /\ \A p \in Objects \ {c, "local"} : fd_'[p] = fd_[p]
    BY <1>3, MoveKeepsOwnership, ObjectNames DEF AddConnection, FdInv
  <2>3. FdInv'
    BY <2>1, <2>2, ObjectNames DEF FdInv, Fd!kInvalidFd
  <2>4. TypeInv'
    BY <2>1 DEF TypeInv
  <2>5. ThreadInv'
    BY <1>3, <2>1 DEF AddConnection, ThreadInv, TypeInv, Looping, poolVars, At
  <2>6. MaskInv'
    BY <1>3, <2>1 DEF AddConnection, MaskInv, ThreadInv, TypeInv, Looping,
       poolVars, sigVars, optionVars, At
  <2>7. QED
    BY <2>3, <2>4, <2>5, <2>6
<1>4. ASSUME NEW o \in Connections \cup {"local"}, CloseSocket(o)
      PROVE  IInv'
  <2>1. pc = "run" /\ built = 8 /\ built' = built /\ pc' = pc
        /\ UNCHANGED <<signals, zeros>>
    BY <1>4 DEF CloseSocket, optionVars, TypeInv, Running, mainVars
  <2>2. /\ fd_' \in [Objects -> Int] /\ Fd!kInvalidFd \notin open' /\ Fd!OwnedOnce'
        /\ \A p \in Objects : p # o => fd_'[p] = fd_[p]
    BY <1>4, DestroyKeepsOwnership, ObjectNames DEF CloseSocket, FdInv
  <2>3. FdInv'
    BY <2>1, <2>2, ObjectNames DEF FdInv, Fd!kInvalidFd
  <2>4. TypeInv'
    BY <2>1 DEF TypeInv
  <2>5. ThreadInv'
    BY <1>4, <2>1 DEF CloseSocket, ThreadInv, TypeInv, Looping, poolVars, At
  <2>6. MaskInv'
    BY <1>4, <2>1 DEF CloseSocket, MaskInv, ThreadInv, TypeInv, Looping, poolVars,
       sigVars, optionVars, At
  <2>7. QED
    BY <2>3, <2>4, <2>5, <2>6
<1>5. ASSUME RunReturns
      PROVE  IInv'
  <2>1. pc = "run" /\ built = 8 /\ built' = built /\ pc' = "stop"
        /\ fd_["local"] = Fd!kInvalidFd
        /\ UNCHANGED <<signals, zeros>>
    BY <1>5 DEF RunReturns, optionVars, TypeInv, Running, Unowned
  <2>3. FdInv'
    BY <1>5, <2>1 DEF RunReturns, FdInv, fdVars, Fd!OwnedOnce, Fd!kInvalidFd, At,
       Objects
  <2>4. TypeInv'
    BY <2>1 DEF TypeInv
  <2>5. ThreadInv'
    BY <1>5, <2>1 DEF RunReturns, ThreadInv, TypeInv, Looping, poolVars, At
  <2>6. MaskInv'
    BY <1>5, <2>1 DEF RunReturns, MaskInv, ThreadInv, TypeInv, Looping, poolVars,
       sigVars, optionVars, At
  <2>7. QED
    BY <2>3, <2>4, <2>5, <2>6
<1>6. ASSUME RunThrows
      PROVE  IInv'
  <2>1. pc = "run" /\ built = 8 /\ built' = built /\ pc' = "stop"
        /\ UNCHANGED <<signals, zeros>>
    BY <1>6 DEF RunThrows, optionVars, TypeInv, Running
  <2>2. /\ fd_' \in [Objects -> Int] /\ Fd!kInvalidFd \notin open' /\ Fd!OwnedOnce'
        /\ fd_'["local"] = Fd!kInvalidFd
        /\ \A p \in Objects : p # "local" => fd_'[p] = fd_[p]
    BY <1>6, DestroyKeepsOwnership, ObjectNames DEF RunThrows, FdInv, Descriptors,
       Objects
  <2>3. FdInv'
    BY <2>1, <2>2, ObjectNames DEF FdInv, Fd!kInvalidFd, Objects, Descriptors, At
  <2>4. TypeInv'
    BY <2>1 DEF TypeInv
  <2>5. ThreadInv'
    BY <1>6, <2>1 DEF RunThrows, ThreadInv, TypeInv, Looping, poolVars, At
  <2>6. MaskInv'
    BY <1>6, <2>1 DEF RunThrows, MaskInv, ThreadInv, TypeInv, Looping, poolVars,
       sigVars, optionVars, At
  <2>7. QED
    BY <2>3, <2>4, <2>5, <2>6
<1>7. QED
  BY <1>1, <1>2, <1>3, <1>4, <1>5, <1>6

\* Destruction, after Run or after an exception of the constructor.
LEMMA DestructSteps ==
  ASSUME IInv
  PROVE  (\/ RestoreMask \/ Exit
          \/ \E i \in DOMAIN Members : DestroyMember(Members[i])
          \/ \E c \in Connections : DestroyConnection(c))
         => IInv'
<1> USE DEF IInv
<1>1. ASSUME RestoreMask
      PROVE  IInv'
  <2>1. pc = "stop" /\ built = 8 /\ built' = built /\ pc' \in {"destroy", "killed"}
        /\ UNCHANGED <<signals, zeros>>
    BY <1>1 DEF RestoreMask, optionVars, TypeInv, Restore
  <2>3. FdInv'
    BY <1>1, <2>1 DEF RestoreMask, FdInv, fdVars, Fd!OwnedOnce, Fd!kInvalidFd, At,
       Objects
  <2>4. TypeInv'
    BY <2>1 DEF TypeInv
  <2>5. ThreadInv'
    BY <1>1, <2>1 DEF RestoreMask, ThreadInv, TypeInv, Looping, poolVars, At
  <2>6. MaskInv'
    BY <1>1, <2>1, MainAssumption DEF RestoreMask, Restore, MaskInv, ThreadInv,
       TypeInv, Looping, poolVars, sigVars, optionVars, At
  <2>7. QED
    BY <2>3, <2>4, <2>5, <2>6
<1>2. ASSUME NEW m, DestroyMember(m)
      PROVE  IInv'
  <2>1. pc = "destroy" /\ built \in 1..8 /\ At(m, built) /\ built' = built - 1
        /\ pc' \in {"destroy", "killed"} /\ UNCHANGED <<signals, zeros>>
        /\ (built = 6 => \A c \in Connections : fd_[c] = Fd!kInvalidFd)
        /\ (built = 8 => phase = "stopped")
    <3>1. pc = "destroy" /\ built \in 1..8 /\ At(m, built)
      BY <1>2, DestroyingPlace DEF DestroyMember
    <3>2. built' = built - 1 /\ UNCHANGED <<signals, zeros>>
      BY <1>2 DEF DestroyMember, optionVars
    <3>3. pc' \in {"destroy", "killed"}
      BY <1>2, <3>1 DEF DestroyMember, DestroyMaskState, Restore
    <3>4. (m = "worker_pool_" => phase = "stopped")
          /\ (m = "connections_" => \A c \in Connections : fd_[c] = Fd!kInvalidFd)
      BY <1>2 DEF DestroyMember, Joined, Unowned
    <3>5. QED
      BY <3>1, <3>2, <3>3, <3>4 DEF At
  <2>2. \/ UNCHANGED fdVars /\ m \notin Descriptors
        \/ /\ fd_' \in [Objects -> Int] /\ Fd!kInvalidFd \notin open' /\ Fd!OwnedOnce'
           /\ m \in Descriptors
           /\ fd_'[m] = Fd!kInvalidFd
           /\ \A p \in Objects : p # m => fd_'[p] = fd_[p]
    BY <1>2, DestroyKeepsOwnership DEF DestroyMember, FdInv, Objects
  <2>3. FdInv'
    <3>1. CASE UNCHANGED fdVars /\ m \notin Descriptors
      BY <2>1, <3>1 DEF FdInv, fdVars, Fd!OwnedOnce, Fd!kInvalidFd, Objects,
         Descriptors, At
    <3>2. CASE m \in Descriptors
      <4>1. \A c \in Connections : fd_'[c] = fd_[c]
        BY <2>2, <3>2, ObjectNames DEF Descriptors
      <4>2. /\ fd_' \in [Objects -> Int] /\ Fd!kInvalidFd \notin open' /\ Fd!OwnedOnce'
            /\ fd_'[m] = Fd!kInvalidFd
            /\ \A o \in Descriptors \cup {"local"} : o # m => fd_'[o] = fd_[o]
        BY <2>2, <3>2 DEF Objects
      <4>3. fd_["local"] = Fd!kInvalidFd /\ fd_'["local"] = Fd!kInvalidFd
        BY <2>1, <3>2, <4>2 DEF FdInv, Descriptors
      <4>4. CASE m = "listener_"
        <5>1. built = 1 /\ built' = 0
          BY <2>1, <4>4 DEF At
        <5>2. QED
          BY <4>1, <4>2, <4>3, <4>4, <5>1 DEF FdInv, Fd!kInvalidFd, Descriptors
      <4>5. CASE m = "epoll_"
        <5>1. built = 2 /\ built' = 1
          BY <2>1, <4>5 DEF At
        <5>2. QED
          BY <4>1, <4>2, <4>3, <4>5, <5>1 DEF FdInv, Fd!kInvalidFd, Descriptors
      <4>6. CASE m = "worker_wakeup_"
        <5>1. built = 4 /\ built' = 3
          BY <2>1, <4>6 DEF At
        <5>2. QED
          BY <4>1, <4>2, <4>3, <4>6, <5>1 DEF FdInv, Fd!kInvalidFd, Descriptors
      <4>7. CASE m = "shutdown_signal_"
        <5>1. built = 5 /\ built' = 4
          BY <2>1, <4>7 DEF At
        <5>2. QED
          BY <4>1, <4>2, <4>3, <4>7, <5>1 DEF FdInv, Fd!kInvalidFd, Descriptors
      <4>8. QED
        BY <3>2, <4>4, <4>5, <4>6, <4>7 DEF Descriptors
    <3>3. QED
      BY <2>2, <3>1, <3>2
  <2>4. TypeInv'
    BY <2>1 DEF TypeInv
  <2>5. ThreadInv'
    BY <1>2, <2>1 DEF DestroyMember, ThreadInv, TypeInv, Looping, poolVars, At
  <2>6. MaskInv'
    <3>1. thread' = thread /\ original_mask' = original_mask
      BY <1>2 DEF DestroyMember, poolVars, optionVars
    <3>2. CASE m # "signal_mask_state_"
      BY <1>2, <2>1, <3>1, <3>2 DEF DestroyMember, MaskInv, sigVars, Looping, At
    <3>3. CASE m = "signal_mask_state_"
      <4>1. built = 3 /\ \A w \in Workers : ~Looping(w)
        BY <2>1, <3>3 DEF At, ThreadInv
      <4>2. /\ sigmask' = IF active THEN [sigmask EXCEPT ![Main] = previous_mask] ELSE sigmask
            /\ active' = FALSE /\ previous_mask' = previous_mask
        BY <1>2, <3>3 DEF DestroyMember, DestroyMaskState, Restore
      <4>3. /\ sigmask' \in [{Main} \cup Workers -> SUBSET Signals]
            /\ sigmask'[Main] = original_mask
        BY <4>2 DEF MaskInv
      <4>4. QED
        BY <2>1, <3>1, <4>1, <4>2, <4>3 DEF MaskInv, Looping
    <3>4. QED
      BY <3>2, <3>3
  <2>7. QED
    BY <2>3, <2>4, <2>5, <2>6
<1>3. ASSUME NEW c \in Connections, DestroyConnection(c)
      PROVE  IInv'
  <2>1. pc = "destroy" /\ built = 6 /\ built' = built /\ pc' = pc
        /\ UNCHANGED <<signals, zeros>>
    <3>1. pc = "destroy" /\ built \in 1..8 /\ At("connections_", built)
      BY <1>3, DestroyingPlace DEF DestroyConnection
    <3>2. UNCHANGED <<built, pc, signals, zeros>>
      BY <1>3 DEF DestroyConnection, optionVars, mainVars
    <3>3. QED
      BY <3>1, <3>2 DEF At
  <2>2. /\ fd_' \in [Objects -> Int] /\ Fd!kInvalidFd \notin open' /\ Fd!OwnedOnce'
        /\ \A p \in Objects : p # c => fd_'[p] = fd_[p]
    BY <1>3, DestroyKeepsOwnership, ObjectNames DEF DestroyConnection, FdInv
  <2>3. FdInv'
    BY <2>1, <2>2, ObjectNames DEF FdInv, Fd!kInvalidFd
  <2>4. TypeInv'
    BY <2>1 DEF TypeInv
  <2>5. ThreadInv'
    BY <1>3, <2>1 DEF DestroyConnection, ThreadInv, TypeInv, Looping, poolVars, At
  <2>6. MaskInv'
    BY <1>3, <2>1 DEF DestroyConnection, MaskInv, ThreadInv, TypeInv, Looping,
       poolVars, sigVars, optionVars, At
  <2>7. QED
    BY <2>3, <2>4, <2>5, <2>6
<1>4. ASSUME Exit
      PROVE  IInv'
  <2>1. pc = "destroy" /\ built = 0 /\ built' = built /\ pc' \in {"exit0", "exit1"}
        /\ UNCHANGED <<signals, zeros>>
    BY <1>4 DEF Exit, optionVars
  <2>3. FdInv'
    BY <1>4, <2>1 DEF Exit, FdInv, fdVars, Fd!OwnedOnce, Fd!kInvalidFd, At, Objects
  <2>4. TypeInv'
    BY <2>1 DEF TypeInv
  <2>5. ThreadInv'
    BY <1>4, <2>1 DEF Exit, ThreadInv, TypeInv, Looping, poolVars, At
  <2>6. MaskInv'
    BY <1>4, <2>1 DEF Exit, MaskInv, ThreadInv, TypeInv, Looping, poolVars,
       sigVars, optionVars, At
  <2>7. QED
    BY <2>3, <2>4, <2>5, <2>6
<1>5. QED
  BY <1>1, <1>2, <1>3, <1>4

-----------------------------------------------------------------------------
(* Theorems *)

LEMMA InitIInv == Init => IInv
<1> SUFFICES ASSUME Init PROVE IInv
  OBVIOUS
<1>1. /\ fd_ = [o \in Objects |-> -1] /\ open = {}
      /\ built = 0 /\ pc \in {"main", "construct"}
      /\ thread = [w \in Workers |-> "none"]
  BY DEF Init, Fd!Init, Pool!Init, Fd!kInvalidFd, Objects
<1>2. TypeInv
  BY <1>1 DEF TypeInv
<1>3. FdInv
  BY <1>1, ObjectNames DEF FdInv, Fd!OwnedOnce, Fd!kInvalidFd, Objects
<1>4. ThreadInv
  BY <1>1 DEF ThreadInv, Looping
<1>5. MaskInv
  <2>1. /\ original_mask \in SUBSET Signals /\ previous_mask = {} /\ active = FALSE
        /\ sigmask = [t \in {Main} \cup Workers |-> original_mask]
    BY DEF Init
  <2>2. signals \subseteq Signals
    BY DEF Init
  <2>3. sigmask \in [{Main} \cup Workers -> SUBSET Signals] /\ sigmask[Main] = original_mask
    BY <2>1
  <2>4. \A w \in Workers : ~Looping(w)
    BY <1>1 DEF Looping
  <2>5. active \in BOOLEAN /\ ~active /\ previous_mask \subseteq Signals
    BY <2>1, Zenon
  <2>6. ~(built >= 3)
    BY <1>1
  <2>7. QED
    BY <2>2, <2>3, <2>4, <2>5, <2>6, Zenon DEF MaskInv
<1>6. QED
  BY <1>2, <1>3, <1>4, <1>5 DEF IInv

LEMMA NextIInv == IInv /\ [Next]_vars => IInv'
<1> SUFFICES ASSUME IInv, [Next]_vars PROVE IInv'
  OBVIOUS
<1>1. CASE Construct
  BY <1>1, ConstructSteps
<1>2. CASE StartProgram \/ Run
  BY <1>2, RunSteps, QuietSteps DEF Run
<1>3. CASE Destruct
  <2>1. CASE \E i \in DOMAIN Members : DestroyMember(Members[i])
    BY <2>1, DestructSteps
  <2>2. CASE RestoreMask \/ Exit \/ \E c \in Connections : DestroyConnection(c)
    BY <2>2, DestructSteps
  <2>3. CASE StopPool \/ StopPoolProceeds
    BY <2>3, QuietSteps
  <2>4. QED
    BY <1>3, <2>1, <2>2, <2>3 DEF Destruct
<1>4. CASE (\E w \in Workers : WorkerStep(w) \/ WakeSpuriously(w))
           \/ (\E s \in Signals : SignalArrives(s)) \/ UNCHANGED vars
  BY <1>4, QuietSteps
<1>5. QED
  BY <1>1, <1>2, <1>3, <1>4 DEF Next, MainStep

LEMMA Inductive == Spec => []IInv
BY InitIInv, NextIInv, PTL DEF Spec

\* Through the constructor and its failures, accepted sockets, Run and the
\* destruction of the members every open descriptor has one owner.
THEOREM EveryDescriptorOwned == Spec => []DescriptorsOwnedOnce
<1>1. IInv => DescriptorsOwnedOnce
  BY DEF IInv, FdInv, DescriptorsOwnedOnce
<1>2. QED
  BY <1>1, Inductive, PTL

\* worker_pool_ is declared last and joined first: a worker that runs finds
\* completed_work_, its mutex and an open worker_wakeup_.
THEOREM WorkersNeverOutliveMembers == Spec => []WorkersFindMembers
<1>1. IInv => WorkersFindMembers
  <2> SUFFICES ASSUME IInv, NEW w \in Workers, thread[w] = "looping"
               PROVE  built >= Len(Members) - 1 /\ fd_["worker_wakeup_"] \in open
    BY DEF WorkersFindMembers
  <2>1. built \in 0..8 /\ built >= 7
    BY DEF IInv, TypeInv, ThreadInv, Looping
  <2>2. fd_["worker_wakeup_"] # Fd!kInvalidFd
    BY <2>1 DEF IInv, FdInv
  <2>3. fd_["worker_wakeup_"] \in open
    BY <2>2 DEF IInv, FdInv, Fd!OwnedOnce, Descriptors
  <2>4. QED
    BY <2>1, <2>3, MemberPlaces
<1>2. QED
  BY <1>1, Inductive, PTL

\* On every path to the end of main, from a rejected command line to a thrown
\* constructor or Run, no descriptor and no thread is left and the mask is back.
THEOREM ServerCleansUp == Spec => []NothingLeftBehind
<1>1. IInv => NothingLeftBehind
  <2> SUFFICES ASSUME IInv, Exited
               PROVE  /\ open = {}
                      /\ \A w \in Workers : thread[w] # "looping"
                      /\ sigmask[Main] = original_mask
    BY DEF NothingLeftBehind
  <2>1. built = 0 /\ pc \in {"exit0", "exit1"}
    BY DEF IInv, TypeInv, Exited
  <2>2. \A o \in Objects : fd_[o] = Fd!kInvalidFd
    BY <2>1 DEF IInv, FdInv, Objects, Descriptors
  <2>3. \A fd \in open : \E o \in Objects : fd_[o] = fd
    BY DEF IInv, FdInv, Fd!OwnedOnce, Objects
  <2>4. open = {}
    BY <2>2, <2>3 DEF IInv, FdInv
  <2>5. \A w \in Workers : thread[w] # "looping"
    BY <2>1 DEF IInv, ThreadInv, Looping
  <2>6. sigmask[Main] = original_mask
    BY <2>1 DEF IInv, MaskInv
  <2>7. QED
    BY <2>4, <2>5, <2>6
<1>2. QED
  BY <1>1, Inductive, PTL

\* BlockShutdownSignals precedes every thread, and Restore follows the last:
\* in between no thread takes a shutdown signal.
THEOREM SignalsNeverDelivered == Spec => []SignalsHeld
<1>1. IInv => SignalsHeld
  <2> SUFFICES ASSUME IInv, active \/ pc = "run", NEW t \in Alive(thread)
               PROVE  signals \subseteq sigmask[t]
    BY DEF SignalsHeld
  <2>1. CASE t = Main
    BY <2>1 DEF IInv, TypeInv, MaskInv
  <2>2. CASE t \in Workers /\ Looping(t)
    BY <2>2 DEF IInv, MaskInv
  <2>3. QED
    BY <2>1, <2>2 DEF Alive, Looping
<1>2. QED
  BY <1>1, Inductive, PTL
=============================================================================
