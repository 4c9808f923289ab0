# PulseCore in TLA+

A verification project for PulseCore: TLA+ modules for its event loop, its
worker pool, its connection buffers, its programs from their command lines to
their exit and its blocking reference server, TLC configurations that check them on small instances, and TLAPS proofs for every
value of the constants. `PROJECT.json` lists the components, the runs, the lines
each definition models, the hazards the properties are aimed at, and the theorems.

## The system

| part | source | module |
|---|---|---|
| bounded queue | `include/pulsecore/core/bounded_queue.hpp` | `BoundedQueue` |
| worker pool | `src/network/worker_pool.cpp` | `WorkerPool`, promise: `WorkDispatch` |
| epoll reactor with connection flows | `src/network/epoll_echo_server.cpp` | `EpollServer`, promise: `OrderedEcho` |
| connection registry | `src/network/connection_registry.cpp` | in `EpollServer` |
| connection, reading; frame decoder | `src/network/connection.cpp`, `src/protocol/codec.cpp` | `ConnectionInput` |
| connection, writing | `src/network/connection.cpp` | `ConnectionOutput` |
| blocking reference server | `src/network/blocking_tcp.cpp`, `apps/server/main.cpp` | `BlockingTcp` |
| wire format (encoding, byte layout) | `src/protocol/codec.cpp` | `Codec` |
| request handler | `src/core/handler.cpp` | `Handler` |
| client program; one request and its response | `apps/client/main.cpp`, `src/network/blocking_tcp.cpp` | `RequestResponse` |
| construction, signal mask, destruction, program | `src/network/epoll_echo_server.cpp`, `apps/epoll_server/main.cpp` | `ServerLifecycle` |
| descriptor ownership | `src/common/unique_fd.cpp` | `UniqueFd` |
| command lines | `apps/*/main.cpp` | `CommandLine` |
| benchmark | `apps/benchmark/` | not modelled |

One thread runs `EpollEchoServer::Run`: it accepts sockets, reads frames, gives
each frame a sequence number of its connection and submits it to the worker
pool, and writes responses. Workers take items from the bounded queue, call the
handler and put results into `completed_work_`, then write an eventfd that wakes
the reactor. The reactor puts results back into request order with a map per
connection, `completed_responses`, and closes a half-closed connection when its
last response has left.

## Modules, state and actions

**BoundedQueue.** `items`, `closed` are the members; `popping` and `waiting` are
the consumers awake inside `Pop` and asleep in `not_empty_.wait`; `notify` is the
notification a caller still owes. A critical section is one step, and
`notify_one`/`notify_all`, called after the mutex is released, are steps of their
own (`TryPush` then `NotifyOne`, `Close` then `NotifyAll`). Wake-ups may be
spurious.

**WorkerPool** uses the steps of `BoundedQueue` (by `INSTANCE`) and adds the life
of the pool: threads that start one by one or fail to, `TrySubmit`, the worker
loop with a handler that returns or throws, `Stop`. `accepted` and `results` are
history variables. **WorkDispatch** is what it promises: accepted items are
completed exactly once, nothing is accepted after closing, `Stop` returns when
everything is completed.

**EpollServer.** The server's members (`connections`, `flows`, `next_id`,
`completed_work`, `stop_requested`), the reactor's place (`pc`) and locals
(`batch`, `accepts`, `event`, `completed`), the workers, the thread in `Stop`,
and the kernel's part: `net` (each client's TCP connection), `backlog`, `epoll`
(the interest set), the `eventfd` counter and `signalled`. Private steps of the
reactor are merged; steps are split where another thread can come between:

| code | actions |
|---|---|
| `Run` | `LoopTop`, `EpollWait`, `BatchDone`, `RunReturns` |
| `HandleListenerEvent`, `ConnectionRegistry::Add` | `BeginAccept`, `AcceptOverLimit`, `AcceptConnection`, `AcceptThrows`, `AcceptDone` |
| `HandleConnectionEvent` | `StaleEvent`, `ErrorEvent`, `ReadEvent` or `WriteOnlyEvent`, then `FinishEvent` |
| `SubmitWork` | `SubmitMessage` per message, `SubmitRejected` |
| `HandleWorkerWakeup` | `DrainWakeup`, `SwapCompleted`, `ResultsDone` |
| `HandleCompletedWork`, `FlushReadyResponses` | `DropResult`, `StoreResult` |
| `HandleShutdownSignal`, `CloseAllConnections` | `ShutdownSignal`, `CloseOne` |
| `StoreCompletedWork`, `NotifyWorkerWakeup` | `StoreCompletedWork`, `WorkerNotifies` |
| `Stop` | `Stop`, `StopNotifies` |

Helpers keep the source's names (`RemoveConnection`, `UpdateInterest`,
`ShouldCloseAfterFlush`, `ReadAvailable`, `WriteAvailable`). Frames are whole in
this module: buffers and budgets count frames. **OrderedEcho** is what clients
are promised: responses are the answers to the client's requests in order, each
once, and every request is answered unless the connection is given up.

**ConnectionInput** and **ConnectionOutput** are the same connection in bytes. A
buffer is known by the stretch of the stream it holds (`base`, `size`, `off`), so
losing, repeating or shifting bytes shows as a wrong stretch. The client, `recv`
and `send` cut the streams wherever they like.

**ServerLifecycle** is the process around the reactor. `built` counts the members
of `EpollEchoServer` that exist: the constructor adds them in the order of their
declaration, and destruction, after Run or after an exception half-way, takes
them away in reverse. It composes two modules by `INSTANCE`: the steps of
`WorkerPool` are the worker threads and the constructor, `TrySubmit`, `Stop` and
destructor of `worker_pool_`, and those of **UniqueFd** every descriptor the
server owns, over a table that hands out the lowest free number. On top are the
signals: each thread's mask, what is pending for the process, and
`ShutdownSignalMaskState`.

| code | actions |
|---|---|
| `main` | `StartProgram`, `Exit` |
| `CreateListener`, `CreateEpoll`, `CreateWorkerWakeup`, `CreateShutdownSignalFd` | `OpenDescriptor`, then `CreateDescriptor` or `CreateThrows` |
| `BlockShutdownSignals`, `Restore` | `BlockShutdownSignals`, `BlockThrows`, `RestoreMask`, `DestroyMember` |
| `WorkerPool::WorkerPool` | `PoolRejectsOptions`, `StartWorker`, `ThreadCreationFails`, `Rethrow` |
| body of the constructor | `FinishConstruction` |
| `Run`, seen from outside | `Accept`, `AddConnection`, `CloseSocket`, `SubmitWork`, `HandleShutdownSignal`, `RunReturns`, `RunThrows` |
| `~EpollEchoServer`, `~WorkerPool` | `StopPool`, `StopPoolProceeds`, `RestoreMask` |
| destruction of the members | `DestroyMember`, `DestroyConnection` |
| `WorkerLoop`, `StoreCompletedWork` | `WorkerLoop`, `StoreCompletedWork`, `NotifyWorkerWakeup`, `CompletionThrows` |

**CommandLine** has the parsing the three programs share. A parser returns the
set of values it accepts, empty where the code throws. An argument is the word it
is, its size, and what `std::stoul` sees: white space, a minus, digits, a rest.

**BlockingTcp.** `main` with its argument, construction, then one connection at a
time: accept, read, answer. An exception leaves `ServeOne`, `main`'s loop and the
process.

**Codec** and **Handler** are pure operators: the layout of a frame byte by byte,
the checks of `TryDecodeFrame` in their order, the dispatch of
`HandleOwnedRequest` and its work limits. The hash is an unspecified function.
**RequestResponse** puts them together: the client program's `ParseArgs` and
`BuildRequest`, `ConnectTcp` and `SendRequestAndReadResponse` at one end,
`ServeClient` at the other, and every prefix of the bytes looked at by the decoder.

### Decisions worth knowing

- Kernel behaviour the code relies on: after a FIN, `recv` returns 0 once the
  data is read; after a reset without FIN it fails with `ECONNRESET`; a reset
  raises `EPOLLERR` and `EPOLLHUP`; unread data stays readable. epoll is
  level-triggered, and `epoll_wait` comes back empty (timeout, `EINTR`) only when
  nothing is ready.
- `EINTR` retries of `send` and of the eventfd are stutters. `send` returning 0
  is not modelled. The relaxed stores to `stop_requested_` become visible at once.
- A response that cannot be encoded ("unencodable") is reachable, since the
  handler is an option of the server.
- `HandlerThrows` is an unexpected `errno` before a step has had effects, and
  `CtlFails` an `epoll_ctl` that fails at the end of a handler, after its effects.
  Either way the exception leaves `Run`, no step follows, and `TablesAgree` looks
  at the state that is left.
- The eventfd counter is 64 bits wide in the code; `EventfdMax` scales it down so
  that its limit is reached. Epoll keys are too; `KeyMax` is never reached in the
  runs, as 2^64 connections never are. (`ConnectionRegistry::Add` stops before
  the largest key only, although the two largest are reserved.)
- A byte has `Base` = 4 values in the run of `Codec`, so that 64-bit fields stay
  within TLC's integers; widths and offsets of the fields are the code's.
- Shutdown signals have their default action, so one that some thread does not
  block ends the process (`pc` is "killed"). A second signal that comes after the
  stop was requested is not read any more: it stays pending, and ends the process
  when `Restore` puts the old mask back. `HeldSignalEndsProcess` counts that as
  an end.
- The parsers test only the first character for a minus. `" -5"` is therefore
  accepted and wraps around, as `Stoul` and the runs' arguments have it; such a
  number is positive, and passes the constructors' checks. A worker count of that
  size makes `workers_.reserve` throw (`PoolRejectsOptions`).
- `~WorkerPool` stops a pool that is stopped already, which changes nothing: it
  has no step in `ServerLifecycle` then. `StopAgain` of `worker_pool` is that step.
- `accept` failing in the blocking server is not modelled.
- `pending > max` in `QueueOutput` cannot hold (`OutputBounded`) and has no action.

## Runs

| run | distinct states | what it checks |
|---|---|---|
| `bounded_queue` | 211 | `EnoughWakeups`: while someone sleeps, every item has an awake consumer or a pending notification; `CloseWakesAll` |
| `worker_pool` | 10 019 | `ExactlyOnePlace`, `StopReturns`, and the refinement `ImplementsDispatch` |
| `epoll_order` | 213 542 | `ResponsesInOrder`, `InFlightInOnePlace`, `ReorderBufferBounded`, `NoLostWakeup`, two clients pipelining three requests over two workers |
| `epoll_faults` | 1 161 444 | `TablesAgree` and `NobodyForgotten` with failing system calls, every limit, and two clients that come, misbehave and go |
| `epoll_progress` | 54 556 | `AllAnswered`, `NoBusyLoop`, `StopEndsRun` |
| `epoll_promise` | 58 163 | the refinement `ImplementsOrderedEcho`, and `ClosedPeersReleased` |
| `connection_input` | 231 600 | `BufferIsTheRest`, `InputBounded`, `NoFrameStranded`, `NoMessageDropped`, `ErrorIsDeserved`, `FramesHandedOver` |
| `connection_output` | 4 309 | `OutputIsTheRest`, `OutputBounded`, `OutputDelivered` |
| `request_response` | 20 107 | `VerdictIsFinal`, `OnlyEncodingsDecode`, `ResponsesEncodable`, `WorkLimitExact`, `EveryRequestAnswered`, `ClientArgumentsServed` |
| `blocking_server` | 19 097 | `OneResponseEach`, `MalformedHurtsOnlyItsSender` |
| `server_lifecycle` | 87 236 | `DescriptorsOwnedOnce`, `WorkersFindMembers`, `NothingLeftBehind`, `SignalsHeld`, `AcceptedOptionsConstruct`, `HeldSignalEndsProcess` |
| `blocking_disconnect` | violation | `PeerDisconnectReturnsCleanly`: see Findings |

The state counts are those of TLC with the symmetry the cfg declares (only in
runs that check safety alone).

**Bounds.** The queue has fewer places than there are threads around it, so it
is full and empty with sleepers. `epoll_order` has three requests, two in
flight, a queue of one and an eventfd that is full after one write: results
overtake each other, the limits are hit and the counter saturates. Two clients
are the fewest that could get each other's responses or events.
`epoll_progress` has limits that cannot be reached, because a server that may
drop connections at a limit owes no answer; `epoll_promise` and `epoll_faults`
have tight ones. `ConnectionInput` uses two-byte headers and frames that are
empty, small, exactly as large as the input buffer, one byte larger, too large
for any decoder, and malformed, with budget, buffer and `recv` chunk all
different and smaller than a stream. `request_response` has payloads from empty to
one byte too long, work on both sides of both limits, headers that differ in
one byte from the encoder's, and command lines of up to three options, values and
payloads around every limit. `server_lifecycle` has two workers, so that one can
fail to start after another runs, two signals, so that one can follow the other,
any initial mask, and one connection at a time; a size has 32 values, so that
arguments reach and pass its width.

**Fairness.** Threads that can run are run and handlers return: weak fairness of
the reactor and of each worker. Nobody has to submit, connect or stop.
`NoBusyLoop` and `StopEndsRun` ask nothing of clients. `AllAnswered` has the
clients' reading as its hypothesis, and `ClosedPeersReleased` and the refinement
are checked with it (`FairSpec`). In `ConnectionInput` `recv` is not interrupted
for ever: strong fairness, because `EINTR` disables and enables it again.

In `ServerLifecycle` the reactor comes to a readable signalfd however busy it is:
strong fairness of `HandleShutdownSignal`, because level-triggered epoll reports
the descriptor with every batch until it is read (`epoll_progress` checks with
weak fairness that a signal ends `Run`).

**Deadlock** is checked for the queue; elsewhere the system may stop (`Run`
returns, the pool is stopped, clients have sent everything).

## Proofs

Proved by TLAPS for all values of the constants allowed by the named
assumptions, which are what the constructors enforce (positive limits, finite
sets of threads):

- `BoundedQueue_proofs`: `TypeCorrect`, `NoLostWakeups`, `CloseWakesEveryone`.
  `TypeOK` and `EnoughWakeups` are inductive together. The argument counts: a
  push adds an item and a pending notification, a notification turns into an
  awake consumer, and a pop removes one of each.
- `EpollServer_proofs`: `NoResultForgotten`. `WakeupInv` adds to `NoLostWakeup`
  that the counter is a natural number and `worker` a function. A result is
  stored by a worker that still has to notify; a notification leaves the counter
  positive even when it is full; only the drain resets it, and the swap follows.
- `ConnectionInput_proofs`: `InputStreamIntact`, `InputStaysBounded`,
  `NoFrameLeftBehind`, `EveryMessageHandedOver`. `IInv` adds to the stated
  invariants that the consumed prefix is less than half of the buffer (else
  `CompactIfNeeded` has moved it), and what holds whenever `recv` is called: the
  decoder needs more bytes, and budget and buffer have room.
- `Handler_proofs`: `DivisionTestExact`, the arithmetic fact behind
  `WorkLimitExact`. The invariant itself also speaks of sums over bytes, a fold.
- `ServerLifecycle_proofs`: `EveryDescriptorOwned`, `WorkersNeverOutliveMembers`,
  `ServerCleansUp`, `SignalsNeverDelivered`. None of the four invariants is
  inductive: each depends on how far construction or destruction has come. `IInv`
  ties the state to `built`: a member not yet built, or destroyed already, owns
  nothing (`FdInv`); workers loop only with seven members built, and during
  destruction only before `worker_pool_` is joined (`ThreadInv`); the mask is the
  original one unless `active`, and a worker starts with the mask of a thread that
  blocks the signals (`MaskInv`). Three lemmas say that opening, moving and
  closing a `UniqueFd` keep one owner per descriptor; the actions that touch none
  of this are dealt with together (`Quiet`). Assumed: the main thread is no worker,
  and a connection's name is none of the server's own descriptors.
- `ConnectionOutput_proofs`: `OutputTypeCorrect`, `OutputStreamIntact`,
  `OutputStaysBounded`, inductive together.

Only model-checked: all liveness and both refinements (fairness is out of the
prover's reach), `ErrorIsDeserved` (it speaks of a fold over the stream), and the
other invariants of `EpollServer`, of `WorkerPool`, `BlockingTcp` and
`RequestResponse`, and `AcceptedOptionsConstruct` of `ServerLifecycle` (what
`ParseArgs` computes is a fold over the arguments).

## Findings

- `blocking_disconnect`: a client that closes with a response unread, or before
  one is sent, resets the connection; `recv` or `send` then throws out of
  `ServeOne` and ends the reference server, while `docs/blocking_tcp.md` says
  that a peer disconnect returns cleanly.

## Not modelled

- The loopback benchmark measures a server from outside. Its clients use the
  helpers that `RequestResponse` models (`ConnectTcp`, `SendMessage`, `ReadMessage`).
- Move assignment and `release()` of `UniqueFd`, and move assignment of
  `ShutdownSignalMaskState`: no part of the program calls them.
- What the programs print: usage, start-up lines, the response in hexadecimal.
- The FNV hash of the handler, whose 64-bit products TLC cannot compute; it is an
  unspecified function.
- Memory running out, except in `on_complete_`, where no handler is above it.
- `EpollServer` has the pool as a queue, a set of busy workers and their results
  and the connection as whole frames. `WorkerPool` and `ConnectionInput` and
  `ConnectionOutput` are the detail, checked by themselves; the three together
  are out of TLC's reach.
