----------------------------- MODULE EpollServer -----------------------------
(***************************************************************************)
(* network::EpollEchoServer (src/network/epoll_echo_server.cpp) with its   *)
(* ConnectionRegistry and per-connection ConnectionFlow: the reactor       *)
(* thread that runs Run(), the worker threads that finish requests, the    *)
(* thread that calls Stop(), and the clients and kernel around them.       *)
(*                                                                         *)
(* The reactor's private steps are merged as long as nothing another       *)
(* thread does can come between them and be noticed.  They are split where *)
(* shared state is touched: every TrySubmit of SubmitWork is a step, the   *)
(* read of the eventfd and the swap of completed_work_ are two steps, and  *)
(* so are the push to completed_work_ and the write of the eventfd.        *)
(*                                                                         *)
(* Requests and responses are whole frames here: socket buffers and I/O    *)
(* budgets count frames, and a client's stream is a sequence of frames.    *)
(* Bytes, partial frames and buffers are the subject of ConnectionInput    *)
(* and ConnectionOutput, threads waiting for work that of WorkerPool.      *)
(***************************************************************************)
EXTENDS Integers, Sequences, FiniteSets, SequencesExt, FiniteSetsExt

CONSTANTS
  Clients,         \* the peers; each connects at most once
  Workers,         \* the threads of worker_pool_
  MaxRequests,     \* bound: requests the clients send altogether
  MaxConnections,  \* max_connections_
  MaxInFlight,     \* max_in_flight_requests_per_connection_
  QueueCapacity,   \* work_queue_capacity
  ReadBudget,      \* max_read_bytes_per_event_, in frames
  WriteBudget,     \* max_write_bytes_per_event_, in frames
  MaxOutput,       \* limits_.max_output_buffer, in frames
  SendSpace,       \* socket buffers between server and client, in frames
  MaxEpollEvents,  \* kMaxEpollEvents
  MaxAccepts,      \* kMaxAcceptsPerEvent
  EventfdMax,      \* the largest counter an eventfd holds
  KeyMax,          \* the largest uint64_t
  PeerMoves,       \* what clients do besides sending and reading, a subset of
                   \* {"malformed", "half_close", "close", "reset"}
  Stops,           \* how the server is stopped, a subset of {"Stop", "signal"}
  Outcomes,        \* what EncodeMessage makes of a handler's response, a
                   \* subset of {"encodable", "unencodable"}
  Faults           \* whether system calls may fail with an unexpected errno

\* RequirePositiveBudget, RequireConnectionLimits and WorkerPool's constructor
\* reject zeros.
ASSUME OptionsAssumption ==
  /\ {MaxConnections, MaxInFlight, QueueCapacity, ReadBudget, WriteBudget,
      MaxOutput, SendSpace, MaxEpollEvents, MaxAccepts, EventfdMax}
       \subseteq Nat \ {0}
  /\ MaxRequests \in Nat
  /\ KeyMax \in Nat /\ KeyMax > 2
  /\ Faults \in BOOLEAN

kListenerKey == 0
kWorkerWakeupKey == KeyMax
kShutdownSignalKey == KeyMax - 1

VARIABLES
  net,             \* each client and its TCP connection, as the kernel sees it
  backlog,         \* connections waiting in the listener's queue
  epoll,           \* the registered sockets: key, interest in EPOLLIN, EPOLLOUT
  eventfd,         \* the counter of worker_wakeup_
  signalled,       \* a shutdown signal is pending on shutdown_signal_
  next_id,         \* connections_.next_id_
  connections,     \* connections_, by id: socket and pending output
  flows,           \* connection_flows_, by id
  stop_requested,  \* stop_requested_
  pc,              \* where the reactor thread is
  batch,           \* events returned by epoll_wait and not yet dispatched
  accepts,         \* "accepted" of HandleListenerEvent
  event,           \* locals of HandleConnectionEvent
  completed,       \* "completed" of HandleWorkerWakeup
  completed_work,  \* completed_work_
  queue,           \* the queue of worker_pool_
  worker,          \* each worker: idle, running an item, about to notify
  stopper          \* the thread that calls Stop()

netVars == <<net, backlog>>
serverVars == <<next_id, connections, flows, epoll>>
reactorVars == <<batch, accepts, event, completed>>
wakeVars == <<eventfd, signalled, stop_requested, stopper>>
poolVars == <<queue, worker, completed_work>>
sharedVars == <<wakeVars, poolVars>>
vars == <<netVars, serverVars, reactorVars, sharedVars, pc>>

\* A request is known by its sender and its place in the sender's stream; the
\* response to it carries the same request id.
Malformed == [client |-> "none", n |-> 0]
NoEvent == [id |-> 0, msgs |-> <<>>, status |-> "none", out |-> FALSE]
Idle == [pc |-> "idle"]

Init ==
  /\ net = [k \in Clients |->
              [peer |-> "new", side |-> "none", rst |-> "none", sent |-> 0,
               inbox |-> <<>>, wire |-> <<>>, rcvd |-> <<>>]]
  /\ backlog = <<>>
  /\ epoll = <<>>
  /\ eventfd = 0
  /\ signalled = FALSE
  /\ next_id = 1
  /\ connections = <<>>
  /\ flows = <<>>
  /\ stop_requested = FALSE
  /\ pc = "top"
  /\ batch = {}
  /\ accepts = 0
  /\ event = NoEvent
  /\ completed = <<>>
  /\ completed_work = <<>>
  /\ queue = <<>>
  /\ worker = [w \in Workers |-> Idle]
  /\ stopper = "idle"

-----------------------------------------------------------------------------
(* Clients and kernel (external: modelled from how the code uses sockets,  *)
(* epoll, eventfd and signalfd).                                           *)

Connect(k) ==
  /\ net[k].peer = "new"
  /\ net' = [net EXCEPT ![k].peer = "open", ![k].side = "backlog"]
  /\ backlog' = Append(backlog, k)

\* The server's end exists and takes what the client sends.
Sending(k) == net[k].peer = "open" /\ net[k].side \in {"backlog", "open"}

SendRequest(k) ==
  /\ Sending(k)
  /\ MapThenSumSet(LAMBDA c : net[c].sent, Clients) < MaxRequests
  /\ net' = [net EXCEPT
       ![k].sent = @ + 1,
       ![k].inbox = Append(@, [client |-> k, n |-> net[k].sent + 1])]

SendMalformed(k) ==
  /\ "malformed" \in PeerMoves
  /\ Sending(k)
  /\ Malformed \notin ToSet(net[k].inbox)
  /\ net' = [net EXCEPT ![k].inbox = Append(@, Malformed)]

\* The client reads one response.
Receive(k) ==
  /\ net[k].peer \in {"open", "half"}
  /\ net[k].wire # <<>>
  /\ net' = [net EXCEPT ![k].wire = Tail(@),
                        ![k].rcvd = Append(@, Head(net[k].wire))]

\* shutdown(SHUT_WR): the client still reads.
HalfClose(k) ==
  /\ "half_close" \in PeerMoves
  /\ net[k].peer = "open"
  /\ net' = [net EXCEPT ![k].peer = "half"]

\* close(): what arrives from now on is answered with a reset.
CloseClient(k) ==
  /\ "close" \in PeerMoves
  /\ net[k].peer \in {"open", "half"}
  /\ net' = [net EXCEPT ![k].peer = "closed"]

\* A reset reaches the server, because the client closed and data came after,
\* or because it aborted the connection.
Reset(k) ==
  /\ net[k].side \in {"backlog", "open"}
  /\ net[k].rst = "none"
  /\ \/ net[k].peer = "closed"
     \/ "reset" \in PeerMoves /\ net[k].peer \in {"open", "half"}
  /\ net' = [net EXCEPT ![k].peer = "closed", ![k].rst = "pending"]

OnlyNet == UNCHANGED <<backlog, serverVars, reactorVars, pc, sharedVars>>

ClientStep(k) ==
  \/ Connect(k) /\ UNCHANGED <<serverVars, reactorVars, pc, sharedVars>>
  \/ /\ \/ SendRequest(k) \/ SendMalformed(k) \/ Receive(k)
        \/ HalfClose(k) \/ CloseClient(k) \/ Reset(k)
     /\ OnlyNet

\* The readiness epoll reports for a registered socket.  EPOLLIN, EPOLLRDHUP
\* and EPOLLHUP lead to the same branch of the handler; EPOLLERR and EPOLLHUP
\* are reported without having been asked for.
SocketEvent(k) ==
  LET n == net[k]
      i == epoll[k]
  IN  [key |-> i.key,
       err |-> n.rst = "pending",
       in  |-> \/ i.in /\ (n.inbox # <<>> \/ n.peer \in {"half", "closed"})
               \/ n.rst # "none",
       out |-> i.out /\ (Len(n.wire) < SendSpace \/ n.rst # "none")]

KeyEvent(key) == [key |-> key, err |-> FALSE, in |-> TRUE, out |-> FALSE]

ReadyEvents ==
  {e \in {SocketEvent(k) : k \in DOMAIN epoll} : e.err \/ e.in \/ e.out}
    \cup (IF backlog # <<>> THEN {KeyEvent(kListenerKey)} ELSE {})
    \cup (IF eventfd > 0 THEN {KeyEvent(kWorkerWakeupKey)} ELSE {})
    \cup (IF signalled THEN {KeyEvent(kShutdownSignalKey)} ELSE {})

\* A bug that is not in the code: only the first result of a batch is announced.
NotifyFirst == eventfd' = IF Len(completed_work) = 1 THEN 1 ELSE eventfd

\* write(worker_wakeup_, 1): a full counter makes it fail, which
\* NotifyWorkerWakeup ignores.
NotifyWorkerWakeup == eventfd' = IF eventfd < EventfdMax THEN eventfd + 1 ELSE eventfd

-----------------------------------------------------------------------------
(* Helpers of the handlers.  n, out and f are the socket, the pending      *)
(* output and the flow of the connection as the handler leaves them.       *)

Without(f, x) == Restrict(f, DOMAIN f \ {x})

\* close() of the server's end of a socket.
CloseSocket(n) == [n EXCEPT !.side = "closed", !.inbox = <<>>, !.rst = "none"]

\* A bug that is not in the code: the flow is left behind.
KeepFlow(id) == flows
EraseFlow(id) == Without(flows, id)

\* The connection's fd is closed with it, which also takes it out of the epoll
\* set when the flow says it is not registered.
RemoveConnection(id, n) ==
  LET k == connections[id].sock
  IN  /\ connections' = Without(connections, id)
      /\ flows' = EraseFlow(id)
      /\ epoll' = Without(epoll, k)
      /\ net' = [net EXCEPT ![k] = CloseSocket(n)]
      /\ UNCHANGED <<backlog, next_id>>

\* A bug that is not in the code: > for >=.
ShouldCloseStrict(out, f) ==
  f.close_after_flush /\ out = <<>> /\ f.next_response > f.next_request

ShouldCloseAfterFlush(out, f) ==
  /\ f.close_after_flush
  /\ out = <<>>
  /\ f.next_response >= f.next_request

\* Bugs that are not in the code: EPOLLIN stays on after the peer has closed; a
\* connection that was taken out of the epoll set is not put back.
AlwaysWantsRead(f) == TRUE
WantsRead(f) == ~f.close_after_flush

NeverAdds(f, out) == f.registered /\ (WantsRead(f) \/ out # <<>>)
Wanted(f, out) == WantsRead(f) \/ out # <<>>

ConnectionEvent(id, wants_read, wants_write) ==
  [key |-> id, in |-> wants_read, out |-> wants_write]

\* What the handler did to socket, output and flow.
Keep(id, n, out, f) ==
  /\ flows' = [flows EXCEPT ![id] = f]
  /\ connections' = [connections EXCEPT ![id].out = out]
  /\ net' = [net EXCEPT ![connections[id].sock] = n]
  /\ UNCHANGED <<backlog, next_id>>

\* EPOLL_CTL_DEL, MOD or ADD, by what the connection waits for.
UpdateInterest(id, n, out, f) ==
  LET k == connections[id].sock
  IN  /\ epoll' = IF Wanted(f, out)
                  THEN (k :> ConnectionEvent(id, WantsRead(f), out # <<>>)) @@ epoll
                  ELSE IF f.registered THEN Without(epoll, k) ELSE epoll
      /\ Keep(id, n, out, [f EXCEPT !.registered = Wanted(f, out)])

\* How HandleConnectionEvent and FlushReadyResponses end.
CloseOrUpdate(id, n, out, f) ==
  IF ShouldCloseAfterFlush(out, f)
  THEN RemoveConnection(id, n)
  ELSE UpdateInterest(id, n, out, f)

\* The epoll_ctl that RemoveConnection or UpdateInterest makes fails: the
\* exception leaves Run, and what the handler did until then stays.
CtlFails(id, n, out, f) ==
  /\ Faults
  /\ f.registered \/ Wanted(f, out)
  /\ Keep(id, n, out, f)
  /\ pc' = "threw"
  /\ UNCHANGED epoll

\* Connection::ReadAvailable, frame by frame: the decoder is drained before
\* the budget is looked at, and the budget before the end of the stream.
ReadAvailable(n) ==
  LET avail == SubSeq(n.inbox, 1, Min({ReadBudget, Len(n.inbox)}))
      bad == {i \in DOMAIN avail : avail[i] = Malformed}
  IN  IF bad # {}
      THEN [msgs |-> SubSeq(avail, 1, Min(bad) - 1), taken |-> Min(bad),
            status |-> "protocol_error"]
      ELSE [msgs |-> avail, taken |-> Len(avail),
            status |-> IF Len(avail) < ReadBudget /\ n.peer \in {"half", "closed"}
                       THEN "peer_closed" ELSE "ok"]

\* Connection::WriteAvailable, frame by frame.
WriteAvailable(n, out) ==
  LET count == Min({Len(out), WriteBudget, SendSpace - Len(n.wire)})
  IN  IF out # <<>> /\ n.rst # "none"
      THEN [out |-> out, wire |-> n.wire, status |-> "peer_closed"]
      ELSE [out |-> SubSeq(out, count + 1, Len(out)),
            wire |-> n.wire \o SubSeq(out, 1, count), status |-> "ok"]

-----------------------------------------------------------------------------
(* Run *)

\* The loop condition.
LoopTop ==
  /\ pc = "top"
  /\ pc' = IF stop_requested THEN "closing" ELSE "wait"
  /\ UNCHANGED <<netVars, serverVars, reactorVars, sharedVars>>

\* epoll_wait reports ready descriptors at once, as many as fit in "events".
\* It times out, or is interrupted, only while nothing is ready.
EpollWait ==
  /\ pc = "wait"
  /\ IF ReadyEvents = {}
     THEN pc' = "top" /\ UNCHANGED batch
     ELSE /\ \E b \in SUBSET ReadyEvents :
               /\ Cardinality(b) = Min({MaxEpollEvents, Cardinality(ReadyEvents)})
               /\ batch' = b
          /\ pc' = "dispatch"
  /\ UNCHANGED <<netVars, serverVars, accepts, event, completed, sharedVars>>

\* The for loop ends: no event is left, or a stop was requested.
BatchDone ==
  /\ pc = "dispatch"
  /\ batch = {} \/ stop_requested
  /\ pc' = "top"
  /\ batch' = {}
  /\ UNCHANGED <<netVars, serverVars, accepts, event, completed, sharedVars>>

\* The for loop turns to one event; the kernel's order is arbitrary.
NextEvent(e) ==
  /\ pc = "dispatch"
  /\ ~stop_requested
  /\ e \in batch
  /\ batch' = batch \ {e}

IsConnectionKey(key) ==
  key \notin {kListenerKey, kWorkerWakeupKey, kShutdownSignalKey}

(* HandleListenerEvent *)

BeginAccept(e) ==
  /\ NextEvent(e)
  /\ e.key = kListenerKey
  /\ pc' = "accept"
  /\ accepts' = 0
  /\ UNCHANGED <<netVars, serverVars, event, completed, sharedVars>>

\* accept4 would block, or the loop has run its course.
AcceptDone ==
  /\ pc = "accept"
  /\ accepts = MaxAccepts \/ backlog = <<>>
  /\ pc' = "dispatch"
  /\ accepts' = 0
  /\ UNCHANGED <<netVars, serverVars, batch, event, completed, sharedVars>>

\* accept4 returns a socket.
Accepting(k) ==
  /\ pc = "accept"
  /\ accepts < MaxAccepts
  /\ backlog # <<>>
  /\ k = Head(backlog)
  /\ backlog' = Tail(backlog)

\* At the limit the accepted socket is closed again.
AcceptOverLimit(k) ==
  /\ Accepting(k)
  /\ Cardinality(DOMAIN connections) >= MaxConnections
  /\ net' = [net EXCEPT ![k] = CloseSocket(@)]
  /\ accepts' = accepts + 1
  /\ UNCHANGED <<serverVars, batch, event, completed, pc, sharedVars>>

NewFlow == [next_request |-> 0, next_response |-> 0, responses |-> <<>>,
            close_after_flush |-> FALSE, registered |-> TRUE]

\* ConnectionRegistry::Add: the next id, unless the ids are used up.
Add(k) ==
  /\ next_id < KeyMax
  /\ next_id' = next_id + 1
  /\ connections' = (next_id :> [sock |-> k, out |-> <<>>]) @@ connections

\* The connection gets an id and a flow, and its socket is registered for
\* EPOLLIN.
AcceptConnection(k) ==
  /\ Accepting(k)
  /\ Cardinality(DOMAIN connections) < MaxConnections
  /\ Add(k)
  /\ flows' = (next_id :> NewFlow) @@ flows
  /\ epoll' = (k :> ConnectionEvent(next_id, TRUE, FALSE)) @@ epoll
  /\ net' = [net EXCEPT ![k].side = "open"]
  /\ accepts' = accepts + 1
  /\ UNCHANGED <<batch, event, completed, pc, sharedVars>>

\* Add throws when the ids are used up, or when fcntl fails, before it takes an
\* id.  EPOLL_CTL_ADD may fail too: the catch block takes flow and connection
\* away again and rethrows out of Run.
AcceptThrows(k) ==
  /\ Accepting(k)
  /\ Cardinality(DOMAIN connections) < MaxConnections
  /\ \/ /\ next_id = KeyMax \/ Faults
        /\ UNCHANGED next_id
     \/ /\ next_id < KeyMax /\ Faults
        /\ next_id' = next_id + 1
  /\ net' = [net EXCEPT ![k] = CloseSocket(@)]
  /\ pc' = "threw"
  /\ UNCHANGED <<connections, flows, epoll, reactorVars, sharedVars>>

(* HandleConnectionEvent *)

\* The connection was removed earlier in this batch: Find returns nullptr.
StaleEvent(e) ==
  /\ NextEvent(e)
  /\ IsConnectionKey(e.key)
  /\ e.key \notin DOMAIN connections
  /\ UNCHANGED <<netVars, serverVars, accepts, event, completed, pc, sharedVars>>

\* EPOLLERR, or a connection without a flow.
ErrorEvent(e) ==
  /\ NextEvent(e)
  /\ IsConnectionKey(e.key)
  /\ e.key \in DOMAIN connections
  /\ e.err \/ e.key \notin DOMAIN flows
  /\ RemoveConnection(e.key, net[connections[e.key].sock])
  /\ UNCHANGED <<accepts, event, completed, pc, sharedVars>>

LiveEvent(e) ==
  /\ NextEvent(e)
  /\ IsConnectionKey(e.key)
  /\ e.key \in DOMAIN connections \cap DOMAIN flows
  /\ ~e.err

\* EPOLLIN, EPOLLRDHUP or EPOLLHUP: ReadAvailable.  The recv that reports a
\* reset may clear the socket's pending error.
ReadEvent(e) ==
  /\ LiveEvent(e)
  /\ e.in /\ ~flows[e.key].close_after_flush
  /\ LET k == connections[e.key].sock
         n == net[k]
         read == ReadAvailable(n)
     IN  /\ \E rst \in {"pending", "seen"} :
              /\ rst = "seen" => n.rst # "none" /\ read.status = "peer_closed"
              /\ net' = [net EXCEPT
                   ![k].inbox = SubSeq(@, read.taken + 1, Len(@)),
                   ![k].rst = IF rst = "seen" THEN "seen" ELSE @]
         /\ event' = [id |-> e.key, msgs |-> read.msgs, status |-> read.status,
                      out |-> e.out]
  /\ pc' = "submit"
  /\ UNCHANGED <<backlog, serverVars, accepts, completed, sharedVars>>

\* Nothing to read, or reading is over for this connection.
WriteOnlyEvent(e) ==
  /\ LiveEvent(e)
  /\ ~e.in \/ flows[e.key].close_after_flush
  /\ event' = [NoEvent EXCEPT !.id = e.key, !.out = e.out]
  /\ pc' = "submit"
  /\ UNCHANGED <<netVars, serverVars, accepts, completed, sharedVars>>

(* SubmitWork: one message *)

InFlight(f) == f.next_request - f.next_response

\* A bug that is not in the code: > for >= in the limit's test.
HasRoomForOneMore(f) == InFlight(f) <= MaxInFlight
HasRoom(f) == InFlight(f) < MaxInFlight

\* TrySubmit stores the item, and the sequence number is used up.
SubmitMessage ==
  LET f == flows[event.id]
  IN  /\ pc = "submit"
      /\ event.msgs # <<>>
      /\ HasRoom(f) /\ Len(queue) < QueueCapacity
      /\ queue' = Append(queue, [conn |-> event.id, seq |-> f.next_request,
                                 req |-> Head(event.msgs)])
      /\ flows' = [flows EXCEPT ![event.id].next_request = @ + 1]
      /\ event' = [event EXCEPT !.msgs = Tail(@)]
      /\ UNCHANGED <<netVars, next_id, connections, epoll, batch, accepts,
                     completed, wakeVars, worker, completed_work, pc>>

\* Too many requests in flight, or the queue is full: the connection goes,
\* whatever became of its earlier messages.
SubmitRejected ==
  /\ pc = "submit"
  /\ event.msgs # <<>>
  /\ ~HasRoom(flows[event.id]) \/ Len(queue) >= QueueCapacity
  /\ RemoveConnection(event.id, net[connections[event.id].sock])
  /\ pc' = "dispatch"
  /\ event' = NoEvent
  /\ UNCHANGED <<batch, accepts, completed, sharedVars>>

\* Every message is submitted: the rest of the handler.
FinishEvent ==
  LET id == event.id
      n == net[connections[id].sock]
      f == [flows[id] EXCEPT
              !.close_after_flush = @ \/ event.status = "peer_closed"]
      write == IF event.out /\ event.status # "protocol_error"
               THEN WriteAvailable(n, connections[id].out)
               ELSE [out |-> connections[id].out, wire |-> n.wire, status |-> "ok"]
  IN  /\ pc = "submit"
      /\ event.msgs = <<>>
      /\ \/ /\ IF event.status = "protocol_error" \/ write.status = "peer_closed"
               THEN RemoveConnection(id, n)
               ELSE CloseOrUpdate(id, [n EXCEPT !.wire = write.wire], write.out, f)
            /\ pc' = "dispatch"
         \/ CtlFails(id, [n EXCEPT !.wire = write.wire], write.out, f)
      /\ event' = NoEvent
      /\ UNCHANGED <<batch, accepts, completed, sharedVars>>

(* HandleWorkerWakeup *)

\* The eventfd is read until it would block: its counter is zero.
DrainWakeup(e) ==
  /\ NextEvent(e)
  /\ e.key = kWorkerWakeupKey
  /\ eventfd' = 0
  /\ pc' = "swap"
  /\ UNCHANGED <<netVars, serverVars, accepts, event, completed, signalled,
                 stop_requested, stopper, poolVars>>

\* completed.swap(completed_work_) under completed_work_mutex_.
SwapCompleted ==
  /\ pc = "swap"
  /\ completed' = completed_work
  /\ completed_work' = <<>>
  /\ pc' = "results"
  /\ UNCHANGED <<netVars, serverVars, batch, accepts, event, wakeVars, queue,
                 worker>>

(* HandleCompletedWork *)

NextResult ==
  /\ pc = "results"
  /\ completed # <<>>
  /\ completed' = Tail(completed)

\* A bug that is not in the code: a connection whose peer closed takes no results.
KnownAndOpen(id) ==
  id \in DOMAIN connections \cap DOMAIN flows /\ ~flows[id].close_after_flush
Known(id) == id \in DOMAIN connections \cap DOMAIN flows

\* The connection is gone: its late result is dropped.
DropResult ==
  /\ NextResult
  /\ ~Known(Head(completed).conn)
  /\ UNCHANGED <<netVars, serverVars, batch, accepts, event, pc, sharedVars>>

\* A bug that is not in the code: responses are queued as they complete.
AsTheyCome(f, r) == f.next_response
ResponseKey(f, r) == r.seq

\* How many responses of the reorder buffer FlushReadyResponses finds in turn,
\* and how many of them QueueOutput takes: it refuses one that cannot be
\* encoded, or that does not fit.
ReadyCount(f) ==
  Max({m \in 0..Cardinality(DOMAIN f.responses) :
         \A j \in 0..(m - 1) : f.next_response + j \in DOMAIN f.responses})
QueuedCount(f, out) ==
  Max({m \in 0..ReadyCount(f) :
         /\ Len(out) + m <= MaxOutput
         /\ \A j \in 0..(m - 1) :
              f.responses[f.next_response + j].outcome = "encodable"})

\* The response is kept by sequence number; FlushReadyResponses then queues
\* every response whose turn has come.
StoreResult ==
  LET r == Head(completed)
      id == r.conn
      n == net[connections[id].sock]
      f == [flows[id] EXCEPT !.responses = @ @@ (ResponseKey(flows[id], r) :> r)]
      count == QueuedCount(f, connections[id].out)
      out == connections[id].out
               \o [j \in 1..count |-> f.responses[f.next_response + j - 1].req]
      flushed == [f EXCEPT
        !.next_response = @ + count,
        !.responses = Restrict(@, {q \in DOMAIN @ : q >= f.next_response + count})]
  IN  /\ NextResult
      /\ Known(id)
      /\ \/ /\ IF count < ReadyCount(f)
               THEN RemoveConnection(id, n)
               ELSE CloseOrUpdate(id, n, out, flushed)
            /\ UNCHANGED pc
         \/ /\ f.registered \/ count = ReadyCount(f)
            /\ CtlFails(id, n, out, flushed)
      /\ UNCHANGED <<batch, accepts, event, sharedVars>>

ResultsDone ==
  /\ pc = "results"
  /\ completed = <<>>
  /\ pc' = "dispatch"
  /\ UNCHANGED <<netVars, serverVars, reactorVars, sharedVars>>

(* HandleShutdownSignal *)

ShutdownSignal(e) ==
  /\ NextEvent(e)
  /\ e.key = kShutdownSignalKey
  /\ stop_requested' = (stop_requested \/ signalled)
  /\ signalled' = FALSE
  /\ UNCHANGED <<netVars, serverVars, accepts, event, completed, eventfd,
                 stopper, poolVars, pc>>

(* CloseAllConnections: one turn of its loop; a flow whose connection cannot *)
(* be found stays, and the loop turns again.                                *)
CloseOne(id) ==
  /\ pc = "closing"
  /\ id \in DOMAIN flows
  /\ IF id \in DOMAIN connections
     THEN RemoveConnection(id, net[connections[id].sock])
     ELSE UNCHANGED <<netVars, serverVars>>
  /\ UNCHANGED <<reactorVars, pc, sharedVars>>

RunReturns ==
  /\ pc = "closing"
  /\ DOMAIN flows = {}
  /\ pc' = "returned"
  /\ UNCHANGED <<netVars, serverVars, reactorVars, sharedVars>>

\* epoll_wait, accept4, recv, send, read or epoll_ctl fails with an errno the
\* code does not expect: the exception leaves Run, past CloseAllConnections.
HandlerThrows ==
  /\ Faults
  /\ pc \in {"wait", "dispatch", "accept", "submit", "results", "closing"}
  /\ pc' = "threw"
  /\ UNCHANGED <<netVars, serverVars, reactorVars, sharedVars>>

ReactorStep ==
  \/ LoopTop \/ EpollWait \/ BatchDone
  \/ AcceptDone
  \/ \E k \in Clients : AcceptOverLimit(k) \/ AcceptConnection(k)
  \/ \E e \in batch :
       \/ BeginAccept(e) \/ DrainWakeup(e) \/ ShutdownSignal(e)
       \/ StaleEvent(e) \/ ErrorEvent(e) \/ ReadEvent(e) \/ WriteOnlyEvent(e)
  \/ SubmitMessage \/ SubmitRejected \/ FinishEvent
  \/ SwapCompleted \/ DropResult \/ StoreResult \/ ResultsDone
  \/ \E id \in DOMAIN flows : CloseOne(id)
  \/ RunReturns

ReactorThrows == HandlerThrows \/ \E k \in Clients : AcceptThrows(k)

-----------------------------------------------------------------------------
(* Worker threads: WorkerLoop with StoreCompletedWork as on_complete_.     *)

TakeWork(w) ==
  /\ worker[w] = Idle
  /\ queue # <<>>
  /\ worker' = [worker EXCEPT ![w] = [pc |-> "run", item |-> Head(queue)]]
  /\ queue' = Tail(queue)
  /\ UNCHANGED <<netVars, serverVars, reactorVars, wakeVars, completed_work, pc>>

\* The handler is done; its result is stored under completed_work_mutex_.
StoreCompletedWork(w) ==
  /\ worker[w].pc = "run"
  /\ \E o \in Outcomes :
       completed_work' = Append(completed_work,
         [conn |-> worker[w].item.conn, seq |-> worker[w].item.seq,
          req |-> worker[w].item.req, outcome |-> o])
  /\ worker' = [worker EXCEPT ![w] = [pc |-> "notify"]]
  /\ UNCHANGED <<netVars, serverVars, reactorVars, wakeVars, queue, pc>>

WorkerNotifies(w) ==
  /\ worker[w].pc = "notify"
  /\ NotifyWorkerWakeup
  /\ worker' = [worker EXCEPT ![w] = Idle]
  /\ UNCHANGED <<netVars, serverVars, reactorVars, signalled, stop_requested,
                 stopper, queue, completed_work, pc>>

WorkerStep(w) == TakeWork(w) \/ StoreCompletedWork(w) \/ WorkerNotifies(w)

(* Stop, called from another thread, and a shutdown signal. *)

Stop ==
  /\ "Stop" \in Stops
  /\ stopper = "idle"
  /\ stop_requested' = TRUE
  /\ stopper' = "notify"
  /\ UNCHANGED <<netVars, serverVars, reactorVars, eventfd, signalled, poolVars,
                 pc>>

StopNotifies ==
  /\ stopper = "notify"
  /\ NotifyWorkerWakeup
  /\ stopper' = "done"
  /\ UNCHANGED <<netVars, serverVars, reactorVars, signalled, stop_requested,
                 poolVars, pc>>

SignalArrives ==
  /\ "signal" \in Stops
  /\ ~signalled
  /\ signalled' = TRUE
  /\ UNCHANGED <<netVars, serverVars, reactorVars, eventfd, stop_requested,
                 stopper, poolVars, pc>>

-----------------------------------------------------------------------------
Next ==
  \/ \E k \in Clients : ClientStep(k)
  \/ ReactorStep
  \/ ReactorThrows
  \/ \E w \in Workers : WorkerStep(w)
  \/ Stop \/ StopNotifies \/ SignalArrives

Spec == Init /\ [][Next]_vars

\* The reactor thread and the workers are scheduled, and handlers return.
ServerFairness ==
  /\ WF_vars(ReactorStep)
  /\ \A w \in Workers : WF_vars(WorkerStep(w))

\* A client that can read reads, and one that closed answers data with a reset.
ClientFairness ==
  \A k \in Clients :
    /\ WF_vars(Receive(k) /\ OnlyNet)
    /\ WF_vars(net[k].wire # <<>> /\ net[k].peer = "closed" /\ Reset(k) /\ OnlyNet)

ServerFairSpec == Spec /\ ServerFairness
FairSpec == Spec /\ ServerFairness /\ ClientFairness

-----------------------------------------------------------------------------
(* Properties *)

\* Everything the server has produced for client k: read by it, on the way, or
\* waiting in the connection's output buffer.
Produced(k) ==
  net[k].rcvd \o net[k].wire \o
    FoldFunction(LAMBDA c, acc : IF c.sock = k THEN c.out \o acc ELSE acc,
                 <<>>, connections)

\* Responses leave in the order of the requests, each once, and only to the
\* client that asked: whatever order workers finish in, whichever connections
\* come and go meanwhile, the output is 1, 2, 3, ... of the client's own stream.
ResponsesInOrder ==
  \A k \in Clients : \A i \in DOMAIN Produced(k) :
    Produced(k)[i] = [client |-> k, n |-> i]

\* The places where the work with sequence number s of connection id may be.
Places(id, s) ==
  LET Here(seq) == Cardinality({i \in DOMAIN seq : seq[i].conn = id /\ seq[i].seq = s})
  IN  Here(queue) + Here(completed_work) + Here(completed)
        + Cardinality({w \in Workers : /\ worker[w].pc = "run"
                                       /\ worker[w].item.conn = id
                                       /\ worker[w].item.seq = s})
        + (IF s \in DOMAIN flows[id].responses THEN 1 ELSE 0)

\* Every request in flight on a live connection is in exactly one place on its
\* way to the output buffer, and nothing else of that connection is under way:
\* no request is lost or answered twice.
InFlightInOnePlace ==
  \A id \in DOMAIN flows : \A s \in 0..MaxRequests :
    Places(id, s) =
      IF flows[id].next_response <= s /\ s < flows[id].next_request THEN 1 ELSE 0

\* The reorder buffer holds nothing whose turn has come, and the requests in
\* flight respect the limit that bounds it.
ReorderBufferBounded ==
  \A id \in DOMAIN flows :
    /\ flows[id].next_response \notin DOMAIN flows[id].responses
    /\ InFlight(flows[id]) <= MaxInFlight
    /\ Cardinality(DOMAIN flows[id].responses) < MaxInFlight

\* Stored results are never forgotten: the eventfd is readable, or a worker is
\* about to write it, or the reactor is about to take them.
NoLostWakeup ==
  completed_work # <<>> =>
    eventfd > 0 \/ pc = "swap" \/ \E w \in Workers : worker[w].pc = "notify"

\* Registry, flows and epoll set describe the same connections, also after an
\* exception: CloseAllConnections leaves nothing behind and ends, and no
\* EPOLL_CTL_ADD or MOD is made on a socket in the wrong state.
TablesAgree ==
  /\ DOMAIN connections = DOMAIN flows
  /\ \A id \in DOMAIN flows :
       LET k == connections[id].sock
       IN  /\ net[k].side = "open"
           /\ flows[id].registered <=> k \in DOMAIN epoll
           /\ k \in DOMAIN epoll => epoll[k].key = id
  /\ \A k \in DOMAIN epoll : \E id \in DOMAIN connections : connections[id].sock = k

\* Between events a connection waits for EPOLLIN until its peer closed and for
\* EPOLLOUT while it has output; a connection that waits for neither still has
\* requests in flight, whose results will bring it back.
NobodyForgotten ==
  \A id \in DOMAIN flows : pc # "threw" =>
    LET k == connections[id].sock
        f == flows[id]
    IN  IF k \in DOMAIN epoll
        THEN /\ epoll[k].in = ~f.close_after_flush
             /\ epoll[k].out = (connections[id].out # <<>>)
        ELSE /\ f.close_after_flush
             /\ connections[id].out = <<>>
             /\ InFlight(f) > 0

Terminated == pc \in {"returned", "threw"}

\* The server is an OrderedEcho: a client's responses are its requests' in
\* order, each once, and a request is answered unless its connection is closed.
Promise == INSTANCE OrderedEcho WITH
  asked <- [k \in Clients |-> net[k].sent],
  delivered <- [k \in Clients |->
                  [i \in DOMAIN (net[k].rcvd \o net[k].wire) |->
                     (net[k].rcvd \o net[k].wire)[i].n]],
  finished <- [k \in Clients |-> net[k].side = "closed" \/ Terminated]

ImplementsOrderedEcho == Promise!Spec

\* With limits that are never reached and clients that read, every request is
\* answered as long as the client keeps its end open and nobody stops the
\* server: a half-close before, between or after reads, worker results and
\* writes loses nothing.
AllAnswered ==
  ClientFairness =>
    \A k \in Clients : \A n \in 1..MaxRequests :
      (net[k].sent >= n) ~>
        (Len(net[k].rcvd) >= n \/ net[k].peer = "closed"
           \/ stop_requested \/ signalled)

\* A connection whose client is gone does not stay: not deregistered waiting
\* for results, not with output nobody will read.
ClosedPeersReleased ==
  \A k \in Clients :
    (net[k].peer = "closed" /\ net[k].side = "open")
      ~> (net[k].side = "closed" \/ Terminated)

\* The reactor comes to rest: no level-triggered event is reported for ever
\* without a handler that makes it go away, even if clients stop reading.
NoBusyLoop == []<>(ReadyEvents = {} \/ Terminated)

\* Stop() and a shutdown signal end Run, wherever the reactor is, and leave no
\* connection live and no accepted socket open.
StopEndsRun ==
  (stop_requested \/ signalled) ~>
    (/\ pc = "returned"
     /\ DOMAIN connections = {} /\ DOMAIN epoll = {}
     /\ \A k \in Clients : net[k].side # "open")
=============================================================================
