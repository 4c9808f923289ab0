----------------------------- MODULE BlockingTcp -----------------------------
(***************************************************************************)
(* The blocking reference server (src/network/blocking_tcp.cpp, run by     *)
(* apps/server/main.cpp): one connection at a time, one request at a time. *)
(* An exception leaves ServeOne, the loop in main and the process.         *)
(*                                                                         *)
(* Frames are whole here, as in EpollServer; ReadMessage puts them         *)
(* together with the same FrameDecoder as the reactor.                     *)
(***************************************************************************)
EXTENDS CommandLine, SequencesExt

CONSTANTS
  Clients,      \* the peers; each connects at most once
  MaxRequests,  \* bound: requests a client sends
  SendSpace,    \* socket buffers between server and client, in frames
  NoClient,
  CommandLines, \* the arguments the program is started with
  PeerMoves     \* what clients do besides sending, reading and ending their
                \* stream, a subset of {"malformed", "close"}

ASSUME BlockingAssumption ==
  MaxRequests \in Nat /\ SendSpace \in Nat \ {0} /\ NoClient \notin Clients

VARIABLES
  net,      \* each client and its connection, as the kernel sees it
  backlog,  \* connections waiting to be accepted
  pc,       \* where the server thread is
  client,   \* the connection being served
  response  \* the response being sent

vars == <<net, backlog, pc, client, response>>

Malformed == 0

Init ==
  /\ net = [k \in Clients |->
              [peer |-> "new", side |-> "none", sent |-> 0, reset |-> FALSE,
               inbox |-> <<>>, wire |-> <<>>, rcvd |-> <<>>]]
  /\ backlog = <<>>
  /\ pc = "main"
  /\ client = NoClient
  /\ response = 0

-----------------------------------------------------------------------------
(* Clients and kernel (external) *)

Connect(k) ==
  /\ pc \in {"accept", "read", "send"}
  /\ net[k].peer = "new"
  /\ net' = [net EXCEPT ![k].peer = "open", ![k].side = "backlog"]
  /\ backlog' = Append(backlog, k)
  /\ UNCHANGED <<pc, client, response>>

SendFrame(k) ==
  /\ net[k].peer = "open" /\ net[k].side \in {"backlog", "open"}
  /\ \/ /\ net[k].sent < MaxRequests
        /\ net' = [net EXCEPT ![k].sent = @ + 1,
                              ![k].inbox = Append(@, net[k].sent + 1)]
     \/ /\ "malformed" \in PeerMoves
        /\ Malformed \notin ToSet(net[k].inbox)
        /\ net' = [net EXCEPT ![k].inbox = Append(@, Malformed)]
  /\ UNCHANGED <<backlog, pc, client, response>>

Receive(k) ==
  /\ net[k].peer \in {"open", "half"}
  /\ net[k].wire # <<>>
  /\ net' = [net EXCEPT ![k].wire = Tail(@),
                        ![k].rcvd = Append(@, Head(net[k].wire))]
  /\ UNCHANGED <<backlog, pc, client, response>>

\* The client has sent what it wanted to send.
EndStream(k) ==
  /\ net[k].peer = "open"
  /\ net' = [net EXCEPT ![k].peer = "half"]
  /\ UNCHANGED <<backlog, pc, client, response>>

\* close(): a FIN, or at once a reset if responses were left unread.
CloseClient(k) ==
  /\ "close" \in PeerMoves
  /\ net[k].peer \in {"open", "half"}
  /\ net' = [net EXCEPT
       ![k].peer = IF net[k].wire = <<>> THEN "closed" ELSE "aborted",
       ![k].reset = net[k].wire # <<>>]
  /\ UNCHANGED <<backlog, pc, client, response>>

\* A response reaches a closed client, which answers with a reset.
ResetArrives(k) ==
  /\ net[k].peer = "closed"
  /\ net[k].wire # <<>>
  /\ ~net[k].reset
  /\ net' = [net EXCEPT ![k].reset = TRUE]
  /\ UNCHANGED <<backlog, pc, client, response>>

-----------------------------------------------------------------------------
(* The server *)

\* main: at most one argument, the port.
StartProgram ==
  /\ pc = "main"
  /\ \E args \in CommandLines :
       pc' = IF AsksForHelp(args) THEN "exit0"
             ELSE IF Len(args) > 1 THEN "exit2"
             ELSE IF \A i \in DOMAIN args : ParsePort(args[i]) # {} THEN "construct"
             ELSE "exit1"
  /\ UNCHANGED <<net, backlog, client, response>>

\* CreateListener and BoundPort; a call that fails is thrown to main.
BlockingEchoServer ==
  /\ pc = "construct"
  /\ pc' \in {"accept", "exit1"}
  /\ UNCHANGED <<net, backlog, client, response>>

AcceptOne ==
  /\ pc = "accept"
  /\ backlog # <<>>
  /\ client' = Head(backlog)
  /\ backlog' = Tail(backlog)
  /\ net' = [net EXCEPT ![Head(backlog)].side = "open"]
  /\ pc' = "read"
  /\ UNCHANGED response

\* ServeClient returns and the connection is closed; main calls ServeOne again.
ServeClientReturns ==
  /\ net' = [net EXCEPT ![client].side = "closed", ![client].inbox = <<>>]
  /\ client' = NoClient
  /\ pc' = "accept"
  /\ UNCHANGED <<backlog, response>>

\* An exception: the connection is closed on the way out of ServeOne, and main
\* ends.
ServeOneThrows ==
  /\ net' = [net EXCEPT ![client].side = "closed", ![client].inbox = <<>>]
  /\ client' = NoClient
  /\ pc' = "threw"
  /\ UNCHANGED <<backlog, response>>

\* A bug that is not in the code: a malformed frame is thrown.
ReadMalformedThrows ==
  /\ pc = "read"
  /\ net[client].inbox # <<>> /\ Head(net[client].inbox) = Malformed
  /\ ServeOneThrows

\* A bug that is not in the code: the next request is read before the response
\* to the last one is sent.
SendDropped ==
  /\ pc = "send"
  /\ pc' = "read"
  /\ UNCHANGED <<net, backlog, client, response>>

\* ReadMessage returns a message, and HandleRequest makes the response.
ReadRequest ==
  /\ pc = "read"
  /\ net[client].inbox # <<>> /\ Head(net[client].inbox) # Malformed
  /\ response' = Head(net[client].inbox)
  /\ net' = [net EXCEPT ![client].inbox = Tail(@)]
  /\ pc' = "send"
  /\ UNCHANGED <<backlog, client>>

ReadMalformed ==
  /\ pc = "read"
  /\ net[client].inbox # <<>> /\ Head(net[client].inbox) = Malformed
  /\ ServeClientReturns

\* recv returns 0.
ReadClosed ==
  /\ pc = "read"
  /\ net[client].inbox = <<>> /\ net[client].peer \in {"half", "closed"}
  /\ ServeClientReturns

\* recv fails with ECONNRESET.
ReadReset ==
  /\ pc = "read"
  /\ net[client].inbox = <<>> /\ net[client].peer = "aborted"
  /\ ServeOneThrows

\* SendAll, which blocks while the socket is full.
SendResponse ==
  /\ pc = "send"
  /\ ~net[client].reset
  /\ Len(net[client].wire) < SendSpace
  /\ net' = [net EXCEPT ![client].wire = Append(@, response)]
  /\ pc' = "read"
  /\ UNCHANGED <<backlog, client, response>>

\* send fails with EPIPE or ECONNRESET.
SendReset ==
  /\ pc = "send"
  /\ net[client].reset
  /\ ServeOneThrows

ServerStep ==
  \/ StartProgram \/ BlockingEchoServer
  \/ AcceptOne
  \/ ReadRequest \/ ReadMalformed \/ ReadClosed \/ ReadReset
  \/ SendResponse \/ SendReset

ClientStep(k) ==
  \/ Connect(k) \/ SendFrame(k) \/ Receive(k) \/ EndStream(k)
  \/ CloseClient(k) \/ ResetArrives(k)

Next == ServerStep \/ \E k \in Clients : ClientStep(k)

\* The server runs; clients read what they can and end their streams.
Fairness ==
  /\ WF_vars(ServerStep)
  /\ \A k \in Clients : WF_vars(Receive(k)) /\ WF_vars(EndStream(k))

Spec == Init /\ [][Next]_vars /\ Fairness

-----------------------------------------------------------------------------
(* Properties *)

\* A malformed frame ends only the connection it came on: as long as nobody
\* disconnects early, a request sent before it, or by another client waiting its
\* turn, is answered.
MalformedHurtsOnlyItsSender ==
  \A k \in Clients : \A n \in 1..MaxRequests :
    (/\ net[k].sent >= n /\ net[k].side \in {"backlog", "open"}
     /\ Malformed \notin ToSet(net[k].inbox))
      ~> (\/ Len(net[k].rcvd) >= n
          \/ \E j \in Clients : net[j].peer \in {"closed", "aborted"})

\* One request, one response, in the order of the requests, also when a client
\* pipelines requests while responses to earlier ones wait in the socket.
OneResponseEach ==
  \A k \in Clients :
    LET got == net[k].rcvd \o net[k].wire
    IN  /\ \A i \in DOMAIN got : got[i] = i
        /\ client = k /\ pc = "send" => response = Len(got) + 1
        /\ client = k /\ pc = "read" /\ net[k].inbox # <<>> =>
             Head(net[k].inbox) \in {Len(got) + 1, Malformed}

\* "peer disconnect returns cleanly from the blocking reference server": no
\* disconnect makes ServeOne throw.
PeerDisconnectReturnsCleanly == pc # "threw"
=============================================================================
