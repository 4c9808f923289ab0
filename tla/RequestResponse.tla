--------------------------- MODULE RequestResponse ---------------------------
(***************************************************************************)
(* One exchange in bytes: SendRequestAndReadResponse (the client helper of *)
(* src/network/blocking_tcp.cpp) with ServeClient at the other end, both   *)
(* over the codec, the server over the handler.  Bytes arrive one by one,  *)
(* so that each end looks at every prefix of what it is sent.              *)
(*                                                                         *)
(* The request is any that a caller of the helper makes up, or the one     *)
(* that the client program (apps/client/main.cpp) builds from its          *)
(* arguments.                                                              *)
(***************************************************************************)
EXTENDS Handler, CommandLine

CONSTANTS
  Requests,       \* the messages clients send, not all of them encodable
  OtherRequests,  \* those that clients of another make send too
  Following,      \* bytes that arrive behind the request: the next one's first
  CommandLines,   \* the arguments the client program is started with
  DefaultConfig   \* a ClientConfig as it is before ParseArgs

VARIABLES
  request,    \* the client's request
  upstream,   \* the bytes sent to the server
  received,   \* the bytes the server's decoder has
  downstream, \* the bytes of the response
  returned,   \* the bytes the client's decoder has
  answer,     \* what the client returns to its caller
  pc,         \* how far the exchange is
  program     \* whether it is the client program's

vars == <<request, upstream, received, downstream, returned, answer, pc, program>>

Init ==
  /\ \/ request \in Requests /\ pc = "start" /\ program = FALSE
     \/ request = NoMessage /\ pc = "main" /\ program = TRUE
  /\ upstream = <<>> /\ received = <<>>
  /\ downstream = <<>> /\ returned = <<>>
  /\ answer = NoMessage

-----------------------------------------------------------------------------
(* The client program *)

ClientOptions == {"--message-type", "--work-iterations"}

ParseWorkIterations(a) == {v \in ParseUnsigned(a) : v # 0 /\ v <= kMaxWorkIterations}
ParseMessageType(a) == {a.word} \cap {"echo", "work"}

ClientValue(option, a) ==
  CASE option = "--message-type" -> ParseMessageType(a)
    [] option = "--work-iterations" -> ParseWorkIterations(a)
    [] option = "payload" -> {a.size}

\* A bug that is not in the code: the iteration count's bytes are forgotten.
RoomForEcho(type) == kMaxPayloadSize
RoomForPayload(type) ==
  IF type = "echo" THEN kMaxPayloadSize ELSE kMaxPayloadSize - kIterationBytes

ParseArgs(args) ==
  IF args = <<>> \/ ParsePort(args[1]) = {} THEN {}
  ELSE LET rest == Tail(args)
           values == [i \in DOMAIN rest |->
                        [o \in ClientOptions \cup {"payload"} |-> ClientValue(o, rest[i])]]
       IN  {c \in ParseLoop(rest, values, DefaultConfig, ClientOptions, "payload") :
              c["payload"] <= RoomForPayload(c["--message-type"])}

\* What the bytes of a payload are does not matter, only how many there are.
PayloadBytes(size) == [i \in 1..size |-> i % Base]

BuildRequest(c) ==
  LET seed == PayloadBytes(c["payload"])
  IN  IF c["--message-type"] = "echo"
      THEN [type |-> kEchoRequest, request_id |-> 1, payload |-> seed]
      ELSE [type |-> kWorkRequest, request_id |-> 1,
            payload |-> EncodeWorkRequestPayload(c["--work-iterations"], seed)]

Main ==
  /\ pc = "main"
  /\ \E args \in CommandLines :
       \/ AsksForHelp(args) /\ pc' = "exit0" /\ UNCHANGED request
       \/ ~AsksForHelp(args) /\ ParseArgs(args) = {} /\ pc' = "exit1" /\ UNCHANGED request
       \/ \E c \in ParseArgs(args) : request' = BuildRequest(c) /\ pc' = "start"
  /\ UNCHANGED <<upstream, received, downstream, returned, answer, program>>

-----------------------------------------------------------------------------
(* The exchange *)

\* ConnectTcp, which throws when a call fails.
ConnectTcp ==
  /\ pc = "start"
  /\ pc' \in {"connected", "unconnected"}
  /\ UNCHANGED <<request, upstream, received, downstream, returned, answer, program>>

\* SendMessage.
SendRequest ==
  /\ pc = "connected"
  /\ EncodeMessage(request) # Nullopt
  /\ upstream' = EncodeMessage(request) \o Following
  /\ pc' = "sent"
  /\ UNCHANGED <<request, received, downstream, returned, answer, program>>

\* SendMessage throws: there is no encoding.
SendThrows ==
  /\ pc = "connected"
  /\ EncodeMessage(request) = Nullopt
  /\ pc' = "threw"
  /\ UNCHANGED <<request, upstream, received, downstream, returned, answer, program>>

\* A client of another make, whose header differs in a byte (external).
OtherClientSends(i, b) ==
  /\ pc = "connected"
  /\ request \in OtherRequests
  /\ EncodeMessage(request) # Nullopt
  /\ b # EncodeMessage(request)[i]
  /\ upstream' = [EncodeMessage(request) EXCEPT ![i] = b] \o Following
  /\ pc' = "other"
  /\ UNCHANGED <<request, received, downstream, returned, answer, program>>

Serving == pc \in {"sent", "other"}

\* recv, Append.
ServerReceives ==
  /\ Serving
  /\ Len(received) < Len(upstream)
  /\ received' = Append(received, upstream[Len(received) + 1])
  /\ UNCHANGED <<request, upstream, downstream, returned, answer, pc, program>>

Verdict == TryDecodeFrame(received)

\* ReadMessage returns a message: HandleRequest and SendMessage.
ServerAnswers ==
  /\ Serving
  /\ Verdict.status = "decoded"
  /\ downstream' = EncodeMessage(HandleOwnedRequest(Verdict.message))
  /\ pc' = IF pc = "sent" THEN "answered" ELSE "other_answered"
  /\ UNCHANGED <<request, upstream, received, returned, answer, program>>

\* ServeClient returns on a protocol error.  The client finds the connection
\* closed, and throws.
ServerRejects ==
  /\ Serving
  /\ Verdict.status = "error"
  /\ pc' = IF pc = "sent" THEN "threw" ELSE "other_rejected"
  /\ UNCHANGED <<request, upstream, received, downstream, returned, answer, program>>

ClientReceives ==
  /\ pc = "answered"
  /\ Len(returned) < Len(downstream)
  /\ returned' = Append(returned, downstream[Len(returned) + 1])
  /\ UNCHANGED <<request, upstream, received, downstream, answer, pc, program>>

\* ReadMessage returns the response, or a protocol error that is thrown.
ClientReads ==
  LET result == TryDecodeFrame(returned)
  IN  /\ pc = "answered"
      /\ result.status # "need_more"
      /\ answer' = result.message
      /\ pc' = IF result.status = "decoded" THEN "done" ELSE "threw"
      /\ UNCHANGED <<request, upstream, received, downstream, returned, program>>

Next ==
  \/ Main
  \/ ConnectTcp \/ SendRequest \/ SendThrows
  \/ \E i \in 1..kHeaderSize, b \in 0..(Base - 1) : OtherClientSends(i, b)
  \/ ServerReceives \/ ServerAnswers \/ ServerRejects
  \/ ClientReceives \/ ClientReads

\* Sent bytes arrive, and both ends go on reading.
Spec == Init /\ [][Next]_vars /\ WF_vars(Next)

-----------------------------------------------------------------------------
(* Properties *)

\* A verdict of TryDecodeFrame on the bytes at hand is final: what arrives
\* behind a frame, or behind a bad header, changes neither the message nor the
\* error nor the number of bytes consumed, so it does not matter how recv cuts
\* the stream.
VerdictIsFinal ==
  [][Verdict.status # "need_more" => Verdict' = Verdict]_vars

\* The decoder accepts nothing the encoder would not have sent: a decoded
\* message encodes to the very bytes that were consumed.
OnlyEncodingsDecode ==
  Verdict.status = "decoded" =>
    EncodeMessage(Verdict.message) = SubSeq(received, 1, Verdict.consumed)

\* Whatever request was decoded, HandleRequest's response can be encoded: with
\* this handler QueueOutput and SendMessage never fail for its content.
ResponsesEncodable ==
  pc \in {"answered", "other_answered"} => downstream # Nullopt

\* The reference for the work limits: the product the code does not compute.
\* A digest is returned exactly within the limits.
WorkLimitExact ==
  Verdict.status = "decoded" /\ Verdict.message.type = kWorkRequest =>
    LET p == Verdict.message.payload
    IN  HandleOwnedRequest(Verdict.message).type = kWorkResponse <=>
          /\ Len(p) >= kIterationBytes
          /\ Iterations(p) <= kMaxWorkIterations
          /\ Iterations(p) * SeedWorkUnits(Seed(p)) <= kMaxWorkUnits

ExpectedTypes(type) ==
  CASE type = kEchoRequest -> {kEchoResponse}
    [] type = kWorkRequest -> {kWorkResponse, kErrorResponse}
    [] OTHER -> {kErrorResponse}

\* Every request that can be encoded is answered: the client returns a message
\* of the right type under its request id, an echo with the payload unchanged.
EveryRequestAnswered ==
  (pc = "sent") ~>
    /\ pc = "done"
    /\ answer.request_id = request.request_id
    /\ answer.type \in ExpectedTypes(request.type)
    /\ answer.type = kEchoResponse => answer.payload = request.payload

\* Arguments that the client program takes make a request that can be sent and
\* that is answered; the only error it can meet is work beyond kMaxWorkUnits,
\* which ParseArgs does not look at.
ClientArgumentsServed ==
  program =>
    /\ pc # "threw"
    /\ pc = "done" /\ answer.type = kErrorResponse =>
         /\ request.type = kWorkRequest
         /\ Iterations(request.payload) * SeedWorkUnits(Seed(request.payload))
              > kMaxWorkUnits
=============================================================================
