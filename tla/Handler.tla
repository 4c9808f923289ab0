------------------------------- MODULE Handler -------------------------------
(***************************************************************************)
(* core::HandleRequest and HandleOwnedRequest (src/core/handler.cpp): the  *)
(* response to a request.  The 64-bit hash is an unspecified function of   *)
(* its inputs; the limits on the work it takes are the code's.             *)
(***************************************************************************)
EXTENDS Codec

CONSTANTS
  kMaxWorkIterations,
  kMaxWorkUnits,
  Digest(_, _),  \* the hash of so many rounds over a seed
  ErrorPayload   \* the text of an error response

ASSUME HandlerAssumption ==
  /\ kMaxWorkIterations \in Nat /\ kMaxWorkUnits \in Nat
  /\ ErrorPayload \in Seq(0..(Base - 1)) /\ Len(ErrorPayload) <= kMaxPayloadSize
  /\ 8 <= kMaxPayloadSize  \* the digest's bytes

kIterationBytes == 4

Iterations(payload) == ReadBigEndian(payload, 0, kIterationBytes)
Seed(payload) == SubSeq(payload, kIterationBytes + 1, Len(payload))

EncodeWorkRequestPayload(iterations, seed) ==
  BigEndian(iterations, kIterationBytes) \o seed

SeedWorkUnits(seed) == IF seed = <<>> THEN 1 ELSE Len(seed)

\* A bug that is not in the code: >= instead of >.
TooMuchWorkAtLimit(iterations, units) ==
  iterations > 0 /\ units >= kMaxWorkUnits \div iterations

\* The test divides, so that no product can overflow.
TooMuchWork(iterations, units) ==
  iterations > 0 /\ units > kMaxWorkUnits \div iterations

ComputeWorkResponsePayload(payload) ==
  IF \/ Len(payload) < kIterationBytes
     \/ Iterations(payload) > kMaxWorkIterations
     \/ TooMuchWork(Iterations(payload), SeedWorkUnits(Seed(payload)))
  THEN Nullopt
  ELSE BigEndian(Digest(Iterations(payload), Seed(payload)), 8)

\* A bug that is not in the code: an error response without the request's id.
ErrorResponseWithoutId(request_id) ==
  [type |-> kErrorResponse, request_id |-> 0, payload |-> ErrorPayload]

ErrorResponse(request_id) ==
  [type |-> kErrorResponse, request_id |-> request_id, payload |-> ErrorPayload]

HandleOwnedRequest(m) ==
  LET work == ComputeWorkResponsePayload(m.payload)
  IN  IF m.type = kEchoRequest THEN [m EXCEPT !.type = kEchoResponse]
      ELSE IF m.type = kWorkRequest /\ work # Nullopt
           THEN [m EXCEPT !.type = kWorkResponse, !.payload = work]
      ELSE ErrorResponse(m.request_id)
=============================================================================
