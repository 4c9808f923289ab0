--------------------------- MODULE ConnectionInput ---------------------------
(***************************************************************************)
(* The reading half of network::Connection (src/network/connection.cpp,    *)
(* ReadAvailable and DrainDecoder) with its protocol::FrameDecoder         *)
(* (src/protocol/codec.cpp), counted in bytes.                             *)
(*                                                                         *)
(* What a byte says depends only on where it stands in the client's        *)
(* stream, so the buffer is known by the stretch of the stream it holds:   *)
(* bytes base .. base + size - 1, of which the first off are consumed.     *)
(* Decoding looks at the frame that starts at base + off; anywhere else    *)
(* than at the start of a frame it finds no header.                        *)
(*                                                                         *)
(* The reactor is single-threaded and epoll level-triggered: ReadAvailable *)
(* is called, again and again, while the socket has bytes or an end of     *)
(* stream to report, and until it reports the connection unusable.         *)
(***************************************************************************)
EXTENDS Integers, Sequences, FiniteSetsExt, SequencesExt

CONSTANTS
  Streams,     \* the streams clients may send: sequences of frames, a frame
               \* being [payload : payload bytes, valid : is its header valid]
  HeaderSize,  \* kHeaderSize
  MaxPayload,  \* kMaxPayloadSize
  MaxInput,    \* limits_.max_input_buffer
  ReadBudget,  \* max_read_bytes
  RecvChunk    \* the size of the array recv reads into

ASSUME SizesAssumption ==
  /\ HeaderSize \in Nat \ {0} /\ MaxPayload \in Nat
  /\ MaxInput \in Nat \ {0} /\ ReadBudget \in Nat \ {0} /\ RecvChunk \in Nat \ {0}

Frame == [payload : Nat, valid : BOOLEAN]

ASSUME StreamsAssumption == Streams \subseteq Seq(Frame)

VARIABLES
  stream,    \* the client's stream
  sent,      \* bytes the client has sent
  peer,      \* "open", or "closed" once recv will report the end
  arrived,   \* bytes in the socket, not yet received
  base, size, off,   \* the decoder: stream position of buffer_[0],
                     \* buffer_.size() and read_offset_
  decoded,   \* frames decoded so far
  boundary,  \* where the first frame not yet decoded starts in the stream
  pc,        \* "idle" between calls; "drain" and "recv" inside ReadAvailable
  total_read, progress, messages,  \* locals of ReadAvailable
  status,    \* what the last call returned
  handed     \* messages returned to the caller so far

decoder == <<base, size, off, decoded, boundary>>
locals == <<total_read, progress, messages>>
vars == <<stream, sent, peer, arrived, decoder, pc, locals, status, handed>>

FrameSize(f) == HeaderSize + f.payload
StreamSize(s) == FoldSeq(LAMBDA f, acc : acc + FrameSize(f), 0, s)
BufferedSize == size - off

TypeOK ==
  /\ stream \in Seq(Frame)
  /\ sent \in Nat /\ arrived \in Nat
  /\ base \in Nat /\ size \in Nat /\ off \in Nat
  /\ decoded \in Nat /\ boundary \in Nat
  /\ total_read \in Nat /\ messages \in Nat /\ handed \in Nat
  /\ peer \in {"open", "closed"}
  /\ pc \in {"idle", "drain", "recv"}
  /\ progress \in BOOLEAN
  /\ status \in {"none", "ok", "would_block", "peer_closed", "protocol_error"}

Init ==
  /\ stream \in Streams
  /\ sent = 0 /\ peer = "open" /\ arrived = 0
  /\ base = 0 /\ size = 0 /\ off = 0 /\ decoded = 0 /\ boundary = 0
  /\ pc = "idle"
  /\ total_read = 0 /\ progress = FALSE /\ messages = 0
  /\ status = "none" /\ handed = 0

-----------------------------------------------------------------------------
(* The client (external) *)

SendBytes(n) ==
  /\ peer = "open"
  /\ sent + n <= StreamSize(stream)
  /\ sent' = sent + n
  /\ arrived' = arrived + n
  /\ UNCHANGED <<stream, peer, decoder, pc, locals, status, handed>>

\* A FIN or a reset, possibly in the middle of a frame.
PeerCloses ==
  /\ peer = "open"
  /\ peer' = "closed"
  /\ UNCHANGED <<stream, sent, arrived, decoder, pc, locals, status, handed>>

-----------------------------------------------------------------------------
(* FrameDecoder *)

\* TryDecodeFrame on the pending bytes.
DecodeStatus ==
  IF BufferedSize < HeaderSize THEN "need_more"
  ELSE IF \/ base + off # boundary
          \/ decoded = Len(stream)
          \/ ~stream[decoded + 1].valid
          \/ stream[decoded + 1].payload > MaxPayload
       THEN "error"
  ELSE IF BufferedSize < FrameSize(stream[decoded + 1]) THEN "need_more"
  ELSE "decoded"

\* Bugs that are not in the code: the prefix is erased and read_offset_ kept;
\* the buffer is compacted only when it is empty.
CompactKeepingOffset(consumed) ==
  LET o == off + consumed
  IN  IF o = size THEN base' = base + size /\ size' = 0 /\ off' = 0
      ELSE IF o >= size \div 2 THEN base' = base + o /\ size' = size - o /\ off' = o
      ELSE off' = o /\ UNCHANGED <<base, size>>

CompactWhenEmpty(consumed) ==
  LET o == off + consumed
  IN  IF o = size THEN base' = base + size /\ size' = 0 /\ off' = 0
      ELSE off' = o /\ UNCHANGED <<base, size>>

\* read_offset_ moves past a decoded frame; then CompactIfNeeded.
ConsumeAndCompact(consumed) ==
  LET o == off + consumed
  IN  IF o = size THEN base' = base + size /\ size' = 0 /\ off' = 0
      ELSE IF o >= size \div 2 THEN base' = base + o /\ size' = size - o /\ off' = 0
      ELSE off' = o /\ UNCHANGED <<base, size>>

-----------------------------------------------------------------------------
(* ReadAvailable *)

Ended == status \in {"peer_closed", "protocol_error"}

CallRead ==
  /\ pc = "idle"
  /\ ~Ended
  /\ arrived > 0 \/ peer = "closed"
  /\ pc' = "drain"
  /\ total_read' = 0 /\ progress' = FALSE /\ messages' = 0
  /\ status' = "none"
  /\ UNCHANGED <<stream, sent, peer, arrived, decoder, handed>>

\* ReadAvailable returns s, with its messages except for kWouldBlock.
Return(s) ==
  /\ pc' = "idle"
  /\ status' = s
  /\ handed' = IF s = "would_block" THEN handed ELSE handed + messages
  /\ UNCHANGED <<stream, sent, peer, arrived, decoder, locals>>

\* One turn of DrainDecoder's loop that decodes a frame.
DrainOne ==
  /\ pc = "drain"
  /\ DecodeStatus = "decoded"
  /\ LET consumed == FrameSize(stream[decoded + 1])
     IN  ConsumeAndCompact(consumed) /\ boundary' = boundary + consumed
  /\ decoded' = decoded + 1
  /\ messages' = messages + 1
  /\ UNCHANGED <<stream, sent, peer, arrived, pc, total_read, progress, status, handed>>

DrainError ==
  /\ pc = "drain"
  /\ DecodeStatus = "error"
  /\ Return("protocol_error")

\* Bugs that are not in the code: the budget, or the buffer limit, is checked
\* before the decoder is drained.
BudgetBeforeDrain ==
  /\ pc = "drain"
  /\ total_read >= ReadBudget
  /\ Return("ok")

LimitBeforeDrain ==
  /\ pc = "drain"
  /\ BufferedSize >= MaxInput
  /\ Return("protocol_error")

\* Nothing more to decode: the budget is looked at first, ...
BudgetReached ==
  /\ pc = "drain"
  /\ DecodeStatus = "need_more"
  /\ total_read >= ReadBudget
  /\ Return("ok")

\* ... then the buffer limit (kPayloadTooLarge), ...
InputBufferFull ==
  /\ pc = "drain"
  /\ DecodeStatus = "need_more"
  /\ total_read < ReadBudget
  /\ BufferedSize >= MaxInput
  /\ Return("protocol_error")

\* ... and then recv is called.
CallRecv ==
  /\ pc = "drain"
  /\ DecodeStatus = "need_more"
  /\ total_read < ReadBudget
  /\ BufferedSize < MaxInput
  /\ pc' = "recv"
  /\ UNCHANGED <<stream, sent, peer, arrived, decoder, locals, status, handed>>

\* recv returns some of the bytes there are: no more than fit in the array, the
\* rest of the budget and the rest of the input buffer.
RecvBytes(n) ==
  /\ pc = "recv"
  /\ n <= ReadBudget - total_read
  /\ n <= MaxInput - BufferedSize
  /\ n <= arrived
  /\ arrived' = arrived - n
  /\ size' = size + n
  /\ total_read' = total_read + n
  /\ progress' = TRUE
  /\ pc' = "drain"
  /\ UNCHANGED <<stream, sent, peer, base, off, decoded, boundary, messages,
                 status, handed>>

RecvInterrupted ==
  /\ pc = "recv"
  /\ pc' = "drain"
  /\ UNCHANGED <<stream, sent, peer, arrived, decoder, locals, status, handed>>

\* A bug that is not in the code: kWouldBlock is returned also after progress.
RecvWouldBlockAlways ==
  /\ pc = "recv"
  /\ arrived = 0 /\ peer = "open"
  /\ Return("would_block")

RecvWouldBlock ==
  /\ pc = "recv"
  /\ arrived = 0 /\ peer = "open"
  /\ Return(IF progress \/ messages > 0 THEN "ok" ELSE "would_block")

RecvEnd ==
  /\ pc = "recv"
  /\ arrived = 0 /\ peer = "closed"
  /\ Return("peer_closed")

ReadStep ==
  \/ CallRead
  \/ DrainOne \/ DrainError
  \/ BudgetReached \/ InputBufferFull \/ CallRecv
  \/ \E n \in 1..RecvChunk : RecvBytes(n)
  \/ RecvWouldBlock \/ RecvEnd

Next ==
  \/ \E n \in 1..RecvChunk : SendBytes(n)
  \/ PeerCloses
  \/ ReadStep
  \/ RecvInterrupted

\* The reactor keeps calling ReadAvailable while epoll reports the socket, and
\* signals do not interrupt recv for ever.
Fairness ==
  /\ WF_vars(ReadStep)
  /\ SF_vars(RecvWouldBlock \/ RecvEnd \/ \E n \in 1..RecvChunk : RecvBytes(n))

Spec == Init /\ [][Next]_vars /\ Fairness

-----------------------------------------------------------------------------
(* Properties *)

\* The buffer holds exactly the received bytes that no decoded frame used up,
\* and the next decode starts at a frame boundary: no byte is lost, repeated or
\* skipped by Append, Next and CompactIfNeeded, however recv cuts the stream.
BufferIsTheRest ==
  /\ off <= size
  /\ base + size = sent - arrived
  /\ base + off = boundary

\* Memory per connection: buffered input within max_input_buffer, and less than
\* twice that in buffer_, consumed prefix included; a call reads no more than
\* its budget.
InputBounded ==
  /\ BufferedSize <= MaxInput
  /\ size < 2 * MaxInput
  /\ total_read <= ReadBudget

\* No frame is stranded: when ReadAvailable returns and will be called again,
\* the decoder holds no complete frame.  epoll reports bytes in the socket, not
\* bytes in the decoder, so such a frame would wait for the client's next one.
NoFrameStranded ==
  pc = "idle" /\ ~Ended => DecodeStatus = "need_more"

\* Every decoded message reaches the caller, whatever ReadAvailable returns.
NoMessageDropped == pc = "idle" => handed = decoded

\* ReadAvailable blames the peer only for a frame that is malformed or larger
\* than the input buffer: never for a full buffer that drains, never because
\* frames arrive together.
ErrorIsDeserved ==
  status = "protocol_error" =>
    /\ decoded < Len(stream)
    /\ LET f == stream[decoded + 1]
       IN  ~f.valid \/ f.payload > MaxPayload \/ FrameSize(f) > MaxInput

\* Every frame that arrived completely is handed over or the connection ends,
\* also when the read budget cuts the stream into many calls.
FramesHandedOver ==
  \A i \in 1..Max({Len(s) : s \in Streams}) :
    (i <= Len(stream) /\ sent >= StreamSize(SubSeq(stream, 1, i)))
      ~> (handed >= i \/ status = "protocol_error")
=============================================================================
