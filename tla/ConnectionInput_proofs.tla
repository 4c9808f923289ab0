----------------------- MODULE ConnectionInput_proofs -----------------------
(***************************************************************************)
(* Proofs about ConnectionInput, for all header sizes, limits, budgets and *)
(* streams.  The inductive invariant adds to the properties:               *)
(*   - decode attempts stay within the stream;                             *)
(*   - CompactIfNeeded keeps a consumed prefix only while it is shorter    *)
(*     than what is pending, which turns the bound on the pending bytes    *)
(*     into one on the buffer;                                             *)
(*   - what ReadAvailable knows between its checks and recv;               *)
(*   - messages decoded in the current call are not handed over yet.       *)
(***************************************************************************)
EXTENDS ConnectionInput, TLAPS

\* What holds of the decoder at any moment.
DecoderInv ==
  /\ decoded <= Len(stream)
  /\ BufferIsTheRest
  /\ off = 0 \/ 2 * off < size
  /\ BufferedSize <= MaxInput
  /\ total_read <= ReadBudget

\* What holds inside and between calls of ReadAvailable.
CallInv ==
  /\ pc = "recv" => /\ DecodeStatus = "need_more"
                    /\ BufferedSize < MaxInput
                    /\ total_read < ReadBudget
  /\ NoFrameStranded
  /\ pc = "idle" => handed = decoded
  /\ pc # "idle" => handed + messages = decoded

IInv == TypeOK /\ DecoderInv /\ CallInv

LEMMA IInvInit == Init => IInv
<1> SUFFICES ASSUME Init PROVE IInv
  OBVIOUS
<1> USE SizesAssumption, StreamsAssumption DEF Init
<1>1. TypeOK
  <2>1. stream \in Seq(Frame)
    OBVIOUS
  <2>2. progress \in BOOLEAN
    BY Zenon
  <2>3. QED
    BY <2>1, <2>2 DEF TypeOK
<1>2. DecoderInv
  BY DEF DecoderInv, BufferIsTheRest, BufferedSize
<1>3. DecodeStatus = "need_more"
  BY DEF DecodeStatus, BufferedSize
<1>4. CallInv
  BY <1>3 DEF CallInv, NoFrameStranded
<1>5. QED
  BY <1>1, <1>2, <1>4 DEF IInv

\* What TryDecodeFrame guarantees about a frame it returns.
LEMMA DecodedFrame ==
  ASSUME TypeOK, decoded <= Len(stream), DecodeStatus = "decoded"
  PROVE  /\ decoded + 1 <= Len(stream)
         /\ FrameSize(stream[decoded + 1]) \in Nat \ {0}
         /\ FrameSize(stream[decoded + 1]) <= BufferedSize
<1>1. /\ decoded \in Nat /\ size \in Nat /\ off \in Nat
      /\ stream \in Seq(Frame)
  BY DEF TypeOK
<1>2. decoded # Len(stream) /\ ~(BufferedSize < FrameSize(stream[decoded + 1]))
  BY DEF DecodeStatus
<1>3. decoded + 1 \in 1..Len(stream)
  BY <1>1, <1>2
<1>4. stream[decoded + 1] \in Frame
  BY <1>1, <1>3
<1>5. FrameSize(stream[decoded + 1]) \in Nat \ {0}
  BY <1>4, SizesAssumption DEF Frame, FrameSize
<1>6. QED
  BY <1>1, <1>2, <1>3, <1>5 DEF BufferedSize

\* The parts of the state that decide what the decoder does next.
LEMMA DecodeStatusUnchanged ==
  ASSUME UNCHANGED <<stream, base, size, off, decoded, boundary>>
  PROVE  DecodeStatus' = DecodeStatus /\ BufferedSize' = BufferedSize
  BY DEF DecodeStatus, BufferedSize

\* A step of ReadAvailable that returns, having found nothing more to decode or
\* ending the connection.
LEMMA ReturnKeepsIInv ==
  ASSUME IInv, pc # "idle",
         NEW s \in {"ok", "would_block", "peer_closed", "protocol_error"},
         Return(s),
         s \in {"ok", "would_block"} => DecodeStatus = "need_more",
         s = "would_block" => messages = 0
  PROVE  IInv'
<1> USE DEF IInv, Return
<1>1. TypeOK'
  <2>1. handed' \in Nat
    BY DEF TypeOK
  <2>2. QED
    BY <2>1 DEF TypeOK, decoder, locals
<1>2. DecoderInv'
  BY DEF DecoderInv, BufferIsTheRest, BufferedSize, decoder, locals
<1>3. DecodeStatus' = DecodeStatus
  BY DecodeStatusUnchanged DEF decoder
<1>4. handed' = decoded'
  BY DEF CallInv, TypeOK, decoder
<1>5. NoFrameStranded'
  BY <1>3 DEF NoFrameStranded, Ended
<1>6. QED
  BY <1>1, <1>2, <1>4, <1>5 DEF CallInv

LEMMA IInvStep == IInv /\ [Next]_vars => IInv'
<1> SUFFICES ASSUME IInv, [Next]_vars PROVE IInv'
  OBVIOUS
<1> USE SizesAssumption DEF IInv
<1>1. ASSUME NEW n \in 1..RecvChunk, SendBytes(n) PROVE IInv'
  <2>1. TypeOK' /\ DecoderInv'
    BY <1>1 DEF SendBytes, TypeOK, DecoderInv, BufferIsTheRest, BufferedSize,
                decoder, locals
  <2>2. CallInv'
    BY <1>1, DecodeStatusUnchanged
    DEF SendBytes, CallInv, NoFrameStranded, Ended, decoder, locals
  <2>3. QED
    BY <2>1, <2>2
<1>2. CASE PeerCloses
  <2>1. TypeOK' /\ DecoderInv'
    BY <1>2 DEF PeerCloses, TypeOK, DecoderInv, BufferIsTheRest, BufferedSize,
                decoder, locals
  <2>2. CallInv'
    BY <1>2, DecodeStatusUnchanged
    DEF PeerCloses, CallInv, NoFrameStranded, Ended, decoder, locals
  <2>3. QED
    BY <2>1, <2>2
<1>3. CASE CallRead
  <2>1. TypeOK' /\ DecoderInv'
    <3>1. progress' \in BOOLEAN
      BY <1>3, Zenon DEF CallRead
    <3>2. TypeOK'
      BY <1>3, <3>1 DEF CallRead, TypeOK, decoder
    <3>3. DecoderInv'
      BY <1>3 DEF CallRead, DecoderInv, BufferIsTheRest, BufferedSize, decoder
    <3>4. QED
      BY <3>2, <3>3
  <2>2. CallInv'
    BY <1>3 DEF CallRead, CallInv, NoFrameStranded, TypeOK, decoder
  <2>3. QED
    BY <2>1, <2>2
<1>4. CASE DrainOne
  <2>1. PICK consumed \in Nat \ {0} :
          /\ consumed = FrameSize(stream[decoded + 1])
          /\ consumed <= size - off
          /\ decoded + 1 <= Len(stream)
    BY <1>4, DecodedFrame DEF DrainOne, DecoderInv, BufferedSize
  <2>1a. consumed <= size - off
    BY <2>1
  <2>1b. decoded + 1 <= Len(stream)
    BY <2>1
  <2> DEFINE o == off + consumed
  <2>2. /\ ConsumeAndCompact(consumed) /\ boundary' = boundary + consumed
        /\ decoded' = decoded + 1 /\ messages' = messages + 1
        /\ UNCHANGED <<stream, sent, peer, arrived, pc, total_read, progress,
                       status, handed>>
        /\ pc = "drain"
    BY <1>4, <2>1 DEF DrainOne
  <2>3. /\ base \in Nat /\ size \in Nat /\ off \in Nat /\ boundary \in Nat
        /\ sent \in Nat /\ arrived \in Nat /\ decoded \in Nat
        /\ base + size = sent - arrived /\ base + off = boundary /\ off <= size
        /\ size - off <= MaxInput /\ (off = 0 \/ 2 * off < size)
    BY DEF TypeOK, DecoderInv, BufferIsTheRest, BufferedSize
  <2>4. total_read \in Nat /\ total_read <= ReadBudget
    BY DEF TypeOK, DecoderInv
  <2>5. /\ o \in Nat /\ o <= size /\ size - o \in Nat /\ size - o <= MaxInput
        /\ base + o = boundary + consumed
        /\ (base + o) + (size - o) = sent - arrived
        /\ base + o \in Nat
    BY <2>1a, <2>3
  <2>5a. ASSUME ~(o >= size \div 2) PROVE 2 * o < size
    BY <2>3, <2>5, <2>5a
  <2>6. TypeOK' /\ DecoderInv'
    <3> USE DEF DecoderInv, BufferIsTheRest, BufferedSize
    <3>1. CASE o = size
      <4>1. base' = base + size /\ size' = 0 /\ off' = 0
        BY <2>2, <3>1 DEF ConsumeAndCompact
      <4>2. TypeOK'
        BY <2>2, <2>3, <4>1 DEF TypeOK
      <4>3. DecoderInv'
        BY <2>1b, <2>2, <2>3, <2>4, <3>1, <4>1
      <4>4. QED
        BY <4>2, <4>3
    <3>2. CASE o # size /\ o >= size \div 2
      <4>1. base' = base + o /\ size' = size - o /\ off' = 0
        BY <2>2, <3>2 DEF ConsumeAndCompact
      <4>2. TypeOK'
        BY <2>2, <2>3, <2>5, <4>1 DEF TypeOK
      <4>3. DecoderInv'
        BY <2>1b, <2>2, <2>3, <2>4, <2>5, <4>1
      <4>4. QED
        BY <4>2, <4>3
    <3>3. CASE o # size /\ ~(o >= size \div 2)
      <4>1. base' = base /\ size' = size /\ off' = o
        BY <2>2, <3>3 DEF ConsumeAndCompact
      <4>2. TypeOK'
        BY <2>2, <2>3, <4>1 DEF TypeOK
      <4>3. DecoderInv'
        BY <2>1b, <2>2, <2>3, <2>4, <2>5, <2>5a, <3>3, <4>1
      <4>4. QED
        BY <4>2, <4>3
    <3>4. QED
      BY <3>1, <3>2, <3>3
  <2>7. CallInv'
    BY <2>2, <2>3 DEF CallInv, NoFrameStranded, TypeOK
  <2>8. QED
    BY <2>6, <2>7
<1>5. CASE DrainError
  BY <1>5, ReturnKeepsIInv DEF DrainError
<1>6. CASE BudgetReached
  BY <1>6, ReturnKeepsIInv DEF BudgetReached
<1>7. CASE InputBufferFull
  BY <1>7, ReturnKeepsIInv DEF InputBufferFull
<1>8. CASE CallRecv
  <2>1. TypeOK' /\ DecoderInv'
    BY <1>8 DEF CallRecv, TypeOK, DecoderInv, BufferIsTheRest, BufferedSize,
                decoder, locals
  <2>2. CallInv'
    BY <1>8, DecodeStatusUnchanged
    DEF CallRecv, CallInv, NoFrameStranded, decoder, locals
  <2>3. QED
    BY <2>1, <2>2
<1>9. ASSUME NEW n \in 1..RecvChunk, RecvBytes(n) PROVE IInv'
  <2>1. TypeOK' /\ DecoderInv'
    BY <1>9 DEF RecvBytes, TypeOK, DecoderInv, BufferIsTheRest, BufferedSize
  <2>2. CallInv'
    BY <1>9 DEF RecvBytes, CallInv, NoFrameStranded
  <2>3. QED
    BY <2>1, <2>2
<1>10. CASE RecvInterrupted
  <2>1. TypeOK' /\ DecoderInv'
    BY <1>10 DEF RecvInterrupted, TypeOK, DecoderInv, BufferIsTheRest,
                 BufferedSize, decoder, locals
  <2>2. CallInv'
    BY <1>10 DEF RecvInterrupted, CallInv, NoFrameStranded, decoder, locals
  <2>3. QED
    BY <2>1, <2>2
<1>11. CASE RecvWouldBlock
  <2> DEFINE s == IF progress \/ messages > 0 THEN "ok" ELSE "would_block"
  <2>1. s \in {"ok", "would_block"} /\ (s = "would_block" => messages = 0)
    BY DEF TypeOK
  <2>2. DecodeStatus = "need_more" /\ pc # "idle" /\ Return(s)
    BY <1>11 DEF RecvWouldBlock, CallInv
  <2> HIDE DEF s
  <2>3. QED
    BY <2>1, <2>2, ReturnKeepsIInv
<1>12. CASE RecvEnd
  BY <1>12, ReturnKeepsIInv DEF RecvEnd
<1>13. CASE UNCHANGED vars
  <2>1. TypeOK' /\ DecoderInv'
    BY <1>13 DEF vars, TypeOK, DecoderInv, BufferIsTheRest, BufferedSize,
                 decoder, locals
  <2>2. CallInv'
    BY <1>13, DecodeStatusUnchanged
    DEF vars, CallInv, NoFrameStranded, Ended, decoder, locals
  <2>3. QED
    BY <2>1, <2>2
<1>14. QED
  BY <1>1, <1>2, <1>3, <1>4, <1>5, <1>6, <1>7, <1>8, <1>9, <1>10, <1>11, <1>12,
     <1>13
  DEF Next, ReadStep

LEMMA InductiveInvariant == Spec => []IInv
  BY IInvInit, IInvStep, PTL DEF Spec

\* However recv cuts the stream into pieces and whenever CompactIfNeeded moves
\* the buffer, the decoder holds exactly the received bytes that are not yet
\* decoded, and goes on at a frame boundary.
THEOREM InputStreamIntact == Spec => []BufferIsTheRest
<1>1. IInv => BufferIsTheRest
  BY DEF IInv, DecoderInv
<1>2. QED
  BY <1>1, InductiveInvariant, PTL

\* The memory a connection's input takes is bounded by max_input_buffer alone.
THEOREM InputStaysBounded == Spec => []InputBounded
<1>1. IInv => InputBounded
  BY SizesAssumption
  DEF IInv, TypeOK, DecoderInv, BufferIsTheRest, BufferedSize, InputBounded
<1>2. QED
  BY <1>1, InductiveInvariant, PTL

\* ReadAvailable never returns, to be called again, with a complete frame left
\* in the decoder.
THEOREM NoFrameLeftBehind == Spec => []NoFrameStranded
<1>1. IInv => NoFrameStranded
  BY DEF IInv, CallInv
<1>2. QED
  BY <1>1, InductiveInvariant, PTL

\* Every message decoded in a call of ReadAvailable is in the result of that
\* call, also when it ends with an error, the end of the stream or kWouldBlock.
THEOREM EveryMessageHandedOver == Spec => []NoMessageDropped
<1>1. IInv => NoMessageDropped
  BY DEF IInv, CallInv, NoMessageDropped
<1>2. QED
  BY <1>1, InductiveInvariant, PTL
=============================================================================
