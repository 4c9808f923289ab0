----------------------- MODULE ConnectionOutput_proofs -----------------------
(***************************************************************************)
(* Proofs about ConnectionOutput, for all buffer limits, write budgets and *)
(* response sizes.  The inductive invariant is the conjunction of the type *)
(* invariant and the two safety properties: where the buffer stands in the *)
(* stream and how large it is depend on each other, because QueueOutput    *)
(* decides by the pending bytes what becomes of the sent prefix.           *)
(***************************************************************************)
EXTENDS ConnectionOutput, TLAPS

IInv == TypeOK /\ OutputIsTheRest /\ OutputBounded

LEMMA IInvInit == Init => IInv
  BY OutputAssumption DEF Init, IInv, TypeOK, OutputIsTheRest, OutputBounded

LEMMA IInvStep == IInv /\ [Next]_vars => IInv'
<1> SUFFICES ASSUME IInv, [Next]_vars PROVE IInv'
  OBVIOUS
<1> USE OutputAssumption DEF IInv, TypeOK, OutputIsTheRest, OutputBounded,
        Pending, buffer
<1>1. ASSUME NEW n \in Sizes, QueueOutput(n) PROVE IInv'
  <2>1. CASE Pending = 0
    BY <1>1, <2>1 DEF QueueOutput
  <2>2. CASE Pending # 0
    BY <1>1, <2>2 DEF QueueOutput
  <2>3. QED
    BY <2>1, <2>2
<1>2. ASSUME NEW n \in Sizes, QueueOutputRejected(n) PROVE IInv'
  BY <1>2 DEF QueueOutputRejected
<1>3. CASE CallWrite
  BY <1>3 DEF CallWrite
<1>4. ASSUME NEW n \in 1..WriteBudget, SendBytes(n) PROVE IInv'
  BY <1>4 DEF SendBytes, Sending
<1>5. CASE SendWouldBlock
  BY <1>5 DEF SendWouldBlock, Sending, Return
<1>6. CASE SendFails
  BY <1>6 DEF SendFails, Sending, Return
<1>7. CASE BudgetSpent
  BY <1>7 DEF BudgetSpent, Return
<1>8. CASE AllSent
  BY <1>8 DEF AllSent, Return
<1>9. CASE ClientReads
  BY <1>9 DEF ClientReads
<1>10. CASE PeerResets
  BY <1>10 DEF PeerResets
<1>11. CASE UNCHANGED vars
  BY <1>11 DEF vars
<1>12. QED
  BY <1>1, <1>2, <1>3, <1>4, <1>5, <1>6, <1>7, <1>8, <1>9, <1>10, <1>11
  DEF Next, WriteStep

LEMMA InductiveInvariant == Spec => []IInv
  BY IInvInit, IInvStep, PTL DEF Spec

\* The variables keep their types; in particular no offset or size of the
\* output buffer ever goes below zero.
THEOREM OutputTypeCorrect == Spec => []TypeOK
  BY InductiveInvariant, PTL DEF IInv

\* WriteAvailable sends the bytes QueueOutput accepted, all of them, in order
\* and once, for every way send cuts them and every moment of compaction.
THEOREM OutputStreamIntact == Spec => []OutputIsTheRest
  BY InductiveInvariant, PTL DEF IInv

\* output_buffer_ never holds more than max_output_buffer bytes, and a call of
\* WriteAvailable never sends more than its budget.
THEOREM OutputStaysBounded == Spec => []OutputBounded
  BY InductiveInvariant, PTL DEF IInv
=============================================================================
