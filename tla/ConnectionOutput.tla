-------------------------- MODULE ConnectionOutput --------------------------
(***************************************************************************)
(* The writing half of network::Connection (src/network/connection.cpp):   *)
(* QueueOutput, CompactOutputBuffer and WriteAvailable, counted in bytes.  *)
(*                                                                         *)
(* The bytes queued on a connection form one stream; output_buffer_ is     *)
(* known by the stretch of it that it holds: bytes base .. base + size - 1,*)
(* of which the first off are sent.  When the buffer is replaced or grown, *)
(* the new bytes are those queued last.                                    *)
(***************************************************************************)
EXTENDS Integers

CONSTANTS
  Sizes,        \* sizes of the encoded responses
  MaxOutput,    \* limits_.max_output_buffer
  WriteBudget,  \* max_write_bytes
  SendSpace,    \* room in the socket's send buffer
  MaxQueued     \* bound: bytes queued altogether

ASSUME OutputAssumption ==
  /\ Sizes \subseteq Nat \ {0}
  /\ MaxOutput \in Nat \ {0} /\ WriteBudget \in Nat \ {0} /\ SendSpace \in Nat \ {0}
  /\ MaxQueued \in Nat

VARIABLES
  queued,    \* bytes accepted by QueueOutput so far
  base, size, off,  \* stream position of output_buffer_[0], its size(), and
                    \* output_offset_
  delivered, \* bytes handed to the socket so far
  in_socket, \* bytes in the send buffer, not yet read by the client
  peer,      \* "open", or "reset" once send fails
  pc,        \* "idle", or "write" inside WriteAvailable
  written,   \* result.bytes_written
  status     \* what the last WriteAvailable returned

buffer == <<base, size, off>>
vars == <<queued, buffer, delivered, in_socket, peer, pc, written, status>>

Pending == size - off

TypeOK ==
  /\ {queued, base, size, off, delivered, in_socket, written} \subseteq Nat
  /\ peer \in {"open", "reset"}
  /\ pc \in {"idle", "write"}
  /\ status \in {"none", "ok", "would_block", "peer_closed"}

Init ==
  /\ queued = 0
  /\ base = 0 /\ size = 0 /\ off = 0
  /\ delivered = 0 /\ in_socket = 0 /\ peer = "open"
  /\ pc = "idle" /\ written = 0 /\ status = "none"

-----------------------------------------------------------------------------
(* QueueOutput, which begins with CompactOutputBuffer: the sent prefix is  *)
(* erased, base + off becoming the position of the first byte.             *)

\* A bug that is not in the code: the sent prefix stays.
QueueOutputUncompacted(n) ==
  /\ pc = "idle" /\ status # "peer_closed"
  /\ n <= MaxOutput - Pending
  /\ size' = size + n
  /\ queued' = queued + n
  /\ UNCHANGED <<base, off, delivered, in_socket, peer, pc, written, status>>

\* A bug that is not in the code: a non-empty buffer is replaced.
QueueOutputReplaces(n) ==
  /\ pc = "idle" /\ status # "peer_closed"
  /\ n <= MaxOutput - Pending
  /\ base' = queued /\ size' = n /\ off' = 0
  /\ queued' = queued + n
  /\ UNCHANGED <<delivered, in_socket, peer, pc, written, status>>

\* The response fits next to what is pending.
QueueOutput(n) ==
  /\ pc = "idle" /\ status # "peer_closed"
  /\ n <= MaxOutput - Pending
  /\ off' = 0
  /\ IF Pending = 0
     THEN base' = queued /\ size' = n
     ELSE base' = base + off /\ size' = Pending + n
  /\ queued' = queued + n
  /\ UNCHANGED <<delivered, in_socket, peer, pc, written, status>>

\* It does not fit: QueueOutput returns false, with the buffer compacted.
QueueOutputRejected(n) ==
  /\ pc = "idle" /\ status # "peer_closed"
  /\ n > MaxOutput - Pending
  /\ base' = base + off /\ size' = Pending /\ off' = 0
  /\ UNCHANGED <<queued, delivered, in_socket, peer, pc, written, status>>

-----------------------------------------------------------------------------
(* WriteAvailable *)

CallWrite ==
  /\ pc = "idle" /\ status # "peer_closed"
  /\ pc' = "write"
  /\ written' = 0
  /\ status' = "none"
  /\ UNCHANGED <<queued, buffer, delivered, in_socket, peer>>

Return(s) ==
  /\ pc' = "idle"
  /\ status' = s
  /\ UNCHANGED <<queued, delivered, in_socket, peer, written>>

Sending == pc = "write" /\ off < size /\ written < WriteBudget

\* send takes some of the bytes.
SendBytes(n) ==
  /\ Sending
  /\ peer = "open"
  /\ n <= Pending
  /\ n <= WriteBudget - written
  /\ n <= SendSpace - in_socket
  /\ off' = off + n
  /\ written' = written + n
  /\ delivered' = delivered + n
  /\ in_socket' = in_socket + n
  /\ UNCHANGED <<queued, base, size, peer, pc, status>>

SendWouldBlock ==
  /\ Sending
  /\ peer = "open" /\ in_socket = SendSpace
  /\ Return("would_block")
  /\ UNCHANGED buffer

SendFails ==
  /\ Sending
  /\ peer = "reset"
  /\ Return("peer_closed")
  /\ UNCHANGED buffer

\* A bug that is not in the code: the buffer is cleared also when the budget
\* ends the loop.
BudgetSpentClears ==
  /\ pc = "write" /\ off < size /\ written >= WriteBudget
  /\ base' = base + size /\ size' = 0 /\ off' = 0
  /\ Return("ok")

BudgetSpent ==
  /\ pc = "write" /\ off < size /\ written >= WriteBudget
  /\ Return("ok")
  /\ UNCHANGED buffer

\* Everything is sent: the buffer is cleared.
AllSent ==
  /\ pc = "write" /\ off >= size
  /\ base' = base + size /\ size' = 0 /\ off' = 0
  /\ Return("ok")

(* The client (external) *)

ClientReads ==
  /\ in_socket > 0
  /\ \E n \in 1..in_socket : in_socket' = in_socket - n
  /\ UNCHANGED <<queued, buffer, delivered, peer, pc, written, status>>

PeerResets ==
  /\ peer = "open"
  /\ peer' = "reset"
  /\ UNCHANGED <<queued, buffer, delivered, in_socket, pc, written, status>>

-----------------------------------------------------------------------------
WriteStep ==
  \/ Pending > 0 /\ CallWrite
  \/ \E n \in 1..WriteBudget : SendBytes(n)
  \/ SendWouldBlock \/ SendFails \/ BudgetSpent \/ AllSent

Next ==
  \/ \E n \in Sizes : queued + n <= MaxQueued /\ QueueOutput(n)
  \/ \E n \in Sizes : QueueOutputRejected(n)
  \/ CallWrite \/ WriteStep
  \/ ClientReads
  \/ PeerResets

\* epoll reports the socket writable, and the reactor calls WriteAvailable,
\* while output is pending; the client goes on reading.
Spec == Init /\ [][Next]_vars /\ WF_vars(WriteStep) /\ WF_vars(ClientReads)

-----------------------------------------------------------------------------
(* Properties *)

\* The buffer holds exactly the queued bytes not yet sent, after its sent
\* prefix: the client gets the queued bytes in order, none lost or repeated,
\* whatever pieces send takes and whenever the buffer is compacted.
OutputIsTheRest ==
  /\ off <= size
  /\ base + off = delivered
  /\ base + size = queued

\* Pending and stored output stay within max_output_buffer, sent prefix
\* included, and a call writes no more than its budget.
OutputBounded == size <= MaxOutput /\ written <= WriteBudget

\* Queued bytes reach the socket as long as the connection lives and its
\* client reads, in spite of short sends, full buffers and write budgets.
OutputDelivered ==
  \A n \in 1..MaxQueued : (queued >= n) ~> (delivered >= n \/ peer = "reset")
=============================================================================
