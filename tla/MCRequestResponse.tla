-------------------------- MODULE MCRequestResponse --------------------------
(* Small instances of RequestResponse for TLC: bytes of four values. *)
EXTENDS RequestResponse

MCDigest(iterations, seed) == (iterations * 4097 + Len(seed) * 259 + 7) % Base^8
MCErrorPayload == <<3, 1>>

\* Request ids at both ends of the range and between; an echo of every size up
\* to one more than allowed; work around the limits on rounds and on units; a
\* response sent as a request; a type outside the enumeration.
Filled(n) == [i \in 1..n |-> i % Base]
Work(n, s) == EncodeWorkRequestPayload(n, Filled(s))
MCRequests ==
  [type : {kEchoRequest}, request_id : {27},
   payload : {Filled(n) : n \in 0..(kMaxPayloadSize + 1)}]
  \cup [type : {kEchoRequest}, request_id : {0, Base^8 - 1}, payload : {Filled(2)}]
  \cup [type : {kWorkRequest}, request_id : {27},
        payload : {Filled(3)} \cup {Work(n, s) : n \in 0..7, s \in 0..4}]
  \cup [type : {kEchoResponse, kErrorResponse, 0, 6}, request_id : {27},
        payload : {Filled(1)}]

\* One byte away from these: every kind of bad header, the largest payload plus
\* one, and other types and sizes that are fine.
MCOtherRequests ==
  [type : {kEchoRequest, kWorkRequest}, request_id : {27},
   payload : {<<>>, Work(2, 1), Filled(kMaxPayloadSize)}]
MCFollowing == BigEndian(kMagic, 4)

\* Numbers as they are written: plain, with something behind, signed, signed
\* behind white space, past the width; other words; payloads around the limits.
Plain(n) == [space |-> FALSE, minus |-> FALSE, digits |-> n, rest |-> FALSE]
Word(w) == Argument(w, Plain(None), 4)
Option(w) == Argument(w, [Plain(None) EXCEPT !.minus = TRUE], 9)
Number(n) == Argument("number", Plain(n), 2)
MCNumbers ==
  {Number(n) : n \in {0, 1, 3, kMaxWorkIterations, kMaxWorkIterations + 1, SizeMax + 1}}
    \cup {Argument("number", [Plain(2) EXCEPT !.space = s, !.minus = m, !.rest = r], 3) :
           s, m, r \in BOOLEAN}
    \cup {Argument("number", [Plain(SizeMax) EXCEPT !.space = TRUE, !.minus = TRUE], 4)}
Payloads ==
  {Argument("text", Plain(None), n) : n \in {0, 2, kMaxPayloadSize - kIterationBytes,
     kMaxPayloadSize - kIterationBytes + 1, kMaxPayloadSize, kMaxPayloadSize + 1}}
Pieces ==
  {<<>>} \cup {<<a>> : a \in Payloads \cup {Option("--other"), Option("--work-iterations")}}
    \cup {<<Option("--message-type"), Word(w)>> : w \in {"echo", "work", "nope"}}
    \cup {<<Option("--work-iterations"), a>> : a \in MCNumbers \cup {Option("--other")}}
MCCommandLines ==
  {<<>>, <<Option("--help")>>} \cup {<<a>> : a \in MCNumbers}
    \cup {<<Number(1)>> \o p \o q \o r : p, q, r \in Pieces}
MCDefaultConfig ==
  [o \in ClientOptions \cup {"payload"} |->
     CASE o = "payload" -> 5 [] o = "--message-type" -> "echo"
       [] o = "--work-iterations" -> 2]
=============================================================================
