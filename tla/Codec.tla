-------------------------------- MODULE Codec --------------------------------
(***************************************************************************)
(* The wire format (src/protocol/codec.cpp): EncodeMessage and             *)
(* TryDecodeFrame as functions on sequences of bytes.                      *)
(*                                                                         *)
(* The layout is the code's, field by field and byte by byte.  Base is the *)
(* number of values of a byte, 256 in the code: with a smaller one the     *)
(* same layout stays within the integers TLC computes with.                *)
(***************************************************************************)
EXTENDS Integers, Sequences, FiniteSetsExt

CONSTANTS
  Base,            \* values of a Byte
  kMagic,
  kVersion,
  kMaxPayloadSize

ASSUME CodecAssumption ==
  /\ Base \in Nat /\ Base > 2  \* five message types fit in two bytes
  /\ kMagic \in 0..(Base^4 - 1) /\ kVersion \in 0..(Base^2 - 1)
  /\ kMaxPayloadSize \in 0..(Base^4 - 1)

kHeaderSize == 20

kEchoRequest == 1
kEchoResponse == 2
kWorkRequest == 3
kWorkResponse == 4
kErrorResponse == 5

IsKnownMessageType(type) == type \in kEchoRequest..kErrorResponse

\* std::nullopt, where an optional holds a sequence that is never empty.
Nullopt == <<>>

\* AppendU16, AppendU32 and AppendU64: the low "width" bytes of the value, the
\* most significant first.
BigEndian(value, width) ==
  [i \in 1..width |-> (value \div Base^(width - i)) % Base]

\* ReadU16, ReadU32 and ReadU64; offsets count from 0.
ReadBigEndian(bytes, offset, width) ==
  MapThenSumSet(LAMBDA i : bytes[offset + i] * Base^(width - i), 1..width)

-----------------------------------------------------------------------------
EncodeMessage(m) ==
  IF Len(m.payload) > kMaxPayloadSize \/ ~IsKnownMessageType(m.type) THEN Nullopt
  ELSE BigEndian(kMagic, 4) \o BigEndian(kVersion, 2) \o BigEndian(m.type, 2)
         \o BigEndian(Len(m.payload), 4) \o BigEndian(m.request_id, 8)
         \o m.payload

NoMessage == [type |-> 0, request_id |-> 0, payload |-> <<>>]
NeedMoreData == [status |-> "need_more", message |-> NoMessage, error |-> "none",
                 consumed |-> 0]
Error(e) == [NeedMoreData EXCEPT !.status = "error", !.error = e]
Decoded(m, n) == [NeedMoreData EXCEPT !.status = "decoded", !.message = m,
                                      !.consumed = n]

PayloadSize(bytes) == ReadBigEndian(bytes, 8, 4)

\* Bugs that are not in the code: the version is not looked at; the largest
\* payload is off by one; all bytes at hand are the frame.
AnyVersion(version) == TRUE
TooLargeByTwo(size) == size > kMaxPayloadSize + 1
AllBytes(bytes) == Len(bytes)

IsSupported(version) == version = kVersion
IsTooLarge(size) == size > kMaxPayloadSize

\* The first check a complete header fails.  kFrameSizeOverflow cannot be
\* reached: a size_t holds kHeaderSize + kMaxPayloadSize.
HeaderError(bytes) ==
  IF ReadBigEndian(bytes, 0, 4) # kMagic THEN "invalid_magic"
  ELSE IF ~IsSupported(ReadBigEndian(bytes, 4, 2)) THEN "unsupported_version"
  ELSE IF ~IsKnownMessageType(ReadBigEndian(bytes, 6, 2)) THEN "unknown_type"
  ELSE IF IsTooLarge(PayloadSize(bytes)) THEN "payload_too_large"
  ELSE "none"

HeaderMessage(bytes, payload) ==
  [type |-> ReadBigEndian(bytes, 6, 2), request_id |-> ReadBigEndian(bytes, 12, 8),
   payload |-> payload]

FrameSize(bytes) == kHeaderSize + PayloadSize(bytes)

TryDecodeFrame(bytes) ==
  IF Len(bytes) < kHeaderSize THEN NeedMoreData
  ELSE IF HeaderError(bytes) # "none" THEN Error(HeaderError(bytes))
  ELSE IF Len(bytes) < FrameSize(bytes) THEN NeedMoreData
  ELSE Decoded(
         HeaderMessage(bytes, SubSeq(bytes, kHeaderSize + 1, FrameSize(bytes))),
         FrameSize(bytes))
=============================================================================
