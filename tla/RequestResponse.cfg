CONSTANTS
  Base = 4
  kMagic = 108
  kVersion = 1
  kMaxPayloadSize = 10
  kMaxWorkIterations = 6
  kMaxWorkUnits = 11
  Digest <- MCDigest
  ErrorPayload <- MCErrorPayload
  Requests <- MCRequests
  OtherRequests <- MCOtherRequests
  Following <- MCFollowing
  SizeMax = 31
  PortMax = 15
  CommandLines <- MCCommandLines
  DefaultConfig <- MCDefaultConfig
SPECIFICATION Spec
INVARIANTS
  OnlyEncodingsDecode
  ResponsesEncodable
  WorkLimitExact
  ClientArgumentsServed
PROPERTIES
  VerdictIsFinal
  EveryRequestAnswered
CHECK_DEADLOCK FALSE
