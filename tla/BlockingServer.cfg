CONSTANTS
  Clients = {k1, k2}
  MaxRequests = 2
  SendSpace = 1
  NoClient = none
  SizeMax = 31
  PortMax = 15
  CommandLines <- MCCommandLines
  PeerMoves = {"malformed", "close"}
SPECIFICATION Spec
INVARIANTS
  OneResponseEach
PROPERTIES
  MalformedHurtsOnlyItsSender
CHECK_DEADLOCK FALSE
