CONSTANTS
  Clients = {k1, k2}
  MaxRequests = 2
  SendSpace = 1
  NoClient = none
  SizeMax = 31
  PortMax = 15
  CommandLines <- MCCommandLines
  PeerMoves = {"close"}
SPECIFICATION Spec
INVARIANTS
  PeerDisconnectReturnsCleanly
CHECK_DEADLOCK FALSE
