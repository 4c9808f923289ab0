CONSTANTS
  Clients = {k1}
  Workers = {w1, w2}
  MaxRequests = 2
  MaxConnections = 1
  MaxInFlight = 2
  QueueCapacity = 2
  ReadBudget = 1
  WriteBudget = 1
  MaxOutput = 2
  SendSpace = 1
  MaxEpollEvents = 4
  MaxAccepts = 2
  EventfdMax = 2
  KeyMax = 6
  PeerMoves = {"half_close", "close"}
  Stops = {"Stop", "signal"}
  Outcomes = {"encodable"}
  Faults = FALSE
SPECIFICATION ServerFairSpec
PROPERTIES
  AllAnswered
  NoBusyLoop
  StopEndsRun
CHECK_DEADLOCK FALSE
