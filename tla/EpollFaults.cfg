CONSTANTS
  Clients = {k1, k2}
  Workers = {w1, w2}
  MaxRequests = 2
  MaxConnections = 1
  MaxInFlight = 1
  QueueCapacity = 1
  ReadBudget = 2
  WriteBudget = 1
  MaxOutput = 1
  SendSpace = 1
  MaxEpollEvents = 4
  MaxAccepts = 2
  EventfdMax = 1
  KeyMax = 6
  PeerMoves = {"malformed", "half_close", "close", "reset"}
  Stops = {"Stop"}
  Outcomes = {"encodable", "unencodable"}
  Faults = TRUE
SPECIFICATION Spec
SYMMETRY Symmetry
INVARIANTS
  TablesAgree
  NobodyForgotten
CHECK_DEADLOCK FALSE
