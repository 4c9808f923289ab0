CONSTANTS
  Clients = {k1, k2}
  Workers = {w1, w2}
  MaxRequests = 3
  MaxConnections = 2
  MaxInFlight = 2
  QueueCapacity = 1
  ReadBudget = 2
  WriteBudget = 1
  MaxOutput = 2
  SendSpace = 1
  MaxEpollEvents = 4
  MaxAccepts = 2
  EventfdMax = 1
  KeyMax = 6
  PeerMoves = {"half_close"}
  Stops = {}
  Outcomes = {"encodable"}
  Faults = FALSE
SPECIFICATION Spec
SYMMETRY Symmetry
INVARIANTS
  ResponsesInOrder
  InFlightInOnePlace
  ReorderBufferBounded
  NoLostWakeup
CHECK_DEADLOCK FALSE
