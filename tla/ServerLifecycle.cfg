CONSTANTS
  Main = main
  Workers = {w1, w2}
  Item = {a}
  NoItem = none
  Capacity = 1
  Signals = {SIGINT, SIGTERM}
  Connections = {c1}
  MaxFd = 5
  SizeMax = 31
  PortMax = 15
  CommandLines <- MCCommandLines
  DefaultConfig <- MCDefaultConfig
SPECIFICATION Spec
INVARIANTS
  DescriptorsOwnedOnce
  WorkersFindMembers
  NothingLeftBehind
  SignalsHeld
  AcceptedOptionsConstruct
PROPERTIES
  HeldSignalEndsProcess
CHECK_DEADLOCK FALSE
