CONSTANTS
  Sizes = {2, 3}
  MaxOutput = 5
  WriteBudget = 2
  SendSpace = 3
  MaxQueued = 10
SPECIFICATION Spec
INVARIANTS
  OutputIsTheRest
  OutputBounded
PROPERTIES
  OutputDelivered
CHECK_DEADLOCK FALSE
