CONSTANTS
  Workers = {w1, w2}
  Submitters = {s1}
  Owner = owner
  Item = {a, b, c}
  NoItem = none
  Capacity = 2
SPECIFICATION Spec
INVARIANTS
  ExactlyOnePlace
PROPERTIES
  ImplementsDispatch
  StopReturns
CHECK_DEADLOCK FALSE
