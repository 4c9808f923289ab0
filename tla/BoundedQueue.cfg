CONSTANTS
  Callers = {p1, p2}
  Consumers = {c1, c2, c3}
  Item = {x}
  Capacity = 3
SPECIFICATION Spec
SYMMETRY Symmetry
INVARIANTS
  TypeOK
  EnoughWakeups
  CloseWakesAll
