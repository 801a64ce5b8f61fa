CONSTANTS
  Producers = {p1, p2}
  Consumers = {c1, c2}
  CAPACITY = 3
  MaxPushes = 5
SPECIFICATION Spec
SYMMETRY Symmetry
INVARIANTS
  LockInv
  RingInv
PROPERTIES
  ImplementsQueue
