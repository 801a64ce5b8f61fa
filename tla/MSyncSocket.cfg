\* total_bytes wraps at 4, so that a size of 4 is one that it cannot hold; two bytes of room make
\* every larger write partial.
CONSTANTS
  Wrap = 4
  Room = 2
  Sizes = {1, 3, 4}
  MaxCalls = 2
SPECIFICATION Spec
INVARIANTS
  SyncInv
PROPERTIES
  CallsEnd
CHECK_DEADLOCK FALSE
