\* A header of two bytes and packages of up to five.  One of 3 is in a full read with the start of
\* the next; behind its header, 4 is more than the rest of a full read and less than the whole; 5
\* is the greatest; 6 is refused.  Three nodes overflow within three pushes,
\* and the fourth writes the node of the first.
CONSTANTS
  Producers = {p1}
  Consumers = {c1}
  CAPACITY = 3
  MaxPushes = 4
  HEAD = 2
  MAX = 5
  Sizes = {3, 4, 5, 6}
  MaxSent = 3
SPECIFICATION SpecRead
INVARIANTS
  ReadInv
  FifoUntilOverflow
  FullReadsOnly
PROPERTIES
  StuckForGood
  Drains
  RawFloods
CHECK_DEADLOCK FALSE
