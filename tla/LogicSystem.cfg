CONSTANT MaxMsgs = 4
SPECIFICATION FairSpec
INVARIANTS
  LogicInv
  HeadOfLine
PROPERTIES
  HeadServed
  StopEnds
CHECK_DEADLOCK FALSE
