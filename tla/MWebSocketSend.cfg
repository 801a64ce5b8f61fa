CONSTANTS
  Users = {u1, u2}
  Handler = strand
  MaxMessages = 3
SPECIFICATION FairSpec
INVARIANTS
  WebSocketInv
PROPERTIES
  StrandedForGood
  FirstIsRead
CHECK_DEADLOCK FALSE
