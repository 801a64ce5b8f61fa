\* Two chunks fill a queue of two, and a package or a chunk more overflows it;
\* two callers write beside each other and beside the handler.
CONSTANTS
  Users = {u1, u2}
  Io = io
  Partial = TRUE
  Bound = 2
  PackageSize = 2
  MaxChunks = 2
  MaxPackages = 3
SPECIFICATION FairSpec
INVARIANTS
  SendInv
  WireInOrder
PROPERTIES
  Delivered
CHECK_DEADLOCK FALSE
