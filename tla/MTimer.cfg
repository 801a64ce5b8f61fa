CONSTANTS
  MaxTaskSize = 2
  MaxThreadSize = 2
  Controllers = {c1}
  Callers = {u1}
  Intervals = {0, 3}
  WakePeriod = 3
SPECIFICATION FairSpec
INVARIANTS
  TimerInv
PROPERTIES
  CoveredReturns
  DeletedKills
  EndedForGood
CHECK_DEADLOCK FALSE
