CONSTANTS
  Sessions = {s1, s2}
  Callers = {c}
  Notifier = notifier
  NoThread = nobody
  Bound = 2
  MaxPackages = 4
SPECIFICATION FairSpecNotify

  
PROPERTIES
  EachTaken
CHECK_DEADLOCK FALSE
