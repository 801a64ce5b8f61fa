\* Two signals: a second one for a stop() that has run, or that runs.  Two
\* users of one context: one at a time wraps the index, two at once go beyond.
CONSTANTS
  Users = {u1, u2}
  Loopers = {u2}
  Stoppers = {disp, own}
  Dispatcher = disp
  Owner = own
  Size = 1
  Signals = {s1, s2}
SPECIFICATION FairSpec
INVARIANTS
  ShutdownInv
PROPERTIES
  Dispatched
  StopEnds
  AddReturns
\* A program that has ended takes no step.
CHECK_DEADLOCK FALSE
