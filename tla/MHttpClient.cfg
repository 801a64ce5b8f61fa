\* Two connections: one that outlives the other, one accepted when the server
\* is destroyed.  One target, which has a file or not yet.
CONSTANTS
  Conns = {c1, c2}
  Targets = {t1}
SPECIFICATION FairSpecHttp
INVARIANTS
  HttpInv
  AnswerHeldBack
PROPERTIES
  Released
  OrphansTouch
\* Every connection may be over.
CHECK_DEADLOCK FALSE
