\* Two connections and three packages for two coroutines: the second reads after the first, beside
\* it, and after the session was closed under the first.
CONSTANTS
  Coros = {i1, i2}
  MaxPackages = 3
  MaxConns = 2
SPECIFICATION SpecCoro
INVARIANTS
  CoroInv
  Emptied
PROPERTIES
  ArrivedIsRead
CHECK_DEADLOCK FALSE
