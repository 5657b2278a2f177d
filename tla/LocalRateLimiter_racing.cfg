\* Calls that wait a tick for the mutex, two keys and room for one.
SPECIFICATION Spec
CONSTANTS
  k1 = k1  k2 = k2  c1 = c1  c2 = c2
  Keys = {k1, k2}
  Calls = {c1, c2}
  Rate = 2
  Burst = 1
  Unit = 3
  visitorTTL = 4
  maxVisitors = 1
  Lag = 1
  MaxTime = 6
  MaxEvictions = 2
  NoVisitor = NoVisitor
  NoKey = NoKey
SYMMETRY Symmetry
INVARIANTS TypeOK VisitorsBounded ExcessIsExplained
CHECK_DEADLOCK FALSE
