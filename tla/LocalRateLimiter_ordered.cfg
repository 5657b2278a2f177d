\* No call waits for the mutex, and there is room for both keys.
SPECIFICATION Spec
CONSTANTS
  k1 = k1  k2 = k2  c1 = c1  c2 = c2
  Keys = {k1, k2}
  Calls = {c1, c2}
  Rate = 2
  Burst = 2
  Unit = 3
  visitorTTL = 3
  maxVisitors = 2
  Lag = 0
  MaxTime = 8
  MaxEvictions = 2
  NoVisitor = NoVisitor
  NoKey = NoKey
SYMMETRY Symmetry
PROPERTIES ImplementsTokenBucket IdleVisitorsGo
