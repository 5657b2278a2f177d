\* 3 tokens a second, a burst of 2, seconds of 4 ms: a bucket fills in 3 ms
\* and lives for 6, and the clock runs past that.  MaxExact is the least the
\* constructor accepts for that rate and burst.
SPECIFICATION Spec
CONSTANTS
  k1 = k1  c1 = c1  c2 = c2  k2 = k2
  Keys = {k1}
  Calls = {c1, c2}
  RatePerSecond = 3
  Burst = 2
  MSPerSecond = 4
  MinimumIdleTTL = 4
  MaxExact = 12
  MaxRetries = 1
  MaxTime = 9
  NoHash = NoHash
  NoKey = NoKey
SYMMETRY Symmetry
INVARIANTS TypeOK WithinRate NumbersStayExact
PROPERTIES DeniedOnlyWhenExhausted ImplementsTokenBucket
