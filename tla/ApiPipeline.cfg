\* Redis limiters that fail closed or open, two addresses: two requests, and the
\* scripts that run again for them, exhaust every bucket.
SPECIFICATION Spec
CONSTANTS
  r1 = r1  r2 = r2  c1 = c1  c2 = c2  u1 = u1
  Requests = {r1, r2}
  Clients = {c1, c2}
  Users = {u1}
  NoClient = NoClient
  NoUser = NoUser
  Backend = "redis"
  Rate <- MCRate
  Burst <- MCBurst
  Unit = 2
  MaxTime = 1
  MaxRequests = 2
SYMMETRY Symmetry
INVARIANTS TypeOK NeverBypassed InnerChargesFollowOuter FailOpenStaysAvailable
