\* Local limiters, one address.
SPECIFICATION Spec
CONSTANTS
  r1 = r1  r2 = r2  c1 = c1  c2 = c2  u1 = u1
  Requests = {r1, r2}
  Clients = {c1}
  Users = {u1}
  NoClient = NoClient
  NoUser = NoUser
  Backend = "local"
  Rate <- MCRate
  Burst <- MCBurst
  Unit = 2
  MaxTime = 1
  MaxRequests = 3
INVARIANT AuthIPLimitsAuthEndpoints
