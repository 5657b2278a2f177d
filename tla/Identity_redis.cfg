SPECIFICATION Spec
CONSTANTS
  Wiring = "redis"
  r1 = r1
  r2 = r2
  u1 = u1
  u2 = u2
  t1 = t1
  t2 = t2
  t3 = t3
  e1 = e1
  e2 = e2
  Requests = {r1, r2}
  Users = {u1, u2}
  Emails = {e1}
  Tokens = {t1, t2, t3}
  NoUser = NoUser
  NoEmail = NoEmail
  NoToken = NoToken
  RefreshTTL = 1
  AccessTTL = 1
  MaxTime = 1
  Stalls = FALSE
SYMMETRY Symmetry
INVARIANT OneLiveTokenPerSession
INVARIANT SuccessIsStored
INVARIANT FailedRegistrationLeavesNoUser
INVARIANT NoUnattendedUser
PROPERTY ImplementsSessions
