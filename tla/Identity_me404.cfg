SPECIFICATION Spec
CONSTANTS
  Wiring = "memory"
  r1 = r1
  r2 = r2
  u1 = u1
  u2 = u2
  t1 = t1
  t2 = t2
  t3 = t3
  e1 = e1
  e2 = e2
  Requests = {r1, r2}
  Users = {u1, u2}
  Emails = {e1}
  Tokens = {t1, t2, t3}
  NoUser = NoUser
  NoEmail = NoEmail
  NoToken = NoToken
  RefreshTTL = 2
  AccessTTL = 1
  MaxTime = 2
  Stalls = TRUE
SYMMETRY Symmetry
INVARIANT MeAnswersAsDocumented
