\* Two calls, pools of one and of two connections: one session and two calls that
\* exchange its token, or two that register its address.
SPECIFICATION FairSpec
CONSTANTS
  c1 = c1  c2 = c2  e1 = e1
  Calls = {c1, c2}
  Emails = {e1}
  NoEmail = NoEmail
  PoolSizes <- MCPoolSizes
  RefreshTTL = 1
  MaxTokens = 3
  MaxTime = 1
INVARIANTS AnswersAreTrue NoStaleExchange
PROPERTIES ImplementsSessions CallsReturn
