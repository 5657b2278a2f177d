\* A tab that may log in twice, two requests at a time, its own and strangers'.
SPECIFICATION FairSpec
CONSTANTS
  r1 = r1  r2 = r2
  Requests = {r1, r2}
  MaxLogins = 2
  Asks <- TabAsks
  NoAsk <- Other
INVARIANTS Accounted AnswersReadable SignedOutForgets RefusedTokenIsNotReused
PROPERTIES EveryRequestAnswered
