\* Two requests that may never return; every configuration, every service up or
\* down at any time.
SPECIFICATION FairSpec
CONSTANTS
  r1 = r1  r2 = r2
  Requests = {r1, r2}
INVARIANTS CleanupComplete NotCutOff CleanExitAnswersAll ServesWithOpenClients ProdIsDurable ReadyMeansReachable
PROPERTIES Exits
