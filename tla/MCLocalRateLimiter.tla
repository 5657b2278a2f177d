------------------------- MODULE MCLocalRateLimiter -------------------------
(***************************************************************************)
(* Instances of LocalRateLimiter for TLC.                                  *)
(***************************************************************************)
EXTENDS LocalRateLimiter, TLC

CONSTANTS k1, k2, c1, c2

Symmetry == Permutations(Keys) \cup Permutations(Calls)
=============================================================================
