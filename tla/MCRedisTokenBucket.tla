------------------------- MODULE MCRedisTokenBucket -------------------------
(***************************************************************************)
(* Instances of RedisTokenBucket for TLC.                                  *)
(***************************************************************************)
EXTENDS RedisTokenBucket, TLC

CONSTANTS k1, k2, c1, c2

Symmetry == Permutations({c1, c2})
=============================================================================
