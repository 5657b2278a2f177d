-------------------------- MODULE MCPostgresStore --------------------------
(***************************************************************************)
(* Instances of PostgresStore for TLC.                                     *)
(***************************************************************************)
EXTENDS PostgresStore

CONSTANTS c1, c2, e1

MCPoolSizes == {1, 2}
=============================================================================
