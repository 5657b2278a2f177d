--------------------------- MODULE MCApiPipeline ---------------------------
(***************************************************************************)
(* Instances of ApiPipeline for TLC: the rates and bursts of app.go, made  *)
(* small and kept in their order.                                          *)
(***************************************************************************)
EXTENDS ApiPipeline, TLC

CONSTANTS r1, r2, c1, c2, u1

MCRate == [p \in Policies |-> CASE p = "global" -> 2 [] OTHER -> 1]
MCBurst == [p \in Policies |-> CASE p = "global" -> 3 [] p = "ip" -> 2 [] OTHER -> 1]

Symmetry == Permutations({r1, r2}) \cup Permutations({c1, c2})
=============================================================================
