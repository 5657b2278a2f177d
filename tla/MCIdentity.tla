----------------------------- MODULE MCIdentity -----------------------------
(* Instances of Identity for TLC: model values, symmetry and bounds.       *)
EXTENDS Identity, TLC

CONSTANTS r1, r2, u1, u2, t1, t2, t3, e1, e2

\* Requests, ids, jtis and addresses are interchangeable: nothing orders or names them.
Symmetry == Permutations(Requests) \cup Permutations(Users)
              \cup Permutations(Tokens) \cup Permutations(Emails)
=============================================================================
