-------------------------- MODULE MCFrontendSession --------------------------
(* Instances of FrontendSession for TLC: model values and symmetry.        *)
EXTENDS FrontendSession, TLC

CONSTANTS r1, r2

=============================================================================
