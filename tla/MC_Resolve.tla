---------------------------- MODULE MC_Resolve ----------------------------
(* Bounds for checking Resolve with TLC. *)
EXTENDS Resolve

CONSTANTS s1, s2, x1
=============================================================================
