------------------------------ MODULE MC_Graph ------------------------------
(* Bounds for checking Graph with TLC. *)
EXTENDS Graph
=============================================================================
