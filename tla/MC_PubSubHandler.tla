-------------------------- MODULE MC_PubSubHandler --------------------------
(* Bounds for checking PubSubHandler with TLC. *)
EXTENDS PubSubHandler
=============================================================================
