------------------------------ MODULE MC_System ------------------------------
(* Model values and a connection layout for checking System with TLC. *)
EXTENDS System

CONSTANTS p1, k1

MCSysPeers == {p1}
MCSysClientPeers == {}
MCSysConns == {k1}
MCSysConnPeer == [c \in Conns |-> p1]
=============================================================================
