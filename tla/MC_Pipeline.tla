---------------------------- MODULE MC_Pipeline ----------------------------
(* Model values and connection layouts for checking Pipeline with TLC. *)
EXTENDS Pipeline

CONSTANTS p1, c1, k1, k2, k3

MCPeers == {p1, c1}
MCClientPeers == {c1}

\* Two connections to the host peer p1 and one to the client c1.
MCConns == {k1, k2, k3}

MCConnPeer == [c \in Conns |-> IF c = k3 THEN c1 ELSE p1]
=============================================================================
