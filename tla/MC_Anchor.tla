----------------------------- MODULE MC_Anchor -----------------------------
(* Model values for checking Anchor with TLC: this host h, another host o. *)
EXTENDS Anchor

CONSTANTS h, o, v1

MCNames == {h, o}
MCVals == {v1}
MCPeers == {o}
=============================================================================
