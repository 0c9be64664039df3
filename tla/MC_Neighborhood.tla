-------------------------- MODULE MC_Neighborhood --------------------------
(***************************************************************************)
(* The tracker alone, driven by a well-behaved translator: every host      *)
(* connection's Opened is emitted before its Closed, and client            *)
(* connections are flagged as such.  The translator's real ordering is     *)
(* checked in Pipeline.                                                    *)
(***************************************************************************)
EXTENDS Neighborhood

CONSTANTS p1, p2, c1,
    MaxConns,  \* simultaneous connections per peer
    MaxOpens   \* connections per peer over a behaviour (the refcount only grows)

MCPeers == {p1, p2, c1}
MCClientPeers == {c1}

VARIABLES
    conns,    \* peer -> connections open in the network layer
    opens     \* peer -> connections ever opened (bounds the behaviour)

vars == <<m, out, emitting, connQ, nhQ, conns, opens>>

\* A connection to p is identified: the translator emits Opened with isClient.
Connect(p) ==
    /\ conns[p] < MaxConns
    /\ opens[p] < MaxOpens
    /\ Len(connQ) < QCap
    /\ connQ' = Append(connQ, [peer |-> p, client |-> p \in ClientPeers,
                               state |-> Opened])
    /\ conns' = [conns EXCEPT ![p] = @ + 1]
    /\ opens' = [opens EXCEPT ![p] = @ + 1]
    /\ UNCHANGED <<m, out, emitting, nhQ>>

\* One of p's connections closes: onDisconnected emits Closed.
Disconnect(p) ==
    /\ conns[p] > 0
    /\ Len(connQ) < QCap
    /\ connQ' = Append(connQ, [peer |-> p, client |-> p \in ClientPeers,
                               state |-> Closed])
    /\ conns' = [conns EXCEPT ![p] = @ - 1]
    /\ UNCHANGED <<m, out, emitting, nhQ, opens>>

\* Graph's subloop takes an EvtNeighborhoodChanged from its subscription.
ConsumeNhood ==
    /\ nhQ # << >>
    /\ nhQ' = Tail(nhQ)
    /\ UNCHANGED <<m, out, emitting, connQ, conns, opens>>

Init ==
    /\ TrackerInit
    /\ connQ = << >>
    /\ nhQ = << >>
    /\ conns = [p \in Peers |-> 0]
    /\ opens = [p \in Peers |-> 0]

Next ==
    \/ HandleConnEvt /\ UNCHANGED <<conns, opens>>
    \/ EmitNhood /\ UNCHANGED <<conns, opens>>
    \/ \E p \in Peers : Connect(p) \/ Disconnect(p)
    \/ ConsumeNhood

Spec == Init /\ [][Next]_vars

-----------------------------------------------------------------------------
\* Events of p still in the subscription buffer with the given state.
Pending(p, st) ==
    Cardinality({i \in 1..Len(connQ) : connQ[i].peer = p /\ connQ[i].state = st})

\* Connections of p whose Opened the loop has received and whose Closed it has not.
ReceivedConns(p) == conns[p] - Pending(p, Opened) + Pending(p, Closed)

TypeOK ==
    /\ TrackerTypeOK
    /\ \A p \in DOMAIN m : m[p] \in 1..MaxOpens
    /\ conns \in [Peers -> 0..MaxConns]
    /\ opens \in [Peers -> 0..MaxOpens]

(***************************************************************************)
(* neighborhoodEventLoop never drops a host peer while the loop has seen   *)
(* one of its connections open and not yet close.                          *)
(***************************************************************************)
LivePeersAreTracked ==
    \A p \in HostPeers : ReceivedConns(p) > 0 => p \in DOMAIN m

(***************************************************************************)
(* neighborhoodEventLoop implements NeighborhoodLog: whatever the refcounts *)
(* and the order of Opened and Closed, the EvtNeighborhoodChanged stream is *)
(* a faithful change log of the key set of neighborhood.m.  Each event     *)
(* adds or removes exactly one peer, its N is the new size and its To the  *)
(* phase of that size, its From is the previous event's To, and no change  *)
(* goes unreported.                                                        *)
(***************************************************************************)
NeighborhoodRefinesLog == Log!Spec
=============================================================================
