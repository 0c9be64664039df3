\* Two host peers and one client, kmin = 1 < kmax = 2 so that every phase
\* boundary can be crossed, two connections per peer so that refcounts
\* above one happen.
CONSTANTS
    p1 = p1
    p2 = p2
    c1 = c1
    Peers <- MCPeers
    ClientPeers <- MCClientPeers
    KMin = 1
    KMax = 2
    ZeroPhase = "Orphaned"
    NoPeer = NoPeer
    NoState = NoState
    QCap = 2
    NCap = 1
    MaxConns = 2
    MaxOpens = 3

SPECIFICATION Spec
INVARIANT TypeOK
INVARIANT LivePeersAreTracked
PROPERTY NeighborhoodRefinesLog
\* MaxOpens ends the supply of connection events; the loop then waits in
\* `range sub.Out()` for events that never come, which is not a deadlock.
CHECK_DEADLOCK FALSE
