\* One host peer with two connections (so a connection can close while the
\* other's Opened is in flight) and one client connection; one-slot buffers
\* everywhere so every emit can block.
CONSTANTS
    p1 = p1
    c1 = c1
    k1 = k1
    k2 = k2
    k3 = k3
    Peers <- MCPeers
    ClientPeers <- MCClientPeers
    Conns <- MCConns
    ConnPeer <- MCConnPeer
    KMin = 1
    KMax = 2
    ZeroPhase = "Orphaned"
    NoPeer = NoPeer
    NoState = NoState
    NoEvent = NoEvent
    QCap = 1
    PCap = 1
    NCap = 1

SPECIFICATION Spec
INVARIANT CallbackNeverBlocks
\* Each connection lives once, so the supply of network events ends; the
\* loops then wait on their channels, and a panic ends the process.
CHECK_DEADLOCK FALSE
