\* One host peer reached over one connection: the node gains its only
\* neighbor and loses it.  KMin = 1 as in the default configuration's
\* lower bound; a two-step deadline so that the scheduler fires repeatedly.
CONSTANTS
    p1 = p1
    k1 = k1
    Peers <- MCSysPeers
    ClientPeers <- MCSysClientPeers
    Conns <- MCSysConns
    ConnPeer <- MCSysConnPeer
    KMin = 1
    KMax = 2
    ZeroPhase = "Orphaned"
    NoPeer = NoPeer
    NoState = NoState
    NoEvent = NoEvent
    QCap = 1
    PCap = 1
    NCap = 1
    Deadlines = {2}
    Deltas = {1}
    TCap = 1
    RCap = 1

SPECIFICATION SysSpec
PROPERTY OrphanedNodeBoots
\* The single connection lives once; afterwards the node idles on timesteps.
CHECK_DEADLOCK FALSE
