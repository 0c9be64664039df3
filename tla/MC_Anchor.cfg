CONSTANTS
    h = h
    o = o
    v1 = v1
    Names <- MCNames
    LocalID = h
    Vals <- MCVals
    Proc = Proc
    NoValue = NoValue
    Peers <- MCPeers
    MaxDepth = 1
SPECIFICATION Spec
INVARIANT LoadSeesStore
CHECK_DEADLOCK FALSE
