CONSTANTS
    a1 = a1
    a2 = a2
    a3 = a3
    nStatic = nStatic
    nSD = nSD
    p1 = p1
    p2 = p2
    NilUpdate = NilUpdate
    NoUpdate = NoUpdate
    NoAddr = NoAddr
    Addrs <- MCAddrs
    StaticNames <- MCStaticNames
    SDNames <- MCSDNames
    Records <- MCRecords
    PeerIds <- MCPeerIds
    PeerAddr <- MCPeerAddr
    MaxChanges = 2
    MaxQueries = 1
SPECIFICATION Spec
INVARIANT TypeOK
PROPERTY RemovedTargetForgotten
