CONSTANTS
    a1 = a1
    a2 = a2
    a3 = a3
    nStatic = nStatic
    nSD = nSD
    p1 = p1
    p2 = p2
    EmptyAddr = EmptyAddr
    NilUpdate = NilUpdate
    NoUpdate = NoUpdate
    Addrs <- MCAddrs
    StaticNames <- MCStaticNames
    SDNames <- MCSDNames
    Records <- MCRecords
    PeerIds <- MCPeerIds
    PeerAddr <- MCPeerAddr
    MaxChanges = 3
SPECIFICATION Spec
INVARIANT TypeOK
PROPERTY StoreSetConverges
\* The querier process exits once every actor has returned.
CHECK_DEADLOCK FALSE
