CONSTANTS
    r1 = r1
    amS = amS
    amA = amA
    amSRV = amSRV
    h1 = h1
    h2 = h2
    Rules <- MCRules
    AMAddrs <- MCAMAddrs
    Kind <- MCKind
    HasPort <- MCHasPort
    StaticHost <- MCStaticHost
    Hosts <- MCHosts
    InitRecords <- MCInitRecords
    BadURLs = {}
    Capacity = 2
    MaxBatchSize = 1
    MaxNotify = 0
    MaxChanges = 2
SPECIFICATION Spec
INVARIANT AMSetAtomic
PROPERTY AMSetConverges
\* The ruler process exits once every actor has returned.
CHECK_DEADLOCK FALSE
