CONSTANTS
    r1 = r1
    amS = amS
    amA = amA
    amSRV = amSRV
    h1 = h1
    h2 = h2
    Rules <- MCRules
    AMAddrs <- MCAMAddrsStatic
    Kind <- MCKind
    HasPort <- MCHasPort
    StaticHost <- MCStaticHost
    Hosts <- MCHosts
    InitRecords <- MCInitRecordsNone
    BadURLs = {}
    Capacity = 2
    MaxBatchSize = 1
    MaxNotify = 3
    MaxChanges = 1
SPECIFICATION Spec
INVARIANT TypeOK AlertsAccounted
PROPERTY QueueDrained
\* The ruler process exits once every actor has returned.
CHECK_DEADLOCK FALSE
