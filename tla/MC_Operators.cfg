\* The metrics-server and query operators over the inputs of
\* MC_MetricsServer and MC_QueryOperators.
CONSTANTS
    CNames <- MCCNames
    RootName = "/"
    DotIndex <- MCDotIndex
    Slice4 <- MCSlice4
    TrimSlash <- MCTrimSlash
    CLabels = {"", "POD", "app"}
    NsLabels = {"", "ns"}
    PodLabels = {"", "pod", "ns/pod", "ns/"}
    SplitPodName <- MCSplitPodName
    Timestamps = {1, 2}
    MaxValues = 3
    NodeNames = {"n1", "n2"}
    CondSpecs <- MCCondSpecs
    AddrSpecs <- MCAddrSpecs
    IPv4Addrs <- MCIPv4Addrs
    MaxNodes = 2
    pod1 = pod1
    pod2 = pod2
    c1 = c1
    nginx = nginx
    other = other
    node1 = node1
    h1 = h1
    h2 = h2
    uid1 = uid1
    img = img
    custom = custom
    MaxSets = 7
    Vals = {0, 1}
    LabelNames = {1, 2}
    LabelValues = {0}
    MaxScalarLen = 3
    MaxSamples = 2
    a1 = a1
    a2 = a2
    p1 = p1
    p2 = p2
    DNS = DNS
    EmptyAddr = EmptyAddr
    MaxLen = 3
    MaxDNS = 2
SPECIFICATION OpsSpec
INVARIANT ScrapeBatchConsistent NewestCustomValue SourcesMatchEligibleNodes
INVARIANT EnricherMatchesReference EnrichedPodsComplete
INVARIANT ScalarDecodeMatchesReference InstantQueryMatchesReference
INVARIANT StoreDedupMatchesReference
INVARIANT StoreSpecsCoverSources
