\* Every container of the name and label tables, the node container with
\* every custom metric of up to 3 values, and every node list of up to 2 nodes.
CONSTANTS
    CNames <- MCCNames
    RootName = "/"
    DotIndex <- MCDotIndex
    Slice4 <- MCSlice4
    TrimSlash <- MCTrimSlash
    CLabels = {"", "POD", "app"}
    NsLabels = {"", "ns"}
    PodLabels = {"", "pod", "ns/pod", "ns/"}
    SplitPodName <- MCSplitPodName
    Timestamps = {1, 2}
    MaxValues = 3
    NodeNames = {"n1", "n2"}
    CondSpecs <- MCCondSpecs
    AddrSpecs <- MCAddrSpecs
    IPv4Addrs <- MCIPv4Addrs
    MaxNodes = 2
SPECIFICATION Spec
INVARIANT ScrapeBatchConsistent NewestCustomValue SourcesMatchEligibleNodes
