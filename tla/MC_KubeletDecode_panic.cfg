\* A container without a container-name label whose name has a "." before
\* index 4 reaches the slice at kubelet.go:162.
CONSTANTS
    CNames <- MCCNames
    RootName = "/"
    DotIndex <- MCDotIndex
    Slice4 <- MCSlice4
    TrimSlash <- MCTrimSlash
    CLabels = {"", "POD", "app"}
    NsLabels = {"", "ns"}
    PodLabels = {"", "pod", "ns/pod", "ns/"}
    SplitPodName <- MCSplitPodName
    Timestamps = {1, 2}
    MaxValues = 3
    NodeNames = {"n1", "n2"}
    CondSpecs <- MCCondSpecs
    AddrSpecs <- MCAddrSpecs
    IPv4Addrs <- MCIPv4Addrs
    MaxNodes = 1
SPECIFICATION Spec
INVARIANT DecodeNeverPanics
