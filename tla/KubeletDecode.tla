---------------------------- MODULE KubeletDecode ----------------------------
(***************************************************************************)
(* The kubelet metrics source of metrics-server                            *)
(* (metrics/sources/kubelet/kubelet.go).                                   *)
(*                                                                         *)
(* decodeMetrics turns one cAdvisor container into a metric-set key and a  *)
(* metric set: the node, a system container, a pod (infra container POD)  *)
(* or a pod container, with the Kubernetes 1.0 fallbacks for the pod name  *)
(* ("namespace/name") and the container name (parsed from                  *)
(* "k8s_<container>.<hash>_...").  ScrapeMetrics collects the sets of a    *)
(* scrape into a batch keyed by metric-set key.  GetMetricsSources lists   *)
(* one source per node that getNodeHostnameAndIP accepts.                  *)
(*                                                                         *)
(* A container name is a string of CNames; what the code computes from it *)
(* (strings.Index of ".", the slice after "k8s_", the name without its     *)
(* leading "/") is given by the tables DotIndex, Slice4 and TrimSlash.     *)
(* Keys are tuples: the fmt.Sprintf formats are injective on the names     *)
(* used.  Standard and labeled metrics come from tables of another file   *)
(* and are left out; custom metrics are modelled.  The inputs are fixed by *)
(* the initial state: a container, or a node list.                         *)
(***************************************************************************)
EXTENDS Integers, Sequences, FiniteSets, SequencesExt

CONSTANTS
    CNames,       \* container names cAdvisor reports
    RootName,     \* "/", the name isNode accepts
    DotIndex,     \* DotIndex[n]: strings.Index(n, "."), -1 if none
    Slice4,       \* Slice4[n]: n[len("k8s_"):DotIndex[n]] where that is in range
    TrimSlash,    \* TrimSlash[n]: n without a leading "/"
    CLabels,      \* values of the io.kubernetes.container.name label
    NsLabels,     \* values of the io.kubernetes.pod.namespace label
    PodLabels,    \* values of the io.kubernetes.pod.name label
    SplitPodName, \* "ns/pod" -> <<"ns", "pod">> for the labels holding "/"
    Timestamps,   \* timestamps of custom metric values
    MaxValues,    \* bound on the values of a custom metric
    NodeNames,    \* node names
    CondSpecs,    \* node conditions [type, status]
    AddrSpecs,    \* node addresses [type, addr]
    IPv4Addrs,    \* the addresses net.ParseIP(.).To4() accepts
    MaxNodes      \* bound on the nodes the lister returns

Infra == "POD"
Panic == [key |-> "panic"]
Empty == ""       \* the empty label or name
NoKey == <<>>     \* the empty key ""
Nil == [type |-> "nil"]

(* A custom metric spec and the values of one metric in c.Stats[0].      *)
CustomSpecs == [type : {"gauge", "cumulative", "other"},
                format : {"int", "float", "other"}]
NoCustom == [has |-> FALSE, spec |-> [type |-> "gauge", format |-> "int"],
             values |-> <<>>]
Customs == [has : BOOLEAN, spec : CustomSpecs,
            values : BoundedSeq(Timestamps, MaxValues)]

Base == [name : CNames, stats : BOOLEAN, cLabel : CLabels,
         nsLabel : NsLabels, podLabel : PodLabels]
Containers == {b @@ [custom |-> NoCustom] : b \in Base}
(* The node container carrying every custom metric within the bounds.   *)
CustomContainers == {[name |-> RootName, stats |-> TRUE, cLabel |-> "",
                      nsLabel |-> "", podLabel |-> "", custom |-> cm] :
                        cm \in Customs}
Nodes == [name : NodeNames, conds : BoundedSeq(CondSpecs, 1),
          addrs : BoundedSeq(AddrSpecs, 2)]

VARIABLES
    c,        \* the container being decoded
    nodes,    \* the nodes nodeLister.List returns
    listErr   \* whether nodeLister.List failed

vars == <<c, nodes, listErr>>

-----------------------------------------------------------------------------
(* core.NodeKey, NodeContainerKey, PodKey and PodContainerKey.          *)
NodeKey == <<"node">>
NodeContainerKey(cName) == <<"node", cName>>
PodKey(ns, pod) == <<"namespace", ns, pod>>
PodContainerKey(ns, pod, cName) == <<"namespace", ns, pod, cName>>

(* A metric set: its type, container, pod and namespace labels and its  *)
(* custom metric values.                                                 *)
MS(type, cName, pod, ns, values) ==
    [type |-> type, container |-> cName, pod |-> pod, ns |-> ns,
     values |-> values]

(* isNode (metrics-server core, outside this file): the root cgroup.    *)
isNode(x) == x.name = RootName

handleSystemContainer(x, values) ==
    [key |-> NodeContainerKey(TrimSlash[x.name]),
     ms |-> MS("sys_container", TrimSlash[x.name], Empty, Empty, values)]

handleKubernetesContainer(cName, ns, podName, values) ==
    IF cName = Infra
       THEN [key |-> PodKey(ns, podName),
             ms |-> MS("pod", Empty, podName, ns, values)]
       ELSE [key |-> PodContainerKey(ns, podName, cName),
             ms |-> MS("pod_container", cName, podName, ns, values)]

(* Mutant: a value as late as newest also replaces it.                  *)
NewestLast(vals) ==
    FoldLeft(LAMBDA n, i : IF vals[n] <= vals[i] THEN i ELSE n, 1,
             [i \in DOMAIN vals |-> i])

(* The loop over cmValue: newest starts at the first value and is        *)
(* replaced by a strictly later one.  A value is its index, a timestamp. *)
Newest(vals) ==
    FoldLeft(LAMBDA n, i : IF vals[n] < vals[i] THEN i ELSE n, 1,
             [i \in DOMAIN vals |-> i])

(* The custom metric loop: a metric with at least one value and a known  *)
(* type and format becomes [type, valueType, value]; others are skipped.*)
CustomMetricValues(x) ==
    IF ~x.custom.has \/ x.custom.values = <<>>
       \/ x.custom.spec.type = "other" \/ x.custom.spec.format = "other"
       THEN <<>>
       ELSE [custom |-> [type |-> x.custom.spec.type,
                         valueType |-> x.custom.spec.format,
                         value |-> Newest(x.custom.values)]]

(* decodeMetrics: no stats, the node, or the label and name fallbacks,  *)
(* then the custom metrics.  Panic is the run-time panic of the slice   *)
(* c.Name[len("k8s_"):pos] when pos < 4.                                 *)
decodeMetrics(x) ==
    LET values == CustomMetricValues(x)
        split == x.nsLabel = Empty /\ x.podLabel \in DOMAIN SplitPodName
        ns == IF split THEN SplitPodName[x.podLabel][1] ELSE x.nsLabel
        podName == IF split THEN SplitPodName[x.podLabel][2] ELSE x.podLabel
        pos == DotIndex[x.name]
        slicePanics == x.cLabel = Empty /\ 0 <= pos /\ pos < 4
        cName == CASE x.cLabel # Empty -> x.cLabel
                   [] pos < 0 -> Empty
                   [] OTHER -> Slice4[x.name]
    IN CASE ~x.stats -> [key |-> NoKey, ms |-> Nil]
         [] isNode(x) -> [key |-> NodeKey,
                          ms |-> MS("node", Empty, Empty, Empty, values)]
         [] slicePanics -> Panic
         [] cName = Empty \/ ns = Empty \/ podName = Empty ->
                handleSystemContainer(x, values)
         [] OTHER -> handleKubernetesContainer(cName, ns, podName, values)

(* Mutant: the check for a missing key or set is dropped.               *)
ScrapeMetricsNoSkip(list) ==
    LET dec == [i \in DOMAIN list |-> decodeMetrics(list[i])]
        add(b, d) == (d.key :> d.ms) @@ b
    IN IF \E i \in DOMAIN dec : dec[i] = Panic THEN Panic
       ELSE FoldLeft(add, [k \in {} |-> k], dec)

(* ScrapeMetrics: the decoded sets in container order, skipping a       *)
(* container with no key or no set; a later set replaces an earlier one *)
(* of the same key.  A panic of decodeMetrics ends the scrape.          *)
ScrapeMetrics(list) ==
    LET dec == [i \in DOMAIN list |-> decodeMetrics(list[i])]
        add(b, d) == IF d.key = NoKey \/ d.ms = Nil THEN b
                     ELSE (d.key :> d.ms) @@ b
    IN IF \E i \in DOMAIN dec : dec[i] = Panic THEN Panic
       ELSE FoldLeft(add, [k \in {} |-> k], dec)

(* Mutant: the address loop stops at the first valid InternalIP address. *)
getNodeHostnameAndIPFirstIP(node) ==
    LET hosts == SelectSeq(node.addrs, LAMBDA a : a.type = "Hostname" /\ a.addr # "")
        ips == SelectSeq(node.addrs, LAMBDA a : a.type = "InternalIP" /\ a.addr # ""
                                                /\ a.addr \in IPv4Addrs)
    IN IF \E i \in DOMAIN node.conds :
             node.conds[i].type = "Ready" /\ node.conds[i].status # "True"
          THEN [ok |-> FALSE]
       ELSE IF ips = <<>> THEN [ok |-> FALSE]
       ELSE [ok |-> TRUE, ip |-> Head(ips).addr,
             hostname |-> IF hosts = <<>> THEN node.name ELSE Last(hosts).addr]

(* getNodeHostnameAndIP: a Ready condition that is not True rejects the *)
(* node; the last non-empty Hostname address overrides the node name and *)
(* the last non-empty InternalIP address that parses as IPv4 is the IP.  *)
getNodeHostnameAndIP(node) ==
    LET hosts == SelectSeq(node.addrs, LAMBDA a : a.type = "Hostname" /\ a.addr # "")
        ips == SelectSeq(node.addrs, LAMBDA a : a.type = "InternalIP" /\ a.addr # ""
                                                /\ a.addr \in IPv4Addrs)
    IN IF \E i \in DOMAIN node.conds :
             node.conds[i].type = "Ready" /\ node.conds[i].status # "True"
          THEN [ok |-> FALSE]
       ELSE IF ips = <<>> THEN [ok |-> FALSE]
       ELSE [ok |-> TRUE, ip |-> Last(ips).addr,
             hostname |-> IF hosts = <<>> THEN node.name ELSE Last(hosts).addr]

(* GetMetricsSources: nothing if the lister fails or returns no node,   *)
(* else a source for every node getNodeHostnameAndIP accepts, in order.  *)
GetMetricsSources(list, err) ==
    LET acc == SelectSeq(list, LAMBDA n : getNodeHostnameAndIP(n).ok)
    IN IF err \/ list = <<>> THEN <<>>
       ELSE [i \in DOMAIN acc |->
               LET r == getNodeHostnameAndIP(acc[i])
               IN [node |-> acc[i].name, hostname |-> r.hostname, ip |-> r.ip]]

Init ==
    \/ /\ c \in Containers \cup CustomContainers
       /\ nodes = <<>>
       /\ listErr = FALSE
    \/ /\ c = [name |-> RootName, stats |-> FALSE, cLabel |-> "",
               nsLabel |-> "", podLabel |-> "", custom |-> NoCustom]
       /\ nodes \in BoundedSeq(Nodes, MaxNodes) \cup {<<>>}
       /\ listErr \in IF nodes = <<>> THEN BOOLEAN ELSE {FALSE}

Next == UNCHANGED vars

Spec == Init /\ [][Next]_vars

-----------------------------------------------------------------------------
(* The key a metric set's own labels name; the pod enricher looks sets   *)
(* up by the key it builds from the namespace and pod labels.            *)
LabelKey(ms) ==
    CASE ms.type = "node" -> NodeKey
      [] ms.type = "sys_container" -> NodeContainerKey(ms.container)
      [] ms.type = "pod" -> PodKey(ms.ns, ms.pod)
      [] OTHER -> PodContainerKey(ms.ns, ms.pod, ms.container)

(* Reference: the index of the newest value, the first of equal ones.   *)
NewestIndex(vals) ==
    CHOOSE i \in DOMAIN vals :
        /\ \A j \in DOMAIN vals : vals[j] <= vals[i]
        /\ \A j \in 1..(i - 1) : vals[j] < vals[i]

(* Reference: a node is a source if it has no Ready condition other than *)
(* True and some IPv4 InternalIP address; of several addresses of a type *)
(* the one listed last is taken.                                         *)
Ready(n) == \A i \in DOMAIN n.conds : n.conds[i].type = "Ready" => n.conds[i].status = "True"
AddrIdx(n, t, valid) == {i \in DOMAIN n.addrs : n.addrs[i].type = t /\ n.addrs[i].addr \in valid}
LatestAddr(n, idx) == n.addrs[CHOOSE i \in idx : \A j \in idx : j <= i].addr
HostNames == {a.addr : a \in AddrSpecs} \ {Empty}

-----------------------------------------------------------------------------
(* Scraping c together with any other container d yields a batch that    *)
(* holds one set per decoded key and no set under the empty key, and     *)
(* every set sits under the key its own labels name (the Kubernetes 1.0  *)
(* pod-name split included), so the pod enricher finds it.               *)
ScrapeBatchConsistent ==
    nodes = <<>> => \A d \in Containers :
        LET b == ScrapeMetrics(<<c, d>>)
            keys == {decodeMetrics(x).key : x \in {y \in {c, d} : y.stats}}
        IN b # Panic =>
             /\ DOMAIN b = keys
             /\ \A k \in DOMAIN b : LabelKey(b[k]) = k

(* A custom metric of known type and format with values gets the newest *)
(* value, the first of the values that share the latest timestamp.      *)
NewestCustomValue ==
    LET cm == c.custom
        v == decodeMetrics(c).ms.values
    IN c.stats /\ isNode(c) =>
         IF cm.has /\ cm.values # <<>> /\ cm.spec.type # "other"
            /\ cm.spec.format # "other"
            THEN v = [custom |-> [type |-> cm.spec.type, valueType |-> cm.spec.format,
                                  value |-> NewestIndex(cm.values)]]
            ELSE v = <<>>

(* GetMetricsSources lists, in lister order, exactly the ready nodes with *)
(* an IPv4 internal address.  Each source takes the last IPv4 InternalIP  *)
(* address of its node, an IPv6 or empty one never, and the last         *)
(* non-empty Hostname address, or the node name if there is none: the    *)
(* address loop of getNodeHostnameAndIP overwrites and never breaks.     *)
SourcesMatchEligibleNodes ==
    LET src == GetMetricsSources(nodes, listErr)
        ok == SelectSeq(nodes, LAMBDA n : Ready(n) /\ AddrIdx(n, "InternalIP", IPv4Addrs) # {})
    IN /\ Len(src) = (IF listErr THEN 0 ELSE Len(ok))
       /\ \A i \in DOMAIN src :
             LET hosts == AddrIdx(ok[i], "Hostname", HostNames)
             IN /\ src[i].node = ok[i].name
                /\ src[i].ip = LatestAddr(ok[i], AddrIdx(ok[i], "InternalIP", IPv4Addrs))
                /\ src[i].hostname = IF hosts = {} THEN ok[i].name
                                     ELSE LatestAddr(ok[i], hosts)

(* The comment at kubelet.go:155-158 parses names k8s_<container>.<hash>; *)
(* decodeMetrics must return a set, or nothing, for every container the   *)
(* kubelet reports.  The slice at line 162 panics for a container without *)
(* a container-name label whose first "." comes before index 4.          *)
DecodeNeverPanics == decodeMetrics(c) # Panic

=============================================================================
