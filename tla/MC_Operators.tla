---------------------------- MODULE MC_Operators ----------------------------
(***************************************************************************)
(* Every pure-operator part of the project in one run: the metrics-server *)
(* operators (MC_MetricsServer: KubeletDecode and PodEnricher), the query *)
(* operators (MC_QueryOperators: QueryDecode and StoreDedup).  An initial *)
(* state picks the part it is an input of; the variables of the other     *)
(* part hold a fixed value that is an input of theirs; the properties of  *)
(* MC_QueryOperators are guarded by `part`.                               *)
(***************************************************************************)
EXTENDS MC_MetricsServer

CONSTANTS
    Vals, LabelNames, LabelValues, MaxScalarLen, MaxSamples,
    a1, a2, p1, p2, DNS, EmptyAddr, MaxLen, MaxDNS

VARIABLES
    part, in, specs, peerAddr, dnsAddrs   \* MC_QueryOperators

QO == INSTANCE MC_QueryOperators

allVars == <<vars, batch, part, in, specs, peerAddr, dnsAddrs>>

(* The fixed values of the parts a state is not about.                    *)
MSPinned == c = RootOnly /\ nodes = PinnedNodes /\ listErr = FALSE
            /\ batch = [k \in {} |-> k]
QOPinned == /\ in = QO!QD!Error /\ specs = <<>> /\ dnsAddrs = <<>>
            /\ peerAddr = [p \in QO!MCPeerIds |-> EmptyAddr]

OpsInit ==
    \/ /\ QO!Init /\ MSPinned
    \/ /\ MSInit
       /\ QOPinned /\ part = "metrics"

OpsNext == UNCHANGED allVars

OpsSpec == OpsInit /\ [][OpsNext]_allVars

(* See QueryDecode and StoreDedup for the code behaviour each of these   *)
(* states.                                                                *)
(* Spec 4.6 and 8: a scalar answer decodes exactly when it is a pair.     *)
ScalarDecodeMatchesReference == QO!ScalarDecodeMatchesReference

(* queryPrometheusInstant returns the reference result, labels sorted.   *)
InstantQueryMatchesReference == QO!InstantQueryMatchesReference

(* removeDuplicateStoreSpecs keeps the last spec of every address.        *)
StoreDedupMatchesReference == QO!StoreDedupMatchesReference

(* The querier's store specs cover gossip and DNS once per address.       *)
StoreSpecsCoverSources == QO!StoreSpecsCoverSources

=============================================================================
