-------------------------- MODULE MC_MetricsServer --------------------------
(***************************************************************************)
(* The two metrics-server parts in one run: the kubelet source            *)
(* (KubeletDecode, with the containers and nodes of MC_KubeletDecode) and *)
(* the pod-based enricher (PodEnricher).  An initial state either picks a *)
(* kubelet input with the empty batch, or a batch with the root container *)
(* and one node; both fixed values are inputs of the other part, so every *)
(* invariant holds of every state.                                        *)
(* Enricher: the pod of TestPodEnricher (containers c1 and nginx with its *)
(* requests and limits), a pod the lister does not know, a container      *)
(* scraped for the known pod but absent from its spec, and a node set.    *)
(***************************************************************************)
EXTENDS MC_KubeletDecode

CONSTANTS pod1, pod2, c1, nginx, other, node1, h1, h2, uid1, img, custom,
          MaxSets

VARIABLES
    batch   \* PodEnricher: batch.MetricSets before Process

PESpecs ==
    pod1 :> ((c1 :> [image |-> img,
                     requests |-> [cpu |-> 100, memory |-> 555000],
                     limits |-> [r \in {} |-> 0]])
             @@ (nginx :> [image |-> img,
                           requests |-> [cpu |-> 333, memory |-> 1000000],
                           limits |-> [cpu |-> 2222, memory |-> 3333500]]))

PE == INSTANCE PodEnricher
        WITH Pods <- {pod1, pod2}, Known <- {pod1},
             Containers <- {c1, nginx, other}, PodSpecs <- PESpecs,
             UID <- pod1 :> uid1, PodHost <- (pod1 :> h1) @@ (pod2 :> h2),
             OtherKeys <- {<<node1>>},
             BatchKeys <- {<<pod1>>, <<pod2>>, <<pod1, c1>>, <<pod1, nginx>>,
                           <<pod1, other>>, <<pod2, c1>>, <<node1>>},
             BatchImages <- {custom}

RootOnly == [name |-> RootName, stats |-> FALSE, cLabel |-> "",
             nsLabel |-> "", podLabel |-> "", custom |-> NoCustom]

(* A one-node list of the lister: the kubelet part of an enricher state, *)
(* an input of KubeletDecode's second initial branch that its scrape     *)
(* invariant need not re-check against every container.                  *)
PinnedNodes == <<CHOOSE n \in Nodes : TRUE>>

MSInit ==
    \/ /\ Init
       /\ batch = [k \in {} |-> k]
    \/ /\ c = RootOnly /\ nodes = PinnedNodes /\ listErr = FALSE
       /\ PE!Init

MSNext == UNCHANGED <<vars, batch>>

MSSpec == MSInit /\ [][MSNext]_<<vars, batch>>

(* Whatever order Go iterates batch.MetricSets in, Process returns the    *)
(* reference batch: no scraped set is replaced by a stub, every container *)
(* of a seen pod gets its requests and limits exactly once.               *)
EnricherMatchesReference == PE!EnricherMatchesReference

(* The lister may change between the lookups of one Process call; every  *)
(* scraped set survives and every enriched pod comes with its pod set and *)
(* a set per spec container.                                              *)
EnrichedPodsComplete == PE!EnrichedPodsComplete

=============================================================================
