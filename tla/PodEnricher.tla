---------------------------- MODULE PodEnricher ----------------------------
(***************************************************************************)
(* The pod-based enricher of metrics-server                                *)
(* (metrics/processors/pod_based_enricher.go).                             *)
(*                                                                         *)
(* Process walks the metric sets of a batch in Go map order.  A pod set of *)
(* a pod the lister knows gets its UID and labels and, through addPodInfo, *)
(* a stub set for every container of the pod spec that has none; a        *)
(* container set gets its requests and limits, its base image if unset,    *)
(* the pod's UID and labels and, through addContainerInfo, a stub pod set  *)
(* (enriched by addPodInfo) if the pod has none.  Stubs go to newMs, which *)
(* is merged into the batch after the walk.                                *)
(*                                                                         *)
(* A pod is a model value standing for namespace/name; podId and the       *)
(* labels label are always set together and are one field podInfo; the    *)
(* node, hostname and host-id labels are one field host.  Quantities are   *)
(* in milli-units, so MilliValue is the identity and Value rounds up.      *)
(* The batch is fixed by the initial state; the invariant compares Process *)
(* in every map order with a reference definition.                         *)
(***************************************************************************)
EXTENDS Naturals, Sequences, FiniteSets, SequencesExt

CONSTANTS
    Pods,          \* namespace/name of pods
    Known,         \* pods the pod lister holds
    Containers,    \* container names
    PodSpecs,      \* PodSpecs[p]: container name -> [image, requests, limits]
    UID,           \* UID[p]
    PodHost,       \* PodHost[p]: node labels of the metric sets of pod p
    BatchKeys,     \* keys a batch may hold: <<p>>, <<p, c>> or a key of OtherKeys
    OtherKeys,     \* keys of node and system-container metric sets
    BatchImages,   \* base-image labels a scraped container set may carry
    MaxSets        \* bound on the number of metric sets in a batch

ResourceNames == {"cpu", "memory"}
Unset == "unset"

ASSUME \A p \in Known :
          \A c \in DOMAIN PodSpecs[p] :
             /\ DOMAIN PodSpecs[p][c].requests \subseteq ResourceNames
             /\ DOMAIN PodSpecs[p][c].limits \subseteq ResourceNames

PodKey(p) == <<p>>
PodContainerKey(p, c) == <<p, c>>

(* A metric set: its type label, pod and container labels, the host      *)
(* labels, podId/labels, base image and metric values.                   *)
MS(type, p, c, host, info, image, values) ==
    [type |-> type, pod |-> p, container |-> c, host |-> host,
     podInfo |-> info, image |-> image, values |-> values]

VARIABLES
    batch   \* batch.MetricSets before Process

vars == <<batch>>

-----------------------------------------------------------------------------
(* resource.Quantity in milli-units.                                      *)
MilliValue(q) == q
Value(q) == (q + 999) \div 1000

(* The four request and limit values: CPU in millicores, memory in      *)
(* bytes, 0 for a resource the container does not list.                 *)
updateContainerResourcesAndLimits(ms, container) ==
    LET req == container.requests
        lim == container.limits
        res == [cpu_request    |-> IF "cpu" \in DOMAIN req
                                      THEN MilliValue(req.cpu) ELSE 0,
                memory_request |-> IF "memory" \in DOMAIN req
                                      THEN Value(req.memory) ELSE 0,
                cpu_limit      |-> IF "cpu" \in DOMAIN lim
                                      THEN MilliValue(lim.cpu) ELSE 0,
                memory_limit   |-> IF "memory" \in DOMAIN lim
                                      THEN Value(lim.memory) ELSE 0]
    IN [ms EXCEPT !.values = res @@ ms.values]

(* Mutant: a stub is created for every spec container not yet in newMs, *)
(* even if the batch has a set for it.                                   *)
addPodInfoIgnoreBatch(podMs, p, b, newMs) ==
    LET ms == [podMs EXCEPT !.podInfo = UID[p]]
        missing == {c \in DOMAIN PodSpecs[p] :
                       PodContainerKey(p, c) \notin DOMAIN newMs}
        stub(c) == updateContainerResourcesAndLimits(
                       MS("pod_container", p, c, ms.host, UID[p],
                          PodSpecs[p][c].image, <<>>), PodSpecs[p][c])
    IN [ms |-> ms,
        newMs |-> [k \in {PodContainerKey(p, c) : c \in missing} |->
                      stub(k[2])] @@ newMs]

(* addPodInfo: set UID and labels, then a stub for every container of   *)
(* the spec that has no set in the batch or in newMs, with the pod set's *)
(* host labels, the spec's image and its requests and limits.            *)
addPodInfo(podMs, p, b, newMs) ==
    LET ms == [podMs EXCEPT !.podInfo = UID[p]]
        missing == {c \in DOMAIN PodSpecs[p] :
                       PodContainerKey(p, c) \notin DOMAIN b \cup DOMAIN newMs}
        stub(c) == updateContainerResourcesAndLimits(
                       MS("pod_container", p, c, ms.host, UID[p],
                          PodSpecs[p][c].image, <<>>), PodSpecs[p][c])
    IN [ms |-> ms,
        newMs |-> [k \in {PodContainerKey(p, c) : c \in missing} |->
                      stub(k[2])] @@ newMs]

(* Mutant: no stub pod set is made for a container set whose pod has no *)
(* set.                                                                   *)
addContainerInfoNoPodStub(key, containerMs, p, b, newMs) ==
    LET c == key[2]
        withSpec ==
            IF c \in DOMAIN PodSpecs[p]
               THEN LET u == updateContainerResourcesAndLimits(containerMs,
                                                                PodSpecs[p][c])
                    IN IF u.image = Unset THEN [u EXCEPT !.image = PodSpecs[p][c].image]
                                          ELSE u
               ELSE containerMs
    IN [ms |-> [withSpec EXCEPT !.podInfo = UID[p]], newMs |-> newMs]

(* addContainerInfo: requests, limits and a default base image for a    *)
(* container of the spec, UID and labels, then a stub pod set (itself   *)
(* passed to addPodInfo) if neither the batch nor newMs has the pod.    *)
addContainerInfo(key, containerMs, p, b, newMs) ==
    LET c == key[2]
        withSpec ==
            IF c \in DOMAIN PodSpecs[p]
               THEN LET u == updateContainerResourcesAndLimits(containerMs,
                                                                PodSpecs[p][c])
                    IN IF u.image = Unset THEN [u EXCEPT !.image = PodSpecs[p][c].image]
                                          ELSE u
               ELSE containerMs
        ms == [withSpec EXCEPT !.podInfo = UID[p]]
    IN IF PodKey(p) \in DOMAIN b \cup DOMAIN newMs
          THEN [ms |-> ms, newMs |-> newMs]
          ELSE LET stub == MS("pod", p, Unset, ms.host, Unset, Unset, <<>>)
                   r == addPodInfo(stub, p, b, newMs)
               IN [ms |-> ms, newMs |-> (PodKey(p) :> r.ms) @@ r.newMs]

(* getPod: the lister's Get fails, or returns nil, for a pod it does not *)
(* hold; the caller logs and skips the set.  `lister` is what the        *)
(* informer-backed lister holds at the time of the call.                 *)
getPod(p, lister) == p \in lister

(* The loop of Process over the keys in map order `order`: b is the      *)
(* batch (its sets are changed in place), newMs the stubs, and views[i]  *)
(* the lister as the i-th iteration's getPod sees it.                    *)
RECURSIVE ProcessLoop(_, _, _, _)
ProcessLoop(order, views, b, newMs) ==
    IF order = <<>> THEN [b |-> b, newMs |-> newMs]
    ELSE LET k == Head(order)
             v == b[k]
             r == CASE v.type = "pod" /\ getPod(v.pod, Head(views)) ->
                         addPodInfo(v, v.pod, b, newMs)
                    [] v.type = "pod_container" /\ getPod(v.pod, Head(views)) ->
                         addContainerInfo(k, v, v.pod, b, newMs)
                    [] OTHER -> [ms |-> v, newMs |-> newMs]
         IN ProcessLoop(Tail(order), Tail(views), [b EXCEPT ![k] = r.ms],
                        r.newMs)

(* Process with the lister as each iteration sees it: the loop, then     *)
(* newMs merged into the batch.                                          *)
ProcessSeeing(b, order, views) ==
    LET r == ProcessLoop(order, views, b, [k \in {} |-> k])
    IN r.newMs @@ r.b

(* Process while the informer leaves the lister alone.                   *)
Process(b, order) == ProcessSeeing(b, order, [i \in DOMAIN order |-> Known])

(* The lister as n successive lookups see it when the informer applies   *)
(* one update, adding or deleting pods, between lookup j and lookup j+1.  *)
(* (An update before the first or after the last lookup is a fixed       *)
(* lister, the case of Process.)                                          *)
ListerViews(n) ==
    {[i \in 1..n |-> IF i <= j THEN u[1] ELSE u[2]] :
        j \in 1..(n - 1),
        u \in {u \in (SUBSET Known) \X (SUBSET Known) : u[1] # u[2]}}

-----------------------------------------------------------------------------
(* The metric set a scrape produces under key k: a pod set, a container *)
(* set carrying base-image label img (or none), or a node set.           *)
ScrapedSet(k, img) ==
    CASE k \in OtherKeys ->
            MS("node", Unset, Unset, Unset, Unset, Unset, [usage |-> 1])
      [] Len(k) = 1 ->
            MS("pod", k[1], Unset, PodHost[k[1]], Unset, Unset, [usage |-> 1])
      [] OTHER ->
            MS("pod_container", k[1], k[2], PodHost[k[1]], Unset, img,
               [usage |-> 1])

Batches ==
    UNION {{[k \in K |-> ScrapedSet(k, imgs[k])] :
              imgs \in [K -> BatchImages \cup {Unset}]} :
           K \in {K \in SUBSET BatchKeys : Cardinality(K) <= MaxSets}}

Init == batch \in Batches

Next == UNCHANGED vars

Spec == Init /\ [][Next]_vars

-----------------------------------------------------------------------------
(* Reference: the requests and limits of a container spec, CPU in whole  *)
(* millicores, memory in the smallest whole number of bytes covering it, *)
(* 0 for what the spec does not list (the values TestPodEnricher checks).*)
Bytes(q) == q \div 1000 + (IF q % 1000 = 0 THEN 0 ELSE 1)
ListedOr0(list, r, conv(_)) == IF r \in DOMAIN list THEN conv(list[r]) ELSE 0
ExpectedResources(s) ==
    [cpu_request    |-> ListedOr0(s.requests, "cpu", LAMBDA q : q),
     memory_request |-> ListedOr0(s.requests, "memory", Bytes),
     cpu_limit      |-> ListedOr0(s.limits, "cpu", LAMBDA q : q),
     memory_limit   |-> ListedOr0(s.limits, "memory", Bytes)]

(* Reference: the batch after enrichment.  Every set of a known pod gets  *)
(* the pod's UID and labels, a container of the spec also its resources  *)
(* and, if unset, its image; every known pod with a set in the batch has *)
(* a pod set and a set for every container of its spec afterwards, the   *)
(* stubs carrying the pod's host labels and no scraped values.           *)
ExpectedBatch(b) ==
    LET seen == {p \in Known : \E k \in DOMAIN b :
                    b[k].type \in {"pod", "pod_container"} /\ b[k].pod = p}
        enrich(v) ==
            IF v.type \notin {"pod", "pod_container"} \/ v.pod \notin Known
               THEN v
            ELSE IF v.type = "pod_container" /\ v.container \in DOMAIN PodSpecs[v.pod]
               THEN LET s == PodSpecs[v.pod][v.container] IN
                    [v EXCEPT !.podInfo = UID[v.pod],
                              !.image = IF @ = Unset THEN s.image ELSE @,
                              !.values = ExpectedResources(s) @@ @]
            ELSE [v EXCEPT !.podInfo = UID[v.pod]]
        podStubs == {PodKey(p) : p \in seen} \ DOMAIN b
        containerStubs == UNION {{PodContainerKey(p, c) : c \in DOMAIN PodSpecs[p]} :
                                    p \in seen} \ DOMAIN b
    IN [k \in DOMAIN b \cup podStubs \cup containerStubs |->
          IF k \in DOMAIN b THEN enrich(b[k])
          ELSE IF k \in podStubs
             THEN MS("pod", k[1], Unset, PodHost[k[1]], UID[k[1]], Unset, <<>>)
          ELSE MS("pod_container", k[1], k[2], PodHost[k[1]], UID[k[1]],
                  PodSpecs[k[1]][k[2]].image,
                  ExpectedResources(PodSpecs[k[1]][k[2]]))]

(* Whatever order Go iterates batch.MetricSets in, Process returns the    *)
(* reference batch: no scraped set is replaced by a stub, every container *)
(* of a seen pod gets its requests and limits exactly once.               *)
EnricherMatchesReference ==
    \A o \in SetToSeqs(DOMAIN batch) : Process(batch, o) = ExpectedBatch(batch)

(* The map orders that matter while the lister changes: the sets of pods *)
(* the lister can hold, in every order, then the others in a fixed order; *)
(* the lookups of the others fail in every view and leave them as they   *)
(* are, wherever they come.                                               *)
RaceOrders(b) ==
    LET mayKnow == {k \in DOMAIN b : b[k].type \in {"pod", "pod_container"}
                                      /\ b[k].pod \in Known}
        rest == CHOOSE r \in SetToSeqs(DOMAIN b \ mayKnow) : TRUE
    IN {o \o rest : o \in SetToSeqs(mayKnow)}

(* The pod lister is an informer cache that changes while Process runs    *)
(* (getPod, line 67, is called once per metric set).  Whatever the lister *)
(* answers at each lookup, no scraped set is lost or loses its scraped    *)
(* values, a stub is only made for a key the batch does not have, an      *)
(* enriched container set comes with a pod set, and an enriched pod set   *)
(* comes with a set for every container of the pod's spec, because        *)
(* addPodInfo makes those stubs in the call that enriches the pod set.    *)
(* (The sibling containers of an enriched container set are not covered: *)
(* they are made only by the pod set's own lookup, which a pod deleted    *)
(* in between fails.)                                                     *)
EnrichedPodsComplete ==
    \A o \in RaceOrders(batch) : \A views \in ListerViews(Len(o)) :
        LET out == ProcessSeeing(batch, o, views)
            enriched == {k \in DOMAIN out : out[k].podInfo # Unset}
        IN /\ \A k \in DOMAIN batch :
                 k \in DOMAIN out /\ out[k].values.usage = batch[k].values.usage
           /\ \A k \in DOMAIN out \ DOMAIN batch : "usage" \notin DOMAIN out[k].values
           /\ \A k \in enriched : PodKey(out[k].pod) \in DOMAIN out
           /\ \A k \in enriched :
                 out[k].type = "pod" =>
                    \A c \in DOMAIN PodSpecs[out[k].pod] :
                       PodContainerKey(out[k].pod, c) \in DOMAIN out

=============================================================================
