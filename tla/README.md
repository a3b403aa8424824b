# TLA+ models of the Thanos ruler/querier orchestration and the metrics-server helpers

This directory holds TLA+ models of the source files under `src/`, the TLC
configurations that check them, and `PROJECT.json`, which links every
definition to the source lines it models. Every run lists the properties it
checks, and every property of a passing run has a mutant: a plausible bug that
TLC must catch.

## 1. Inventory of the system

The repository holds seven Go files. Two of them contain the concurrent core:

* `.../thanos/cmd/thanos/rule.go` (837 lines) sets up the Thanos **ruler**.
* `.../thanos/cmd/thanos/query.go` (467 lines) sets up the Thanos **querier**.

The other files are metrics-server and ingress-nginx helpers:

* `metrics-server/.../kubelet/kubelet.go`: decodes cAdvisor containers into metric sets.
* `metrics-server/.../processors/pod_based_enricher.go`: adds pod information and stub metric sets to a batch.
* `ingress-nginx/cmd/plugin/util/util.go`: printing helpers (not modelled, see below).
* two `_test.go` files with unit tests of the two metrics-server files.

### Components, their state and their operations

| Component | Source | State | Operations |
|---|---|---|---|
| Task supervisor | `run.Group` (oklog, outside the repository), used by `runRule` and `runQuery` | the actors and their interrupt functions | `g.Add(execute, interrupt)`. The first actor to return interrupts all of them. |
| Rule reload | rule.go 427-492, 531-534 | channel `reload` (capacity 1, starts with one token), SIGHUP channel `c` (capacity 1), `cancel` channels, rules manager groups, gauges `configSuccess`, `configSuccessTime`, `rulesLoaded` | reload actor: receive, glob, `mgr.Update`, set gauges. SIGHUP actor: non-blocking forward. `POST /-/reload`: blocking send. |
| Query-peer discovery (ruler) | rule.go 246-248, 393-425, 493-504 | `fileSDUpdates` (unbuffered), `fileSDCache`, `dnsProvider` (name → resolved addresses), gossip peer states | file SD sends updates, some of them nil. The reader stores updates that are not nil. The DNS actor resolves the cache plus `--query` every interval. |
| Query fan-out | rule.go 250-281, 637-718, 611-635, 821-836 | none of its own: it reads gossip and DNS state | `queryFn` lists addresses, counts duplicates and queries the first peer of `rand.Perm`. The response is decoded as a vector or a scalar. |
| Alert pipeline | rule.go 284-314, 359-392, 720-793 | `alertQ` (capacity 10000, batches of 100), `alertmanagerSet.current` (behind a mutex) | `notify` filters out pending alerts and pushes the rest. The sender pops a batch and sends it. Every 30 s, `alertmanagerSet.update` resolves the alertmanager URLs. |
| Store discovery (querier) | query.go 250-369, 431-466 | `StoreSet`, `fileSDCache`, `dnsProvider`, duplicate counter | The store-spec function merges gossip and DNS addresses and deduplicates them. Actors update the store set every 5 s and on file SD updates. |
| Flag parsing and wiring | rule.go 57-167, 795-819; query.go 45-221 | none | Parse flags and labels. Reject duplicate `--query` and `--store` flags. Build gRPC and TLS options. |
| Kubelet source | kubelet.go 91-315 | none (pure per scrape) | `decodeMetrics` sorts each container into node, system container, pod or pod container. `ScrapeMetrics` builds a batch. `getNodeHostnameAndIP` picks the node's address. |
| Pod enricher | pod_based_enricher.go 37-184 | the batch being processed and `newMs` | `Process`, `addPodInfo`, `addContainerInfo` and `updateContainerResourcesAndLimits`. |
| Plugin helpers (not modelled) | util.go 27-55 | none | `PrintError`, `printWithError`, `printOrError` write an error and a text to standard output or return the error. `GetNamespace` defaults the kubeconfig namespace. |

### How they interact

The ruler's actors share channels and shared state:

* `reload` connects the SIGHUP actor and the HTTP handler to the reload actor.
* `fileSDUpdates` connects file SD to its reader.
* `fileSDCache` is written by the reader and read by the DNS actor.
* `dnsProvider` is written by the DNS actor and read by `queryFn`.
* `queryFn` and `notify` are callbacks that the Prometheus rules manager runs on its own goroutines.
* `alertQ` connects `notify` to the sender.
* `alertmanagerSet` is written by its update actor and read by the sender.

Shutdown works through `run.Group`. Each interrupt function cancels a context
or closes a channel, and the interrupts run one after another in the order
the actors were added.

### What is hard

* **Interleavings of actors on shared channels.** Two examples: a signal
  dropped by a non-blocking send, and an HTTP request blocked behind a
  buffered token.
* **Stale snapshots.** A glob runs before the files are read. The DNS actor
  resolves an old snapshot of the cache. A failed lookup keeps the old records.
* **Unreliable inputs.** File SD sends nil updates, peers go down, lookups fail.
* **Partial failure.** One bad peer, or one bad alertmanager name, must not
  break the whole operation.
* **Shutdown ordering.** For example, a channel is closed while another actor
  may still send on it.
* **Go map iteration order.** Several results depend on which entry of a map
  is seen last.

### What makes each component correct

* **Rule reload.** No reload request is lost. Pending requests coalesce (spec §6 and §9). Failed reloads keep the old rules.
* **Discovery.** Removed targets are eventually forgotten. A nil update never clears the cache.
* **Fan-out.** A query fails only when no peer is reachable. No peer is contacted twice. Each address is listed once (spec §4.4, §4.6, §8).
* **Dedup.** Each address appears exactly once, and the counter grows by (count − 1) for each address (spec §8).
* **Alerts.** Pending alerts are never queued. The queue never exceeds its capacity. A batch is delivered when at least one alertmanager accepts it. Resolution failures are isolated (spec §4.8).
* **Shutdown.** The rules manager is never updated after it is stopped. No channel operation panics.
* **Kubelet and enricher.** Keys are classified correctly. Every container of a known pod gets a metric set, and so does every pod of a known container. The result does not depend on iteration order.

## 2. Plan

Modules, in order of importance:

1. `RuleReload` (done). Reload coordination of the ruler.
2. `QueryFanout` (done). Query-peer discovery and `queryFn`.
3. `StoreDedup` (done). The dedup walks and the querier's store-spec function, as operators checked against reference definitions.
4. `AlertDelivery` (done). `notify`, the bounded queue, the sender loop and `alertmanagerSet.update`.
5. `QueryDecode` (done). `queryPrometheusInstant` and `convertScalarJSONToVector`, with JSON abstracted to tokens, checked against a reference decoder.
6. `PodEnricher` (done) and `KubeletDecode` (done). The metrics-server helpers as operators over small container, pod and node sets.
7. Shutdown (done for the modelled actors). The interrupts of the file SD actor and its reader are modelled in `QueryFanout`, the rules manager's and the reload actor's in `RuleReload`, the sender's and the update actor's in `AlertDelivery`, and all four of the querier's store discovery in `QueryStoreSet`.
8. `QueryStoreSet` (done). The querier's store-set actors, with the shape of the ruler's discovery actors in `QueryFanout`.
9. A refinement (done). `RuleReload` implements the abstract `ReloadSpec` through `INSTANCE ... WITH`.

## 3. Modules and runs

### RuleReload (`RuleReload.tla`, `MC_RuleReload.tla`)

This module models the reload coordination of the ruler.

**Variables:**

* `reload` and `sigc` are channel occupancies (0 or 1).
* `loop` is the reload actor's position: waiting in its `select`, after the glob, or returned.
* `files` and `globbedAt` record the current glob.
* `ruleGroups` are the groups installed by the Prometheus rules manager.
* `configSuccess` and `rulesLoaded` are the gauges.
* `sighup` is the SIGHUP actor's position.
* `httpBlocked` counts `POST /-/reload` handlers blocked in their send.
* `mgr` is the rules-manager actor: running, its context cancelled, or `mgr.Stop` returned.
* `stopping` and `httpOpen` are the interrupts.
* `disk` and `edits` model the rule files and an edit clock.
* `requests` and `asked` are history: the requests made so far, and the clock value at the latest one.

**Actions.** There is one action per step of the code:

* `Receive`: the `select` case together with the glob.
* `Update`: `mgr.Update` and the gauges.
* `ReloadExit`, `OSSignal`, `SighupForward`, `SighupExit`, `HttpReload`.
* `CancelManager` and `StopManager`: the first interrupt, which cancels the manager's context and then runs `mgr.Stop`.
* `Interrupt` (closing `cancel` of the reload and SIGHUP actors) and `CloseHTTP`, allowed only after the manager's interrupt, in `run.Group` order.
* `EditRuleFile`: the environment.

`Receive` also covers a detail of the Go runtime. When a receiver takes from a
full buffered channel with a blocked sender, that sender's value moves into the
buffer in the same step.

**Abstract specification (`ReloadSpec.tla`).** This module states what reload
coordination promises, without channels:

* A request sets a `pending` flag.
* An idle reloader with a pending request starts a reload (`Start`). The reload snapshots the named files that are present, and may leave further requests pending.
* `Finish` installs the snapshot if every file of it is valid, and records the outcome in `success`.
* A stopping reloader may exit when idle.

Fairness: a pending request is taken up unless the reloader is stopping, and a
started reload finishes.

The refinement mapping in `RuleReload` works as follows:

* `pending` is TRUE while a token is buffered, a signal waits in `c`, or an HTTP handler is blocked.
* `phase` comes from the reload actor's position.
* `snapshot`, `installed` and `success` are `files`, `ruleGroups` and `configSuccess`.

**`rule_reload` (pass).** This run checks `TypeOK` and three properties:

* `NoStaleIdle`: the reload actor never sits idle, with nothing pending, when its latest glob is older than the latest request.
* `RequestServed`: every request made before shutdown is eventually followed by a glob at least as fresh.
* `ImplementsReloadSpec`: `RuleReload` implements `ReloadSpec` under the mapping. No request is cleared without a reload starting after it, and the success gauge reports the latest outcome. A gauge that keeps 1 after a failed reload breaks it.

Bounds: two rule files, one good pattern and one bad pattern, 2 edits and 3
requests (266k states). Three requests are enough for a request to arrive in
every phase of a reload and for two HTTP handlers to block.

**`rule_reload_coalesce` (violation).** `PendingReloadsCoalesced` fails. An
HTTP request that arrives while the initial token is still buffered blocks, and
that is a second pending reload.

**`rule_reload_stop` (violation).** `NoUpdateAfterStop` fails, which is a
spec/code divergence. `run.Group` interrupts the rules-manager actor first, so
`mgr.Stop` can return while the reload actor, whose `cancel` is closed only by
a later interrupt, still takes the buffered token and calls `mgr.Update` on
the stopped manager (rule.go:454). TLC shows it in three steps: `Receive`,
`CancelManager` and `StopManager`.

### QueryFanout (`QueryFanout.tla`, `MC_QueryFanout.tla`)

This module models query-peer discovery and `queryFn` in the ruler.

**Variables:** the file SD files (`sdDisk`), the unbuffered channel (`sdChan`),
`fileSDCache`, the DNS provider's map (`resolved`), the gossip query peers,
the peers that are up, the duplicate counter and the latest query.

**Candidate list.** The list that `queryFn` permutes is a bag: the permutation
makes order irrelevant, but multiplicity still matters.

**Shutdown.** `run.Group` calls the interrupts in the order the actors were
added:

* `StopRun` is `cancelRun`.
* `CloseUpdates` is `cancelUpdate` followed by `close(fileSDUpdates)`.

Then each actor returns when its `select` sees the cancellation (`SDReturn`,
`ReaderReturn`). `SDSendOnClosed` is file SD still offering an update when the
channel is closed: Go panics if the `select` picks that case.

**`query_discovery` (pass).** This run checks `TypeOK` and one property:

* `RemovedTargetForgotten`: a name removed from the SD files is eventually dropped by the DNS provider, unless file SD is being cancelled. This holds even with nil updates and failed lookups.

The fairness is:

* strong fairness on a real file SD update, because every refresh re-sends the files;
* weak fairness on the reader and the DNS actor, because both are goroutines that loop forever;
* weak fairness on the two returns, because a cancelled context stays done and Go picks among ready `select` cases at random.

Bounds: three addresses, one static name, one SD name, two gossip peers (one
shares an address with DNS), 2 environment changes and 1 query (356k states).
Gossip starts empty, as it does when the ruler starts.

The send on the closed channel is reachable, but only after both interrupts,
while the ruler exits. It is listed as a hazard.

**`query_retry` (violation).** `QueryFailsOnlyWhenAllDown` fails: the first
permuted peer is down, so the query fails although another peer is up.

**`query_dedup` (violation).** `QueryCandidatesDistinct` fails, which is a
spec/code divergence. `queryFn` calls `removeDuplicateQueryAddrs` but discards
the list it returns and permutes the original `addrs` (rule.go:271). The model
keeps the candidate list as a bag. An address that a gossip peer advertises
and DNS also returns therefore has multiplicity 2 in `lastQuery.cands`, and is
twice as likely to be queried first. Spec 4.4 says the list holds each
address once. TLC shows it in 4 states: the DNS refresh of the static `--query`
name, a gossip join that advertises the same address, and `queryFn`.

### QueryStoreSet (`QueryStoreSet.tla`, `MC_QueryStoreSet.tla`)

This module models the store discovery of the querier (query.go 250-369).

**Variables.**

* The file SD side is modelled as in `QueryFanout`: `sdDisk`, `sdChan` (the update file SD is offering, a nil update, or nothing) and `fileSDCache`.
* `resolved` is the DNS provider's map, and `gossip` the store peers in the cluster.
* `stores` is the set of addresses the store set serves. Spec 4.5 says `Update` closes the clients that are no longer listed and opens the new ones.
* `storeActor`, `reader`, `sdActor` and `dnsActor` are the positions of the four actors.
* `intr` counts the interrupts called so far, in `run.Group` order:
  * `cancel` and `stores.Close` of the store actor;
  * `cancelRun`;
  * `cancelUpdate` and `close(fileSDUpdates)`;
  * the DNS actor's `cancel`.

**Actions.**

* `StoreTick` is one `stores.Update(ctx)` of the store actor. It has no context guard, because `runutil.Repeat` runs its function before it looks at the stop channel.
* `ReceiveUpdate` skips a nil update, or writes the cache. `ReaderStoreUpdate` is the reader's `stores.Update` that follows.
* `DNSRefresh` is `dnsProvider.Resolve` of the cache plus the `--store` flags.
* `SendUpdate` and `SendNil` are file SD's offers.
* The four interrupts, and each actor's return. `SDSendOnClosed` is file SD picking its send after the close, which panics.
* `EditSDFiles` and `GossipChange` are the environment.

The spec function is the set `StoreSpecs`. Its deduplication is checked in
`StoreDedup`, so here the set of addresses is enough.

**`query_storeset` (pass).** This run checks `TypeOK` and one property:

* `StoreSetConverges`: if the querier keeps running, and gossip and the SD files stop changing, `stores` settles on exactly the gossip addresses and the records of the names on disk and in `--store`. A name just written to the cache reaches the store set only after the next DNS resolution and a later `Update`. The reader's own `Update` right after the cache write still sees the old resolution.

The fairness is the same as in `QueryFanout`: weak fairness on the looping
actors and on each return after a cancellation, and strong fairness on a real
file SD update.

Bounds: three addresses, one `--store` name and one SD name with different
records, two gossip peers (one sharing an SD address, one with an empty
address), and 3 environment changes (56k states).

**Reachable, but not checked by a run.** These two are listed as hazards:

* `StoreTick` after `stores.Close()`: a tick already past its stop check runs one more `Update` on the closed store set.
* The send of file SD on the closed channel (`SDSendOnClosed`).

### StoreDedup and QueryDecode (`StoreDedup.tla`, `QueryDecode.tla`, `MC_QueryOperators.tla`)

The two operator modules of the query path are composed in
`MC_QueryOperators`. Its initial state picks a part (`"decode"` or `"dedup"`)
and an input of it. The other part's variables hold a fixed valid value, and
each property is asked only of its own part. `MC_QueryOperators` is checked
inside the run `operators` (see "The operators run" below).

#### StoreDedup

This module models `removeDuplicateStoreSpecs` and `removeDuplicateQueryAddrs`
as one RECURSIVE walk, `DedupLoop`, and the querier's store-spec function
(gossip peers in every map order, then DNS). The inputs are fixed in the
initial state.

**In `operators` (pass).** The run checks two StoreDedup properties:

* `StoreDedupMatchesReference`: the walk matches the reference definition: the last spec of each address survives, and the counter equals `Len − |addresses|`. `removeDuplicateQueryAddrs` is the same walk over bare addresses, so it gets no property of its own.
* `StoreSpecsCoverSources`: whatever the map order, every non-empty gossip address and every DNS address gets exactly one spec, and a DNS spec wins over a gossip spec for the same address.

Bounds: every list of up to 3 specs over 2 addresses and 3 sources, every
peer→address map of 2 peers (with the empty address), and every DNS list of up
to 2 addresses.

### AlertDelivery (`AlertDelivery.tla`, `MC_AlertDelivery.tla`)

This module models the alert pipeline of the ruler.

**Variables.**

* The queue side: `queue`, `more`, `snd`, `batch`, `delivered`, `failed`, `dropped`, `notified` and `calls`.
  * `queue` is the alert queue's slice, and `more` its `morec` signal.
  * `snd` is the sender's position: in `Pop`, taking a batch, sending, or returned.
  * `delivered`, `failed` and `dropped` are history variables.
* The alertmanager side: `current`, `upd`, `idx`, `result` and `updated`.
  * `current` is `alertmanagerSet.current`.
  * `upd` and `idx` are the update actor's loop and its position in `addrs`.
  * `result` is the list being built.
* The environment: DNS records, failing lookups, alertmanagers that are up, and the interrupt.

**Actions.**

* `Notify(alerts)` is the whole `notify` callback: the pending filter, EndsAt, and `Push`.
* `Push` drops the oldest alerts above capacity and signals `morec` without blocking.
* `PopWake`, `PopTerm` and `PopTake` are the steps of `alert.Queue.Pop`.
* `SendBatch` is the sender's `Send`, abstracted to "some alertmanager in `current` accepted".
* `UpdateNameOK` and `UpdateNameFail` are one iteration of the loop of `alertmanagerSet.update`. The failure branch returns early.
* `UpdateCommit` is the swap under the mutex. `UpdateTick` and `UpdateExit` are the actor's `runutil.Repeat`.

The alert queue and the DNS resolver are outside the repository and are
modelled from their behaviour (`spec_modelled`).

**`alert_queue` (pass).** This run checks three properties:

* `AlertsAccounted`: every alert handed to `notify` that is not pending is in exactly one of the queue, the batch in flight, delivered, failed or dropped.
* `QueueDrained`: every queued alert eventually leaves the queue, unless the ruler is stopping.
* `TypeOK`, which also bounds the queue by its capacity.

Bounds: one rule, a static alertmanager, capacity 2, batches of 1, 3 calls of
`notify` and one change of alertmanager health (91k states). A capacity of 2
with three calls lets the queue overflow, and a batch of 1 leaves alerts behind
after a pop, so `morec` must be re-signalled.

**`am_update` (pass).** This run checks two properties:

* `AMSetAtomic`: the sender only ever sees a complete resolution.
* `AMSetConverges`: once lookups stop failing, `current` settles on the resolution of the current records. This covers the default port 9093 for A-record names without a port.

Bounds: three names (a plain URL, an A name, an SRV name), two hosts and two
record or failure changes (17k states).

**`am_isolation` (violation).** `FailureIsolated` fails. One failing lookup
makes `update` return before the swap, so even the plain URL never reaches
`current`. Spec 4.2, 4.8 and 7 say a failed name is skipped.

**Duplicated alertmanagers (no run).** `update` appends every resolved address
(rule.go:779), so two names resolving to one host appear twice in `current`,
and every batch is posted to that alertmanager twice. The model reaches this
state in `am_update`: the plain URL and the SRV name both give h1.
`AMSetAtomic` and `AMSetConverges` compare `current` with the concatenation
that `update` builds, duplicates included, as the code does. No run states
the deduplication that spec 4.2 claims; the hazard list records it.

#### QueryDecode

This module models `queryPrometheusInstant` and `convertScalarJSONToVector` as
operators.

JSON is abstracted to tokens: an unquoted number, a quoted number, another
string, an array or an object. `model.Time` accepts an unquoted number only,
and `model.SampleValue` accepts a quoted one only. Label maps are iterated in
every order.

**In `operators` (pass).** The run checks two QueryDecode properties:

* `ScalarDecodeMatchesReference`: exactly the `[time, value]` pairs decode to a one-sample vector.
* `InstantQueryMatchesReference`: in every map order, the answer equals the reference answer with sorted label sets.

Bounds: scalar arrays of up to 3 tokens over 2 values, vectors of up to 2
samples, and label sets over 2 names (1.6k inputs).

The spec's example `["1700000000", "42.5"]` (section 8) quotes the timestamp,
and `model.Time` rejects it. The Prometheus API sends the timestamp unquoted,
so the code works on real answers; this difference is not made a run.

### The metrics-server operators (`KubeletDecode.tla`, `PodEnricher.tla`, `MC_MetricsServer.tla`)

`MC_MetricsServer` composes both modules. It extends `MC_KubeletDecode` and
instantiates `PodEnricher`. Its initial states are either a KubeletDecode
input, or a PodEnricher batch with the kubelet part pinned to a root container
without stats and one node. The run `operators` checks it. `MC_KubeletDecode`
alone serves the panic run.

#### PodEnricher

This module models `Process` as a RECURSIVE walk over the batch keys in a
given map order, with `addPodInfo`, `addContainerInfo` and
`updateContainerResourcesAndLimits` as operators. The pod lister is the
constant `Known` with the pod specs, and `getPod` (lines 66-75) is a
membership test in it. `ProcessLoop` takes its three cases from the result.

The lister is really an informer cache that changes while `Process` runs.
`ProcessSeeing` gives every step of the walk its own lister view, and
`ListerViews(n)` is every way the informer can change the known pods once,
between any two lister reads of one walk (a pod added, deleted or both).
`Process` is `ProcessSeeing` with the view `Known` at every step.

**In `operators` (pass).** `EnricherMatchesReference`: in every iteration
order, `Process` returns the reference batch.

* A scraped set is enriched and never replaced by a stub.
* Every container of a seen pod has a set, with its requests and limits.
* Memory is rounded up to whole bytes.

`EnrichedPodsComplete`: in every iteration order of the pod and container
sets of the pods the lister may know, and every single informer change
during the walk, the result keeps every scraped set with its usage, adds no
usage to a stub, gives every enriched set a pod set, and gives every
enriched pod set a set for each container of its pod. To keep the run
short, `RaceOrders` permutes only those sets. The other sets are never
looked up with a known pod, so where they fall in the order changes nothing.

The property says nothing about the sibling containers of an enriched
container set. Only the pod set's own lookup makes their stubs, and checking
showed that this lookup can miss. Container `c1` is looked up while its pod
is known. It makes no pod stub, because the pod set is in the batch. The
informer then deletes the pod before the pod set's lookup. So `c1` is
enriched, the pod set is not, and the pod's other container gets no stub.
The code promises nothing about a pod deleted in the middle of a scrape,
so this is recorded in the property's comment and not as a finding.

Bounds: two pods (one known, with two containers and fractional memory
quantities), every batch over 7 keys (a pod set, container sets of spec and
non-spec containers, another pod's sets and a node set), and an image label
set or unset.

#### KubeletDecode

This module models `decodeMetrics` (with `handleSystemContainer`,
`handleKubernetesContainer` and the custom-metric loop), `ScrapeMetrics`,
`getNodeHostnameAndIP` and `GetMetricsSources` as operators.

A container name is a string. What the code computes from it (the index of the
first ".", the slice after `k8s_`, the name without its leading "/") comes from
tables in the MC module. Those tables hold the names of the unit tests, an
`k8s_.x` name and a cgroup name `/a.b`.

**In `operators` (pass).** The run checks three KubeletDecode properties:

* `ScrapeBatchConsistent`: scraping the container with any other container gives one set per decoded key and none under the empty key, and every set sits under the key that its own namespace, pod and container labels name. The pod enricher looks sets up by exactly that key.
* `NewestCustomValue`: a custom metric takes the first of its newest values.
* `SourcesMatchEligibleNodes`: the sources are, in lister order, exactly the ready nodes with an IPv4 InternalIP address. Each takes the last IPv4 InternalIP address of its node and the last non-empty Hostname address, or the node name if there is none. The address loop overwrites and never breaks, so a loop that stopped at the first valid address breaks the property.

Bounds: 5 names, 3 × 2 × 4 label values, custom metrics of up to 3 values
over 2 timestamps, and lists of up to 2 nodes with one condition and two
addresses. The addresses are two IPv4 and one IPv6 InternalIP, an empty and
two non-empty Hostnames, and an IPv4 ExternalIP. With two of each kind,
"the last one wins" is tested. The condition statuses are `True` and
`Unknown`: the code only tests `!= ConditionTrue`, so `False` behaves like
`Unknown`.

**`kubelet_decode_panic` (violation).** `DecodeNeverPanics` fails, which is a
code bug. A container without a container-name label whose first "." comes
before index 4 (for example `/a.b`) reaches `c.Name[len("k8s_"):pos]` at
kubelet.go:162, which panics with slice bounds out of range.

### The operators run (`MC_Operators.tla`)

Every pure-operator module is checked in the single run `operators`:
KubeletDecode and PodEnricher through `MC_MetricsServer`, QueryDecode and
StoreDedup through `MC_QueryOperators`.

`MC_Operators` extends `MC_MetricsServer` and instantiates the other two. An
initial state picks the part it is an input of. The variables of the other
part hold a fixed value that is an input of theirs: a root container
without stats and one node, or an error answer with empty lists. The fixed
values are chosen cheap to check, so each part's properties cost what they
cost alone. The run reaches 345k states in about two minutes.

The actor modules are not added to this run. Their liveness properties would
be checked over every operator state, and TLC expands the fairness of both
parts into the tableau; a trial of the querier's store actors inside it took
over four minutes.

### Summary of the runs

| Run | Module and cfg | Expect | Properties |
|---|---|---|---|
| `rule_reload` | `MC_RuleReload`, `MC_RuleReload.cfg` | pass | `TypeOK`, `NoStaleIdle`, `RequestServed`, `ImplementsReloadSpec` |
| `rule_reload_coalesce` | `MC_RuleReload`, `MC_RuleReload_coalesce.cfg` | violation | `PendingReloadsCoalesced` |
| `rule_reload_stop` | `MC_RuleReload`, `MC_RuleReload_stop.cfg` | violation | `NoUpdateAfterStop` |
| `query_discovery` | `MC_QueryFanout`, `MC_QueryFanout.cfg` | pass | `TypeOK`, `RemovedTargetForgotten` |
| `query_retry` | `MC_QueryFanout`, `MC_QueryFanout_retry.cfg` | violation | `QueryFailsOnlyWhenAllDown` |
| `query_dedup` | `MC_QueryFanout`, `MC_QueryFanout_dedup.cfg` | violation | `QueryCandidatesDistinct` |
| `am_update` | `MC_AlertDelivery`, `MC_AlertDelivery_am.cfg` | pass | `AMSetAtomic`, `AMSetConverges` |
| `query_storeset` | `MC_QueryStoreSet`, `MC_QueryStoreSet.cfg` | pass | `TypeOK`, `StoreSetConverges` |
| `alert_queue` | `MC_AlertDelivery`, `MC_AlertDelivery.cfg` | pass | `TypeOK`, `AlertsAccounted`, `QueueDrained` |
| `am_isolation` | `MC_AlertDelivery`, `MC_AlertDelivery_isolation.cfg` | violation | `FailureIsolated` |
| `operators` | `MC_Operators`, `MC_Operators.cfg` | pass | `ScrapeBatchConsistent`, `NewestCustomValue`, `SourcesMatchEligibleNodes`, `EnricherMatchesReference`, `EnrichedPodsComplete`, `ScalarDecodeMatchesReference`, `InstantQueryMatchesReference`, `StoreDedupMatchesReference`, `StoreSpecsCoverSources` |
| `kubelet_decode_panic` | `MC_KubeletDecode`, `MC_KubeletDecode_panic.cfg` | violation | `DecodeNeverPanics` |

## 4. Fairness

* **Weak fairness** applies only to steps of goroutines that loop forever and
  that the Go scheduler keeps running: the reload actor, the SIGHUP forward,
  the file SD reader, the DNS actor, the alert sender and the alertmanager
  update actor (`SenderStep` and `UpdateStep`), and the querier's store
  actor, file SD reader and DNS actor.
* **Weak fairness on returning after a cancellation** (`SDReturn`,
  `ReaderReturn`, and in `QueryStoreSet` also `StoreReturn` and
  `DNSReturn`): a cancelled context stays done, and Go's `select` chooses
  uniformly among ready cases, so the cancellation is eventually chosen.
* **Strong fairness** applies to file SD's real update. A nil update may take
  the channel in between, but every refresh interval reads the files again.
* **No fairness** applies to the environment: edits, signals, HTTP requests,
  gossip, peer health and interrupts.

## 5. Not modelled, and why

* **Code outside this repository** is modelled from its documented behaviour
  and marked `spec_modelled` in the map. This covers the Prometheus rules
  manager, file SD, the Thanos DNS provider, the alert queue and sender, and
  `run.Group`.
* **TLS, flags, HTTP/gRPC servers, UI, TSDB and the shipper** are
  configuration and I/O glue without concurrent state.
* **Timing** (intervals, timeouts) is abstracted to fairness: only the order
  of steps matters to the properties.
* **`configSuccessTime`** is a wall-clock gauge and is left out.
* **The querier's gossip actor** (`peer.Join`, `peer.Close`) is not modelled, because it changes no state of store discovery. Peers joining and leaving are the environment in `QueryStoreSet`.
* **The pod informer** is not modelled as an actor of its own. `PodEnricher` models its effect on one `Process` call: a single change of the known pods between two lister reads. It does not model changes to the pod specs.
* **The kubectl plugin helpers** (`util.go`) are not modelled. `PrintError`, `printWithError`, `printOrError` and `GetNamespace` are straight-line printing and a kubeconfig lookup with a default. They have no state and no concurrency, and any property about them would restate one `if` or the order of two prints.
* **Actors returning on shutdown** get no property. In `RuleReload`, `QueryFanout` and `QueryStoreSet`, each return step is guarded by its own interrupt and is weakly fair, and `cancelUpdate` and `close(fileSDUpdates)` are one step. So "every actor eventually returns" and "a blocked reload handler is released" would only restate those guards and the Go channel hand-off. The hazards stay listed with that note.
* **The standard and labeled metric tables of the kubelet source** are defined in another file, and the kubelet HTTP client is I/O.
* **Pure operator modules** (`StoreDedup`, `QueryDecode`, `PodEnricher`, `KubeletDecode`) fix their input in the initial state and have `Next == UNCHANGED`, so every state is final.
