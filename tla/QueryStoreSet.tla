---------------------------- MODULE QueryStoreSet ----------------------------
(***************************************************************************)
(* Store discovery of the Thanos querier (cmd/thanos/query.go, runQuery,   *)
(* lines 250-369).                                                         *)
(*                                                                         *)
(* The store set (query.NewStoreSet, not in this repository) is refreshed  *)
(* by stores.Update, which asks the spec function (lines 267-287) for the  *)
(* specs: one per gossip store peer with a non-empty address, one per      *)
(* address of dnsProvider.Addresses(), deduplicated.  Spec 4.5: Update     *)
(* closes the clients of addresses no longer listed and opens the new      *)
(* ones, so the set of addresses it serves becomes that of the specs.      *)
(* Two actors call stores.Update: the store actor every 5 s (lines         *)
(* 296-307) and the file SD reader after every non-nil update (lines       *)
(* 323-341).  The DNS actor (lines 359-369) resolves the file SD cache     *)
(* plus the --store flags.  Gossip peers join and leave, SD files change.  *)
(* DNS lookups always succeed here (their failures are in QueryFanout).    *)
(* runutil.Repeat runs its function, then selects between the stop channel *)
(* and the ticker, so a tick may still run after the stop.                 *)
(***************************************************************************)
EXTENDS Naturals, FiniteSets

CONSTANTS
    Addrs,        \* concrete host:port addresses of store peers
    StaticNames,  \* values of the --store flag
    SDNames,      \* names that the file SD files can list
    Records,      \* Records[n]: the addresses a lookup of n gives
    PeerIds,      \* gossip peer identifiers
    PeerAddr,     \* PeerAddr[id]: the StoreAPIAddr peer id advertises
    EmptyAddr,    \* model value: the empty StoreAPIAddr ""
    NilUpdate,    \* model value: a nil []*targetgroup.Group
    NoUpdate,     \* model value: nothing offered on fileSDUpdates
    MaxChanges    \* bound on changes of the environment

Names == StaticNames \cup SDNames

ASSUME /\ Records \in [Names -> SUBSET Addrs]
       /\ PeerAddr \in [PeerIds -> Addrs \cup {EmptyAddr}]
       /\ EmptyAddr \notin Addrs
       /\ MaxChanges \in Nat

VARIABLES
    sdDisk,       \* names listed in the file SD files on disk
    sdChan,       \* the update the file SD actor is blocked offering
    fileSDCache,  \* names held by fileSDCache
    resolved,     \* dnsProvider state: name -> resolved addresses
    gossip,       \* store peers in the gossip cluster
    stores,       \* addresses the store set has clients for
    changes,      \* environment changes so far
    storeActor,   \* the store-update actor: "running" or "returned"
    reader,       \* the file SD reader: "select", "update" or "returned"
    sdActor,      \* the file SD actor: "running", "returned", "panicked"
    dnsActor,     \* the DNS actor: "running" or "returned"
    intr          \* interrupts run.Group has called so far

vars == <<sdDisk, sdChan, fileSDCache, resolved, gossip, stores, changes,
          storeActor, reader, sdActor, dnsActor, intr>>

(* The interrupts in the order the actors were added: the store actor's  *)
(* cancel() and stores.Close(), cancelRun, cancelUpdate and              *)
(* close(fileSDUpdates), the DNS actor's cancel.  The gossip actor's     *)
(* interrupt, between the last two, changes nothing modelled here.       *)
StoresClosed == 1
RunCancelled == 2
UpdatesClosed == 3
DNSCancelled == 4

-----------------------------------------------------------------------------
(* Mutant: the empty-address check is dropped.                           *)
GossipAddrsKeepEmpty == {PeerAddr[id] : id \in gossip}

(* The addresses of the gossip specs: peers with an empty StoreAPIAddr    *)
(* are logged and skipped.                                                *)
GossipAddrs == {PeerAddr[id] : id \in {p \in gossip : PeerAddr[p] # EmptyAddr}}

(* The spec function: gossip specs, then one gRPC spec per DNS address,   *)
(* deduplicated by address (removeDuplicateStoreSpecs, see StoreDedup).   *)
StoreSpecs == GossipAddrs \cup UNION {resolved[n] : n \in DOMAIN resolved}

Init ==
    /\ sdDisk \in SUBSET SDNames
    /\ sdChan = NoUpdate
    /\ fileSDCache = {}
    /\ resolved = [n \in {} |-> {}]
    /\ gossip = {}
    /\ stores = {}
    /\ changes = 0
    /\ storeActor = "running"
    /\ reader = "select"
    /\ sdActor = "running"
    /\ dnsActor = "running"
    /\ intr = 0

-----------------------------------------------------------------------------
(* The store actor: runutil.Repeat(5s, ctx.Done(), stores.Update).        *)
StoreTick ==
    /\ storeActor = "running"
    /\ stores' = StoreSpecs
    /\ UNCHANGED <<sdDisk, sdChan, fileSDCache, resolved, gossip, changes,
                   storeActor, reader, sdActor, dnsActor, intr>>

StoreReturn ==
    /\ storeActor = "running" /\ intr >= StoresClosed
    /\ storeActor' = "returned"
    /\ UNCHANGED <<sdDisk, sdChan, fileSDCache, resolved, gossip, stores,
                   changes, reader, sdActor, dnsActor, intr>>

(* file.Discovery reads the files and offers their targets; it sometimes *)
(* offers nil.                                                            *)
SendUpdate ==
    /\ sdActor = "running"
    /\ sdChan = NoUpdate
    /\ sdChan' = sdDisk
    /\ UNCHANGED <<sdDisk, fileSDCache, resolved, gossip, stores, changes,
                   storeActor, reader, sdActor, dnsActor, intr>>

SendNil ==
    /\ sdActor = "running"
    /\ sdChan = NoUpdate
    /\ sdChan' = NilUpdate
    /\ UNCHANGED <<sdDisk, fileSDCache, resolved, gossip, stores, changes,
                   storeActor, reader, sdActor, dnsActor, intr>>

(* The reader takes an update: nil is skipped, anything else goes into   *)
(* fileSDCache, and the reader goes on to stores.Update(ctxUpdate).       *)
ReceiveUpdate ==
    /\ reader = "select"
    /\ intr < UpdatesClosed
    /\ sdChan # NoUpdate
    /\ sdChan' = NoUpdate
    /\ IF sdChan = NilUpdate
          THEN UNCHANGED <<fileSDCache, reader>>
          ELSE fileSDCache' = sdChan /\ reader' = "update"
    /\ UNCHANGED <<sdDisk, resolved, gossip, stores, changes, storeActor,
                   sdActor, dnsActor, intr>>

(* stores.Update(ctxUpdate) of the reader, with the DNS addresses of the *)
(* latest resolution: the names just cached are not resolved yet.        *)
ReaderStoreUpdate ==
    /\ reader = "update"
    /\ stores' = StoreSpecs
    /\ reader' = "select"
    /\ UNCHANGED <<sdDisk, sdChan, fileSDCache, resolved, gossip, changes,
                   storeActor, sdActor, dnsActor, intr>>

(* dnsProvider.Resolve(append(fileSDCache.Addresses(), storeAddrs...)):   *)
(* the resolution of every given name replaces the provider's state.      *)
Resolve(given) == [n \in given |-> Records[n]]

(* Mutant: only the --store flags are resolved.                           *)
DNSRefreshStaticOnly ==
    /\ dnsActor = "running"
    /\ resolved' = Resolve(StaticNames)
    /\ UNCHANGED <<sdDisk, sdChan, fileSDCache, gossip, stores, changes,
                   storeActor, reader, sdActor, dnsActor, intr>>

(* The DNS actor: runutil.Repeat(dnsSDInterval, ctx.Done(), Resolve).     *)
DNSRefresh ==
    /\ dnsActor = "running"
    /\ resolved' = Resolve(fileSDCache \cup StaticNames)
    /\ UNCHANGED <<sdDisk, sdChan, fileSDCache, gossip, stores, changes,
                   storeActor, reader, sdActor, dnsActor, intr>>

DNSReturn ==
    /\ dnsActor = "running" /\ intr >= DNSCancelled
    /\ dnsActor' = "returned"
    /\ UNCHANGED <<sdDisk, sdChan, fileSDCache, resolved, gossip, stores,
                   changes, storeActor, reader, sdActor, intr>>

-----------------------------------------------------------------------------
(* The environment: SD files edited, store peers joining or leaving.      *)
EditSDFiles(S) ==
    /\ changes < MaxChanges
    /\ S # sdDisk
    /\ sdDisk' = S
    /\ changes' = changes + 1
    /\ UNCHANGED <<sdChan, fileSDCache, resolved, gossip, stores, storeActor,
                   reader, sdActor, dnsActor, intr>>

GossipChange(G) ==
    /\ changes < MaxChanges
    /\ G # gossip
    /\ gossip' = G
    /\ changes' = changes + 1
    /\ UNCHANGED <<sdDisk, sdChan, fileSDCache, resolved, stores, storeActor,
                   reader, sdActor, dnsActor, intr>>

-----------------------------------------------------------------------------
(* The first interrupt: cancel() of the store actor's context, then      *)
(* stores.Close().                                                        *)
CloseStores ==
    /\ intr = 0
    /\ intr' = StoresClosed
    /\ UNCHANGED <<sdDisk, sdChan, fileSDCache, resolved, gossip, stores,
                   changes, storeActor, reader, sdActor, dnsActor>>

(* cancelRun of the file SD actor.                                        *)
StopRun ==
    /\ intr = StoresClosed
    /\ intr' = RunCancelled
    /\ UNCHANGED <<sdDisk, sdChan, fileSDCache, resolved, gossip, stores,
                   changes, storeActor, reader, sdActor, dnsActor>>

(* The reader's interrupt: cancelUpdate, then close(fileSDUpdates).       *)
CloseUpdates ==
    /\ intr = RunCancelled
    /\ intr' = UpdatesClosed
    /\ UNCHANGED <<sdDisk, sdChan, fileSDCache, resolved, gossip, stores,
                   changes, storeActor, reader, sdActor, dnsActor>>

(* cancel() of the DNS actor's context.                                   *)
CancelDNS ==
    /\ intr = UpdatesClosed
    /\ intr' = DNSCancelled
    /\ UNCHANGED <<sdDisk, sdChan, fileSDCache, resolved, gossip, stores,
                   changes, storeActor, reader, sdActor, dnsActor>>

(* file.Discovery.Run sees ctxRun done and returns, withdrawing an update *)
(* it was offering.                                                       *)
SDReturn ==
    /\ sdActor = "running" /\ intr >= RunCancelled
    /\ sdActor' = "returned"
    /\ sdChan' = NoUpdate
    /\ UNCHANGED <<sdDisk, fileSDCache, resolved, gossip, stores, changes,
                   storeActor, reader, dnsActor, intr>>

(* A send still offered once the channel is closed panics when the       *)
(* select of file.Discovery picks it.                                     *)
SDSendOnClosed ==
    /\ sdActor = "running" /\ intr >= UpdatesClosed /\ sdChan # NoUpdate
    /\ sdActor' = "panicked"
    /\ UNCHANGED <<sdDisk, sdChan, fileSDCache, resolved, gossip, stores,
                   changes, storeActor, reader, dnsActor, intr>>

(* The reader's select picks ctxUpdate.Done() and returns; a nil from the *)
(* closed channel only makes it loop.                                     *)
ReaderReturn ==
    /\ reader = "select" /\ intr >= UpdatesClosed
    /\ reader' = "returned"
    /\ UNCHANGED <<sdDisk, sdChan, fileSDCache, resolved, gossip, stores,
                   changes, storeActor, sdActor, dnsActor, intr>>

Next ==
    \/ StoreTick
    \/ StoreReturn
    \/ SendUpdate
    \/ SendNil
    \/ ReceiveUpdate
    \/ ReaderStoreUpdate
    \/ DNSRefresh
    \/ DNSReturn
    \/ \E S \in SUBSET SDNames : EditSDFiles(S)
    \/ \E G \in SUBSET PeerIds : GossipChange(G)
    \/ CloseStores
    \/ StopRun
    \/ CloseUpdates
    \/ CancelDNS
    \/ SDReturn
    \/ SDSendOnClosed
    \/ ReaderReturn

(* Every actor is a goroutine looping for ever; the store and DNS actors  *)
(* tick on their interval.  file.Discovery refreshes on its interval and  *)
(* nil updates may take the channel in between, so every refresh of the  *)
(* files is eventually received: strong fairness on SendUpdate.  A done   *)
(* context stays done, so each actor eventually sees it.  The interrupts  *)
(* are up to the environment.                                             *)
Fairness ==
    /\ WF_vars(StoreTick)
    /\ SF_vars(SendUpdate)
    /\ WF_vars(ReceiveUpdate)
    /\ WF_vars(ReaderStoreUpdate)
    /\ WF_vars(DNSRefresh)
    /\ WF_vars(StoreReturn)
    /\ WF_vars(SDReturn)
    /\ WF_vars(ReaderReturn)
    /\ WF_vars(DNSReturn)

Spec == Init /\ [][Next]_vars /\ Fairness

-----------------------------------------------------------------------------
TypeOK ==
    /\ sdDisk \subseteq SDNames
    /\ sdChan \in (SUBSET SDNames) \cup {NilUpdate, NoUpdate}
    /\ fileSDCache \subseteq SDNames
    /\ DOMAIN resolved \subseteq Names
    /\ gossip \subseteq PeerIds
    /\ stores \subseteq Addrs
    /\ changes \in 0..MaxChanges
    /\ storeActor \in {"running", "returned"}
    /\ reader \in {"select", "update", "returned"}
    /\ sdActor \in {"running", "returned", "panicked"}
    /\ dnsActor \in {"running", "returned"}
    /\ intr \in 0..DNSCancelled

(* The addresses the store set should serve: every gossip peer with an    *)
(* address, and the records of every name on disk or in --store.         *)
Wanted == GossipAddrs \cup UNION {Records[n] : n \in sdDisk \cup StaticNames}

(* Spec 4.3 to 4.5: once the querier keeps running and gossip and the SD  *)
(* files stop changing, the store set settles on exactly the wanted       *)
(* addresses.  A file SD change reaches it only by the way of the cache,  *)
(* the next DNS resolution and a later stores.Update: the reader's own    *)
(* Update right after the cache write still sees the old resolution.      *)
StoreSetConverges ==
    <>[](intr = 0) => <>[](stores = Wanted)

=============================================================================
