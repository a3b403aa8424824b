---------------------------- MODULE QueryFanout ----------------------------
(***************************************************************************)
(* Query-peer discovery and the query function of the Thanos ruler        *)
(* (cmd/thanos/rule.go).                                                   *)
(*                                                                         *)
(* Discovery: file SD (Prometheus file.Discovery, not in this repository)  *)
(* sends target updates, possibly nil, on the unbuffered channel           *)
(* fileSDUpdates; the reader actor (lines 408-420) ignores nil and stores  *)
(* the rest in fileSDCache; the DNS actor (lines 494-504) resolves the     *)
(* cached names plus the --query flags with dnsProvider.Resolve.  Gossip   *)
(* peers of type query join and leave.                                     *)
(* Query: queryFn (lines 252-281) lists gossip addresses and               *)
(* dnsProvider.Addresses(), counts duplicates, draws a random permutation  *)
(* and returns the answer, or the error, of the first peer in it.          *)
(*                                                                         *)
(* A list of candidate addresses is a bag: the order is randomised by      *)
(* rand.Perm, so only the multiplicity of each address matters.            *)
(* Shutdown: run.Group calls the interrupts in the order the actors were   *)
(* added, cancelRun (line 403) before cancelUpdate and                    *)
(* close(fileSDUpdates) (lines 421-423); both actors keep running until    *)
(* their select sees the cancellation.                                     *)
(***************************************************************************)
EXTENDS Naturals, FiniteSets, FiniteSetsExt

CONSTANTS
    Addrs,        \* concrete host:port addresses of query peers
    StaticNames,  \* values of the --query flag
    SDNames,      \* names that the file SD files can list
    Records,      \* Records[n]: the addresses a successful lookup of n gives
    PeerIds,      \* gossip peer identifiers
    PeerAddr,     \* PeerAddr[id]: the QueryAPIAddr that peer id advertises
    NilUpdate,    \* model value: a nil []*targetgroup.Group
    NoUpdate,     \* model value: nothing offered on fileSDUpdates
    NoAddr,       \* model value: no peer was picked
    MaxChanges,   \* bound on changes of the environment
    MaxQueries    \* bound on calls of queryFn

Names == StaticNames \cup SDNames

ASSUME /\ Records \in [Names -> SUBSET Addrs]
       /\ PeerAddr \in [PeerIds -> Addrs]
       /\ MaxChanges \in Nat /\ MaxQueries \in Nat

VARIABLES
    sdDisk,          \* names listed in the file SD files on disk
    sdChan,          \* the update the file SD actor is blocked offering
    fileSDCache,     \* names held by fileSDCache
    resolved,        \* dnsProvider state: name -> resolved addresses
    gossip,          \* query peers in the gossip cluster
    up,              \* addresses that answer the instant query
    changes,         \* environment changes so far
    queries,         \* calls of queryFn so far
    duplicatedQuery, \* counter thanos_rule_duplicated_query_address
    lastQuery,       \* the latest call of queryFn
    runCancelled,    \* cancelRun has been called
    updateCancelled, \* cancelUpdate has been called
    closed,          \* fileSDUpdates is closed
    sdActor,         \* the file SD actor: "running", "returned", "panicked"
    reader           \* the reader actor: "running" or "returned"

shutdownVars == <<runCancelled, updateCancelled, closed, sdActor, reader>>
vars == <<sdDisk, sdChan, fileSDCache, resolved, gossip, up, changes,
          queries, duplicatedQuery, lastQuery, shutdownVars>>

Outcomes == {"none", "result", "error", "noPeer"}

-----------------------------------------------------------------------------
(* Number of times address a is listed: once per gossip peer advertising *)
(* it and once per resolved name that resolved to it.                     *)
Multiplicity(a) ==
    Cardinality({id \in gossip : PeerAddr[id] = a})
      + Cardinality({n \in DOMAIN resolved : a \in resolved[n]})

(* The addrs slice of queryFn as a bag.                                   *)
Candidates ==
    [a \in {x \in Addrs : Multiplicity(x) > 0} |-> Multiplicity(a)]

(* len(addrs) - len(set) as counted by removeDuplicateQueryAddrs.         *)
Duplicates(bag) ==
    MapThenSumSet(LAMBDA a : bag[a], DOMAIN bag) - Cardinality(DOMAIN bag)

Init ==
    /\ sdDisk \in SUBSET SDNames
    /\ sdChan = NoUpdate
    /\ fileSDCache = {}
    /\ resolved = [n \in {} |-> {}]
    /\ gossip = {}
    /\ up \in SUBSET Addrs
    /\ changes = 0
    /\ queries = 0
    /\ duplicatedQuery = 0
    /\ lastQuery = [cands |-> <<>>, up |-> {}, picked |-> NoAddr,
                    outcome |-> "none"]
    /\ runCancelled = FALSE
    /\ updateCancelled = FALSE
    /\ closed = FALSE
    /\ sdActor = "running"
    /\ reader = "running"

-----------------------------------------------------------------------------
(* file.Discovery reads the files and offers their targets.               *)
SendUpdate ==
    /\ sdActor = "running"
    /\ sdChan = NoUpdate
    /\ sdChan' = sdDisk
    /\ UNCHANGED <<sdDisk, fileSDCache, resolved, gossip, up, changes,
                   queries, duplicatedQuery, lastQuery, shutdownVars>>

(* "Discoverers sometimes send nil updates."                             *)
SendNil ==
    /\ sdActor = "running"
    /\ sdChan = NoUpdate
    /\ sdChan' = NilUpdate
    /\ UNCHANGED <<sdDisk, fileSDCache, resolved, gossip, up, changes,
                   queries, duplicatedQuery, lastQuery, shutdownVars>>

(* Mutant: the nil check is dropped and the nil update is stored.        *)
ReceiveUpdateNoNilCheck ==
    /\ reader = "running"
    /\ ~closed
    /\ sdChan # NoUpdate
    /\ sdChan' = NoUpdate
    /\ fileSDCache' = sdChan
    /\ UNCHANGED <<sdDisk, resolved, gossip, up, changes, queries,
                   duplicatedQuery, lastQuery, shutdownVars>>

(* Mutant: an empty update is skipped like a nil one (len(update) == 0). *)
ReceiveUpdateSkipEmpty ==
    /\ reader = "running"
    /\ ~closed
    /\ sdChan # NoUpdate
    /\ sdChan' = NoUpdate
    /\ IF sdChan = NilUpdate \/ sdChan = {}
          THEN UNCHANGED fileSDCache
          ELSE fileSDCache' = sdChan
    /\ UNCHANGED <<sdDisk, resolved, gossip, up, changes, queries,
                   duplicatedQuery, lastQuery, shutdownVars>>

(* The reader actor: `if update == nil { continue }`, else Update.        *)
ReceiveUpdate ==
    /\ reader = "running"
    /\ ~closed
    /\ sdChan # NoUpdate
    /\ sdChan' = NoUpdate
    /\ IF sdChan = NilUpdate
          THEN UNCHANGED fileSDCache
          ELSE fileSDCache' = sdChan
    /\ UNCHANGED <<sdDisk, resolved, gossip, up, changes, queries,
                   duplicatedQuery, lastQuery, shutdownVars>>

(* dnsProvider.Resolve(append(fileSDCache.Addresses(), queryAddrs...)):   *)
(* a failed lookup keeps the old entry of that name, names that are no    *)
(* longer given are dropped.  ok[n] is the outcome of the lookup of n.    *)
Resolve(ok) ==
    LET given == fileSDCache \cup StaticNames
        kept  == {n \in given : ok[n] \/ n \in DOMAIN resolved}
    IN resolved' = [n \in kept |-> IF ok[n] THEN Records[n] ELSE resolved[n]]

DNSRefresh ==
    /\ \E ok \in [fileSDCache \cup StaticNames -> BOOLEAN] : Resolve(ok)
    /\ UNCHANGED <<sdDisk, sdChan, fileSDCache, gossip, up, changes, queries,
                   duplicatedQuery, lastQuery, shutdownVars>>

(* queryFn: the first peer of rand.Perm decides the outcome.              *)
QueryFn ==
    /\ queries < MaxQueries
    /\ queries' = queries + 1
    /\ LET cands == Candidates IN
       /\ duplicatedQuery' = duplicatedQuery + Duplicates(cands)
       /\ IF cands = <<>>
             THEN lastQuery' = [cands |-> cands, up |-> up, picked |-> NoAddr,
                                outcome |-> "noPeer"]
             ELSE \E a \in DOMAIN cands :
                    lastQuery' = [cands |-> cands, up |-> up, picked |-> a,
                                  outcome |-> IF a \in up THEN "result"
                                                          ELSE "error"]
    /\ UNCHANGED <<sdDisk, sdChan, fileSDCache, resolved, gossip, up, changes,
                   shutdownVars>>

-----------------------------------------------------------------------------
(* The environment: SD files edited, peers joining or leaving, peers      *)
(* going up or down.                                                      *)
EditSDFiles(S) ==
    /\ changes < MaxChanges
    /\ S # sdDisk
    /\ sdDisk' = S
    /\ changes' = changes + 1
    /\ UNCHANGED <<sdChan, fileSDCache, resolved, gossip, up, queries,
                   duplicatedQuery, lastQuery, shutdownVars>>

GossipChange(G) ==
    /\ changes < MaxChanges
    /\ G # gossip
    /\ gossip' = G
    /\ changes' = changes + 1
    /\ UNCHANGED <<sdDisk, sdChan, fileSDCache, resolved, up, queries,
                   duplicatedQuery, lastQuery, shutdownVars>>

HealthChange(U) ==
    /\ changes < MaxChanges
    /\ U # up
    /\ up' = U
    /\ changes' = changes + 1
    /\ UNCHANGED <<sdDisk, sdChan, fileSDCache, resolved, gossip, queries,
                   duplicatedQuery, lastQuery, shutdownVars>>

-----------------------------------------------------------------------------
(* The first interrupt of the group: cancelRun.                          *)
StopRun ==
    /\ ~runCancelled
    /\ runCancelled' = TRUE
    /\ UNCHANGED <<sdDisk, sdChan, fileSDCache, resolved, gossip, up, changes,
                   queries, duplicatedQuery, lastQuery, updateCancelled, closed,
                   sdActor, reader>>

(* The reader's interrupt, after cancelRun: cancelUpdate, then            *)
(* close(fileSDUpdates).                                                   *)
CloseUpdates ==
    /\ runCancelled /\ ~closed
    /\ updateCancelled' = TRUE
    /\ closed' = TRUE
    /\ UNCHANGED <<sdDisk, sdChan, fileSDCache, resolved, gossip, up, changes,
                   queries, duplicatedQuery, lastQuery, runCancelled,
                   sdActor, reader>>

(* file.Discovery.Run sees ctxRun done and returns, withdrawing an update *)
(* it was offering (its send is a select with ctx.Done()).                *)
SDReturn ==
    /\ sdActor = "running" /\ runCancelled
    /\ sdActor' = "returned"
    /\ sdChan' = NoUpdate
    /\ UNCHANGED <<sdDisk, fileSDCache, resolved, gossip, up, changes, queries,
                   duplicatedQuery, lastQuery, runCancelled, updateCancelled,
                   closed, reader>>

(* A send still offered when the channel is closed is a ready select case *)
(* too, and Go panics when the select picks it.                           *)
SDSendOnClosed ==
    /\ sdActor = "running" /\ closed /\ sdChan # NoUpdate
    /\ sdActor' = "panicked"
    /\ UNCHANGED <<sdDisk, sdChan, fileSDCache, resolved, gossip, up, changes,
                   queries, duplicatedQuery, lastQuery, runCancelled,
                   updateCancelled, closed, reader>>

(* The reader's select picks ctxUpdate.Done() and returns.  Once the      *)
(* channel is closed, the other case yields nil at once and the loop      *)
(* continues; that step changes nothing and is not an action.            *)
ReaderReturn ==
    /\ reader = "running" /\ updateCancelled
    /\ reader' = "returned"
    /\ UNCHANGED <<sdDisk, sdChan, fileSDCache, resolved, gossip, up, changes,
                   queries, duplicatedQuery, lastQuery, runCancelled,
                   updateCancelled, closed, sdActor>>

Next ==
    \/ SendUpdate
    \/ SendNil
    \/ ReceiveUpdate
    \/ DNSRefresh
    \/ QueryFn
    \/ \E S \in SUBSET SDNames : EditSDFiles(S)
    \/ \E G \in SUBSET PeerIds : GossipChange(G)
    \/ \E U \in SUBSET Addrs : HealthChange(U)
    \/ StopRun
    \/ CloseUpdates
    \/ SDReturn
    \/ SDSendOnClosed
    \/ ReaderReturn

(* file.Discovery refreshes on its interval, the reader and the DNS actor *)
(* are goroutines looping for ever.  Nil updates may take the channel   *)
(* in between, but every refresh sends the files again: strong fairness. *)
(* A cancelled context stays done, and Go picks among ready select cases  *)
(* uniformly at random, so each actor eventually sees it: weak fairness  *)
(* on SDReturn and ReaderReturn.  The interrupts themselves, and so the  *)
(* shutdown, are up to the environment.                                  *)
Fairness ==
    /\ SF_vars(SendUpdate)
    /\ WF_vars(ReceiveUpdate)
    /\ WF_vars(DNSRefresh)
    /\ WF_vars(SDReturn)
    /\ WF_vars(ReaderReturn)

Spec == Init /\ [][Next]_vars /\ Fairness

-----------------------------------------------------------------------------
(* Written with = so that a model value in place of a set is a violation. *)
IsNameSet(x) == \E S \in SUBSET SDNames : x = S

TypeOK ==
    /\ sdDisk \subseteq SDNames
    /\ sdChan \in (SUBSET SDNames) \cup {NilUpdate, NoUpdate}
    /\ IsNameSet(fileSDCache)
    /\ DOMAIN resolved \subseteq Names
    /\ \A n \in DOMAIN resolved : resolved[n] \subseteq Addrs
    /\ gossip \subseteq PeerIds
    /\ up \subseteq Addrs
    /\ changes \in 0..MaxChanges
    /\ queries \in 0..MaxQueries
    /\ duplicatedQuery \in Nat
    /\ lastQuery.outcome \in Outcomes
    /\ sdActor \in {"running", "returned", "panicked"}
    /\ reader \in {"running", "returned"}

(* A name removed from the file SD files is eventually forgotten by the  *)
(* DNS provider, so no query keeps going to its addresses: the update    *)
(* travels file SD -> reader -> fileSDCache -> DNS actor, and an empty   *)
(* (non-nil) update must not be mistaken for a nil one.  Once file SD is *)
(* cancelled the cache is no longer updated.                             *)
RemovedTargetForgotten ==
    \A n \in SDNames :
        (n \notin sdDisk) ~> (n \notin DOMAIN resolved \/ n \in sdDisk \/ runCancelled)

(* Spec 4.6 and 8: queryFn tries peers in the permuted order until one   *)
(* answers, so it fails only when no candidate peer was reachable.       *)
QueryFailsOnlyWhenAllDown ==
    lastQuery.outcome = "error" => DOMAIN lastQuery.cands \cap lastQuery.up = {}

(* Spec 4.4: the query-peer list the fan-out draws from contains each     *)
(* address exactly once.  queryFn calls removeDuplicateQueryAddrs, which *)
(* counts the duplicates and returns the deduplicated list, but it goes   *)
(* on permuting the original addrs.                                       *)
QueryCandidatesDistinct ==
    \A a \in DOMAIN lastQuery.cands : lastQuery.cands[a] = 1

=============================================================================
