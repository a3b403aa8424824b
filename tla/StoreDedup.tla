----------------------------- MODULE StoreDedup -----------------------------
(***************************************************************************)
(* Address deduplication of the Thanos querier and ruler.                  *)
(*                                                                         *)
(* removeDuplicateStoreSpecs (cmd/thanos/query.go:431-446) walks the       *)
(* specs, increments the counter for every address already seen and stores *)
(* the spec under its address, so the last spec of an address wins; the    *)
(* values of the map come back in map order, i.e. as a set.                *)
(* removeDuplicateQueryAddrs (cmd/thanos/rule.go:821-836) is the same walk *)
(* over plain addresses.                                                   *)
(* The store-spec function of runQuery (query.go:268-287) lists one gossip *)
(* spec per store peer with a non-empty address, in Go map order, then one *)
(* gRPC spec per DNS-resolved address, and deduplicates the list.          *)
(*                                                                         *)
(* The inputs are fixed by the initial state and never change: the         *)
(* invariants compare the code's walk with reference definitions over      *)
(* every input within the bounds.                                          *)
(***************************************************************************)
EXTENDS Naturals, Sequences, FiniteSets, SequencesExt

CONSTANTS
    Addrs,      \* store addresses
    PeerIds,    \* gossip peers of a store type
    DNS,        \* model value: the source of a spec built from a DNS address
    EmptyAddr,  \* model value: the empty StoreAPIAddr ""
    MaxLen,     \* bound on the length of the spec list
    MaxDNS      \* bound on the length of dnsProvider.Addresses()

ASSUME DNS \notin PeerIds /\ EmptyAddr \notin Addrs

Sources == PeerIds \cup {DNS}

(* A spec is its address and where it came from (gossipSpec.id or DNS).   *)
Specs == [addr : Addrs, src : Sources]

VARIABLES
    specs,      \* input of removeDuplicateStoreSpecs
    peerAddr,   \* peer.PeerStates(...): peer id -> StoreAPIAddr
    dnsAddrs    \* dnsProvider.Addresses()

vars == <<specs, peerAddr, dnsAddrs>>

-----------------------------------------------------------------------------
(* Mutant: the map keeps the first spec of an address.                    *)
RECURSIVE DedupLoopFirstWins(_, _, _)
DedupLoopFirstWins(rest, set, dups) ==
    IF rest = <<>> THEN [set |-> set, dups |-> dups]
    ELSE LET spec == Head(rest)
             addr == spec.addr
         IN DedupLoopFirstWins(Tail(rest),
                      [a \in DOMAIN set \cup {addr} |->
                           IF a = addr /\ addr \notin DOMAIN set
                              THEN spec ELSE set[a]],
                      dups + (IF addr \in DOMAIN set THEN 1 ELSE 0))

(* The loop of removeDuplicateStoreSpecs: `set` is the map addr -> spec,  *)
(* `dups` the increments of the duplicated-address counter.               *)
RECURSIVE DedupLoop(_, _, _)
DedupLoop(rest, set, dups) ==
    IF rest = <<>> THEN [set |-> set, dups |-> dups]
    ELSE LET spec == Head(rest)
             addr == spec.addr
         IN DedupLoop(Tail(rest),
                      [a \in DOMAIN set \cup {addr} |->
                           IF a = addr THEN spec ELSE set[a]],
                      dups + (IF addr \in DOMAIN set THEN 1 ELSE 0))

removeDuplicateStoreSpecs(list) ==
    LET r == DedupLoop(list, [a \in {} |-> a], 0)
    IN [deduplicated |-> {r.set[a] : a \in DOMAIN r.set}, dups |-> r.dups]

(* The same walk over addresses; the map only records presence.          *)
removeDuplicateQueryAddrs(addrs) ==
    LET r == DedupLoop([i \in DOMAIN addrs |-> [addr |-> addrs[i]]],
                       [a \in {} |-> a], 0)
    IN [deduplicated |-> DOMAIN r.set, dups |-> r.dups]

(* Mutant: peers propagating an empty address are not skipped.           *)
GossipSpecsKeepEmpty(order) ==
    [i \in DOMAIN order |-> [addr |-> peerAddr[order[i]], src |-> order[i]]]

(* Gossip peers propagating an empty address are logged and skipped.     *)
GossipSpecs(order) ==
    LET kept == SelectSeq(order, LAMBDA id : peerAddr[id] # EmptyAddr)
    IN [i \in DOMAIN kept |-> [addr |-> peerAddr[kept[i]], src |-> kept[i]]]

(* The store-spec function, iterating the peer map in order `order`.     *)
StoreSpecs(order) ==
    LET dnsSpecs == [i \in DOMAIN dnsAddrs |-> [addr |-> dnsAddrs[i],
                                                src  |-> DNS]]
    IN removeDuplicateStoreSpecs(GossipSpecs(order) \o dnsSpecs).deduplicated

(* Every order in which Go may iterate the peer map.                      *)
PeerOrders == SetToSeqs(DOMAIN peerAddr)

Init ==
    /\ specs \in BoundedSeq(Specs, MaxLen)
    /\ peerAddr \in [PeerIds -> Addrs \cup {EmptyAddr}]
    /\ dnsAddrs \in BoundedSeq(Addrs, MaxDNS)

Next == UNCHANGED vars

Spec == Init /\ [][Next]_vars

-----------------------------------------------------------------------------
(* Spec 4.4 and 8: the deduplicated list holds one spec per address, the *)
(* one listed last, and the counter grows by (count - 1) per address.    *)
StoreDedupMatchesReference ==
    LET addrs == {specs[i].addr : i \in DOMAIN specs}
        last(a) == specs[SelectLastInSeq(specs, LAMBDA s : s.addr = a)]
        r == removeDuplicateStoreSpecs(specs)
    IN /\ r.deduplicated = {last(a) : a \in addrs}
       /\ r.dups = Len(specs) - Cardinality(addrs)

(* Whatever the map order, the store set gets exactly one spec for every *)
(* non-empty gossip address and every DNS address, and an address that   *)
(* DNS also lists is served by its DNS spec, never by a gossip spec whose *)
(* metadata comes from the peer's gossip state.                          *)
StoreSpecsCoverSources ==
    \A order \in PeerOrders :
        LET out == StoreSpecs(order)
            gossipAddrs == {peerAddr[id] : id \in PeerIds} \ {EmptyAddr}
        IN /\ {s.addr : s \in out} = gossipAddrs \cup ToSet(dnsAddrs)
           /\ \A s, t \in out : s.addr = t.addr => s = t
           /\ \A s \in out : (s.addr \in ToSet(dnsAddrs)) <=> (s.src = DNS)
           /\ \A s \in out : s.src # DNS => peerAddr[s.src] = s.addr
=============================================================================
