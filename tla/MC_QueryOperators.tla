------------------------- MODULE MC_QueryOperators -------------------------
(***************************************************************************)
(* The pure operators of the query path, checked in one run: the decoding *)
(* of an instant-query answer (QueryDecode) and the address deduplication *)
(* of the querier and the ruler (StoreDedup).  The initial state picks a  *)
(* part and an input of it; the other part's variables hold a fixed value *)
(* and its invariants are not asked of that state.                        *)
(* StoreDedup: two addresses and two gossip peers, enough for a gossip    *)
(* peer and DNS, or two gossip peers, to list the same address.           *)
(***************************************************************************)
EXTENDS Naturals, Sequences

CONSTANTS
    Vals, LabelNames, LabelValues, MaxScalarLen, MaxSamples,
    a1, a2, p1, p2, DNS, EmptyAddr, MaxLen, MaxDNS

VARIABLES
    part,                      \* "decode" or "dedup"
    in,                        \* QueryDecode: the answer the peer gives
    specs, peerAddr, dnsAddrs  \* StoreDedup: the inputs of the walks

vars == <<part, in, specs, peerAddr, dnsAddrs>>

MCAddrs == {a1, a2}
MCPeerIds == {p1, p2}

QD == INSTANCE QueryDecode
SD == INSTANCE StoreDedup WITH Addrs <- MCAddrs, PeerIds <- MCPeerIds

Init ==
    \/ /\ part = "decode"
       /\ QD!Init
       /\ specs = <<>>
       /\ peerAddr = [p \in MCPeerIds |-> EmptyAddr]
       /\ dnsAddrs = <<>>
    \/ /\ part = "dedup"
       /\ SD!Init
       /\ in = QD!Error

Next == UNCHANGED vars

Spec == Init /\ [][Next]_vars

-----------------------------------------------------------------------------
(* Spec 4.6 and 8: convertScalarJSONToVector turns exactly the            *)
(* (timestamp, value) pairs into a one-sample vector and rejects every    *)
(* other shape, a 3-element array among them.                            *)
ScalarDecodeMatchesReference ==
    part = "decode" => QD!ScalarDecodeMatchesReference

(* queryPrometheusInstant returns the reference result for every HTTP     *)
(* outcome and result type, label sets sorted whatever the map order.     *)
InstantQueryMatchesReference ==
    part = "decode" => QD!InstantQueryMatchesReference

(* Spec 4.4 and 8: removeDuplicateStoreSpecs keeps one spec per address, *)
(* the one listed last, and the counter grows by (count - 1) per address. *)
StoreDedupMatchesReference ==
    part = "dedup" => SD!StoreDedupMatchesReference

(* Whatever the map order, the store set of runQuery gets exactly one    *)
(* spec for every non-empty gossip address and every DNS address, and an  *)
(* address DNS also lists is served by its DNS spec, not a gossip spec.   *)
StoreSpecsCoverSources ==
    part = "dedup" => SD!StoreSpecsCoverSources

=============================================================================
