------------------------- MODULE MC_QueryStoreSet -------------------------
(* One --store name and one file SD name that resolve to different        *)
(* addresses; two gossip peers, one advertising an address that DNS also  *)
(* returns, the other an empty address.                                   *)
EXTENDS QueryStoreSet, TLC

CONSTANTS a1, a2, a3, nStatic, nSD, p1, p2

MCAddrs == {a1, a2, a3}
MCStaticNames == {nStatic}
MCSDNames == {nSD}
MCRecords == (nStatic :> {a1}) @@ (nSD :> {a2})
MCPeerIds == {p1, p2}
MCPeerAddr == (p1 :> a2) @@ (p2 :> EmptyAddr)
=============================================================================
