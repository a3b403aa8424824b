-------------------------- MODULE MC_QueryFanout --------------------------
(* One static name and one file SD name, three addresses; two gossip    *)
(* peers, one of which advertises an address that DNS also returns.     *)
EXTENDS QueryFanout

CONSTANTS a1, a2, a3, nStatic, nSD, p1, p2

MCAddrs == {a1, a2, a3}
MCStaticNames == {nStatic}
MCSDNames == {nSD}
MCRecords == [n \in {nStatic, nSD} |-> IF n = nStatic THEN {a1} ELSE {a2, a3}]
MCPeerIds == {p1, p2}
MCPeerAddr == [id \in MCPeerIds |-> IF id = p1 THEN a1 ELSE a3]
=============================================================================
