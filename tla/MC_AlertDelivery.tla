-------------------------- MODULE MC_AlertDelivery --------------------------
(* One rule; three alertmanager URLs: a plain http://h1 URL, an A-record *)
(* name without a port and an SRV name; two alertmanager hosts.  The SRV  *)
(* name resolves to h1 as well, so the list can hold h1 twice.            *)
EXTENDS AlertDelivery

CONSTANTS r1, amS, amA, amSRV, h1, h2

MCRules == {r1}
MCAMAddrs == <<amS, amA, amSRV>>
MCKind == (amS :> "none") @@ (amA :> "dns") @@ (amSRV :> "dnssrv")
MCHasPort == [n \in {amS, amA, amSRV} |-> FALSE]
MCStaticHost == [n \in {amS, amA, amSRV} |-> h1]
MCHosts == {h1, h2}
MCInitRecords == (amA :> {h2}) @@ (amSRV :> {h1, h2})

(* For the queue runs: the single plain URL http://h1.                    *)
MCAMAddrsStatic == <<amS>>
MCInitRecordsNone == [n \in {} |-> {}]
=============================================================================
