----------------------------- MODULE MCFailover -----------------------------
(* Instances of Failover for TLC: gateways A1/A2 and the zones seeded to them. *)
EXTENDS Failover

CONSTANTS A1, A2, Zone1, Zone2

MCPeer == [g \in {A1, A2} |-> IF g = A1 THEN A2 ELSE A1]
MCHome == [z \in Zones |-> IF z = Zone1 THEN A1 ELSE A2]
=============================================================================
