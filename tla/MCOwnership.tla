---------------------------- MODULE MCOwnership ----------------------------
(* Instances of Ownership for TLC: the deployed pair A1/A2 with zones 1 and 2. *)
EXTENDS Ownership

CONSTANTS A1, A2, Zone1, Zone2

MCPeer == [g \in {A1, A2} |-> IF g = A1 THEN A2 ELSE A1]
MCHome == [z \in Zones |-> IF z = Zone1 THEN A1 ELSE A2]
=============================================================================
