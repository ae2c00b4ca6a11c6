----------------------------- MODULE EpochLease -----------------------------
(***************************************************************************)
(* What a controller promises about authority, whatever the gateways and   *)
(* the network do: it follows one gateway per epoch, the epochs it follows *)
(* never go back, not even across a reboot, and its actuator moves only    *)
(* for the gateway it follows.  Failover implements this specification.    *)
(***************************************************************************)
EXTENDS Naturals

CONSTANTS Gateways, Zones, NoGateway

VARIABLES
  lease,  \* lease[z]: the gateway and epoch the controller of z follows
  moved   \* moved[z]: on whose behalf, and at which epoch, z last actuated

leaseVars == <<lease, moved>>

Authority == [gw : Gateways \cup {NoGateway}, epoch : Nat]

TypeOK ==
  /\ lease \in [Zones -> Authority]
  /\ moved \in [Zones -> Authority]

Init ==
  /\ lease = [z \in Zones |-> [gw |-> NoGateway, epoch |-> 1]]
  /\ moved = [z \in Zones |-> [gw |-> NoGateway, epoch |-> 0]]

\* a may be followed after b: a newer epoch, or the same one and gateway.
Succeeds(a, b) ==
  \/ a.epoch > b.epoch
  \/ a.epoch = b.epoch /\ b.gw \in {NoGateway, a.gw}

\* The controller of z follows what its next lease says.
Follow(z) ==
  /\ lease'[z] \in [gw : Gateways, epoch : Nat]
  /\ Succeeds(lease'[z], lease[z])
  /\ lease' = [lease EXCEPT ![z] = lease'[z]]

Grant(z) == Follow(z) /\ UNCHANGED moved

Actuate(z) == Follow(z) /\ moved' = [moved EXCEPT ![z] = lease'[z]]

Next == \E z \in Zones : Grant(z) \/ Actuate(z)

Spec == Init /\ [][Next]_leaseVars

-----------------------------------------------------------------------------

\* The actuator never moves for a gateway once it has moved for a successor:
\* movements come in epoch order and an epoch has one gateway.
MovesAreFenced ==
  [][\A z \in Zones : moved'[z] # moved[z] => Succeeds(moved'[z], moved[z])]_moved
=============================================================================
