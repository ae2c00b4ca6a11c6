--------------------------- MODULE FailoverProofs ---------------------------
(***************************************************************************)
(* The safety properties of Failover for every pair of gateways, every set *)
(* of zones and all bounds: the epoch fence of the controllers, and that   *)
(* they implement EpochLease.                                              *)
(***************************************************************************)
EXTENDS Failover, OwnershipProofs

\* The variables of the controllers have their types.
ControllersOK ==
  /\ guard \in [Zones -> Guard]
  /\ flash \in [Zones -> Authority]
  /\ session \in [Zones -> Owner]
  /\ frames \in SUBSET Frame
  /\ moved \in [Zones -> Authority]
  /\ reboots \in Nat

\* A controller follows what it last moved for, or a successor of it.
MovedForLease == \A z \in Zones : Lease!Succeeds(flash[z], moved[z])

\* What holds of the controllers.
Fenced ==
  /\ ControllersOK
  /\ FramesAreDurable
  /\ FollowedEpochIsDurable
  /\ FenceIsSaved
  /\ MovedForLease

\* The inductive invariant of the whole.
FIInv == IInv /\ Fenced

\* The step of the controllers' abstract specification, or none.
LeaseStep == [Lease!Next]_(Lease!leaseVars)

\* No controller moves for a gateway that has been succeeded.
MovesForward ==
  \A z \in Zones : moved'[z] # moved[z] => Lease!Succeeds(moved'[z], moved[z])
-----------------------------------------------------------------------------
(* The gateways. *)

\* A controller that cannot save its epoch changes nothing of the pair.
LEMMA PairUnchanged ==
  ASSUME IInv, UNCHANGED <<up, node, disk, monitor, link, beats, crashes>>,
         faults' \in Nat
  PROVE  IInv' /\ SavedForward
<1>1. Core' /\ SavedForward
  BY CoreUnchanged DEF IInv
<1>2. RestOK' /\ Said'
  BY DEF IInv, RestOK, Said
<1> QED
  BY <1>1, <1>2 DEF IInv

\* Succession is transitive.
LEMMA SucceedsTransitive ==
  ASSUME NEW a \in Authority, NEW b \in Authority, NEW c \in Authority,
         Lease!Succeeds(a, b), Lease!Succeeds(b, c)
  PROVE  Lease!Succeeds(a, c)
BY DEF Lease!Succeeds, Authority

\* Steps that leave the controllers alone and send frames of saved epochs.
LEMMA SendStep ==
  ASSUME FIInv, SavedForward, IInv',
         UNCHANGED <<guard, flash, moved, reboots>>,
         session' \in [Zones -> Owner],
         \A f \in frames' \ frames : f \in Frame /\ f.gen <= disk'[f.from].gen
  PROVE  FIInv' /\ LeaseStep /\ MovesForward
<1> Fenced
  BY DEF FIInv
<1>1. \A g \in Gateways : disk[g].gen \in Nat /\ disk'[g].gen \in Nat /\ disk'[g].gen >= disk[g].gen
  BY DEF FIInv, IInv, Core, Checkpoint, SavedForward
<1>2. ControllersOK'
  BY DEF Fenced, ControllersOK
<1>3. FramesAreDurable'
  <2> SUFFICES ASSUME NEW f \in frames' PROVE f.gen <= disk'[f.from].gen
    BY DEF FramesAreDurable
  <2>1. CASE f \in frames
    <3>1. f.from \in Gateways /\ f.gen \in Nat
      BY <2>1 DEF Fenced, ControllersOK, Frame
    <3>2. f.gen <= disk[f.from].gen
      BY <2>1 DEF Fenced, FramesAreDurable
    <3> QED
      BY <1>1, <3>1, <3>2
  <2>2. CASE f \notin frames
    BY <2>2
  <2> QED
    BY <2>1, <2>2
<1>4. FollowedEpochIsDurable'
  <2> SUFFICES ASSUME NEW z \in Zones, flash[z].gw # NoGateway
               PROVE  flash[z].epoch <= disk'[flash[z].gw].gen
    BY DEF FollowedEpochIsDurable
  <2>1. flash[z].gw \in Gateways /\ flash[z].epoch \in Nat
    BY DEF Fenced, ControllersOK, Authority, Owner
  <2>2. flash[z].epoch <= disk[flash[z].gw].gen
    BY DEF Fenced, FollowedEpochIsDurable
  <2> QED
    BY <1>1, <2>1, <2>2
<1>5. FenceIsSaved' /\ MovedForLease'
  BY DEF Fenced, FenceIsSaved, MovedForLease
<1>6. LeaseStep /\ MovesForward
  BY DEF LeaseStep, Lease!leaseVars, MovesForward
<1> QED
  BY <1>2, <1>3, <1>4, <1>5, <1>6 DEF FIInv, Fenced

\* Takeover notices go out after the new epoch has been saved.
LEMMA FHeartbeatTickStep ==
  ASSUME FIInv, NEW g \in Gateways, NEW ok \in BOOLEAN, FHeartbeatTick(g, ok)
  PROVE  FIInv' /\ LeaseStep /\ MovesForward
<1>1. IInv' /\ SavedForward
  BY HeartbeatTickStep DEF FIInv, FHeartbeatTick
<1>2. ASSUME NEW f \in frames' \ frames
      PROVE  f \in Frame /\ f.gen <= disk'[f.from].gen
  <2>1. PICK z \in Zones : f = Notice(g, z, node'[g].gen) /\ ~node'[g].fault
    BY <1>2 DEF FHeartbeatTick, Notices
  <2>2. node'[g].gen \in Nat /\ node'[g].gen = disk'[g].gen
    BY <1>1, <2>1 DEF IInv, Core, Memory, InStep
  <2> QED
    BY <2>1, <2>2 DEF Notice, Frame
<1>3. session' \in [Zones -> Owner]
  BY DEF FHeartbeatTick, FIInv, Fenced, ControllersOK
<1> QED
  BY <1>1, <1>2, <1>3, SendStep DEF FHeartbeatTick

\* The other steps of a gateway, a crash among them, send nothing.
LEMMA FGatewayOtherStep ==
  ASSUME FIInv, NEW g \in Gateways, FCrash(g) \/ FGatewayStep(g)
  PROVE  FIInv' /\ LeaseStep /\ MovesForward
<1>1. CASE FCrash(g)
  <2>1. IInv' /\ SavedForward
    BY <1>1, CrashStep DEF FIInv, FCrash
  <2>2. session' \in [Zones -> Owner]
    BY <1>1 DEF FCrash, FIInv, Fenced, ControllersOK, Owner
  <2> QED
    BY <1>1, <2>1, <2>2, SendStep DEF FCrash
<1>2. CASE FGatewayStep(g)
  <2>1. GatewayStep(g)
    BY <1>2 DEF FGatewayStep, GatewayStep
  <2>2. IInv' /\ SavedForward
    BY <2>1, IInvStep DEF FIInv, Next
  <2>3. UNCHANGED controllerVars /\ session' \in [Zones -> Owner]
    BY <1>2 DEF FGatewayStep, controllerVars, FIInv, Fenced, ControllersOK
  <2> QED
    BY <2>2, <2>3, SendStep DEF controllerVars
<1> QED
  BY <1>1, <1>2

\* A gateway answers and commands only with an epoch it has saved.
LEMMA RegisterDispatchStep ==
  ASSUME FIInv, NEW z \in Zones, NEW g \in Gateways, Register(z, g) \/ Dispatch(g, z)
  PROVE  FIInv' /\ LeaseStep /\ MovesForward
<1>1. UNCHANGED gatewayVars
  BY DEF Register, Dispatch
<1>2. IInv' /\ SavedForward
  BY <1>1, IInvStep DEF FIInv
<1>3. MayControl(g, Controller(z)) /\ Controller(z) \in Nodes
  BY NodeNames DEF Register, Dispatch
<1>4. /\ disk[g].gen = node[g].gen
      /\ disk[g].reg[Controller(z)] = [owner |-> g, gen |-> node[g].gen]
  BY <1>3, IInvImplies DEF FIInv, ControlIsDurable
<1>5. ~node[g].fault
  BY <1>3 DEF MayControl, FIInv, IInv, Core, DeposedIsStandby
<1>6. node[g].reg = disk[g].reg
  BY <1>5 DEF FIInv, IInv, Core, InStep
<1>7. node[g].reg[Controller(z)].gen = disk'[g].gen /\ node[g].gen = disk'[g].gen
      /\ disk'[g].gen \in Nat
  BY <1>1, <1>4, <1>6 DEF gatewayVars, FIInv, IInv, Core, Checkpoint
<1>8. \A f \in frames' \ frames :
        f \in {Notice(g, z, disk'[g].gen), Command(g, z, disk'[g].gen)}
  BY <1>7 DEF Register, Dispatch
<1>9. \A f \in frames' \ frames : f \in Frame /\ f.gen <= disk'[f.from].gen
  BY <1>7, <1>8 DEF Notice, Command, Frame
<1>10. session' \in [Zones -> Owner]
  BY DEF Register, Dispatch, FIInv, Fenced, ControllersOK, Owner
<1>11. UNCHANGED <<guard, flash, moved, reboots>>
  BY DEF Register, Dispatch
<1> QED
  BY <1>2, <1>9, <1>10, <1>11, SendStep

\* A connection of a controller ends, or nothing happens.
LEMMA DisconnectStep ==
  ASSUME FIInv, (\E z \in Zones : Disconnect(z)) \/ UNCHANGED vars
  PROVE  FIInv' /\ LeaseStep /\ MovesForward
<1>1. UNCHANGED <<gatewayVars, guard, flash, frames, moved, reboots>>
  BY DEF Disconnect, vars, controllerVars
<1>2. IInv' /\ SavedForward
  BY <1>1, IInvStep DEF FIInv
<1>3. session' \in [Zones -> Owner]
  BY DEF Disconnect, vars, controllerVars, FIInv, Fenced, ControllersOK, Owner
<1> QED
  BY <1>1, <1>2, <1>3, SendStep

-----------------------------------------------------------------------------
(* The controllers. *)

\* set_ownership with a frame the guard admits: a saved epoch succeeds the one
\* before it, an unsaved one changes only the fault flag.
LEMMA SetOwnershipStep ==
  ASSUME FIInv, NEW z \in Zones, NEW ok \in BOOLEAN, NEW f \in frames,
         MayAdopt(z, f.from, f.gen), SetOwnership(z, f.from, f.gen, ok),
         \/ moved' = moved
         \/ ok /\ moved' = [moved EXCEPT ![z] = [gw |-> f.from, epoch |-> f.gen]],
         UNCHANGED <<up, node, disk, monitor, link, beats, crashes,
                     session, frames, reboots>>
  PROVE  FIInv' /\ LeaseStep /\ MovesForward
<1> DEFINE new == [gw |-> f.from, epoch |-> f.gen]
           adopted == [owner |-> f.from, gen |-> f.gen, fault |-> FALSE]
<1> Fenced /\ ControllersOK
  BY DEF FIInv, Fenced
<1>1. f.from \in Gateways /\ f.gen \in Nat
  BY DEF ControllersOK, Frame
<1>2. new \in Authority /\ adopted \in Guard
  BY <1>1 DEF Authority, Guard, Owner
<1>3. faults' \in Nat
  BY DEF SetOwnership, FIInv, IInv, RestOK
<1>4. IInv' /\ SavedForward
  BY <1>3, PairUnchanged DEF FIInv
<1>5. flash[z] = [gw |-> guard[z].owner, epoch |-> guard[z].gen]
  BY DEF MayAdopt, Fenced, FenceIsSaved
<1>6. Lease!Succeeds(new, flash[z])
  <2>1. guard[z].gen \in Nat
    BY DEF ControllersOK, Guard
  <2> QED
    BY <1>1, <1>5, <2>1 DEF MayAdopt, Lease!Succeeds
<1>7. f.gen <= disk'[f.from].gen
  BY DEF Fenced, FramesAreDurable
<1>8. ASSUME ok PROVE FIInv' /\ LeaseStep /\ MovesForward
  <2>1. guard' = [guard EXCEPT ![z] = adopted] /\ flash' = [flash EXCEPT ![z] = new]
    BY <1>8 DEF SetOwnership
  <2>2. moved' = moved \/ moved' = [moved EXCEPT ![z] = new]
    OBVIOUS
  <2>3. /\ new.gw = f.from /\ new.epoch = f.gen
        /\ adopted.owner = f.from /\ adopted.gen = f.gen
    OBVIOUS
  <2> HIDE DEF new, adopted
  <2>4. ControllersOK'
    BY <1>2, <2>1, <2>2 DEF ControllersOK
  <2>5. FramesAreDurable'
    BY DEF Fenced, FramesAreDurable
  <2>6. FollowedEpochIsDurable'
    BY <1>7, <2>1, <2>3 DEF Fenced, FollowedEpochIsDurable, ControllersOK
  <2>7. FenceIsSaved'
    <3>1. new = [gw |-> adopted.owner, epoch |-> adopted.gen]
      BY DEF new, adopted
    <3> QED
      BY <2>1, <3>1 DEF Fenced, FenceIsSaved, ControllersOK
  <2>8. flash[z] \in Authority /\ moved[z] \in Authority
    BY DEF ControllersOK
  <2>9. Lease!Succeeds(flash[z], moved[z])
    BY DEF Fenced, MovedForLease
  <2>10. Lease!Succeeds(new, moved[z])
    BY <1>2, <1>6, <2>8, <2>9, SucceedsTransitive
  <2>11. Lease!Succeeds(new, new)
    BY DEF Lease!Succeeds
  <2>12. MovedForLease'
    BY <2>1, <2>2, <2>10, <2>11 DEF Fenced, MovedForLease, ControllersOK
  <2>13. MovesForward
    BY <2>2, <2>10 DEF MovesForward, ControllersOK
  <2>14. flash'[z] = new
    BY <2>1 DEF ControllersOK
  <2>15. new \in [gw : Gateways, epoch : Nat]
    BY <1>1 DEF new
  <2>16. Lease!Follow(z)
    BY <1>6, <2>1, <2>14, <2>15 DEF Lease!Follow
  <2>17. Lease!Grant(z) \/ Lease!Actuate(z)
    BY <2>2, <2>14, <2>16 DEF Lease!Grant, Lease!Actuate
  <2>18. LeaseStep
    BY <2>17 DEF LeaseStep, Lease!Next
  <2> QED
    BY <1>4, <2>4, <2>5, <2>6, <2>7, <2>12, <2>13, <2>18 DEF FIInv, Fenced
<1>9. ASSUME ~ok PROVE FIInv' /\ LeaseStep /\ MovesForward
  <2> DEFINE faulted == [guard[z] EXCEPT !.fault = TRUE]
  <2>1. guard' = [guard EXCEPT ![z] = faulted] /\ UNCHANGED <<flash, moved>>
    BY <1>9 DEF SetOwnership, ControllersOK
  <2>2. faulted \in Guard /\ faulted.fault
    BY DEF ControllersOK, Guard
  <2> HIDE DEF faulted
  <2>3. ControllersOK' /\ FenceIsSaved'
    BY <2>1, <2>2 DEF ControllersOK, Fenced, FenceIsSaved
  <2>4. FramesAreDurable' /\ FollowedEpochIsDurable' /\ MovedForLease'
    BY <2>1 DEF Fenced, FramesAreDurable, FollowedEpochIsDurable, MovedForLease
  <2>5. LeaseStep /\ MovesForward
    BY <2>1 DEF LeaseStep, Lease!leaseVars, MovesForward
  <2> QED
    BY <1>4, <2>3, <2>4, <2>5 DEF FIInv, Fenced
<1> QED
  BY <1>8, <1>9

\* A controller reads an ownership frame or a command.
LEMMA ControllerStep ==
  ASSUME FIInv, NEW z \in Zones, NEW ok \in BOOLEAN,
         AdoptOwnership(z, ok) \/ ProcessCommand(z, ok)
  PROVE  FIInv' /\ LeaseStep /\ MovesForward
<1>1. CASE AdoptOwnership(z, ok)
  BY <1>1, SetOwnershipStep DEF AdoptOwnership
<1>2. CASE ProcessCommand(z, ok)
  BY <1>2, SetOwnershipStep DEF ProcessCommand
<1> QED
  BY <1>1, <1>2

\* A reboot restores what the controller followed, or faults it.
LEMMA RebootStep ==
  ASSUME FIInv, NEW z \in Zones, NEW ok \in BOOLEAN, Reboot(z, ok)
  PROVE  FIInv' /\ LeaseStep /\ MovesForward
<1> DEFINE restored == IF ok THEN [owner |-> flash[z].gw, gen |-> flash[z].epoch, fault |-> FALSE]
                       ELSE [owner |-> NoGateway, gen |-> INITIAL_GENERATION, fault |-> TRUE]
<1> Fenced /\ ControllersOK
  BY DEF FIInv, Fenced
<1>1. faults' \in Nat
  BY DEF Reboot, FIInv, IInv, RestOK
<1>2. IInv'
  BY <1>1, PairUnchanged DEF FIInv, Reboot
<1>3. /\ guard' = [guard EXCEPT ![z] = restored]
      /\ session' = [session EXCEPT ![z] = NoGateway]
      /\ reboots' = reboots + 1
      /\ UNCHANGED <<disk, flash, frames, moved>>
  BY DEF Reboot
<1>4. flash[z] \in Authority
  BY DEF ControllersOK
<1>5. restored \in Guard
  BY <1>4 DEF Guard, Authority, Owner, INITIAL_GENERATION
<1>6. ~restored.fault => flash[z] = [gw |-> restored.owner, epoch |-> restored.gen]
  BY <1>4 DEF Authority
<1> HIDE DEF restored
<1>7. ControllersOK' /\ FenceIsSaved'
  BY <1>3, <1>5, <1>6 DEF ControllersOK, Owner, Fenced, FenceIsSaved
<1>8. FramesAreDurable' /\ FollowedEpochIsDurable' /\ MovedForLease'
  BY <1>3 DEF Fenced, FramesAreDurable, FollowedEpochIsDurable, MovedForLease
<1>9. LeaseStep /\ MovesForward
  BY <1>3 DEF LeaseStep, Lease!leaseVars, MovesForward
<1> QED
  BY <1>2, <1>7, <1>8, <1>9 DEF FIInv, Fenced

-----------------------------------------------------------------------------
(* The invariant. *)

LEMMA FIInvInit == FInit => FIInv
<1> SUFFICES ASSUME FInit PROVE FIInv
  OBVIOUS
<1>1. IInv
  BY IInvInit DEF FInit
<1>2. ControllersOK
  BY DEF FInit, ControllersOK, Guard, Authority, Owner, INITIAL_GENERATION
<1>3. FramesAreDurable /\ FollowedEpochIsDurable /\ FenceIsSaved /\ MovedForLease
  BY DEF FInit, FramesAreDurable, FollowedEpochIsDurable, FenceIsSaved, MovedForLease,
         Lease!Succeeds, INITIAL_GENERATION
<1> QED
  BY <1>1, <1>2, <1>3 DEF FIInv, Fenced

\* Every step keeps the invariant and is a step of EpochLease or none.
LEMMA FIInvStep ==
  FIInv /\ [FNext]_vars => FIInv' /\ LeaseStep /\ MovesForward
BY FHeartbeatTickStep, FGatewayOtherStep, RegisterDispatchStep, DisconnectStep,
   ControllerStep, RebootStep DEF FNext

\* The invariant holds for ever.
LEMMA FIInvAlways == FSpec => []FIInv
BY FIInvInit, FIInvStep, PTL DEF FSpec

-----------------------------------------------------------------------------
(* The theorems. *)

\* Every variable of the pair and of its controllers keeps its type.
THEOREM FailoverTypeCorrect == FSpec => []FTypeOK
<1>1. FIInv => FTypeOK
  BY IInvImplies DEF FIInv, Fenced, ControllersOK, FTypeOK
<1> QED
  BY <1>1, FIInvAlways, PTL

\* No frame carries an epoch that its sender has not saved (_takeover commits
\* before _notify_ownership; _dispatch_command).
THEOREM FramesStayDurable == FSpec => []FramesAreDurable
<1>1. FIInv => FramesAreDurable
  BY DEF FIInv, Fenced
<1> QED
  BY <1>1, FIInvAlways, PTL

\* No controller follows an epoch that its gateway could forget.
THEOREM FollowedEpochsStayDurable == FSpec => []FollowedEpochIsDurable
<1>1. FIInv => FollowedEpochIsDurable
  BY DEF FIInv, Fenced
<1> QED
  BY <1>1, FIInvAlways, PTL

\* What a controller enforces is what a reboot would restore (set_ownership).
THEOREM FencesAreSaved == FSpec => []FenceIsSaved
<1>1. FIInv => FenceIsSaved
  BY DEF FIInv, Fenced
<1> QED
  BY <1>1, FIInvAlways, PTL

\* The controllers follow one gateway per epoch and epochs in order.
THEOREM FailoverImplementsLease == FSpec => ImplementsEpochLease
<1>1. FInit => Lease!Init
  BY DEF FInit, Lease!Init, INITIAL_GENERATION
<1> QED
  BY <1>1, FIInvAlways, FIInvStep, PTL
     DEF FSpec, ImplementsEpochLease, Lease!Spec, LeaseStep

\* A deposed gateway never moves an actuator once its successor has.
THEOREM DeposedNeverMoves == FSpec => MovesAreFenced
<1>1. MovesForward => [MovesForward]_moved
  OBVIOUS
<1> QED
  BY <1>1, FIInvAlways, FIInvStep, PTL
     DEF FSpec, MovesAreFenced, Lease!MovesAreFenced, MovesForward

-----------------------------------------------------------------------------
(* The pair under its controllers. *)

\* To the gateways a step of the whole is one of their own or changes no
\* memory, no checkpoint and no message between them.
LEMMA PairStep ==
  ASSUME FIInv, [FNext]_vars
  PROVE  SavedForward /\ SavedDemotion
<1>1. ASSUME Next PROVE SavedForward /\ SavedDemotion
  BY <1>1, IInvStep DEF FIInv
<1>2. ASSUME UNCHANGED <<node, disk>> PROVE SavedForward /\ SavedDemotion
  BY <1>2, CoreUnchanged DEF FIInv, IInv
<1>3. CASE UNCHANGED vars
  BY <1>2, <1>3 DEF vars, gatewayVars
<1>4. ASSUME NEW g \in Gateways,
             FCrash(g) \/ FGatewayStep(g) \/ \E ok \in BOOLEAN : FHeartbeatTick(g, ok)
      PROVE  SavedForward /\ SavedDemotion
  <2>1. GatewayStep(g)
    BY <1>4 DEF FCrash, FGatewayStep, FHeartbeatTick, GatewayStep
  <2> QED
    BY <1>1, <2>1 DEF Next
<1>5. ASSUME NEW z \in Zones, NEW g \in Gateways, Register(z, g) \/ Dispatch(g, z)
      PROVE  SavedForward /\ SavedDemotion
  BY <1>2, <1>5 DEF Register, Dispatch, gatewayVars
<1>6. ASSUME NEW z \in Zones, NEW ok \in BOOLEAN,
             Disconnect(z) \/ AdoptOwnership(z, ok) \/ ProcessCommand(z, ok) \/ Reboot(z, ok)
      PROVE  SavedForward /\ SavedDemotion
  BY <1>2, <1>6 DEF Disconnect, AdoptOwnership, ProcessCommand, Reboot, gatewayVars
<1> QED
  BY <1>3, <1>4, <1>5, <1>6 DEF FNext

\* Controllers that reconnect, fail and reboot take none of its safety from the
\* gateway pair: what Ownership promises holds in the composition, where the
\* disk faults of the controllers are counted too.
THEOREM PairStaysSafe ==
  FSpec => /\ []AdvertisedIsDurable
           /\ []ForeignRowsHaveEvidence
           /\ []CheckpointRestorable
           /\ []DeposedIsStandby
           /\ []ControlIsDurable
           /\ EpochNeverFallsBack
           /\ DemotionSurvives
<1>1. FIInv => /\ AdvertisedIsDurable
               /\ ForeignRowsHaveEvidence
               /\ CheckpointRestorable
               /\ DeposedIsStandby
               /\ ControlIsDurable
  BY IInvImplies DEF FIInv, IInv, Core
<1>2. FIInv /\ [FNext]_vars => [SavedForward]_disk /\ [SavedDemotion]_disk
  BY PairStep
<1> QED
  BY <1>1, <1>2, FIInvAlways, PTL
     DEF FSpec, EpochNeverFallsBack, SavedForward, DemotionSurvives, SavedDemotion

-----------------------------------------------------------------------------
(* What one state decides for the whole future. *)

\* Every step is followed by a successor of what was followed before it.
LEMMA FlashSucceeds ==
  ASSUME FIInv, LeaseStep, NEW z \in Zones
  PROVE  Lease!Succeeds(flash'[z], flash[z])
<1>1. CASE UNCHANGED Lease!leaseVars
  BY <1>1 DEF Lease!leaseVars, Lease!Succeeds
<1>2. ASSUME NEW y \in Zones, Lease!Follow(y)
      PROVE  Lease!Succeeds(flash'[z], flash[z])
  <2>1. flash \in [Zones -> Authority]
    BY DEF FIInv, Fenced, ControllersOK
  <2>2. CASE y = z
    BY <1>2, <2>2 DEF Lease!Follow
  <2>3. CASE y # z
    <3>1. flash'[z] = flash[z]
      BY <1>2, <2>1, <2>3 DEF Lease!Follow
    <3> QED
      BY <3>1 DEF Lease!Succeeds
  <2> QED
    BY <2>2, <2>3
<1> QED
  BY <1>1, <1>2 DEF LeaseStep, Lease!Next, Lease!Grant, Lease!Actuate

\* z follows a at its epoch, or somebody at a later one.
HeldTo(z, a) ==
  /\ flash[z].epoch >= a.epoch
  /\ flash[z].epoch = a.epoch => flash[z].gw = a.gw

\* Once a controller has followed a gateway at an epoch, no notice, command,
\* crash or reboot makes it follow another one at that epoch or go back behind
\* it: two gateways that took over at the same epoch never share a controller
\* (safety_guard.py set_ownership; gateway.py _on_peer_heartbeat on equal epochs).
THEOREM OneGatewayPerEpoch ==
  ASSUME NEW z \in Zones, NEW a \in Authority, a.gw # NoGateway
  PROVE  FSpec => [](flash[z] = a => []HeldTo(z, a))
<1> DEFINE Followed == flash[z] = a
           Fence == Lease!Succeeds(flash[z], a)
<1>1. Followed => Fence
  BY DEF Lease!Succeeds
<1>2. FIInv /\ Fence /\ [FNext]_vars => Fence'
  <2> SUFFICES ASSUME FIInv, Fence, [FNext]_vars PROVE Fence'
    OBVIOUS
  <2>1. FIInv' /\ LeaseStep
    BY FIInvStep
  <2>2. flash[z] \in Authority /\ flash'[z] \in Authority
    BY <2>1 DEF FIInv, Fenced, ControllersOK
  <2>3. Lease!Succeeds(flash'[z], flash[z])
    BY <2>1, FlashSucceeds
  <2> QED
    BY <2>2, <2>3, SucceedsTransitive
<1>3. FIInv /\ Fence => HeldTo(z, a)
  BY DEF HeldTo, Lease!Succeeds, FIInv, Fenced, ControllersOK, Authority
<1> HIDE DEF Followed, Fence
<1>4. FSpec => [](Followed => []HeldTo(z, a))
  BY <1>1, <1>2, <1>3, FIInvAlways, PTL DEF FSpec
<1> QED
  BY <1>4 DEF Followed

\* A deposed gateway is fenced for good: once a controller follows an authority,
\* its actuator moves, ever after, only for that authority or a successor,
\* however late, repeated or reordered the commands arrive (SafetyGuard.check).
THEOREM SuccessorsFenceForEver ==
  ASSUME NEW z \in Zones, NEW a \in Authority
  PROVE  FSpec => [](flash[z] = a
                       => [][moved'[z] # moved[z] => Lease!Succeeds(moved'[z], a)]_moved)
<1> DEFINE Followed == flash[z] = a
           Fence == Lease!Succeeds(flash[z], a)
           Succeeding == moved'[z] # moved[z] => Lease!Succeeds(moved'[z], a)
<1>1. Followed => Fence
  BY DEF Lease!Succeeds
<1>2. FIInv /\ Fence /\ [FNext]_vars => Fence' /\ [Succeeding]_moved
  <2> SUFFICES ASSUME FIInv, Fence, [FNext]_vars PROVE Fence' /\ Succeeding
    OBVIOUS
  <2>1. FIInv' /\ LeaseStep
    BY FIInvStep
  <2>2. flash[z] \in Authority /\ flash'[z] \in Authority
    BY <2>1 DEF FIInv, Fenced, ControllersOK
  <2>3. Lease!Succeeds(flash'[z], flash[z])
    BY <2>1, FlashSucceeds
  <2>4. Fence'
    BY <2>2, <2>3, SucceedsTransitive
  <2>5. ASSUME moved'[z] # moved[z] PROVE moved'[z] = flash'[z]
    <3>1. PICK y \in Zones : Lease!Actuate(y)
      BY <2>1, <2>5 DEF LeaseStep, Lease!Next, Lease!Grant, Lease!leaseVars
    <3> QED
      BY <2>5, <3>1 DEF Lease!Actuate, FIInv, Fenced, ControllersOK
  <2> QED
    BY <2>4, <2>5
<1> HIDE DEF Followed, Fence, Succeeding
<1>3. FSpec => [](Followed => [][Succeeding]_moved)
  BY <1>1, <1>2, FIInvAlways, PTL DEF FSpec
<1> QED
  BY <1>3 DEF Followed, Succeeding
=============================================================================
