------------------------------ MODULE Failover ------------------------------
(***************************************************************************)
(* The gateway pair of Ownership together with the controllers it drives:  *)
(* registration, ownership notices, commands, and the epoch fence each     *)
(* controller keeps in its SafetyGuard.                                    *)
(*                                                                         *)
(* Sources: controller_node/safety_guard.py (owner and generation checks), *)
(* controller_node/controller_node.py (sessions, registration, adoption),  *)
(* gateway/gateway.py (_handle_register, _dispatch_command, notification). *)
(* Command identity, TTL, cooldown and results are left to other modules:  *)
(* here a command either passes the ownership checks or it does not.       *)
(***************************************************************************)
EXTENDS Ownership

CONSTANTS
  NoGateway,    \* owner_gateway = None
  MaxReboots    \* bound: controller reboots

ASSUME ControllerAssumption == NoGateway \notin Gateways /\ MaxReboots \in Nat

VARIABLES
  guard,     \* guard[z]: SafetyGuard of the controller of z, in memory
  flash,     \* flash[z]: its "controller" checkpoint
  session,   \* session[z]: the gateway in whose connections z is registered
  frames,    \* every frame ever sent to a controller
  moved,     \* moved[z]: the command z executed last (history)
  reboots    \* reboots so far

controllerVars == <<guard, flash, session, frames, moved, reboots>>
vars == <<gatewayVars, controllerVars>>

Owner == Gateways \cup {NoGateway}
Guard == [owner : Owner, gen : Nat, fault : BOOLEAN]
Authority == [gw : Owner, epoch : Nat]
\* An OWNERSHIP frame is an accepting NODE_REGISTER_ACK or a NODE_STATUS notice.
Frame == [kind : {"OWNERSHIP", "CONTROL_COMMAND"}, from : Gateways,
          zone : Zones, gen : Nat]

Notice(g, z, e) == [kind |-> "OWNERSHIP", from |-> g, zone |-> z, gen |-> e]
Command(g, z, e) == [kind |-> "CONTROL_COMMAND", from |-> g, zone |-> z, gen |-> e]

FInit ==
  /\ Init
  /\ guard = [z \in Zones |->
                [owner |-> NoGateway, gen |-> INITIAL_GENERATION, fault |-> FALSE]]
  /\ flash = [z \in Zones |-> [gw |-> NoGateway, epoch |-> INITIAL_GENERATION]]
  /\ session = [z \in Zones |-> NoGateway]
  /\ frames = {}
  /\ moved = [z \in Zones |-> [gw |-> NoGateway, epoch |-> 0]]
  /\ reboots = 0

-----------------------------------------------------------------------------
(* The gateway side. *)

\* Mutant of Notices: the controllers are told although the write failed.
NoticesAnyway(g) ==
  {Notice(g, z, node'[g].gen) : z \in {x \in Zones :
     /\ TakesOver(g)
     /\ session[x] = g /\ node'[g].reg[Controller(x)].owner = g}}

\* A gateway that took over and saved its epoch notifies its controllers.
Notices(g) ==
  {Notice(g, z, node'[g].gen) : z \in {x \in Zones :
     /\ TakesOver(g) /\ ~node'[g].fault
     /\ session[x] = g /\ node'[g].reg[Controller(x)].owner = g}}

FHeartbeatTick(g, ok) ==
  /\ HeartbeatTick(g, ok)
  /\ frames' = frames \cup Notices(g)
  /\ UNCHANGED <<guard, flash, session, moved, reboots>>

\* The sockets of a crashed gateway close.
FCrash(g) ==
  /\ Crash(g)
  /\ session' = [z \in Zones |-> IF session[z] = g THEN NoGateway ELSE session[z]]
  /\ UNCHANGED <<guard, flash, frames, moved, reboots>>

\* The other steps of a gateway concern no controller.
FGatewayStep(g) ==
  /\ \/ StartConnect(g) \/ AbandonConnect(g) \/ LoseHeartbeat(g)
     \/ Expire(g) \/ Stall(g) \/ Resume(g)
     \/ \E ok \in BOOLEAN :
          FinishConnect(g, ok) \/ ReceiveHeartbeat(g, ok) \/ Restart(g, ok)
  /\ UNCHANGED controllerVars

\* The controller of z connects to g and registers with the epoch it knows;
\* _handle_register accepts it.  A refused controller tries the next gateway.
Register(z, g) ==
  /\ session[z] = NoGateway
  /\ MayControl(g, Controller(z))
  /\ guard[z].gen <= node[g].reg[Controller(z)].gen
  /\ session' = [session EXCEPT ![z] = g]
  /\ frames' = frames \cup {Notice(g, z, node[g].reg[Controller(z)].gen)}
  /\ UNCHANGED <<gatewayVars, guard, flash, moved, reboots>>

\* A command decided at the current generation passes _dispatch_command.
Dispatch(g, z) ==
  /\ MayControl(g, Controller(z))
  /\ node[g].gen = node[g].reg[Controller(z)].gen
  /\ session[z] = g
  /\ frames' = frames \cup {Command(g, z, node[g].gen)}
  /\ UNCHANGED <<gatewayVars, guard, flash, session, moved, reboots>>

-----------------------------------------------------------------------------
(* The controller side. *)

\* The connection of a controller ends, on purpose or not.
Disconnect(z) ==
  /\ session[z] # NoGateway
  /\ session' = [session EXCEPT ![z] = NoGateway]
  /\ UNCHANGED <<gatewayVars, guard, flash, frames, moved, reboots>>

\* Mutants of MayAdopt: the first owner stays for good; the last one wins.
MayAdoptFirst(z, g, e) ==
  /\ e >= guard[z].gen
  /\ guard[z].owner \in {NoGateway, g}
  /\ ~guard[z].fault
MayAdoptAny(z, g, e) == e >= guard[z].gen /\ ~guard[z].fault

\* The refusals of set_ownership: older epochs, another owner at this epoch.
MayAdopt(z, g, e) ==
  /\ e >= guard[z].gen
  /\ e = guard[z].gen => guard[z].owner \in {NoGateway, g}
  /\ ~guard[z].fault

\* Mutants of SetOwnership: adopt, then save; the zone saved as its owner.
SetOwnershipFirst(z, g, e, ok) ==
  /\ ok \/ faults < MaxFaults
  /\ faults' = IF ok THEN faults ELSE faults + 1
  /\ guard' = [guard EXCEPT ![z] = [owner |-> g, gen |-> e, fault |-> FALSE]]
  /\ flash' = [flash EXCEPT ![z] = IF ok THEN [gw |-> g, epoch |-> e] ELSE @]
SetOwnershipSwapped(z, g, e, ok) ==
  /\ ok \/ faults < MaxFaults
  /\ faults' = IF ok THEN faults ELSE faults + 1
  /\ guard' = [guard EXCEPT ![z] =
                 IF ok THEN [owner |-> g, gen |-> e, fault |-> FALSE]
                 ELSE [@ EXCEPT !.fault = TRUE]]
  /\ flash' = [flash EXCEPT ![z] = IF ok THEN [gw |-> z, epoch |-> e] ELSE @]

\* The rest of set_ownership: save, then adopt.
SetOwnership(z, g, e, ok) ==
  /\ ok \/ faults < MaxFaults
  /\ faults' = IF ok THEN faults ELSE faults + 1
  /\ guard' = [guard EXCEPT ![z] =
                 IF ok THEN [owner |-> g, gen |-> e, fault |-> FALSE]
                 ELSE [@ EXCEPT !.fault = TRUE]]
  /\ flash' = [flash EXCEPT ![z] = IF ok THEN [gw |-> g, epoch |-> e] ELSE @]

\* _register or _adopt_ownership reads a frame of the current session.
AdoptOwnership(z, ok) ==
  \E f \in frames :
    /\ f.kind = "OWNERSHIP" /\ f.zone = z
    /\ session[z] = f.from
    /\ MayAdopt(z, f.from, f.gen)
    /\ SetOwnership(z, f.from, f.gen, ok)
    /\ UNCHANGED <<up, node, disk, monitor, link, beats, crashes,
                   session, frames, moved, reboots>>

\* SafetyGuard.check, the epoch and owner part.
Allowed(z, f) ==
  /\ ~guard[z].fault
  /\ f.gen >= guard[z].gen
  /\ guard[z].owner \in {NoGateway, f.from} \/ f.gen > guard[z].gen

\* _process_command of a command that passes the guard: adopt its epoch, then
\* execute it, unless the epoch cannot be saved or the window of recent commands
\* is full.  The frame may be late or a repetition, and may be injected without
\* a session.
ProcessCommand(z, ok) ==
  \E f \in frames :
    /\ f.kind = "CONTROL_COMMAND" /\ f.zone = z
    /\ Allowed(z, f) /\ MayAdopt(z, f.from, f.gen)
    /\ SetOwnership(z, f.from, f.gen, ok)
    /\ \/ moved' = moved
       \/ ok /\ moved' = [moved EXCEPT ![z] = [gw |-> f.from, epoch |-> f.gen]]
    /\ UNCHANGED <<up, node, disk, monitor, link, beats, crashes,
                   session, frames, reboots>>

\* Mutant of Reboot: an unreadable checkpoint counts as a first boot.
RebootFresh(z, ok) ==
  /\ reboots < MaxReboots
  /\ ok \/ faults < MaxFaults
  /\ reboots' = reboots + 1
  /\ faults' = IF ok THEN faults ELSE faults + 1
  /\ guard' = [guard EXCEPT ![z] =
                 IF ok THEN [owner |-> flash[z].gw, gen |-> flash[z].epoch, fault |-> FALSE]
                 ELSE [owner |-> NoGateway, gen |-> INITIAL_GENERATION, fault |-> FALSE]]
  /\ session' = [session EXCEPT ![z] = NoGateway]
  /\ UNCHANGED <<up, node, disk, monitor, link, beats, crashes, flash, frames, moved>>

\* The controller restarts from its checkpoint, or refuses all control when it
\* cannot be read.
Reboot(z, ok) ==
  /\ reboots < MaxReboots
  /\ ok \/ faults < MaxFaults
  /\ reboots' = reboots + 1
  /\ faults' = IF ok THEN faults ELSE faults + 1
  /\ guard' = [guard EXCEPT ![z] =
                 IF ok THEN [owner |-> flash[z].gw, gen |-> flash[z].epoch, fault |-> FALSE]
                 ELSE [owner |-> NoGateway, gen |-> INITIAL_GENERATION, fault |-> TRUE]]
  /\ session' = [session EXCEPT ![z] = NoGateway]
  /\ UNCHANGED <<up, node, disk, monitor, link, beats, crashes, flash, frames, moved>>

FNext ==
  \/ \E g \in Gateways :
       FCrash(g) \/ FGatewayStep(g) \/ \E ok \in BOOLEAN : FHeartbeatTick(g, ok)
  \/ \E z \in Zones, g \in Gateways : Register(z, g) \/ Dispatch(g, z)
  \/ \E z \in Zones :
       Disconnect(z) \/ \E ok \in BOOLEAN :
         AdoptOwnership(z, ok) \/ ProcessCommand(z, ok) \/ Reboot(z, ok)

FSpec == FInit /\ [][FNext]_vars

\* Time passes at a gateway.
Elapse(g) == (Expire(g) \/ Resume(g)) /\ UNCHANGED controllerVars

\* A survivor keeps ticking, and a controller that can be reached again and
\* again registers, reads the answer and saves it in the end.
FailoverFairness ==
  /\ \A g \in Gateways :
       /\ WF_vars(FHeartbeatTick(g, TRUE))
       /\ WF_vars(Elapse(g))
       /\ \A z \in Zones : SF_vars(Register(z, g))
  /\ \A z \in Zones : SF_vars(AdoptOwnership(z, TRUE))

FairFSpec == FSpec /\ FailoverFairness

-----------------------------------------------------------------------------
(* Properties. *)

FTypeOK ==
  /\ TypeOK
  /\ guard \in [Zones -> Guard]
  /\ flash \in [Zones -> Authority]
  /\ session \in [Zones -> Owner]
  /\ frames \in SUBSET Frame
  /\ moved \in [Zones -> Authority]
  /\ reboots \in Nat

\* "Commit a takeover before notification": no frame carries an epoch its
\* sender has not saved, so no crash of a gateway makes it reuse an epoch it
\* has sent (gateway.py _takeover, _notify_ownership, _dispatch_command).
FramesAreDurable ==
  \A f \in frames : f.gen <= disk[f.from].gen

\* A controller never follows an epoch that its gateway could forget.
FollowedEpochIsDurable ==
  \A z \in Zones :
    flash[z].gw # NoGateway => flash[z].epoch <= disk[flash[z].gw].gen

\* A controller that is not faulted acts on its checkpoint: what it enforces
\* is what a reboot would restore (safety_guard.py set_ownership).
FenceIsSaved ==
  \A z \in Zones :
    ~guard[z].fault => flash[z] = [gw |-> guard[z].owner, epoch |-> guard[z].gen]

\* Controllers follow one gateway per epoch and epochs in order, through
\* takeovers, delayed and repeated frames, reboots and failing checkpoints.
Lease == INSTANCE EpochLease WITH lease <- flash
ImplementsEpochLease == Lease!Spec

\* A deposed gateway never moves an actuator once its successor has.
MovesAreFenced == Lease!MovesAreFenced

\* g is left alone, running without suspensions and in control of everything,
\* with controllers whose checkpoints work.
Survivor(g) ==
  /\ up[g] /\ ~up[Peer[g]] /\ ~monitor[g].resuming
  /\ \A z \in Zones : MayControl(g, Controller(z)) /\ ~guard[z].fault

Serves(g) == \A z \in Zones : flash[z].gw = g

\* A survivor whose epoch is newer than what the controllers follow serves
\* every zone in the end.
NewerSurvivorServes ==
  \A g \in Gateways :
    <>[](Survivor(g) /\ \A z \in Zones : \/ flash[z].gw = g
                                         \/ flash[z].epoch < node[g].gen)
      => <>Serves(g)

\* README: "the surviving gateway can serve both fixed zones".
SurvivorServes == \A g \in Gateways : <>[]Survivor(g) => <>Serves(g)
=============================================================================
