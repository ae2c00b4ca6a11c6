----------------------------- MODULE Ownership -----------------------------
(***************************************************************************)
(* The pair of edge gateways that divide the zones of the farm between     *)
(* them: who may drive a node, at which generation (epoch), how a gateway  *)
(* takes over from a silent peer, and what survives a restart.             *)
(*                                                                         *)
(* Sources: gateway/ownership.py, gateway/registry.py, and the ownership   *)
(* part of gateway/gateway.py (peer handshake, heartbeat, watchdog,        *)
(* takeover, checkpoint).                                                  *)
(*                                                                         *)
(* A handler is a function from the state of the gateway process to its    *)
(* next state; the action that runs it adds the checkpoint and the         *)
(* messages.  asyncio runs a handler without interruption up to its next   *)
(* await, so an action is the code between two awaits.                     *)
(***************************************************************************)
EXTENDS Naturals, FiniteSets

CONSTANTS
  Gateways,        \* the gateway identifiers, A1 and A2
  Zones,           \* one sensor and one controller each
  Peer,            \* config.PEER_OF
  Home,            \* the gateway a zone is seeded to
  SpuriousTimeouts, \* may a peer that is up be timed out? (partition, delay)
  MaxGeneration,   \* bound: no more peer timeouts once an epoch is this high
  MaxInFlight,     \* bound: heartbeats travelling to one gateway
  MaxCrashes,      \* bound: gateway crashes
  MaxFaults        \* bound: failing checkpoint reads and writes

ASSUME PairAssumption ==
  /\ Peer \in [Gateways -> Gateways]
  /\ \A g \in Gateways : Peer[g] # g /\ Peer[Peer[g]] = g
  /\ Home \in [Zones -> Gateways]

ASSUME BoundAssumption ==
  /\ SpuriousTimeouts \in BOOLEAN
  /\ MaxGeneration \in Nat
  /\ MaxInFlight \in Nat
  /\ MaxCrashes \in Nat
  /\ MaxFaults \in Nat

ACTIVE == "ACTIVE"
STANDBY == "STANDBY"
INITIAL_GENERATION == 1

\* The four registered nodes: the sensor and the controller of each zone.
Nodes == Zones \X {"SENSOR", "CONTROLLER"}
Sensor(z) == <<z, "SENSOR">>
Controller(z) == <<z, "CONTROLLER">>

Larger(a, b) == IF a >= b THEN a ELSE b

VARIABLES
  up,       \* up[g]: the gateway process runs
  node,     \* node[g]: its memory (OwnershipManager, NodeRegistry, recovery)
  disk,     \* disk[g]: the "ownership" checkpoint
  monitor,  \* monitor[g]: what the watchdog knows of the peer
  link,     \* link[g]: the connection g opened to its peer
  beats,    \* beats[g]: heartbeats on their way to g
  crashes,  \* crashes so far
  faults    \* failed checkpoint operations so far

gatewayVars == <<up, node, disk, monitor, link, beats, crashes, faults>>

-----------------------------------------------------------------------------
(* Types. *)

Roles == {ACTIVE, STANDBY}
Registry == [Nodes -> [owner : Gateways, gen : Nat]]
Checkpoint == [gen : Nat, role : Roles, peerGen : Nat, reg : Registry]
\* recovery is "NONE", or the saved role while a restarted gateway waits for
\* evidence from its peer (_recovery_pending with _saved_role).
Memory == [gen : Nat, role : Roles, peerGen : Nat, reg : Registry,
           recovery : {"NONE"} \cup Roles, fault : BOOLEAN]
\* A heartbeat, or the ownership_state of an AUTH_ACK.  rows[n] is the epoch
\* at which the sender claims n, 0 when it does not claim n.
Claims == [gen : Nat, role : Roles, rows : [Nodes -> Nat]]
NoClaim == [gen |-> 0, role |-> STANDBY, rows |-> [n \in Nodes |-> 0]]
Monitor == [window : {"NEVER", "FRESH", "EXPIRED"}, resuming : BOOLEAN,
            status : {"UNKNOWN", "ONLINE", "OFFLINE"}]
Link == [tx : {"DOWN", "JOINING", "UP"}, open : BOOLEAN, reply : Claims]

-----------------------------------------------------------------------------
(* Checkpoints. *)

\* Mutant of SeedRegistry: the zone is entered for its gateway.
SeedRegistryByZone ==
  [n \in Nodes |-> [owner |-> n[1], gen |-> INITIAL_GENERATION]]

SeedRegistry ==
  [n \in Nodes |-> [owner |-> Home[n[1]], gen |-> INITIAL_GENERATION]]

FirstBoot ==
  [gen |-> INITIAL_GENERATION, role |-> ACTIVE, peerGen |-> 0,
   reg |-> SeedRegistry, recovery |-> "NONE", fault |-> FALSE]

Saved(s) ==
  [gen |-> s.gen, role |-> s.role, peerGen |-> s.peerGen, reg |-> s.reg]

\* What the validator of _restore_ownership asks of a checkpoint of g.
Restorable(g, c) ==
  /\ c.gen >= 1
  /\ \A n \in Nodes :
       /\ c.reg[n].gen >= 1
       /\ c.reg[n].owner = g => c.reg[n].gen = c.gen
  /\ \A z \in Zones : c.reg[Sensor(z)] = c.reg[Controller(z)]

\* A restart never resumes ACTIVE by itself.
Restored(c) ==
  [gen |-> c.gen, role |-> STANDBY, peerGen |-> c.peerGen, reg |-> c.reg,
   recovery |-> c.role, fault |-> FALSE]

\* Mutant of FailedRestore: an unreadable checkpoint counts as a first boot.
FailedRestoreFresh == [FirstBoot EXCEPT !.role = STANDBY]

\* An unreadable or invalid checkpoint disables the gateway.
FailedRestore == [FirstBoot EXCEPT !.role = STANDBY, !.fault = TRUE]

\* Mutant of Persist: a failed write is only logged.
PersistOrLog(g, s, ok) ==
  /\ ok \/ (~s.fault /\ faults < MaxFaults)
  /\ faults' = IF ok THEN faults ELSE faults + 1
  /\ node' = [node EXCEPT ![g] = s]
  /\ disk' = [disk EXCEPT ![g] = IF ok /\ ~s.fault THEN Saved(s) ELSE @]

\* _persist_ownership at the end of a handler that leaves memory s.  ok says
\* whether the write succeeds; a process that has failed once writes no more.
Persist(g, s, ok) ==
  /\ ok \/ (~s.fault /\ faults < MaxFaults)
  /\ faults' = IF ok THEN faults ELSE faults + 1
  /\ node' = [node EXCEPT ![g] =
                IF ok THEN s ELSE [s EXCEPT !.fault = TRUE, !.role = STANDBY]]
  /\ disk' = [disk EXCEPT ![g] = IF ok /\ ~s.fault THEN Saved(s) ELSE @]

-----------------------------------------------------------------------------
(* What the peer says. *)

\* _peer_ownership_state: a gateway claims the nodes its registry gives it.
Claim(g, s) ==
  [gen |-> s.gen, role |-> s.role,
   rows |-> [n \in Nodes |-> IF s.reg[n].owner = g THEN s.reg[n].gen ELSE 0]]

\* The validation at the head of _on_peer_heartbeat.
WellFormed(s, m) ==
  /\ m.gen >= 1
  /\ m.gen >= s.peerGen
  /\ \A n \in Nodes : m.rows[n] <= m.gen
  /\ \A z \in Zones : m.rows[Sensor(z)] = m.rows[Controller(z)]

\* NodeRegistry.transfer of the nodes the peer claims at a newer epoch.
Transferred(g, reg, m) ==
  [n \in Nodes |-> IF reg[n].gen < m.rows[n]
                   THEN [owner |-> Peer[g], gen |-> m.rows[n]]
                   ELSE reg[n]]

\* An ACTIVE peer claims a node of mine at the epoch at which I own it.
Conflict(g, reg, m) ==
  /\ m.role = ACTIVE
  /\ \E n \in Nodes : reg[n].owner = g /\ reg[n].gen = m.rows[n]

\* Mutants of Resumes: at any epoch; whatever the role was.
ResumesAtAnyEpoch(s, conflict, peerGen) ==
  s.recovery = ACTIVE /\ ~conflict /\ ~s.fault
ResumesAnyRole(s, conflict, peerGen) ==
  s.recovery # "NONE" /\ ~conflict /\ ~s.fault /\ peerGen <= s.gen

\* The end of a recovery: the peer shows that the saved control still stands.
Resumes(s, conflict, peerGen) ==
  /\ s.recovery = ACTIVE
  /\ ~conflict
  /\ ~s.fault
  /\ peerGen <= s.gen

\* Mutant of Demoted: equal epochs are nobody's business.
DemotedByNewerOnly(s, conflict, peerGen) == peerGen > s.gen

\* observe_peer, and the fail-closed answer to equal epochs.
Demoted(s, conflict, peerGen) == conflict \/ peerGen > s.gen

\* _on_peer_heartbeat.
OnPeerHeartbeat(g, s, m) ==
  LET reg == Transferred(g, s.reg, m)
      conflict == Conflict(g, reg, m)
      peerGen == Larger(s.peerGen, m.gen)
  IN [s EXCEPT !.reg = reg,
               !.peerGen = peerGen,
               !.recovery = "NONE",
               !.role = IF Resumes(s, conflict, peerGen) THEN ACTIVE
                        ELSE IF Demoted(s, conflict, peerGen) THEN STANDBY
                        ELSE @]

\* The peer was heard: the failure window and any resume deadline restart.
Heard(g) ==
  monitor' = [monitor EXCEPT ![g].window = "FRESH", ![g].resuming = FALSE]

-----------------------------------------------------------------------------
(* Taking over. *)

\* Every epoch I know of is already below my own and no node is the peer's.
AlreadyFenced(g, s) ==
  /\ \A n \in Nodes : s.reg[n].owner # Peer[g]
  /\ s.role = ACTIVE
  /\ s.gen > s.peerGen
  /\ s.recovery = "NONE"

\* Mutant of TakenOver: the nodes already owned keep their old epoch.
TakenOverPeerRows(g, s) ==
  LET generation == Larger(s.gen, s.peerGen) + 1
  IN [s EXCEPT !.gen = generation,
               !.role = ACTIVE,
               !.recovery = "NONE",
               !.reg = [n \in Nodes |->
                          IF s.reg[n].owner = Peer[g]
                          THEN [owner |-> g, gen |-> generation]
                          ELSE s.reg[n]]]

\* _takeover up to its checkpoint: the nodes of the peer and my own move to a
\* new epoch.
TakenOver(g, s) ==
  LET generation == Larger(s.gen, s.peerGen) + 1
  IN [s EXCEPT !.gen = generation,
               !.role = ACTIVE,
               !.recovery = "NONE",
               !.reg = [n \in Nodes |->
                          IF s.reg[n].owner \in {g, Peer[g]}
                          THEN [owner |-> g, gen |-> generation]
                          ELSE s.reg[n]]]

\* evaluate_peer_status: what the watchdog concludes at this tick.
PeerStatus(m) ==
  CASE m.window = "FRESH" -> "ONLINE"
    [] m.window = "EXPIRED" /\ ~m.resuming -> "OFFLINE"
    [] OTHER -> "UNKNOWN"

\* The takeover runs on the edge to OFFLINE only, and never after a fault.
TakesOver(g) ==
  /\ PeerStatus(monitor[g]) = "OFFLINE"
  /\ monitor[g].status # "OFFLINE"
  /\ ~node[g].fault
  /\ ~AlreadyFenced(g, node[g])

-----------------------------------------------------------------------------
(* The steps of a gateway. *)

Init ==
  /\ up = [g \in Gateways |-> TRUE]
  /\ node = [g \in Gateways |-> FirstBoot]
  /\ disk = [g \in Gateways |-> Saved(FirstBoot)]
  /\ monitor = [g \in Gateways |->
                  [window |-> "NEVER", resuming |-> FALSE, status |-> "UNKNOWN"]]
  /\ link = [g \in Gateways |->
               [tx |-> "DOWN", open |-> FALSE, reply |-> NoClaim]]
  /\ beats = [g \in Gateways |-> {}]
  /\ crashes = 0
  /\ faults = 0

\* Mutant of StartConnect: a faulted peer still answers.
StartConnectAnyway(g) ==
  /\ up[g] /\ link[g].tx = "DOWN"
  /\ up[Peer[g]]
  /\ link' = [link EXCEPT ![g] =
                [tx |-> "JOINING", open |-> TRUE,
                 reply |-> Claim(Peer[g], node[Peer[g]])]]
  /\ UNCHANGED <<up, node, disk, monitor, beats, crashes, faults>>

\* _connect_peer up to the AUTH_ACK of the peer, which carries what the peer
\* owns at that moment.  A faulted peer refuses the handshake.
StartConnect(g) ==
  /\ up[g] /\ link[g].tx = "DOWN"
  /\ up[Peer[g]] /\ ~node[Peer[g]].fault
  /\ link' = [link EXCEPT ![g] =
                [tx |-> "JOINING", open |-> TRUE,
                 reply |-> Claim(Peer[g], node[Peer[g]])]]
  /\ UNCHANGED <<up, node, disk, monitor, beats, crashes, faults>>

\* The rest of _connect_peer: by now the reply may be out of date.
FinishConnect(g, ok) ==
  /\ up[g] /\ link[g].tx = "JOINING"
  /\ IF WellFormed(node[g], link[g].reply)
     THEN /\ Persist(g, OnPeerHeartbeat(g, node[g], link[g].reply), ok)
          /\ Heard(g)
          /\ link' = [link EXCEPT ![g].tx = "UP", ![g].reply = NoClaim]
     ELSE /\ ok
          /\ link' = [link EXCEPT ![g].tx = "DOWN", ![g].open = FALSE,
                                  ![g].reply = NoClaim]
          /\ UNCHANGED <<node, disk, monitor, faults>>
  /\ UNCHANGED <<up, beats, crashes>>

\* The reply does not arrive within two seconds.
AbandonConnect(g) ==
  /\ up[g] /\ link[g].tx = "JOINING"
  /\ link' = [link EXCEPT ![g].tx = "DOWN", ![g].open = FALSE,
                          ![g].reply = NoClaim]
  /\ UNCHANGED <<up, node, disk, monitor, beats, crashes, faults>>

\* Mutant of Publish: a faulted gateway keeps publishing.
PublishAnyway(g, s) ==
  /\ link' = [link EXCEPT ![g].tx = IF @ = "UP" /\ ~link[g].open THEN "DOWN" ELSE @]
  /\ beats' = [beats EXCEPT ![Peer[g]] =
                 IF /\ link[g].tx = "UP" /\ link[g].open
                    /\ Cardinality(@) < MaxInFlight
                 THEN @ \cup {Claim(g, s)} ELSE @]

\* The heartbeat of g leaves, or g notices that its connection is broken.  A
\* process with a checkpoint fault publishes nothing.
Publish(g, s) ==
  /\ link' = [link EXCEPT ![g].tx =
                IF @ = "UP" /\ ~s.fault /\ ~link[g].open THEN "DOWN" ELSE @]
  /\ beats' = [beats EXCEPT ![Peer[g]] =
                 IF /\ link[g].tx = "UP" /\ link[g].open /\ ~s.fault
                    /\ Cardinality(@) < MaxInFlight
                 THEN @ \cup {Claim(g, s)} ELSE @]

\* One round of task_heartbeat: watchdog, takeover, heartbeat.
HeartbeatTick(g, ok) ==
  /\ up[g] /\ link[g].tx # "JOINING"
  /\ IF TakesOver(g)
     THEN Persist(g, TakenOver(g, node[g]), ok)
     ELSE ok /\ UNCHANGED <<node, disk, faults>>
  /\ monitor' = [monitor EXCEPT ![g].status = PeerStatus(monitor[g])]
  /\ Publish(g, node'[g])
  /\ UNCHANGED <<up, crashes>>

\* The HEARTBEAT branch of _handle_client.  Each socket is read in order and a
\* sequence number is read once; a reconnect opens a second socket whose frames
\* may overtake the first one's, so any heartbeat on its way may come next.
ReceiveHeartbeat(g, ok) ==
  \E m \in beats[g] :
    /\ up[g]
    /\ beats' = [beats EXCEPT ![g] = @ \ {m}]
    /\ IF WellFormed(node[g], m)
       THEN Persist(g, OnPeerHeartbeat(g, node[g], m), ok) /\ Heard(g)
       ELSE ok /\ UNCHANGED <<node, disk, monitor, faults>>
    /\ UNCHANGED <<up, link, crashes>>

LoseHeartbeat(g) ==
  /\ \E m \in beats[g] : beats' = [beats EXCEPT ![g] = @ \ {m}]
  /\ UNCHANGED <<up, node, disk, monitor, link, crashes, faults>>

-----------------------------------------------------------------------------
(* Time, crashes and restarts. *)

\* Bound: once an epoch is high enough, no further peer timeout is explored.
EpochsLeft == \A g \in Gateways : node[g].gen < MaxGeneration

\* heartbeat_timeout passes with nothing heard.
Expire(g) ==
  /\ up[g] /\ monitor[g].window # "EXPIRED" /\ EpochsLeft
  /\ SpuriousTimeouts \/ ~up[Peer[g]]
  /\ monitor' = [monitor EXCEPT ![g].window = "EXPIRED"]
  /\ UNCHANGED <<up, node, disk, link, beats, crashes, faults>>

\* _observe_peer_monitor_tick after a suspension of the whole process.
Stall(g) ==
  /\ up[g] /\ ~monitor[g].resuming /\ EpochsLeft
  /\ monitor' = [monitor EXCEPT ![g].resuming = TRUE]
  /\ UNCHANGED <<up, node, disk, link, beats, crashes, faults>>

\* The resume deadline passes.
Resume(g) ==
  /\ up[g] /\ monitor[g].resuming
  /\ monitor' = [monitor EXCEPT ![g].resuming = FALSE]
  /\ UNCHANGED <<up, node, disk, link, beats, crashes, faults>>

\* The memory of g, its sockets and what was still on its way to g are lost.
Crash(g) ==
  /\ up[g] /\ crashes < MaxCrashes
  /\ up' = [up EXCEPT ![g] = FALSE]
  /\ node' = [node EXCEPT ![g] = FailedRestore]
  /\ link' = [link EXCEPT ![g] = [tx |-> "DOWN", open |-> FALSE, reply |-> NoClaim],
                          ![Peer[g]].open = FALSE]
  /\ beats' = [beats EXCEPT ![g] = {}]
  /\ crashes' = crashes + 1
  /\ UNCHANGED <<disk, monitor, faults>>

\* __init__ with _restore_ownership; ok says whether the checkpoint can be read.
Restart(g, ok) ==
  /\ ~up[g]
  /\ ok \/ faults < MaxFaults
  /\ up' = [up EXCEPT ![g] = TRUE]
  /\ node' = [node EXCEPT ![g] = IF ok /\ Restorable(g, disk[g])
                                 THEN Restored(disk[g]) ELSE FailedRestore]
  /\ monitor' = [monitor EXCEPT ![g] =
                   [window |-> "NEVER", resuming |-> FALSE, status |-> "UNKNOWN"]]
  /\ faults' = IF ok THEN faults ELSE faults + 1
  /\ UNCHANGED <<disk, link, beats, crashes>>

GatewayStep(g) ==
  \/ StartConnect(g)
  \/ AbandonConnect(g)
  \/ LoseHeartbeat(g)
  \/ Expire(g)
  \/ Stall(g)
  \/ Resume(g)
  \/ Crash(g)
  \/ \E ok \in BOOLEAN :
       FinishConnect(g, ok) \/ HeartbeatTick(g, ok) \/ ReceiveHeartbeat(g, ok)
         \/ Restart(g, ok)

Next == \E g \in Gateways : GatewayStep(g)

Spec == Init /\ [][Next]_gatewayVars

\* The tasks of a running gateway keep running, its disk does not fail for
\* ever, and a peer that can be reached again and again is reached at last.
GatewayFairness ==
  \A g \in Gateways :
    /\ WF_gatewayVars(HeartbeatTick(g, TRUE))
    /\ SF_gatewayVars(StartConnect(g))
    /\ SF_gatewayVars(FinishConnect(g, TRUE))
    /\ SF_gatewayVars(ReceiveHeartbeat(g, TRUE))

FairSpec == Spec /\ GatewayFairness

-----------------------------------------------------------------------------
(* Properties. *)

\* Every variable has its type.
TypeOK ==
  /\ up \in [Gateways -> BOOLEAN]
  /\ node \in [Gateways -> Memory]
  /\ disk \in [Gateways -> Checkpoint]
  /\ monitor \in [Gateways -> Monitor]
  /\ link \in [Gateways -> Link]
  /\ beats \in [Gateways -> SUBSET Claims]
  /\ crashes \in Nat
  /\ faults \in Nat

\* Every statement a peer can still read: heartbeats and handshake replies.
Statements(g) ==
  beats[Peer[g]] \cup
    {c \in {link[Peer[g]].reply} : link[Peer[g]].tx = "JOINING"}

\* A takeover is committed before it is published: no heartbeat, handshake
\* reply or peer memory carries an epoch of g above the checkpoint of g, so no
\* crash makes g forget an epoch somebody has seen (gateway.py _takeover,
\* _persist_ownership, the persistence_fault tests).
AdvertisedIsDurable ==
  \A g \in Gateways :
    /\ \A c \in Statements(g) : c.gen <= disk[g].gen
    /\ node[Peer[g]].peerGen <= disk[g].gen
    /\ disk[Peer[g]].peerGen <= disk[g].gen

\* A gateway gives a node away only on evidence: whatever epoch a registry,
\* running or saved, assigns to the peer, the peer has durably reached.
ForeignRowsHaveEvidence ==
  \A g \in Gateways, n \in Nodes :
    /\ node[g].reg[n].owner = Peer[g] => node[g].reg[n].gen <= disk[Peer[g]].gen
    /\ disk[g].reg[n].owner = Peer[g] => disk[g].reg[n].gen <= disk[Peer[g]].gen

\* A checkpoint written by any handler passes the validation of the next boot:
\* own rows carry the own epoch and the two nodes of a zone never part.
CheckpointRestorable ==
  \A g \in Gateways : Restorable(g, disk[g])

\* A gateway that has heard of a newer epoch, or whose checkpoint failed, does
\* not control anything, before, during or after a recovery.
DeposedIsStandby ==
  \A g \in Gateways :
    node[g].role = ACTIVE => node[g].peerGen <= node[g].gen /\ ~node[g].fault

\* What g may drive it owns durably, at the epoch of its checkpoint.
MayControl(g, n) ==
  up[g] /\ node[g].role = ACTIVE /\ node[g].reg[n].owner = g

ControlIsDurable ==
  \A g \in Gateways, n \in Nodes :
    MayControl(g, n) =>
      disk[g].gen = node[g].gen /\ disk[g].reg[n] = [owner |-> g, gen |-> node[g].gen]

\* No crash, failing disk or peer message makes a gateway forget an epoch: the
\* saved generation, peer generation and row epochs never decrease.
EpochNeverFallsBack ==
  [][\A g \in Gateways :
       /\ disk'[g].gen >= disk[g].gen
       /\ disk'[g].peerGen >= disk[g].peerGen
       /\ \A n \in Nodes : disk'[g].reg[n].gen >= disk[g].reg[n].gen]_disk

\* "Previously demoted gateways remain STANDBY on equal/stale heartbeats": a
\* durable STANDBY becomes ACTIVE again only with a newer durable epoch.
DemotionSurvives ==
  [][\A g \in Gateways :
       disk[g].role = STANDBY /\ disk'[g].role = ACTIVE
         => disk'[g].gen > Larger(disk[g].gen, disk[g].peerGen)]_disk

\* Two running gateways both control a node.
Overlap == \E n \in Nodes : \A g \in Gateways : MayControl(g, n)

\* Once timeouts, crashes and disk faults stop, the heartbeats of the pair end
\* every double ownership for good.
OverlapEnds == <>[]~Overlap
=============================================================================
