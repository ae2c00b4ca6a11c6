-------------------------- MODULE OwnershipProofs --------------------------
(***************************************************************************)
(* The safety properties of Ownership for every pair of gateways, every    *)
(* set of zones and all bounds.                                            *)
(***************************************************************************)
EXTENDS Ownership, TLAPS

\* A gateway that has not failed remembers what its checkpoint says; while it
\* recovers it is STANDBY and keeps the saved role for the peer's answer.
InStep(g) ==
  ~node[g].fault =>
    /\ node[g].gen = disk[g].gen
    /\ node[g].peerGen = disk[g].peerGen
    /\ node[g].reg = disk[g].reg
    /\ IF node[g].recovery = "NONE" THEN node[g].role = disk[g].role
       ELSE node[g].role = STANDBY /\ node[g].recovery = disk[g].role

\* No row carries an epoch above the two that its gateway knows of.
RowsKnown(g) ==
  \A n \in Nodes : disk[g].reg[n].owner \in {g, Peer[g]}
    => disk[g].reg[n].gen <= Larger(disk[g].gen, disk[g].peerGen)

\* What relates the memories and the checkpoints of the pair.
Core ==
  /\ node \in [Gateways -> Memory]
  /\ disk \in [Gateways -> Checkpoint]
  /\ \A g \in Gateways :
       /\ node[g].peerGen <= disk[Peer[g]].gen
       /\ disk[g].peerGen <= disk[Peer[g]].gen
       /\ InStep(g) /\ RowsKnown(g)
  /\ ForeignRowsHaveEvidence
  /\ CheckpointRestorable
  /\ DeposedIsStandby

\* What is still on its way to a gateway, its peer has saved.
Said ==
  \A g \in Gateways :
    /\ \A c \in beats[g] : c.gen <= disk[Peer[g]].gen
    /\ link[g].tx = "JOINING" => link[g].reply.gen <= disk[Peer[g]].gen

\* The variables that no checkpoint depends on.
RestOK ==
  /\ up \in [Gateways -> BOOLEAN]
  /\ monitor \in [Gateways -> Monitor]
  /\ link \in [Gateways -> Link]
  /\ beats \in [Gateways -> SUBSET Claims]
  /\ crashes \in Nat
  /\ faults \in Nat

\* The inductive invariant.
IInv == RestOK /\ Core /\ Said

-----------------------------------------------------------------------------
(* The handlers. *)

\* The sensor and the controller of a zone are nodes.
LEMMA NodeNames ==
  \A z \in Zones : Sensor(z) \in Nodes /\ Controller(z) \in Nodes
BY DEF Nodes, Sensor, Controller

\* The seeded registry is a registry whose rows carry epoch 1 and agree per zone.
LEMMA SeedFacts ==
  /\ SeedRegistry \in Registry
  /\ \A z \in Zones : SeedRegistry[Sensor(z)] = SeedRegistry[Controller(z)]
  /\ \A n \in Nodes : SeedRegistry[n].gen = 1
BY PairAssumption DEF SeedRegistry, Registry, Nodes, Sensor, Controller, INITIAL_GENERATION

\* Memory after a first boot, or after a restore that failed, is memory that owns no foreign epoch.
LEMMA BootFacts ==
  /\ FirstBoot \in Memory
  /\ Saved(FirstBoot) \in Checkpoint
  /\ FailedRestore \in Memory
  /\ \A g \in Gateways : Restorable(g, FirstBoot)
<1>1. FirstBoot.gen = 1 /\ FirstBoot.reg = SeedRegistry
  BY DEF FirstBoot, INITIAL_GENERATION
<1>2. FirstBoot \in Memory
  BY SeedFacts DEF FirstBoot, Memory, Roles, ACTIVE, STANDBY, INITIAL_GENERATION
<1>3. Saved(FirstBoot) \in Checkpoint
  BY <1>2 DEF Saved, Memory, Checkpoint
<1>4. FailedRestore \in Memory
  BY <1>2 DEF FailedRestore, Memory, Roles, STANDBY
<1>5. \A g \in Gateways : Restorable(g, FirstBoot)
  BY <1>1, SeedFacts DEF Restorable
<1> QED BY <1>2, <1>3, <1>4, <1>5

\* What a well-formed statement of the peer does to memory, field by field.
LEMMA HeartbeatFacts ==
  ASSUME NEW g \in Gateways, NEW s \in Memory, NEW m \in Claims, WellFormed(s, m),
         NEW r, r = OnPeerHeartbeat(g, s, m)
  PROVE  /\ r \in Memory
         /\ r.gen = s.gen /\ r.fault = s.fault /\ r.recovery = "NONE"
         /\ r.peerGen = Larger(s.peerGen, m.gen)
         /\ r.reg = Transferred(g, s.reg, m)
         /\ \A n \in Nodes :
              \/ r.reg[n] = s.reg[n]
              \/ /\ r.reg[n] = [owner |-> Peer[g], gen |-> m.rows[n]]
                 /\ s.reg[n].gen < m.rows[n] /\ m.rows[n] <= m.gen
         /\ r.role = ACTIVE =>
              \/ s.role = ACTIVE /\ r.peerGen <= s.gen
              \/ s.recovery = ACTIVE /\ r.peerGen <= s.gen /\ ~s.fault
<1>1. m.gen \in Nat /\ m.rows \in [Nodes -> Nat] /\ s.peerGen \in Nat /\ s.gen \in Nat
  BY DEF Memory, Claims
<1>2. Transferred(g, s.reg, m) \in Registry
  BY <1>1, PairAssumption DEF Transferred, Registry, Memory
<1>3. Larger(s.peerGen, m.gen) \in Nat
  BY <1>1 DEF Larger
<1>4. r.reg = Transferred(g, s.reg, m) /\ r.peerGen = Larger(s.peerGen, m.gen)
      /\ r.recovery = "NONE" /\ r.gen = s.gen /\ r.fault = s.fault
  BY DEF OnPeerHeartbeat, Memory
<1>5. r \in Memory
  BY <1>2, <1>3 DEF OnPeerHeartbeat, Memory, Roles, ACTIVE, STANDBY
<1>6. \A n \in Nodes :
              \/ r.reg[n] = s.reg[n]
              \/ /\ r.reg[n] = [owner |-> Peer[g], gen |-> m.rows[n]]
                 /\ s.reg[n].gen < m.rows[n] /\ m.rows[n] <= m.gen
  BY <1>4 DEF Transferred, WellFormed
<1>7. ASSUME r.role = ACTIVE
      PROVE  \/ s.role = ACTIVE /\ r.peerGen <= s.gen
             \/ s.recovery = ACTIVE /\ r.peerGen <= s.gen /\ ~s.fault
  BY <1>1, <1>3, <1>4, <1>7 DEF OnPeerHeartbeat, Memory, Resumes, Demoted, ACTIVE, STANDBY
<1> QED BY <1>4, <1>5, <1>6, <1>7

\* A heartbeat keeps the registry acceptable to the validation of the next boot.
LEMMA HeartbeatRestorable ==
  ASSUME NEW g \in Gateways, NEW s \in Memory, NEW m \in Claims, WellFormed(s, m),
         Restorable(g, s)
  PROVE  Restorable(g, OnPeerHeartbeat(g, s, m))
<1> DEFINE r == OnPeerHeartbeat(g, s, m)
<1> HIDE DEF r
<1>1. /\ r.gen = s.gen
      /\ r.reg = Transferred(g, s.reg, m)
      /\ \A n \in Nodes :
              \/ r.reg[n] = s.reg[n]
              \/ /\ r.reg[n] = [owner |-> Peer[g], gen |-> m.rows[n]]
                 /\ s.reg[n].gen < m.rows[n] /\ m.rows[n] <= m.gen
  BY HeartbeatFacts DEF r
<1>2. \A n \in Nodes : r.reg[n].gen >= 1 /\ (r.reg[n].owner = g => r.reg[n].gen = r.gen)
  <2> TAKE n \in Nodes
  <2>1. s.reg[n].gen >= 1 /\ s.reg[n].gen \in Nat /\ m.rows[n] \in Nat
        /\ (s.reg[n].owner = g => s.reg[n].gen = s.gen)
    BY DEF Restorable, Memory, Registry, Claims
  <2>2. CASE r.reg[n] = s.reg[n]
    BY <1>1, <2>1, <2>2
  <2>3. CASE /\ r.reg[n] = [owner |-> Peer[g], gen |-> m.rows[n]]
             /\ s.reg[n].gen < m.rows[n]
    BY <2>1, <2>3, PairAssumption
  <2> QED BY <1>1, <2>2, <2>3
<1>3. \A z \in Zones : r.reg[Sensor(z)] = r.reg[Controller(z)]
  BY <1>1, NodeNames DEF Transferred, WellFormed, Restorable
<1> QED BY <1>1, <1>2, <1>3 DEF Restorable, r

\* What a takeover does to memory, field by field, and that it stays restorable.
LEMMA TakeoverFacts ==
  ASSUME NEW g \in Gateways, NEW s \in Memory, Restorable(g, s),
         NEW r, r = TakenOver(g, s)
  PROVE  /\ r \in Memory
         /\ r.gen = Larger(s.gen, s.peerGen) + 1
         /\ r.fault = s.fault /\ r.recovery = "NONE" /\ r.peerGen = s.peerGen
         /\ \A n \in Nodes :
              IF s.reg[n].owner \in {g, Peer[g]}
              THEN r.reg[n] = [owner |-> g, gen |-> r.gen]
              ELSE r.reg[n] = s.reg[n]
         /\ r.peerGen <= r.gen
         /\ Restorable(g, r)
<1>1. s.gen \in Nat /\ s.peerGen \in Nat /\ s.reg \in Registry
  BY DEF Memory
<1>2. /\ r.gen = Larger(s.gen, s.peerGen) + 1 /\ r.gen \in Nat
      /\ r.gen > s.gen /\ r.gen > s.peerGen
  BY <1>1 DEF TakenOver, Larger, Memory
<1>3. r.fault = s.fault /\ r.recovery = "NONE" /\ r.peerGen = s.peerGen
  BY DEF TakenOver, Memory
<1>4. r.reg = [n \in Nodes |-> IF s.reg[n].owner \in {g, Peer[g]}
                               THEN [owner |-> g, gen |-> r.gen] ELSE s.reg[n]]
  BY <1>2 DEF TakenOver, Memory
<1>5. r.reg \in Registry
  BY <1>1, <1>2, <1>4 DEF Registry
<1>6. r \in Memory
  BY <1>2, <1>5 DEF TakenOver, Memory, Roles, ACTIVE
<1>7. \A n \in Nodes : r.reg[n].gen >= 1 /\ (r.reg[n].owner = g => r.reg[n].gen = r.gen)
  BY <1>1, <1>2, <1>4 DEF Restorable, Registry
<1>8. \A z \in Zones : r.reg[Sensor(z)] = r.reg[Controller(z)]
  BY <1>4, NodeNames DEF Restorable
<1>9. Restorable(g, r)
  BY <1>1, <1>2, <1>7, <1>8 DEF Restorable
<1> QED BY <1>1, <1>2, <1>3, <1>4, <1>6, <1>9

-----------------------------------------------------------------------------
(* What a handler may leave for the checkpoint. *)

\* Memory s, left by a handler of g, keeps the invariant whether or not it can
\* be saved.
Good(g, s) ==
  /\ s \in Memory
  /\ s.fault = node[g].fault
  /\ s.recovery = "NONE"
  /\ s.peerGen <= disk[Peer[g]].gen
  /\ \A n \in Nodes : s.reg[n].owner = Peer[g] => s.reg[n].gen <= disk[Peer[g]].gen
  /\ s.role = ACTIVE => s.peerGen <= s.gen /\ ~s.fault
  /\ ~s.fault =>
       /\ Restorable(g, s)
       /\ disk[g].gen <= s.gen
       /\ disk[g].peerGen <= s.peerGen
       /\ \A n \in Nodes : disk[g].reg[n].gen <= s.reg[n].gen
       /\ \A n \in Nodes : s.reg[n].owner \in {g, Peer[g]}
                             => s.reg[n].gen <= Larger(s.gen, s.peerGen)
       /\ disk[g].role = STANDBY /\ s.role = ACTIVE
            => s.gen > Larger(disk[g].gen, disk[g].peerGen)

\* The invariant gives the type and the restorability of the memory of a running gateway.
LEMMA MemoryOfCore ==
  ASSUME Core, NEW g \in Gateways
  PROVE  /\ Peer[g] \in Gateways /\ Peer[g] # g /\ Peer[Peer[g]] = g
         /\ node[g] \in Memory
         /\ disk[g] \in Checkpoint /\ disk[Peer[g]] \in Checkpoint
         /\ node[g].peerGen \in Nat /\ node[g].gen \in Nat /\ disk[g].gen \in Nat
         /\ disk[g].peerGen \in Nat /\ disk[Peer[g]].gen \in Nat
         /\ \A n \in Nodes : node[g].reg[n].gen \in Nat /\ disk[g].reg[n].gen \in Nat
         /\ ~node[g].fault => Restorable(g, node[g])
<1>1. Peer[g] \in Gateways /\ Peer[g] # g /\ Peer[Peer[g]] = g
  BY PairAssumption
<1>2. node[g] \in Memory /\ disk[g] \in Checkpoint /\ disk[Peer[g]] \in Checkpoint
  BY <1>1 DEF Core
<1>3. ~node[g].fault => Restorable(g, node[g])
  BY DEF Core, CheckpointRestorable, InStep, Restorable
<1> QED BY <1>1, <1>2, <1>3 DEF Memory, Checkpoint, Registry

\* Memory after a heartbeat may be saved: nothing falls back and no demotion is undone.
LEMMA HeartbeatGood ==
  ASSUME Core, NEW g \in Gateways, NEW m \in Claims, WellFormed(node[g], m),
         m.gen <= disk[Peer[g]].gen
  PROVE  Good(g, OnPeerHeartbeat(g, node[g], m))
<1> DEFINE s == node[g]
           r == OnPeerHeartbeat(g, s, m)
<1> HIDE DEF r
<1>1. /\ r \in Memory
      /\ r.gen = s.gen /\ r.fault = s.fault /\ r.recovery = "NONE"
      /\ r.peerGen = Larger(s.peerGen, m.gen)
      /\ \A n \in Nodes :
           \/ r.reg[n] = s.reg[n]
           \/ /\ r.reg[n] = [owner |-> Peer[g], gen |-> m.rows[n]]
              /\ s.reg[n].gen < m.rows[n] /\ m.rows[n] <= m.gen
      /\ r.role = ACTIVE =>
           \/ s.role = ACTIVE /\ r.peerGen <= s.gen
           \/ s.recovery = ACTIVE /\ r.peerGen <= s.gen /\ ~s.fault
  BY HeartbeatFacts, MemoryOfCore DEF r
<1>2. m.gen \in Nat /\ \A n \in Nodes : m.rows[n] \in Nat
  BY DEF Claims
<1>3. r.peerGen \in Nat /\ r.peerGen >= s.peerGen /\ r.peerGen >= m.gen
      /\ r.peerGen <= disk[Peer[g]].gen
  BY <1>1, <1>2, MemoryOfCore DEF Larger, Core
<1>4. ASSUME NEW n \in Nodes, r.reg[n].owner = Peer[g]
      PROVE  r.reg[n].gen <= disk[Peer[g]].gen
  <2>1. CASE r.reg[n] = s.reg[n]
    BY <1>4, <2>1 DEF Core, ForeignRowsHaveEvidence
  <2>2. CASE r.reg[n] = [owner |-> Peer[g], gen |-> m.rows[n]] /\ m.rows[n] <= m.gen
    BY <1>2, <2>2, MemoryOfCore
  <2> QED BY <1>1, <2>1, <2>2
<1>5. r.role = ACTIVE => r.peerGen <= r.gen /\ ~r.fault
  BY <1>1 DEF Core, DeposedIsStandby
<1>6. ASSUME ~r.fault
      PROVE  /\ Restorable(g, r)
             /\ disk[g].gen <= r.gen
             /\ disk[g].peerGen <= r.peerGen
             /\ \A n \in Nodes : disk[g].reg[n].gen <= r.reg[n].gen
             /\ \A n \in Nodes : r.reg[n].owner \in {g, Peer[g]}
                                   => r.reg[n].gen <= Larger(r.gen, r.peerGen)
             /\ disk[g].role = STANDBY /\ r.role = ACTIVE
                  => r.gen > Larger(disk[g].gen, disk[g].peerGen)
  <2>1. s.gen = disk[g].gen /\ s.peerGen = disk[g].peerGen /\ s.reg = disk[g].reg
        /\ IF s.recovery = "NONE" THEN s.role = disk[g].role
           ELSE s.role = STANDBY /\ s.recovery = disk[g].role
    BY <1>1, <1>6 DEF Core, InStep
  <2>2. Restorable(g, r)
    BY <1>1, <1>6, MemoryOfCore, HeartbeatRestorable DEF r
  <2>3. disk[g].gen <= r.gen /\ disk[g].peerGen <= r.peerGen
    BY <1>1, <1>3, <2>1, MemoryOfCore
  <2>4. ASSUME NEW n \in Nodes
        PROVE  /\ disk[g].reg[n].gen <= r.reg[n].gen
               /\ r.reg[n].owner \in {g, Peer[g]}
                    => r.reg[n].gen <= Larger(r.gen, r.peerGen)
    <3>1. CASE r.reg[n] = s.reg[n]
      BY <1>1, <1>3, <2>1, <3>1, MemoryOfCore DEF Core, RowsKnown, Larger
    <3>2. CASE /\ r.reg[n] = [owner |-> Peer[g], gen |-> m.rows[n]]
               /\ s.reg[n].gen < m.rows[n] /\ m.rows[n] <= m.gen
      BY <1>1, <1>2, <1>3, <2>1, <3>2, MemoryOfCore DEF Larger
    <3> QED BY <1>1, <3>1, <3>2
  <2>5. disk[g].role = STANDBY => r.role # ACTIVE
    BY <1>1, <2>1 DEF ACTIVE, STANDBY
  <2> QED BY <2>2, <2>3, <2>4, <2>5
<1>7. Good(g, r)
  BY <1>1, <1>3, <1>4, <1>5, <1>6 DEF Good
<1> QED BY <1>7 DEF r

\* Memory after a takeover may be saved: nothing falls back and the epoch is new.
LEMMA TakeoverGood ==
  ASSUME Core, NEW g \in Gateways, ~node[g].fault
  PROVE  Good(g, TakenOver(g, node[g]))
<1> DEFINE s == node[g]
           r == TakenOver(g, s)
<1> HIDE DEF r
<1>1. /\ r \in Memory
      /\ r.gen = Larger(s.gen, s.peerGen) + 1
      /\ r.fault = s.fault /\ r.recovery = "NONE" /\ r.peerGen = s.peerGen
      /\ \A n \in Nodes :
           IF s.reg[n].owner \in {g, Peer[g]}
           THEN r.reg[n] = [owner |-> g, gen |-> r.gen]
           ELSE r.reg[n] = s.reg[n]
      /\ r.peerGen <= r.gen
      /\ Restorable(g, r)
  BY TakeoverFacts, MemoryOfCore DEF r
<1>2. s.gen = disk[g].gen /\ s.peerGen = disk[g].peerGen /\ s.reg = disk[g].reg
  BY DEF Core, InStep
<1>3. r.gen > Larger(disk[g].gen, disk[g].peerGen) /\ r.gen > disk[g].gen
      /\ r.gen \in Nat /\ Larger(r.gen, r.peerGen) = r.gen
      /\ Larger(disk[g].gen, disk[g].peerGen) \in Nat
  BY <1>1, <1>2, MemoryOfCore DEF Larger
<1>4. \A n \in Nodes : r.reg[n].owner # Peer[g]
  BY <1>1, MemoryOfCore
<1>5. \A n \in Nodes : r.reg[n].owner \in {g, Peer[g]} => r.reg[n].gen <= Larger(r.gen, r.peerGen)
  BY <1>1, <1>3
<1>6. \A n \in Nodes : disk[g].reg[n].gen <= r.reg[n].gen
  BY <1>1, <1>2, <1>3, MemoryOfCore DEF Core, RowsKnown
<1>7. r.peerGen <= disk[Peer[g]].gen
  BY <1>1 DEF Core
<1>8. Good(g, r)
  BY <1>1, <1>2, <1>3, <1>4, <1>5, <1>6, <1>7, MemoryOfCore DEF Good
<1> QED BY <1>8 DEF r

-----------------------------------------------------------------------------
(* Steps. *)

\* No saved epoch goes back, and a saved STANDBY needs a newer epoch.
SavedForward ==
  \A g \in Gateways :
    /\ disk'[g].gen >= disk[g].gen
    /\ disk'[g].peerGen >= disk[g].peerGen
    /\ \A n \in Nodes : disk'[g].reg[n].gen >= disk[g].reg[n].gen
SavedDemotion ==
  \A g \in Gateways :
    disk[g].role = STANDBY /\ disk'[g].role = ACTIVE
      => disk'[g].gen > Larger(disk[g].gen, disk[g].peerGen)

\* The core invariant speaks of up, memory, checkpoints and faults alone.
LEMMA CoreUnchanged ==
  ASSUME Core, UNCHANGED <<node, disk>>
  PROVE  Core' /\ SavedForward /\ SavedDemotion
<1>1. Core'
  BY DEF Core, InStep, RowsKnown, ForeignRowsHaveEvidence, CheckpointRestorable, DeposedIsStandby
<1>2. SavedForward /\ SavedDemotion
  BY MemoryOfCore DEF SavedForward, SavedDemotion, ACTIVE, STANDBY
<1> QED BY <1>1, <1>2

\* The general step: one gateway gets memory s and checkpoint c.
LEMMA CoreUpdate ==
  ASSUME Core, NEW g \in Gateways, NEW s \in Memory, NEW c \in Checkpoint,
         node' = [node EXCEPT ![g] = s], disk' = [disk EXCEPT ![g] = c],
         Restorable(g, c),
         s.peerGen <= disk[Peer[g]].gen, c.peerGen <= disk[Peer[g]].gen,
         \A n \in Nodes :
           /\ s.reg[n].owner = Peer[g] => s.reg[n].gen <= disk[Peer[g]].gen
           /\ c.reg[n].owner = Peer[g] => c.reg[n].gen <= disk[Peer[g]].gen
           /\ c.reg[n].owner \in {g, Peer[g]} => c.reg[n].gen <= Larger(c.gen, c.peerGen)
           /\ c.reg[n].gen >= disk[g].reg[n].gen,
         s.role = ACTIVE => s.peerGen <= s.gen /\ ~s.fault,
         c.gen >= disk[g].gen, c.peerGen >= disk[g].peerGen,
         disk[g].role = STANDBY /\ c.role = ACTIVE
           => c.gen > Larger(disk[g].gen, disk[g].peerGen),
         ~s.fault => /\ s.gen = c.gen /\ s.peerGen = c.peerGen /\ s.reg = c.reg
                     /\ IF s.recovery = "NONE" THEN s.role = c.role
                        ELSE s.role = STANDBY /\ s.recovery = c.role
  PROVE  Core' /\ SavedForward /\ SavedDemotion
<1>1. /\ node' \in [Gateways -> Memory]
      /\ disk' \in [Gateways -> Checkpoint]
  BY DEF Core
<1>2. /\ node'[g] = s /\ disk'[g] = c
      /\ \A h \in Gateways : h # g => node'[h] = node[h] /\ disk'[h] = disk[h]
  BY DEF Core
<1>3. \A h \in Gateways : disk'[h].gen >= disk[h].gen /\ disk'[h].gen \in Nat /\ disk[h].gen \in Nat
  BY <1>1, <1>2, MemoryOfCore DEF Checkpoint
<1>4. SavedForward /\ SavedDemotion
  BY <1>2, MemoryOfCore DEF SavedForward, SavedDemotion, ACTIVE, STANDBY
<1>5. ASSUME NEW h \in Gateways
      PROVE  /\ node'[h].peerGen <= disk'[Peer[h]].gen
             /\ disk'[h].peerGen <= disk'[Peer[h]].gen
             /\ \A n \in Nodes :
                  /\ node'[h].reg[n].owner = Peer[h] => node'[h].reg[n].gen <= disk'[Peer[h]].gen
                  /\ disk'[h].reg[n].owner = Peer[h] => disk'[h].reg[n].gen <= disk'[Peer[h]].gen
             /\ InStep(h)' /\ RowsKnown(h)'
             /\ Restorable(h, disk'[h])
             /\ node'[h].role = ACTIVE => node'[h].peerGen <= node'[h].gen /\ ~node'[h].fault
  <2>1. CASE h = g
    BY <1>2, <1>3, <2>1, MemoryOfCore DEF InStep, RowsKnown
  <2>2. CASE h # g
    <3>1. node'[h] = node[h] /\ disk'[h] = disk[h]
      BY <1>2, <2>2
    <3>2. disk[Peer[h]].gen <= disk'[Peer[h]].gen /\ disk'[Peer[h]].gen \in Nat
      BY <1>3, MemoryOfCore
    <3>3. node'[h].peerGen <= disk'[Peer[h]].gen /\ disk'[h].peerGen <= disk'[Peer[h]].gen
      BY <3>1, <3>2, MemoryOfCore DEF Core
    <3>4. ASSUME NEW n \in Nodes
          PROVE  /\ node'[h].reg[n].owner = Peer[h] => node'[h].reg[n].gen <= disk'[Peer[h]].gen
                 /\ disk'[h].reg[n].owner = Peer[h] => disk'[h].reg[n].gen <= disk'[Peer[h]].gen
      BY <3>1, <3>2, MemoryOfCore DEF Core, ForeignRowsHaveEvidence
    <3>5. InStep(h)' /\ RowsKnown(h)'
      BY <3>1 DEF Core, InStep, RowsKnown
    <3>6. Restorable(h, disk'[h])
      BY <3>1 DEF Core, CheckpointRestorable
    <3>7. node'[h].role = ACTIVE => node'[h].peerGen <= node'[h].gen /\ ~node'[h].fault
      BY <3>1 DEF Core, DeposedIsStandby
    <3> QED BY <3>3, <3>4, <3>5, <3>6, <3>7
  <2> QED BY <2>1, <2>2
<1>6. Core'
  BY <1>1, <1>5 DEF Core, ForeignRowsHaveEvidence, CheckpointRestorable, DeposedIsStandby
<1> QED BY <1>4, <1>6

\* A handler that ends in a checkpoint, written or not.
LEMMA PersistCore ==
  ASSUME Core, NEW g \in Gateways, NEW s, Good(g, s), NEW ok \in BOOLEAN, Persist(g, s, ok)
  PROVE  Core' /\ SavedForward /\ SavedDemotion
<1> DEFINE t == IF ok THEN s ELSE [s EXCEPT !.fault = TRUE, !.role = STANDBY]
           c == IF ok /\ ~s.fault THEN Saved(s) ELSE disk[g]
<1>1. node' = [node EXCEPT ![g] = t] /\ disk' = [disk EXCEPT ![g] = c]
  BY MemoryOfCore DEF Persist, Core
<1>2. s \in Memory
  BY DEF Good
<1>3. t \in Memory /\ t.peerGen = s.peerGen /\ t.reg = s.reg /\ t.recovery = s.recovery
      /\ t.gen = s.gen
      /\ (t.role = ACTIVE => t = s)
      /\ (~t.fault => ok /\ ~s.fault)
      /\ (t.fault \/ t = s)
  BY <1>2 DEF Memory, Roles, STANDBY, ACTIVE
<1>4. c \in Checkpoint
  BY <1>2, MemoryOfCore DEF Saved, Memory, Checkpoint
<1>5. CASE ok /\ ~s.fault
  <2>1. c.gen = s.gen /\ c.role = s.role /\ c.peerGen = s.peerGen /\ c.reg = s.reg
        /\ t = s
    BY <1>5 DEF Saved
  <2>2. Restorable(g, c)
    BY <1>5, <2>1 DEF Good, Restorable
  <2> HIDE DEF t, c
  <2>3. /\ s.peerGen <= disk[Peer[g]].gen /\ c.peerGen <= disk[Peer[g]].gen
        /\ \A n \in Nodes :
             /\ s.reg[n].owner = Peer[g] => s.reg[n].gen <= disk[Peer[g]].gen
             /\ c.reg[n].owner = Peer[g] => c.reg[n].gen <= disk[Peer[g]].gen
             /\ c.reg[n].owner \in {g, Peer[g]} => c.reg[n].gen <= Larger(c.gen, c.peerGen)
             /\ c.reg[n].gen >= disk[g].reg[n].gen
    BY <1>2, <1>4, <1>5, <2>1, MemoryOfCore DEF Good, Memory, Checkpoint, Registry
  <2>4. /\ s.role = ACTIVE => s.peerGen <= s.gen /\ ~s.fault
        /\ c.gen >= disk[g].gen /\ c.peerGen >= disk[g].peerGen
        /\ disk[g].role = STANDBY /\ c.role = ACTIVE
             => c.gen > Larger(disk[g].gen, disk[g].peerGen)
        /\ s.recovery = "NONE"
    BY <1>2, <1>4, <1>5, <2>1, MemoryOfCore DEF Good, Memory, Checkpoint
  <2> QED BY <1>1, <1>2, <1>4, <2>1, <2>2, <2>3, <2>4, CoreUpdate
<1>6. CASE ~(ok /\ ~s.fault)
  <2>1. c = disk[g]
    BY <1>6
  <2>2. t.fault /\ t.role # ACTIVE
    BY <1>2, <1>3, <1>6 DEF Good, STANDBY, ACTIVE
  <2> HIDE DEF t, c
  <2>3. Restorable(g, c) /\ c.peerGen <= disk[Peer[g]].gen /\ t.peerGen <= disk[Peer[g]].gen
    BY <1>3, <2>1 DEF Core, CheckpointRestorable, Good
  <2>4. \A n \in Nodes :
           /\ t.reg[n].owner = Peer[g] => t.reg[n].gen <= disk[Peer[g]].gen
           /\ c.reg[n].owner = Peer[g] => c.reg[n].gen <= disk[Peer[g]].gen
           /\ c.reg[n].owner \in {g, Peer[g]} => c.reg[n].gen <= Larger(c.gen, c.peerGen)
           /\ c.reg[n].gen >= disk[g].reg[n].gen
    BY <1>3, <2>1, MemoryOfCore DEF Core, ForeignRowsHaveEvidence, RowsKnown, Good
  <2>5. /\ c.gen >= disk[g].gen /\ c.peerGen >= disk[g].peerGen
        /\ ~(disk[g].role = STANDBY /\ c.role = ACTIVE)
    BY <2>1, MemoryOfCore DEF ACTIVE, STANDBY
  <2> QED BY <1>1, <1>3, <1>4, <2>2, <2>3, <2>4, <2>5, CoreUpdate
<1> QED BY <1>5, <1>6

\* A process that is down, and one that cannot read its checkpoint.
LEMMA FailedRestoreCore ==
  ASSUME Core, NEW g \in Gateways,
         node' = [node EXCEPT ![g] = FailedRestore], UNCHANGED disk
  PROVE  Core' /\ SavedForward /\ SavedDemotion
<1> DEFINE t == FailedRestore
           c == disk[g]
<1>1. /\ t \in Memory /\ t.peerGen = 0 /\ t.fault /\ t.role # ACTIVE
      /\ \A n \in Nodes : t.reg[n].gen = 1
  BY BootFacts, SeedFacts DEF FailedRestore, FirstBoot, STANDBY, ACTIVE
<1>2. disk[Peer[g]].gen >= 1
  BY MemoryOfCore DEF Core, CheckpointRestorable, Restorable
<1>3. node' = [node EXCEPT ![g] = t] /\ disk' = [disk EXCEPT ![g] = c] /\ c \in Checkpoint
  BY MemoryOfCore DEF Core
<1> HIDE DEF t
<1>4. \A n \in Nodes :
        /\ t.reg[n].owner = Peer[g] => t.reg[n].gen <= disk[Peer[g]].gen
        /\ c.reg[n].owner = Peer[g] => c.reg[n].gen <= disk[Peer[g]].gen
        /\ c.reg[n].owner \in {g, Peer[g]} => c.reg[n].gen <= Larger(c.gen, c.peerGen)
        /\ c.reg[n].gen >= disk[g].reg[n].gen
  BY <1>1, <1>2, MemoryOfCore DEF Core, ForeignRowsHaveEvidence, RowsKnown
<1>5. /\ Restorable(g, c) /\ c.peerGen <= disk[Peer[g]].gen
      /\ t.peerGen <= disk[Peer[g]].gen
      /\ c.gen >= disk[g].gen /\ c.peerGen >= disk[g].peerGen
  BY <1>1, <1>2, MemoryOfCore DEF Core, CheckpointRestorable
<1>6. ~(disk[g].role = STANDBY /\ c.role = ACTIVE)
  BY DEF STANDBY, ACTIVE
<1> HIDE DEF c
<1> QED BY <1>1, <1>3, <1>4, <1>5, <1>6, CoreUpdate

\* A restart that can read its checkpoint.
LEMMA RestoredCore ==
  ASSUME Core, NEW g \in Gateways,
         node' = [node EXCEPT ![g] = Restored(disk[g])], UNCHANGED disk
  PROVE  Core' /\ SavedForward /\ SavedDemotion
<1> DEFINE c == disk[g]
           s == Restored(c)
<1>1. s.gen = c.gen /\ s.role = STANDBY /\ s.peerGen = c.peerGen /\ s.reg = c.reg
      /\ s.recovery = c.role /\ ~s.fault
  BY DEF Restored
<1>2. s \in Memory
  BY MemoryOfCore DEF Restored, Memory, Checkpoint, Roles
<1>3. s.recovery # "NONE"
  BY <1>1, MemoryOfCore DEF Checkpoint, Roles, ACTIVE, STANDBY
<1>4. disk' = [disk EXCEPT ![g] = c]
  BY DEF Core
<1> HIDE DEF s
<1>5. \A n \in Nodes :
        /\ s.reg[n].owner = Peer[g] => s.reg[n].gen <= disk[Peer[g]].gen
        /\ c.reg[n].owner = Peer[g] => c.reg[n].gen <= disk[Peer[g]].gen
        /\ c.reg[n].owner \in {g, Peer[g]} => c.reg[n].gen <= Larger(c.gen, c.peerGen)
        /\ c.reg[n].gen >= disk[g].reg[n].gen
  BY <1>1, MemoryOfCore DEF Core, ForeignRowsHaveEvidence, RowsKnown
<1>6. Restorable(g, c) /\ c.peerGen <= disk[Peer[g]].gen /\ s.peerGen <= disk[Peer[g]].gen
  BY <1>1 DEF Core, CheckpointRestorable
<1>7. ~(disk[g].role = STANDBY /\ c.role = ACTIVE) /\ s.role # ACTIVE
  BY <1>1 DEF STANDBY, ACTIVE
<1>8. c.gen >= disk[g].gen /\ c.peerGen >= disk[g].peerGen /\ c \in Checkpoint
  BY MemoryOfCore
<1>9. node' = [node EXCEPT ![g] = s]
  BY DEF s
<1> HIDE DEF c
<1> QED BY <1>1, <1>2, <1>3, <1>4, <1>5, <1>6, <1>7, <1>8, <1>9, CoreUpdate

-----------------------------------------------------------------------------
(* The invariant is inductive. *)

\* What a gateway claims is a claim.
LEMMA ClaimFacts ==
  ASSUME NEW g \in Gateways, NEW s \in Memory
  PROVE  Claim(g, s) \in Claims /\ Claim(g, s).gen = s.gen
BY DEF Claim, Claims, Memory, Registry

\* The empty claim is a claim.
LEMMA NoClaimFacts == NoClaim \in Claims
BY DEF NoClaim, Claims, Roles, STANDBY

\* The invariant holds after the first boot of both gateways.
LEMMA IInvInit == Init => IInv
<1> SUFFICES ASSUME Init PROVE IInv
  OBVIOUS
<1>1. RestOK
  BY NoClaimFacts DEF Init, RestOK, Monitor, Link
<1>2. Said
  BY DEF Init, Said
<1>3. /\ FirstBoot.gen = 1 /\ FirstBoot.peerGen = 0 /\ FirstBoot.role = ACTIVE
      /\ FirstBoot.reg = SeedRegistry /\ FirstBoot.recovery = "NONE" /\ ~FirstBoot.fault
      /\ Saved(FirstBoot).gen = 1 /\ Saved(FirstBoot).peerGen = 0
      /\ Saved(FirstBoot).role = ACTIVE /\ Saved(FirstBoot).reg = SeedRegistry
  BY DEF FirstBoot, Saved, INITIAL_GENERATION
<1>4. \A g \in Gateways : node[g] = FirstBoot /\ disk[g] = Saved(FirstBoot)
  BY DEF Init
<1>5. node \in [Gateways -> Memory] /\ disk \in [Gateways -> Checkpoint]
  BY BootFacts DEF Init
<1>6. \A g \in Gateways : InStep(g) /\ RowsKnown(g)
  BY <1>3, <1>4, SeedFacts DEF InStep, RowsKnown, Larger
<1>7. CheckpointRestorable
  BY <1>3, <1>4, SeedFacts DEF CheckpointRestorable, Restorable
<1>8. ForeignRowsHaveEvidence /\ DeposedIsStandby
      /\ \A g \in Gateways : node[g].peerGen <= disk[Peer[g]].gen
                            /\ disk[g].peerGen <= disk[Peer[g]].gen
  BY <1>3, <1>4, SeedFacts, PairAssumption DEF ForeignRowsHaveEvidence, DeposedIsStandby
<1> QED BY <1>1, <1>2, <1>5, <1>6, <1>7, <1>8 DEF IInv, Core

\* The statements on their way after a step that loses or delivers some.
LEMMA SaidKept ==
  ASSUME IInv, Core', SavedForward, RestOK',
         \A g \in Gateways :
           /\ \A c \in beats'[g] : c \in beats[g] \/ c.gen <= disk'[Peer[g]].gen
           /\ link'[g].tx = "JOINING" =>
                \/ link[g].tx = "JOINING" /\ link'[g].reply = link[g].reply
                \/ link'[g].reply.gen <= disk'[Peer[g]].gen
  PROVE  Said'
<1> SUFFICES ASSUME NEW g \in Gateways
             PROVE  /\ \A c \in beats'[g] : c.gen <= disk'[Peer[g]].gen
                    /\ link'[g].tx = "JOINING" => link'[g].reply.gen <= disk'[Peer[g]].gen
  BY DEF Said
<1>1. Peer[g] \in Gateways
  BY PairAssumption
<1>2. disk[Peer[g]].gen <= disk'[Peer[g]].gen /\ disk[Peer[g]].gen \in Nat
      /\ disk'[Peer[g]].gen \in Nat
  BY <1>1 DEF SavedForward, IInv, Core, Checkpoint
<1>3. \A c \in beats'[g] : c.gen \in Nat
  BY DEF RestOK, Claims
<1>4. link'[g].reply.gen \in Nat
  BY DEF RestOK, Link, Claims
<1> QED BY <1>2, <1>3, <1>4 DEF IInv, Said

\* A received statement of the peer.
LEMMA HearCore ==
  ASSUME IInv, NEW g \in Gateways, NEW m \in Claims, WellFormed(node[g], m),
         m.gen <= disk[Peer[g]].gen, NEW ok \in BOOLEAN,
         Persist(g, OnPeerHeartbeat(g, node[g], m), ok)
  PROVE  Core' /\ SavedForward /\ SavedDemotion /\ faults' \in Nat
<1>1. Good(g, OnPeerHeartbeat(g, node[g], m))
  BY HeartbeatGood DEF IInv
<1>2. Core' /\ SavedForward /\ SavedDemotion
  BY <1>1, PersistCore DEF IInv
<1>3. faults' \in Nat
  BY DEF Persist, IInv, RestOK
<1> QED BY <1>2, <1>3

\* The handshake reply says what the peer durably owns at that moment.
LEMMA StartConnectStep ==
  ASSUME IInv, NEW g \in Gateways, StartConnect(g)
  PROVE  IInv' /\ SavedForward /\ SavedDemotion
<1>1. Core' /\ SavedForward /\ SavedDemotion
  BY CoreUnchanged DEF StartConnect, IInv
<1>2. Claim(Peer[g], node[Peer[g]]) \in Claims
      /\ Claim(Peer[g], node[Peer[g]]).gen <= disk'[Peer[g]].gen
  BY ClaimFacts, MemoryOfCore DEF StartConnect, IInv, Core, InStep
<1>3. RestOK'
  BY <1>2 DEF StartConnect, IInv, RestOK, Link
<1>4. Said'
  BY <1>1, <1>2, <1>3, SaidKept DEF StartConnect, IInv, RestOK, Link
<1> QED BY <1>1, <1>3, <1>4 DEF IInv

\* Applying a reply, possibly a stale one, keeps the invariant.
LEMMA FinishConnectStep ==
  ASSUME IInv, NEW g \in Gateways, NEW ok \in BOOLEAN, FinishConnect(g, ok)
  PROVE  IInv' /\ SavedForward /\ SavedDemotion
<1>1. link[g].tx = "JOINING" /\ link[g].reply \in Claims
      /\ link[g].reply.gen <= disk[Peer[g]].gen
  BY DEF FinishConnect, IInv, RestOK, Link, Said
<1>2. Core' /\ SavedForward /\ SavedDemotion /\ faults' \in Nat
  <2>1. CASE WellFormed(node[g], link[g].reply)
    BY <1>1, <2>1, HearCore DEF FinishConnect
  <2>2. CASE ~WellFormed(node[g], link[g].reply)
    BY <2>2, CoreUnchanged DEF FinishConnect, IInv, RestOK
  <2> QED BY <2>1, <2>2
<1>3. /\ link' \in [Gateways -> Link]
      /\ \A h \in Gateways : link'[h].tx = "JOINING" => link'[h] = link[h]
  BY NoClaimFacts DEF FinishConnect, IInv, RestOK, Link
<1>4. monitor' \in [Gateways -> Monitor]
  BY DEF FinishConnect, Heard, IInv, RestOK, Monitor
<1>5. up' = up /\ beats' = beats /\ crashes' = crashes
  BY DEF FinishConnect
<1>6. RestOK'
  BY <1>2, <1>3, <1>4, <1>5 DEF IInv, RestOK
<1>7. Said'
  BY <1>2, <1>3, <1>5, <1>6, SaidKept
<1> QED BY <1>2, <1>6, <1>7 DEF IInv

\* Giving up a handshake keeps the invariant.
LEMMA AbandonConnectStep ==
  ASSUME IInv, NEW g \in Gateways, AbandonConnect(g)
  PROVE  IInv' /\ SavedForward /\ SavedDemotion
<1>1. Core' /\ SavedForward /\ SavedDemotion
  BY CoreUnchanged DEF AbandonConnect, IInv
<1>2. RestOK'
  BY NoClaimFacts DEF AbandonConnect, IInv, RestOK, Link
<1>3. Said'
  BY <1>1, <1>2, SaidKept DEF AbandonConnect, IInv, RestOK, Link
<1> QED BY <1>1, <1>2, <1>3 DEF IInv

\* Watchdog, takeover, checkpoint and heartbeat together keep the invariant.
LEMMA HeartbeatTickStep ==
  ASSUME IInv, NEW g \in Gateways, NEW ok \in BOOLEAN, HeartbeatTick(g, ok)
  PROVE  IInv' /\ SavedForward /\ SavedDemotion
<1>1. Core' /\ SavedForward /\ SavedDemotion /\ faults' \in Nat
  <2>1. CASE TakesOver(g)
    <3>1. Good(g, TakenOver(g, node[g]))
      BY <2>1, TakeoverGood DEF IInv, TakesOver
    <3>2. Persist(g, TakenOver(g, node[g]), ok)
      BY <2>1 DEF HeartbeatTick
    <3>3. faults' \in Nat
      BY <3>2 DEF Persist, IInv, RestOK
    <3> QED BY <3>1, <3>2, <3>3, PersistCore DEF IInv
  <2>2. CASE ~TakesOver(g)
    BY <2>2, CoreUnchanged DEF HeartbeatTick, IInv, RestOK
  <2> QED BY <2>1, <2>2
<1>2. monitor' \in [Gateways -> Monitor]
  BY DEF HeartbeatTick, PeerStatus, IInv, RestOK, Monitor
<1>3. Publish(g, node'[g]) /\ up' = up /\ crashes' = crashes
  BY DEF HeartbeatTick
<1>4. /\ link' \in [Gateways -> Link]
      /\ \A h \in Gateways : link'[h].tx = "JOINING" => link'[h] = link[h]
  BY <1>3 DEF Publish, IInv, RestOK, Link
<1>5. node'[g] \in Memory /\ Claim(g, node'[g]) \in Claims
      /\ Claim(g, node'[g]).gen = node'[g].gen
  BY <1>1, ClaimFacts DEF Core
<1>6. ~node'[g].fault => Claim(g, node'[g]).gen <= disk'[g].gen
  BY <1>1, <1>5 DEF Core, InStep, Memory
<1>7. beats' \in [Gateways -> SUBSET Claims]
  BY <1>3, <1>5 DEF Publish, IInv, RestOK
<1>8. RestOK'
  BY <1>1, <1>2, <1>3, <1>4, <1>7 DEF IInv, RestOK
<1>9. ASSUME NEW h \in Gateways, NEW c \in beats'[h]
      PROVE  c \in beats[h] \/ c.gen <= disk'[Peer[h]].gen
  BY <1>3, <1>6, PairAssumption DEF Publish, IInv, RestOK
<1>10. Said'
  BY <1>1, <1>4, <1>8, <1>9, SaidKept
<1> QED BY <1>1, <1>8, <1>10 DEF IInv

\* Applying a heartbeat, possibly a delayed one, keeps the invariant.
LEMMA ReceiveHeartbeatStep ==
  ASSUME IInv, NEW g \in Gateways, NEW ok \in BOOLEAN, ReceiveHeartbeat(g, ok)
  PROVE  IInv' /\ SavedForward /\ SavedDemotion
<1>1. PICK m \in beats[g] :
        /\ beats' = [beats EXCEPT ![g] = @ \ {m}]
        /\ IF WellFormed(node[g], m)
           THEN Persist(g, OnPeerHeartbeat(g, node[g], m), ok) /\ Heard(g)
           ELSE ok /\ UNCHANGED <<node, disk, monitor, faults>>
        /\ UNCHANGED <<up, link, crashes>>
  BY DEF ReceiveHeartbeat
<1>2. m \in Claims /\ m.gen <= disk[Peer[g]].gen
  BY DEF IInv, RestOK, Said
<1>3. Core' /\ SavedForward /\ SavedDemotion /\ faults' \in Nat
  <2>1. CASE WellFormed(node[g], m)
    BY <1>1, <1>2, <2>1, HearCore
  <2>2. CASE ~WellFormed(node[g], m)
    BY <1>1, <2>2, CoreUnchanged DEF IInv, RestOK
  <2> QED BY <2>1, <2>2
<1>4. monitor' \in [Gateways -> Monitor]
  BY <1>1 DEF Heard, IInv, RestOK, Monitor
<1>5. RestOK' /\ \A h \in Gateways : beats'[h] \subseteq beats[h]
  BY <1>1, <1>3, <1>4 DEF IInv, RestOK
<1>6. Said'
  BY <1>1, <1>3, <1>5, SaidKept
<1> QED BY <1>3, <1>5, <1>6 DEF IInv

\* A lost heartbeat and the passing of time.
LEMMA QuietStep ==
  ASSUME IInv, NEW g \in Gateways,
         LoseHeartbeat(g) \/ Expire(g) \/ Stall(g) \/ Resume(g)
  PROVE  IInv' /\ SavedForward /\ SavedDemotion
<1>1. UNCHANGED <<node, disk, up, link, crashes, faults>>
  BY DEF LoseHeartbeat, Expire, Stall, Resume
<1>2. Core' /\ SavedForward /\ SavedDemotion
  BY <1>1, CoreUnchanged DEF IInv
<1>3. monitor' \in [Gateways -> Monitor]
  <2>1. CASE LoseHeartbeat(g)
    BY <2>1 DEF LoseHeartbeat, IInv, RestOK
  <2>2. CASE Expire(g)
    <3> DEFINE expired == [monitor[g] EXCEPT !.window = "EXPIRED"]
    <3>1. monitor' = [monitor EXCEPT ![g] = expired]
      BY <2>2 DEF Expire, IInv, RestOK
    <3>2. expired \in Monitor
      BY DEF IInv, RestOK, Monitor
    <3> HIDE DEF expired
    <3> QED BY <3>1, <3>2 DEF IInv, RestOK
  <2>3. CASE Stall(g) \/ Resume(g)
    <3>1. PICK b \in BOOLEAN : monitor' = [monitor EXCEPT ![g].resuming = b]
      BY <2>3 DEF Stall, Resume
    <3> DEFINE resumed == [monitor[g] EXCEPT !.resuming = b]
    <3>2. monitor' = [monitor EXCEPT ![g] = resumed]
      BY <3>1 DEF IInv, RestOK
    <3>3. resumed \in Monitor
      BY DEF IInv, RestOK, Monitor
    <3> HIDE DEF resumed
    <3> QED BY <3>2, <3>3 DEF IInv, RestOK
  <2> QED BY <2>1, <2>2, <2>3
<1>4. beats' \in [Gateways -> SUBSET Claims] /\ \A h \in Gateways : beats'[h] \subseteq beats[h]
  BY DEF LoseHeartbeat, Expire, Stall, Resume, IInv, RestOK
<1>5. RestOK'
  BY <1>1, <1>3, <1>4 DEF IInv, RestOK
<1>6. Said'
  BY <1>1, <1>2, <1>4, <1>5, SaidKept
<1> QED BY <1>2, <1>5, <1>6 DEF IInv

\* A crash loses memory and messages, never the checkpoint.
LEMMA CrashStep ==
  ASSUME IInv, NEW g \in Gateways, Crash(g)
  PROVE  IInv' /\ SavedForward /\ SavedDemotion
<1>1. Core' /\ SavedForward /\ SavedDemotion
  BY FailedRestoreCore DEF Crash, IInv
<1>2. /\ link' \in [Gateways -> Link]
      /\ \A h \in Gateways : link'[h].tx = "JOINING" =>
            link[h].tx = "JOINING" /\ link'[h].reply = link[h].reply
  <2> DEFINE down == [tx |-> "DOWN", open |-> FALSE, reply |-> NoClaim]
             closed == [link[Peer[g]] EXCEPT !.open = FALSE]
  <2>1. link' = [[link EXCEPT ![g] = down] EXCEPT ![Peer[g]] = closed]
    BY PairAssumption DEF Crash, IInv, RestOK
  <2>2. down \in Link /\ down.tx # "JOINING"
    BY NoClaimFacts DEF Link
  <2>3. closed \in Link /\ closed.tx = link[Peer[g]].tx /\ closed.reply = link[Peer[g]].reply
    <3>1. link[Peer[g]] \in Link
      BY PairAssumption DEF IInv, RestOK
    <3> QED BY <3>1 DEF Link
  <2> HIDE DEF down, closed
  <2> QED BY <2>1, <2>2, <2>3, PairAssumption DEF IInv, RestOK
<1>3. beats' \in [Gateways -> SUBSET Claims] /\ \A h \in Gateways : beats'[h] \subseteq beats[h]
  BY DEF Crash, IInv, RestOK
<1>4. RestOK'
  <2>1. crashes' \in Nat /\ up' \in [Gateways -> BOOLEAN]
    BY DEF Crash, IInv, RestOK
  <2> QED BY <1>2, <1>3, <2>1 DEF Crash, IInv, RestOK
<1>5. Said'
  BY <1>1, <1>2, <1>3, <1>4, SaidKept
<1> QED BY <1>1, <1>4, <1>5 DEF IInv

\* A restart loads the checkpoint or disables the gateway.
LEMMA RestartStep ==
  ASSUME IInv, NEW g \in Gateways, NEW ok \in BOOLEAN, Restart(g, ok)
  PROVE  IInv' /\ SavedForward /\ SavedDemotion
<1>1. Core' /\ SavedForward /\ SavedDemotion
  <2>1. CASE ok /\ Restorable(g, disk[g])
    BY <2>1, RestoredCore DEF Restart, IInv
  <2>2. CASE ~(ok /\ Restorable(g, disk[g]))
    BY <2>2, FailedRestoreCore DEF Restart, IInv
  <2> QED BY <2>1, <2>2
<1>2. RestOK'
  BY DEF Restart, IInv, RestOK, Monitor
<1>3. Said'
  BY <1>1, <1>2, SaidKept DEF Restart
<1> QED BY <1>1, <1>2, <1>3 DEF IInv

\* Every step keeps the invariant, and saves nothing that falls back or undoes a demotion.
LEMMA IInvStep ==
  ASSUME IInv, [Next]_gatewayVars
  PROVE  IInv' /\ SavedForward /\ SavedDemotion
<1>1. CASE UNCHANGED gatewayVars
  <2>1. Core' /\ SavedForward /\ SavedDemotion
    BY <1>1, CoreUnchanged DEF gatewayVars, IInv
  <2>2. RestOK' /\ Said'
    BY <1>1 DEF gatewayVars, IInv, RestOK, Said
  <2> QED BY <2>1, <2>2 DEF IInv
<1>2. ASSUME NEW g \in Gateways, GatewayStep(g)
      PROVE  IInv' /\ SavedForward /\ SavedDemotion
  BY <1>2, StartConnectStep, FinishConnectStep, AbandonConnectStep, HeartbeatTickStep,
     ReceiveHeartbeatStep, QuietStep, CrashStep, RestartStep DEF GatewayStep
<1> QED BY <1>1, <1>2 DEF Next

-----------------------------------------------------------------------------
(* The theorems. *)

\* The invariant holds in every reachable state.
LEMMA IInvAlways == Spec => []IInv
BY IInvInit, IInvStep, PTL DEF Spec

\* The invariant implies the safety properties the runs check.
LEMMA IInvImplies ==
  ASSUME IInv
  PROVE  TypeOK /\ AdvertisedIsDurable /\ ControlIsDurable
<1>1. TypeOK
  BY DEF IInv, RestOK, Core, TypeOK
<1>2. AdvertisedIsDurable
  <2> SUFFICES ASSUME NEW g \in Gateways
               PROVE  /\ \A c \in Statements(g) : c.gen <= disk[g].gen
                      /\ node[Peer[g]].peerGen <= disk[g].gen
                      /\ disk[Peer[g]].peerGen <= disk[g].gen
    BY DEF AdvertisedIsDurable
  <2>1. Peer[g] \in Gateways /\ Peer[Peer[g]] = g
    BY PairAssumption
  <2> QED BY <2>1 DEF IInv, Core, Said, Statements
<1>3. ControlIsDurable
  <2> SUFFICES ASSUME NEW g \in Gateways, NEW n \in Nodes, MayControl(g, n)
               PROVE  /\ disk[g].gen = node[g].gen
                      /\ disk[g].reg[n] = [owner |-> g, gen |-> node[g].gen]
    BY DEF ControlIsDurable
  <2>1. ~node[g].fault /\ node[g].reg[n].owner = g
    BY DEF MayControl, IInv, Core, DeposedIsStandby
  <2>2. disk[g].gen = node[g].gen /\ disk[g].reg = node[g].reg
    BY <2>1 DEF IInv, Core, InStep
  <2>3. disk[g].reg[n].gen = disk[g].gen
    BY <2>1, <2>2 DEF IInv, Core, CheckpointRestorable, Restorable
  <2>4. disk[g].reg[n] \in [owner : Gateways, gen : Nat]
    BY DEF IInv, Core, Checkpoint, Registry
  <2> QED BY <2>1, <2>2, <2>3, <2>4
<1> QED BY <1>1, <1>2, <1>3

\* Type correctness of the gateway pair.
THEOREM TypeCorrect == Spec => []TypeOK
BY IInvAlways, IInvImplies, PTL

\* No crash makes a gateway forget an epoch that somebody has seen (_takeover,
\* _persist_ownership: commit before publication).
THEOREM AdvertisedEpochsAreDurable == Spec => []AdvertisedIsDurable
BY IInvAlways, IInvImplies, PTL

\* A registry gives a node to the peer only at an epoch the peer has reached
\* (_on_peer_heartbeat).
THEOREM ForeignRowsAreEvidenced == Spec => []ForeignRowsHaveEvidence
<1>1. IInv => ForeignRowsHaveEvidence
  BY DEF IInv, Core
<1> QED BY <1>1, IInvAlways, PTL

\* Every checkpoint a handler writes passes the validation of _restore_ownership.
THEOREM CheckpointsAreRestorable == Spec => []CheckpointRestorable
<1>1. IInv => CheckpointRestorable
  BY DEF IInv, Core
<1> QED BY <1>1, IInvAlways, PTL

\* A gateway that knows of a newer epoch, or whose checkpoint failed, controls
\* nothing (observe_peer, _persist_ownership).
THEOREM DeposedGatewaysStandBy == Spec => []DeposedIsStandby
<1>1. IInv => DeposedIsStandby
  BY DEF IInv, Core
<1> QED BY <1>1, IInvAlways, PTL

\* What a gateway may drive it owns durably (may_control, _persist_ownership).
THEOREM ControlRestsOnCheckpoint == Spec => []ControlIsDurable
BY IInvAlways, IInvImplies, PTL

\* Saved epochs never decrease, whatever fails (gateway.py _persist_ownership,
\* _restore_ownership).
THEOREM SavedEpochsNeverFallBack == Spec => EpochNeverFallsBack
<1>1. IInv /\ [Next]_gatewayVars => SavedForward
  BY IInvStep
<1>2. SavedForward => [SavedForward]_disk
  OBVIOUS
<1> QED BY <1>1, <1>2, IInvAlways, PTL DEF Spec, EpochNeverFallsBack, SavedForward

\* A durable STANDBY becomes ACTIVE only with a newer durable epoch
\* (observe_peer, the end of _on_peer_heartbeat, _takeover).
THEOREM DemotionsSurvive == Spec => DemotionSurvives
<1>1. IInv /\ [Next]_gatewayVars => SavedDemotion
  BY IInvStep
<1>2. SavedDemotion => [SavedDemotion]_disk
  OBVIOUS
<1> QED BY <1>1, <1>2, IInvAlways, PTL DEF Spec, DemotionSurvives, SavedDemotion

-----------------------------------------------------------------------------
(* What one state decides for the whole future. *)

\* Only g itself adds to what its peer can still read of g, and what it adds
\* carries the epoch of its checkpoint.
SaysOnlySaved ==
  \A g \in Gateways : \A c \in Statements(g)' \ Statements(g) : c.gen = disk'[g].gen

\* A claim carries the epoch of the memory it is taken from.
LEMMA NewStatements ==
  ASSUME IInv, [Next]_gatewayVars
  PROVE  SaysOnlySaved
<1>1. ASSUME NEW g \in Gateways, beats' = beats, link'[Peer[g]] = link[Peer[g]]
      PROVE  Statements(g)' = Statements(g)
  BY <1>1 DEF Statements
<1>2. CASE UNCHANGED gatewayVars
  BY <1>1, <1>2 DEF gatewayVars, SaysOnlySaved
<1>3. ASSUME NEW h \in Gateways, GatewayStep(h)
      PROVE  SaysOnlySaved
  <2>1. IInv' /\ Peer[h] \in Gateways /\ Peer[Peer[h]] = h /\ Peer[h] # h
    BY <1>3, IInvStep, PairAssumption DEF Next
  <2> SUFFICES ASSUME NEW g \in Gateways, NEW c \in Statements(g)', c \notin Statements(g)
               PROVE  c.gen = disk'[g].gen
    BY DEF SaysOnlySaved
  <2>2. Peer[g] \in Gateways /\ Peer[Peer[g]] = g /\ Peer[g] # g
    BY PairAssumption
  <2>3. beats \in [Gateways -> SUBSET Claims] /\ link \in [Gateways -> Link]
    BY DEF IInv, RestOK
  <2>4. CASE StartConnect(h)
    <3>1. beats' = beats /\ link'[Peer[g]] # link[Peer[g]]
      BY <1>1, <2>4 DEF StartConnect
    <3>2. h = Peer[g]
      BY <2>2, <2>3, <2>4, <3>1 DEF StartConnect
    <3>3. link'[h].reply = Claim(g, node[g]) /\ ~node[g].fault /\ disk' = disk
      BY <2>2, <2>3, <2>4, <3>2 DEF StartConnect
    <3>4. c = Claim(g, node[g])
      BY <3>1, <3>2, <3>3 DEF Statements
    <3>5. Claim(g, node[g]).gen = node[g].gen
      BY DEF Claim
    <3>6. node[g].gen = disk[g].gen
      BY <3>3 DEF IInv, Core, InStep
    <3> QED
      BY <3>3, <3>4, <3>5, <3>6
  <2>5. CASE \E ok \in BOOLEAN : HeartbeatTick(h, ok)
    <3>1. link'[Peer[g]].tx = "JOINING" => link[Peer[g]].tx = "JOINING"
      BY <2>2, <2>3, <2>5 DEF HeartbeatTick, Publish
    <3>2. link'[Peer[g]].reply = link[Peer[g]].reply
      BY <2>2, <2>3, <2>5 DEF HeartbeatTick, Publish
    <3>3. c \in beats'[Peer[g]] /\ c \notin beats[Peer[g]]
      BY <3>1, <3>2 DEF Statements
    <3>4. Peer[h] = Peer[g] /\ c = Claim(h, node'[h]) /\ ~node'[h].fault
      BY <2>1, <2>2, <2>3, <2>5, <3>3 DEF HeartbeatTick, Publish
    <3>5. h = g
      BY <2>1, <2>2, <3>4
    <3>6. node'[g].gen = disk'[g].gen
      BY <2>1, <3>4, <3>5 DEF IInv, Core, InStep
    <3> QED
      BY <3>4, <3>5, <3>6 DEF Claim
  <2>6. CASE ~StartConnect(h) /\ ~(\E ok \in BOOLEAN : HeartbeatTick(h, ok))
    <3>1. /\ beats'[Peer[g]] \subseteq beats[Peer[g]]
          /\ link'[Peer[g]].tx = "JOINING" => /\ link[Peer[g]].tx = "JOINING"
                                              /\ link'[Peer[g]].reply = link[Peer[g]].reply
      <4>1. CASE AbandonConnect(h) \/ \E ok \in BOOLEAN : FinishConnect(h, ok)
        <5>1. beats' = beats /\ link'[h].tx # "JOINING"
          BY <2>3, <4>1 DEF AbandonConnect, FinishConnect, Link
        <5>2. Peer[g] # h => link'[Peer[g]] = link[Peer[g]]
          BY <2>2, <2>3, <4>1 DEF AbandonConnect, FinishConnect
        <5> QED
          BY <5>1, <5>2
      <4>2. CASE LoseHeartbeat(h) \/ \E ok \in BOOLEAN : ReceiveHeartbeat(h, ok)
        <5>1. link' = link /\ \E m \in beats[h] : beats' = [beats EXCEPT ![h] = @ \ {m}]
          BY <4>2 DEF LoseHeartbeat, ReceiveHeartbeat
        <5> QED
          BY <2>2, <2>3, <5>1
      <4>3. CASE Expire(h) \/ Stall(h) \/ Resume(h) \/ \E ok \in BOOLEAN : Restart(h, ok)
        <5>1. beats' = beats /\ link' = link
          BY <4>3 DEF Expire, Stall, Resume, Restart
        <5> QED
          BY <5>1
      <4>4. CASE Crash(h)
        BY <2>1, <2>2, <2>3, <4>4 DEF Crash
      <4> QED
        BY <1>3, <2>6, <4>1, <4>2, <4>3, <4>4 DEF GatewayStep
    <3>2. Statements(g)' \subseteq Statements(g)
      <4>1. ASSUME NEW d \in Statements(g)' PROVE d \in Statements(g)
        <5>1. \/ d \in beats'[Peer[g]]
              \/ link'[Peer[g]].tx = "JOINING" /\ d = link'[Peer[g]].reply
          BY <4>1 DEF Statements
        <5> QED
          BY <3>1, <5>1 DEF Statements
      <4> QED
        BY <4>1
    <3> QED
      BY <3>2
  <2> QED
    BY <2>4, <2>5, <2>6
<1> QED
  BY <1>2, <1>3 DEF Next

\* An epoch a gateway has stated once stays on its disk for ever, and whatever
\* it states later, after crashes and failed checkpoints too, is not older
\* (_takeover commits, then _send_peer_heartbeat; _restore_ownership).
THEOREM StatementsNeverFallBack ==
  ASSUME NEW g \in Gateways, NEW e \in Nat
  PROVE  Spec => []((\E c \in Statements(g) : c.gen = e)
                      => [][\A c \in Statements(g)' \ Statements(g) : c.gen >= e]_gatewayVars)
<1> DEFINE Stated == \E c \in Statements(g) : c.gen = e
           Kept == disk[g].gen >= e
           NewerOnly == \A c \in Statements(g)' \ Statements(g) : c.gen >= e
<1>1. IInv /\ Stated => Kept
  BY IInvImplies DEF AdvertisedIsDurable, IInv, Core, Checkpoint, Claims, RestOK
<1>2. IInv /\ Kept /\ [Next]_gatewayVars => Kept' /\ NewerOnly
  <2> SUFFICES ASSUME IInv, Kept, [Next]_gatewayVars PROVE Kept' /\ NewerOnly
    OBVIOUS
  <2>1. disk[g].gen \in Nat /\ disk'[g].gen \in Nat /\ disk'[g].gen >= disk[g].gen
    BY IInvStep DEF IInv, Core, Checkpoint, SavedForward
  <2> QED
    BY <2>1, NewStatements DEF SaysOnlySaved
<1> HIDE DEF Stated, Kept, NewerOnly
<1>3. Spec => [](Stated => [][NewerOnly]_gatewayVars)
  BY <1>1, <1>2, IInvAlways, PTL DEF Spec
<1> QED
  BY <1>3 DEF Stated, NewerOnly

\* A saved demotion is final for its epochs: a gateway that is STANDBY knowing
\* epochs e and p is ACTIVE, ever again, only above both (observe_peer,
\* _restore_ownership, _takeover).
THEOREM DemotionIsFinal ==
  ASSUME NEW g \in Gateways, NEW e \in Nat, NEW p \in Nat
  PROVE  Spec => [](disk[g].role = STANDBY /\ disk[g].gen = e /\ disk[g].peerGen = p
                      => [](disk[g].role = ACTIVE => disk[g].gen > Larger(e, p)))
<1> DEFINE Deposed == disk[g].role = STANDBY /\ disk[g].gen = e /\ disk[g].peerGen = p
           Above == disk[g].role = ACTIVE => disk[g].gen > Larger(e, p)
           Past == disk[g].gen >= e /\ disk[g].peerGen >= p /\ Above
<1>1. IInv /\ Deposed => Past
  BY DEF ACTIVE, STANDBY
<1>2. IInv /\ Past /\ [Next]_gatewayVars => Past'
  <2> SUFFICES ASSUME IInv, Past, [Next]_gatewayVars PROVE Past'
    OBVIOUS
  <2>1. disk[g] \in Checkpoint /\ disk'[g] \in Checkpoint
    BY IInvStep DEF IInv, Core
  <2>2. disk'[g].gen >= disk[g].gen /\ disk'[g].peerGen >= disk[g].peerGen
    BY IInvStep DEF SavedForward
  <2>3. disk[g].role = STANDBY /\ disk'[g].role = ACTIVE
          => disk'[g].gen > Larger(disk[g].gen, disk[g].peerGen)
    BY IInvStep DEF SavedDemotion
  <2> QED
    BY <2>1, <2>2, <2>3 DEF Checkpoint, Roles, Larger
<1>3. Past => Above
  OBVIOUS
<1> HIDE DEF Deposed, Above, Past
<1>4. Spec => [](Deposed => []Above)
  BY <1>1, <1>2, <1>3, IInvAlways, PTL DEF Spec
<1> QED
  BY <1>4 DEF Deposed, Above
=============================================================================
