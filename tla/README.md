# TLA+ models of the Smart Agriculture edge system

Two edge gateways (A1, A2) read the sensors (B1, B2) of two zones, decide
locally, and drive one controller (C1, C2) per zone. When a gateway falls
silent the other one takes its zone over. The cloud server stores what the
gateways upload and publishes the control policy; it never takes part in
control. These modules model the parts of that system whose correctness depends
on the order of events: ownership and failover, the epoch fence of the
controllers, the life of a command from the decision to its durable result, the
life of a sensor report from the sample to the history of the server, and the
way of a policy from the database to the gateways.

## Inventory

| Part | State | Operations | Who it talks to | Hard behaviour | What makes it correct |
|---|---|---|---|---|---|
| Gateway ownership (`gateway/ownership.py`, `registry.py`, the peer half of `gateway.py`) | generation, role, peer generation, registry rows, checkpoint, watchdog window | handshake, heartbeat, timeout, takeover, restart | peer gateway over TCP | stale replies, crash around a checkpoint, two takeovers at once | no epoch is forgotten or published early; a deposed gateway stays STANDBY; overlaps end |
| Controller fence (`safety_guard.py`) | owner, highest epoch, their checkpoint | adopt, check | gateways | late and repeated frames, reboot, failing save | one gateway per epoch, epochs in order |
| Controller execution (`controller_node.py`, `recent_commands.py`) | recent commands, pending results, cooldown | begin, execute, complete, resend, recover | gateways | crash during an execution, full window, repeated commands | at most one execution, its outcome is never forgotten |
| Command delivery (`common/reliability.py`, command tasks of `gateway.py`) | command queue, ACK tracker, outcomes | decide, dispatch, retry, give up | controller, server | ACK, retry and result race; queue full; gateway restart | each decision is answered; NOT_DISPATCHED is never wrong |
| Sensor node (`sensor_node/`) | baseline, report window, its checkpoint, boot id | sample, report, confirm, register, restart | gateways | boot during delivery, full window, late acknowledgement | a HIGH report is kept until a gateway has it; silence is never based on a lost report |
| Sensor pipeline (`sensor_pipeline.py`, `_process_sensor_message`) | ingress queue, receipt ledger, boot of the sensor | admit, acknowledge, decide | sensor, outbox | repetitions, reordering, demotion between admission and decision | each sample is decided on at most once, in order |
| Offline queue and upload (`offline_queue.py`, flush of `gateway.py`) | SQLite outbox, receipt ledgers | admit, flush, receipt, retry | server | late receipts, refused head, reserve, failed commits | nothing accepted is lost or stored twice; replay in order |
| Cloud server (`server/`) | history, dedup table, policy | store, receipt, publish policy | gateways | crash between store and receipt, failed commit, two servers | exactly-once storage, one policy per version |
| Policy at the gateway (`edge_decision.py`, `state_store.py`) | policy in force, two checkpoint slots | apply, save, restore | server | replayed and late policies, damaged slot, failing save | policies only get newer; the last good one survives |
| B1 firmware (`firmware/b1/`) | 16 outbox slots, flash records, retry timers | admit, send, acknowledge, restore | gateway | power loss, uncertain writes | HIGH records survive, slots are not reused |
| LoRa host transport (`common/lora/`) | fragments, reassembly buffers, delivery window | split, reassemble, retry | sensor, gateway | lost and repeated fragments | a message is whole or absent |
| Numeric parts (detectors, trust, decisions, `ai/`) | floating-point histories | - | - | none of ordering | tested numerically in the repository |

The hazards of this code, each at its line, are in `PROJECT.json`.

## Modules

| Module | Models | Abstract specification |
|---|---|---|
| `Ownership` | the gateway pair: handlers as functions from memory to memory, and the actions that add the checkpoint and the messages | - |
| `Failover` | `Ownership` with the controllers' sessions, frames and epoch fence | `EpochLease` |
| `EpochLease` | what a controller promises about authority | - |
| `Actuation` | a controller deciding on, executing, remembering and reporting commands | `ExecuteOnce` |
| `ExecuteOnce` | what a controller promises about commands | - |
| `CommandDelivery` | `Actuation` with the gateway that decides, sends, resends and accounts | - |
| `SensorReport` | a sensor, its report window, and the gateways that admit, acknowledge and decide | `Custody` |
| `Upload` | outboxes, connections, flush, and the transactions of the server | `Custody` |
| `Custody` | what each hop of store-and-forward promises | - |
| `Journey` | `SensorReport` and `Upload` joined over the ledger: the whole way of a report | `Custody`, end to end |
| `FaultAlert` | the alert next to a report: how it is built, and what a gateway makes of it | - |
| `PolicyStore` | servers on one database, broadcast, connections, and the policy checkpoint of the gateways | `PolicyHistory` |
| `PolicyHistory` | what the distribution of policies promises | - |
| `OwnershipProofs`, `FailoverProofs`, `ActuationProofs`, `DeliveryProofs`, `PolicyProofs`, `UploadProofs`, `ReportProofs`, `JourneyProofs` | theorems | - |
| `MCOwnership`, `MCFailover`, `MCActuation`, `MCDelivery`, `MCReport`, `MCUpload`, `MCAlert`, `MCPolicy` | the constants of the runs | - |
| `MCJourney` | the constants of `Journey.cfg`, a small instance of `Journey` | - |

The modules meet where one hands over to the next. The `control` and `epoch` of
`SensorReport` are what `Ownership` computes. The ledger of `SensorReport` is
the ledger of `Upload`, and `Journey` joins the two over it: a report is
admitted by the transaction of the outbox and by the handler in one step
(`Admission`), refused in one (`Refusal`), audited and decided in one
(`Decision`), and a gateway loses both halves in one (`Crash`); all other steps
leave one half alone. `Custody` is implemented once with the checkpoint of the
sensor as holder and the ledgers as stores (`KeepsHighReports`), and once with
the outboxes as holders and the history as store (`ImplementsCustody`). That the
two hops make one journey is a third refinement (`EndToEndCustody` of
`Journey`): its holder is the whole edge, checkpoint and outboxes, its store the
history, and `JourneyProofs` proves it. The `recorded` results of `Actuation`
are those of the same ledgers.

### Correspondence with the code

*Atomicity.* asyncio runs a handler without interruption up to its next await.
An action is the code between two awaits, including the checkpoint at its end
and the frames it hands to the sockets. SQLite calls are synchronous: a
transaction is one step that commits, fails and rolls back, or fails and stays
open.

*Ownership.* `node[g]` is the memory of a process (`OwnershipManager`,
`NodeRegistry`, `_recovery_pending`, `_saved_role`, `persistence_fault`),
`disk[g]` the checkpoint of `_persist_ownership`, `monitor[g]` the watchdog,
`link[g]` the connection g opened to its peer, with the AUTH_ACK snapshot it
still has to apply. `StartConnect`/`FinishConnect` split `_connect_peer` at its
awaits, so a reply can be out of date. `OnPeerHeartbeat`, `TakenOver`,
`Persist`, `Restored` are `_on_peer_heartbeat`, `_takeover`,
`_persist_ownership`, `_restore_ownership`. A parameter `ok` says whether the
write of a handler succeeds. Init is the state after the first boot of both
gateways, each with its seeded checkpoint.

*Failover.* `guard[z]` is the owner and epoch in a `SafetyGuard`, `flash[z]`
its checkpoint, `session[z]` the gateway in whose `connections` the controller
is registered. `frames` only grows: a frame may arrive late, again, or never.
`moved[z]` records the last executed command.

*Actuation.* `rows` and `pending` are the two halves of the
`recent_commands` checkpoint. Every operation of the store saves a copy and
assigns its memory after the write succeeded, so memory and checkpoint are one
variable; `fails` is the set of saves of a handler that fail. `expired` is the
TTL of the guard, which is also `retain_until` of a row (wall clocks are
assumed not to be set back). `cooling` is the guard's idea of the cooldown,
`warm` the physical one. `recorded` stands for the result ledgers of the
gateways: what is in it has been acknowledged with RESULT_DURABLY_STORED.
Rejections of one command for different reasons are one result.

*CommandDelivery.* `queue` is `command_queue` with its retry flag, `tracker`
the `AckTracker` (retries used, or `NotTracked`), `outcomes` the
`CommandOutcomes`. `Retry`, `GiveUp` and `ExpireOutcome` are the three loops of
`task_retry`, one command at a time.

*SensorReport.* `pending` and `flash` are the `SensorReportWindow` and its
checkpoint, which has the HIGH reports only. `Sample` is one turn of
`_sample_loop`: `Required` and `Urgent` are the reasons for which `AdaptiveSense`
must upload and for which the report is HIGH; scores, ages and sampling states
are choices. `reported`, `first` and `confirmed` are the baseline that
`mark_reported` moves. A frame carries the boot that sends it (`by`), because a
sample of an earlier boot has no age and never drives control. `Process` is
`_process_sensor_message` up to PERSISTED_ACK, `Decide` what follows the await;
`busy[g]` is the report in between. `Takeover` and `Demote` change authority as
`Ownership` allows it. A reading is one side of a threshold, or a fault.

*Upload.* `rows[g]` is the table `gateway_queue` as the connection of the
gateway sees it, `disk[g]` what a crash would leave; they differ only inside a
transaction that a failed commit left open (`open[g]`), which `bump_retry` and
`delete` can do because they commit outside `with`. `view` and `base` are the
same pair for the server. `Stored` is the transaction of dedup table and
history: `Recorded` counts an INSERT without looking for an earlier one, so
exactly-once is earned by `IsNew`. `Send`, `Delete`, `Timeout`, `EndOfQueue` and
their failing twins are `_flush_offline_queue` between its awaits. `link[g]`
tells `server_writer` set, set with the peer gone, closed by a failed send, and
between two connections. Uploads in flight on a closed connection (`stale`) may
still be stored; their receipts are lost.

*FaultAlert.* One turn of the sampling loop in both delivery modes. It keeps
what decides whether the gateway accepts a message: contract, identity and
sequence. Alerts are left out of `SensorReport`, where they change nothing.

*PolicyStore.* `head` is the row of `server_policy`, `log` the history of what
it held. `mode[s] = "CREATING"` is `load_policy` between CREATE TABLE, which
commits by itself, and the first INSERT. `served[s]` is the policy in memory of
the server, compared with `head` in `_write_policy`. `_broadcast_policy` looks
up its message and its clients, then writes to one after the other:
`pushed`, `targets` and `gone` are what it looked up and what became of it
meanwhile. `slots[g]` are the two files of `StateStore`: `Saved` moves the
current one only if it is readable, `Restored` falls back on the previous one
and then on the compiled default. `Damage` is the environment.

## Runs

| Run | Question | Bounds |
|---|---|---|
| `Ownership` | Is any epoch forgotten, published early or resumed after it was lost? Does every double ownership end? | two zones, epochs to 2, one heartbeat in flight per direction, one crash, one disk fault |
| `Failover` | Does the controller fence implement `EpochLease`? | one zone (the guards share nothing), both gateways alive and timing each other out, epochs to 2, one reboot, one fault |
| `FailoverLive` | Crashes instead of spurious timeouts: does a newer survivor serve every zone in the end? | one crash, one fault, epochs to 2 |
| `FailoverSurvivor` | README: does the survivor always serve? **Violated** | two crashes, epochs to 3 |
| `Actuation` | Is a command executed once and its outcome kept? | three commands for a window of two, two restarts, one faulty handler |
| `ActuationRepeat` | Does a repetition report the original outcome? **Violated** | two commands |
| `ActuationInterrupted` | Is an interrupted execution UNKNOWN? **Violated** | two commands, one restart |
| `Delivery` | Is a decision ever lost, or NOT_DISPATCHED wrong? Is every decision answered and every execution followed by a result? | one command, queue and window of one, two retries, two controller restarts, one gateway restart, one faulty handler |
| `Report` | Is a HIGH report lost before a gateway has it, is a baseline unfounded, is a decision taken on an older sample? | two gateways, two sides of a threshold and faults, a window of two, two samples, two boots, epochs to 2, one frame in flight per gateway |
| `ReportAlert` | Does the notice of a transition reach the outbox of the gateway? **Violated** | two fault signatures, three samples, both delivery modes |
| `Upload` | Do the history and the outboxes implement `Custody`, in order, and is every row stored in the end? | two gateways sharing one report, a NORMAL report and an alert the server refuses, an outbox of two with one reserved, one receipt, one fault |
| `Policy` | Does a version name one policy, does a gateway go back, does it get the head? | two servers, two gateways of which one reaches both and one checkpoint is damaged, two contents, versions to 2, one policy in flight per gateway |

Why the bounds are enough. Two gateways are all the system has; a second
heartbeat in flight adds only a copy of an older statement, which the handshake
reply already provides. A window of two with three commands makes eviction,
backpressure and two interrupted rows happen. With one command and a queue of
one the full queue is met by a retry: the second timeout finds the frame of the
first retry still queued. A first attempt never meets a full queue in that run,
which would take a second command and several times the states; that it is then
decided NOT_DISPATCHED, never sent and not lost is shown by the theorems of
`DeliveryProofs` alone (`DeliveryTypeCorrect`, `NotDispatchedIsFinal`,
`CommandsAreNotLost`). Two boots with two samples make a report outlive its
boot, a sequence number recur and a report overtake another. An outbox of two
with a reserve of one makes HIGH and NORMAL compete for the last place; one
fault leaves either end inside an open transaction, which crashes and later
transactions then meet. Two servers on one head race for the second version, and
the slot that a save replaces can be the damaged one.

The bounds are those that let liveness, where it is stated, be checked in the
same run. Every safety property of a passing run is also a theorem, for every
value of the constants. `Journey.cfg` is no run of the list: it checks the state
predicates, the end-to-end custody and that both halves are implemented on one gateway, one
sensor with two boots, a report and an alert that share an outbox of two
(`tlc -config Journey.cfg MCJourney`, 150,687 states), and its properties are
theorems too. Counters are capped by
`MaxGeneration`, `MaxInFlight`, `MaxCrashes`, `MaxFaults`, `MaxReboots`,
`MaxGatewayCrashes`, `MaxSamples`, `MaxBoots`, `MaxEpoch`, `MaxVersion` and
`Backlog`, each in the guard of the action it bounds; `Reaches` and `Fragile`
bound who connects where and whose slots are damaged.

`Delivery`, `Upload`, `Report`, `Policy` and `ReportAlert` run without the
deadlock check where the system may really rest: a deposed gateway with an idle
controller, empty outboxes, a sensor that has taken its last sample.

### Findings

* `FailoverSurvivor`: after two crashes in a row the survivor can reuse the
  epoch number of its dead peer; controllers refuse it, and no further takeover
  starts. Safe, but the zone is not served.
* `ActuationRepeat`: the TTL, the epoch and the owner are checked before the
  duplicate, so a late copy of an executed command files a second, REJECTED
  result.
* `ActuationInterrupted`: an unconfirmed REJECTED result of a command hides a
  later, interrupted execution of the same command from the recovery; the
  server only ever learns of the refusal.
* `ReportAlert`: in gateway-durable mode the alert of a sample is built from the
  payload that admission of the report has given its contract, but sent without
  the identity that contract asks for. The gateway drops it, and with it the
  notice of the transition.

More behaviours are documented by the code or promised by nobody, and are left
without a property of their own:

* After a conflict at equal epochs both gateways can wait in STANDBY.
* Interrupted intents stay in the window for ever and are reported again at
  each boot (`controller_node.py:410`); when the result window is full at that
  moment the backpressure becomes a persistence fault until the next restart.
* `clients.pop` after a failed write of the broadcast (`server.py:302`) does not
  compare the writer: a gateway that has reconnected meanwhile is dropped with
  its new connection and gets no policy until its next upload. `PushRaises`
  models it, and `HeadReachesGateways` names it as its exception.
* A first boot of the server that ends between CREATE TABLE and the first
  INSERT (`database.py:147`) disables publication for good. It fails closed:
  history is still accepted, gateways keep their policy.
* A sensor stays connected to a gateway that was demoted and answers none of its
  reports; it leaves only when the connection ends (`gateway.py:436`).
* The scheduler counts an upload although the report window refused the report
  (`sensor_node.py:326`); the next one is due after the interval. The baseline
  does not move, which is what `BaselineIsHeld` needs.
* A row that the server refuses for good stays at the head of the outbox and
  holds back what follows it (`gateway.py:807`); `EveryRowIsStored` says so.

## Fairness

Liveness is checked under weak fairness of what a task does in its loop
(heartbeat tick, dispatch, retry scan, the end of an execution, the passing of a
deadline, the reconnection of a gateway, the timeout of a receipt, the rest of
a broadcast, the restart of a gateway), because the asyncio tasks run until the
process stops. Strong fairness is assumed where a connection can come and go and
the code tries again for ever: the handshake, the delivery of a heartbeat,
registration, adoption, the upload of a pending result, sending the head of an
outbox, its arrival, its receipt and its deletion, the next broadcast to a
gateway within reach, its connection, and the write of its checkpoint. Disk
faults of `Ownership`, `Actuation` and `Upload` are finite. Nothing is assumed of
crashes, lost frames or restarts of controllers and servers.
`NewerSurvivorServes`, `ExecutionIsReported`, `EveryRowIsStored` and
`HeadReachesGateways` state what they need of the environment in the formula.

## Theorems

Proved with TLAPS for every value of the constants that satisfies the named
assumptions. Nothing is assumed of the bounds but that they are numbers, so the
theorems hold for any number of epochs, crashes, faults, versions and messages.

The theorems are of four kinds. *Invariants and action properties* of the runs,
from an inductive invariant of each module. *Refinements* of the abstract
specifications. *Whole-future theorems*, `[](P => []Q)` or `[](P => [][A]_v)`:
what one state settles for good, which no single invariant says and no bounded
run can show; each names the fact that carries it, a weakening of `P` that every
step of the inductive invariant keeps. *Compositions*: a module with more
processes implements the module it was built from, so that what was proved of
the part holds of the whole.

*`OwnershipProofs`* (from `PairAssumption`, `BoundAssumption`). The inductive
invariant is `IInv == RestOK /\ Core /\ Said`. No safety property of
`Ownership` is inductive alone: whether a saved epoch can be forgotten depends
on memory agreeing with the checkpoint (`InStep`, with the exception of a
recovering gateway, which is STANDBY and remembers the saved role); whether a
row of the peer is founded depends on what was said before (`Said`: heartbeats
and handshake replies in flight carry only epochs that their sender has saved)
and on the rows of a gateway never exceeding the epochs it knows
(`RowsKnown`). Lemmas about the handlers as functions (`HeartbeatGood`,
`TakeoverGood`, `BootFacts`) are lifted by `CoreUpdate`, `PersistCore`,
`FailedRestoreCore` and `RestoredCore` to the actions. Each step also proves
`SavedForward` and `SavedDemotion`, from which the action properties follow.
Theorems: `TypeCorrect`, `AdvertisedEpochsAreDurable`,
`ForeignRowsAreEvidenced`, `CheckpointsAreRestorable`,
`DeposedGatewaysStandBy`, `ControlRestsOnCheckpoint`,
`SavedEpochsNeverFallBack`, `DemotionsSurvive`. Two more speak of the whole
future. `StatementsNeverFallBack`: an epoch that was stated is on disk, disks
only move forward, and a new statement says what is saved (`SaysOnlySaved`,
lemma `NewStatements`), so no later statement is older, whatever crashed in
between. `DemotionIsFinal`: a saved STANDBY is left only above both epochs known
when it was saved.

*`FailoverProofs`* (also from `ControllerAssumption`). `FIInv` adds to `IInv`
the four facts of `Fenced` that need each other: a frame carries a saved epoch,
hence an adopted epoch is saved; a controller that is not faulted enforces its
checkpoint, hence a frame it admits succeeds the checkpoint; and the last
movement was made for the lease or for a predecessor of it (`MovedForLease`),
which with the transitivity of succession gives the fence. Steps of the gateways
are covered by one lemma (`SendStep`), steps of the controllers by
`SetOwnershipStep`. Theorems: `FailoverTypeCorrect`, `FramesStayDurable`,
`FollowedEpochsStayDurable`, `FencesAreSaved`, `FailoverImplementsLease` (the
refinement of `EpochLease`), `DeposedNeverMoves`. `PairStaysSafe` lifts the
invariants and action properties of `Ownership` to the composition. It is not
immediate, for the controllers use up the same bounded disk faults, so a step of
theirs is not a stuttering step of `Ownership`: lemma `PairStep` shows that
`IInv` survives it. `OneGatewayPerEpoch` and `SuccessorsFenceForEver` are the
fence for the whole future of a controller: what it has followed once it
never goes back behind, and its actuator moves for successors only. The first is
also why two gateways at one epoch, both STANDBY after their conflict, are safe.

*`ActuationProofs`* (from `ActuationAssumption`). `IInv` assigns each command
one of four stages: new, executing or interrupted, completed, evicted after its
expiry (`Stage`). That a command is not executed twice needs that the guard
knows exactly the commands of the window (`Knows`) and that an evicted one has
expired; that its reports agree needs that a completed command has reported
EXECUTED and an unfinished one at most UNKNOWN; that the result of a running
execution finds room needs `Executing`. Theorems: `TypeCorrect`,
`ControllerExecutesOnce` (the refinement of `ExecuteOnce`),
`ExecutionsAreOnRecord`, `ActuatorsRest`, `WindowStaysBounded`. `OutcomeIsFinal`:
a reported outcome is the only one for ever. `InterruptedIsNeverExecuted` is the
half of the documented promise that the code keeps: an execution that was cut
short (`CutShort`) is never taken up again and never reported as executed. That
it is reported as UNKNOWN is what `ActuationInterrupted` refutes.

*`DeliveryProofs`* (also from `DeliveryAssumption`). `DInv` adds to `IInv` of
`ActuationProofs` the ledger of the gateway. That NOT_DISPATCHED is final needs
that a queued first attempt is the only entry of its command and awaits nothing
(`QueueOK`), and that only what was sent is executed (`Traced`); that no command
is lost needs that whatever awaits an ACK still has an open outcome, which the
ACK then turns into ACKED. Theorems: `DeliveryTypeCorrect`,
`NotDispatchedIsFinal`, `CommandsAreNotLost`. `DeliveryImplementsActuation` (the
gateway sends a controller nothing that `Actuation` excludes) and with it
`DeliveryKeepsControllerSafe`: what is proved of a controller holds with a
gateway that queues, resends and gives up. `NotDispatchedForEver`: a command so
reported is never executed later, and an executed one never so reported.

*`PolicyProofs`* (from `PolicyAssumption`). `IInv` follows a policy from the
database to the gateways: `HeadOK`, the row is the last version committed and
only the server that created an empty table inserts the first one; `CastOK`,
what a server publishes or is broadcasting was committed; `WireOK`, so was every
frame; `StoreOK`, so were the policy in force and both slots, where two saved
slots are both readable unless one was damaged since the last save (`TwoGood`).
`Committed` only grows (`CommittedGrows`), which carries all of it over a
commit. Every step is then a step of `PolicyHistory` or none: a commit is
`Publish`, because the compared version is that of the head, and hence what is
in force at that server; a policy that is applied is newer and published.
Theorems: `PolicyTypeCorrect`, `LastGoodIsKept`, `PolicyImplementsHistory` (the
refinement of `PolicyHistory`). `VersionNamesOnePolicy`: whatever is found of a
version anywhere (`Found`: database, servers, frames, slots, gateways) was
committed or is the compiled policy, `Committed` only grows, and it has one
content per version; so two finds of one version agree, however far apart in
time. `EmptyTableStaysEmpty`: a database whose first boot died between the table
and its first row (`Abandoned`) publishes nothing for ever, and every gateway
keeps the compiled policy. It fails closed.

*`UploadProofs`* (from `UploadAssumption`). Neither that an acknowledged message
is kept nor that the history has a row once is inductive alone: a flush deletes
what the server confirms, so all that is under way has to be accounted for.
`UIInv` does that with one idea, `Founded`: a frame, a stale copy or a row that
the server has written but not committed is either committed already or the head
of an outbox (`AtHead`), since a flush sends nothing behind a head that has not
been confirmed. `RowsOK` bounds what a failed commit can leave behind: what the
gateway reads equals what is on disk, or lacks exactly a head that the server has
committed (`DeletedOpen`), so a rollback by restart repeats a message and loses
none. `FlushOK` says that a receipt believed is of the message awaited and
committed; `DiskOK` holds the two limits and that a message has one row. How an
outbox may change is one lemma (`Grown`), and each step proves, besides
`UIInv'`, a step of `Custody` and the order of the rows (`Promise`). Theorems:
`UploadTypeCorrect`, `AcknowledgedStaysKept`, `ReserveStaysKept`,
`UploadImplementsCustody` (the refinement of `Custody`), `ReplayStaysFifo`. From
the step of `Custody` (lemma `CustodyKeeps`) follow `CommittedRowsAreNeverLost`
and `HistoryIsFinal`, for the whole future of a row.

*`ReportProofs`* (from `ReportAssumption`). `RInv` relates the sensor to the
ledgers: an acknowledgement under way is of a report in a ledger, and a HIGH
report under way is in the checkpoint or in a ledger (`WayOK`), which gives the
refinement of `Custody` and, at confirmation, the baseline. The order of
decisions needs `DecidedOK`: what is being decided and what was decided last are
in the ledger and not of a later boot than the gateway follows, so a fresh
report, which exceeds every sequence number of its boot in the ledger, is later
than both. Theorems: `ReportTypeCorrect`, `BaselineStaysHeld`,
`ReportsImplementCustody` (the refinement of `Custody`),
`DecisionsFollowSamples`. `HighReportsAreNeverLost` follows from the step of
`Custody`; `OldSamplesNeverDecide` from the order being transitive along all
later decisions, where `DecidesOnNewerSamples` compares two in a row.

*`JourneyProofs`* (from `ReportAssumption`; the theorems of the outboxes also
from `JourneyConstants`, which states for the constants of `Journey` what
`UploadAssumption` asks). The inductive invariants are those of the halves. A
step of `Journey` is a step of `SensorReport` (`ReportStep`) and, because an
admitted report is one that may be offered (`OfferedReport`), a step of `Upload`
(`UploadStep`). That holds by the way `JNext` is put together and says nothing
by itself (`JourneyIsBoth`, a lemma); it lets what is proved of each half be
cited. The theorems of `UploadProofs` are instanced (`Kept`) and cited;
`SameStep` says that the instance of the proof module and that of the model are
one specification. What neither half can say: `JourneyImplementsCustody`, the
edge as a whole hands a HIGH report over to the history and to nothing else. A
step leaves the checkpoint alone or leaves outboxes and history alone
(`OneHopSteps`); in the one case the step of the outboxes' `Custody` is a step
of the edge's or a stutter, because another outbox or the checkpoint may still
hold the row (`OutboxHop`), in the other a report that the sensor forgets is in
a ledger and so, by `LedgersRecorded`, in an outbox or in the history
(`SensorHop`). `HighReportsReachTheHistory`, from its publication on a HIGH
report is always in the checkpoint of the sensor, in an outbox on disk, or once
in the history; `DecisionsStayEvidenced` and `EvidenceIsForEver`, what a gateway
decides on is recorded before the decision and for ever after;
`BaselineStaysRecorded`, the sensor stays silent only for what is recorded. They
hold because the ledger of one half is the holder of the other, and they need
both at every instant: a receipt whose row was rolled back, or deleted before
the server had committed it, would break them while `SensorReport` alone noticed
nothing.

## What is only model-checked

* Liveness: `OverlapEnds`, `NewerSurvivorServes`, `EveryDecisionIsAnswered`,
  `ExecutionIsReported`, `EveryRowIsStored`, `HeadReachesGateways`. TLAPS does
  not reason about fairness.
* The four statements of the documentation that the code violates: TLC shows a
  run of each.

## Not modelled

* The in-memory configuration of gateways and controllers (no state file).
* Peer authentication, message formats, metrics, logging.
* The numbers of detectors, trust scores, decisions and learned models: where
  they choose, the models choose freely.
* `sensor_node/runtime.py` (the duty-cycled runtime) and ownership notices to a
  sensor within a session.
* Limits of the outbox in bytes, and the retry delays of `connectivity.py`:
  rows are counted, and a retry may come at any time.
* Schema migrations and read-only queries of the server.
* Fragmentation and reassembly of `common/lora/`, radio timing, drivers, and
  the firmware.
* `experiments/`, `demo.py`, `simulation/`, `results/`, `third_party/`.

## Plan

1. Commands of both gateways of a pair to one controller: `CommandDelivery` over
   two gateways, with the fence of `Failover` and the window of `Actuation`, and
   the theorem that a command resent across a takeover is executed at most once.
2. Liveness of reports: a confirmed end for every HIGH report while its gateway
   keeps control, and the sensor that stays with a demoted gateway.
3. `B1Outbox`: slots, quarantine, retry and probing of the firmware.
4. Fragments and reassembly of the LoRa host transport.
