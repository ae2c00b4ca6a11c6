---------------------------- MODULE SensorReport ----------------------------
(***************************************************************************)
(* Reports of one sensor node in the gateway-durable mode: what is         *)
(* reported, the window that keeps reports until a gateway holds them, the *)
(* gateways that admit them, and the decisions a gateway takes on them.    *)
(*                                                                         *)
(* Sources: sensor_node/sensor_node.py, sensor_node/report_delivery.py,    *)
(* sensor_node/adaptive_sense.py, common/lora/delivery.py and              *)
(* _process_sensor_message of gateway/gateway.py with                      *)
(* gateway/sensor_pipeline.py.                                             *)
(*                                                                         *)
(* The gateways' authority changes here by a takeover and a demotion; how  *)
(* they agree on it is the subject of Ownership.  A reading is a side of a *)
(* control threshold, or a fault.  The alert next to a report is the       *)
(* subject of FaultAlert: it changes nothing that is modelled here.        *)
(***************************************************************************)
EXTENDS Naturals, Sequences, FiniteSets

CONSTANTS
  Gateways,
  First,           \* the gateway that controls the zone at first
  Sides,           \* trusted readings, one per side of a threshold
  NoGateway, NoReading, NoReport,
  WindowCapacity,  \* capacity of SensorReportWindow
  Backlog,         \* bound: frames on the way to a gateway (sensor_queue)
  MaxSamples,      \* bound: samples, over all boots
  MaxBoots,        \* bound: boots of the sensor
  MaxEpoch         \* bound: takeovers

ASSUME ReportAssumption ==
  /\ First \in Gateways /\ NoGateway \notin Gateways
  /\ "FAULT" \notin Sides /\ NoReading \notin Sides \cup {"FAULT"}
  /\ WindowCapacity \in Nat \ {0} /\ Backlog \in Nat \ {0}
  /\ MaxSamples \in Nat /\ MaxBoots \in Nat \ {0} /\ MaxEpoch \in Nat \ {0}

VARIABLES
  boot, seq,   \* boot_id and sample_sequence
  samples,     \* samples so far, over all boots
  health,      \* the trust state of the last sample
  reported,    \* ControlRelevanceGate.reported
  first,       \* no healthy report of this boot is confirmed
  confirmed,   \* _confirmed_sequence, or 0
  pending,     \* the reports of the window
  flash,       \* reports of the "sensor_reports" checkpoint
  session,     \* the gateway the sensor is registered with
  known,       \* owner_gateway and generation of the sensor
  acks,        \* PERSISTED_ACKs in flight to the sensor
  epoch,       \* epoch[g]: registry.get(sensor).generation at g
  control,     \* control[g]: may_control at g
  bootOf,      \* bootOf[g]: sensor_boots
  ingress,     \* ingress[g]: sensor_queue
  busy,        \* busy[g]: the report between its admission and its decision
  ledger,      \* ledger[g]: sensor_receipts, on disk
  last         \* last[g]: the report g decided on last (history)

senseVars == <<boot, seq, samples, health, reported, first, confirmed>>
windowVars == <<pending, flash>>
sessionVars == <<session, known, acks>>
ownerVars == <<epoch, control>>
gatewayVars == <<bootOf, ingress, busy, ledger, last>>
reportVars == <<senseVars, windowVars, sessionVars, ownerVars, gatewayVars>>

\* Sampled evidence under its identity (boot, seq); importance is high.
Report == [boot : 1..MaxBoots, seq : 1..MaxSamples, high : BOOLEAN,
           reading : Sides \cup {"FAULT"}]
\* by: the boot that sends it, which knows the age of its own samples only.
Frames == [report : Report, by : 1..MaxBoots]
Authority == [gw : Gateways \cup {NoGateway}, epoch : 0..MaxEpoch]
Unheard == [gw |-> NoGateway, epoch |-> 0]

RInit ==
  /\ boot = 1 /\ seq = 0 /\ samples = 0
  /\ health = NoReading /\ reported = NoReading /\ first = TRUE /\ confirmed = 0
  /\ pending = {} /\ flash = {}
  /\ session = NoGateway /\ known = Unheard /\ acks = {}
  /\ epoch = [g \in Gateways |-> 1]
  /\ control = [g \in Gateways |-> g = First]
  /\ bootOf = [g \in Gateways |-> 0]
  /\ ingress = [g \in Gateways |-> <<>>]
  /\ busy = [g \in Gateways |-> NoReport]
  /\ ledger = [g \in Gateways |-> {}]
  /\ last = [g \in Gateways |-> NoReport]

-----------------------------------------------------------------------------
(* What is reported: AdaptiveSense, FaultNotifier, ControlRelevanceGate. *)

\* SensorTrust.update, of a sample whose channels are all trusted or not.
State(reading) == IF reading = "FAULT" THEN "FAULT" ELSE "HEALTHY"
Changed(reading) == State(reading) # health

\* FaultNotifier.update: a transition, a reminder, or a recovery.
Notification(reading, reminder) ==
  \/ reading = "FAULT" /\ (Changed(reading) \/ reminder)
  \/ reading # "FAULT" /\ health = "FAULT"

\* ControlRelevanceGate.evaluate: the threshold lies between the reading and
\* the last confirmed one.
Relevant(reading) ==
  reading # "FAULT" /\ reported # NoReading /\ reported # reading

\* AdaptiveScheduler.update: a trusted sample may be due for its value, its
\* age, or a change of the sampling state.
Due(reading) == IF reading = "FAULT" THEN {FALSE} ELSE BOOLEAN

\* ChangeAnalyzer.update: an event counts for a sample that is uploaded.
Detected(routine) == IF routine THEN BOOLEAN ELSE {FALSE}

\* Reasons for which AdaptiveSense.update must request an upload.
Required(reading, reminder) ==
  \/ Notification(reading, reminder)
  \/ reading # "FAULT" /\ (first \/ Changed(reading) \/ Relevant(reading))

\* Reasons that make a report HIGH; notices of a fault are none of them.
Urgent(reading) ==
  reading # "FAULT" /\ (first \/ Changed(reading) \/ Relevant(reading))

-----------------------------------------------------------------------------
(* The report window. *)

Normals == {r \in pending : ~r.high}
NormalLimit == (WindowCapacity * 3) \div 4

\* SensorReportWindow.admit.
Admissible(high) ==
  /\ Cardinality(pending) < WindowCapacity
  /\ high \/ Cardinality(Normals) < NormalLimit

\* Mutant of Keep: the checkpoint has NORMAL reports too.
KeepAll(r) == pending' = pending \cup {r} /\ flash' = flash \cup {r}

\* admit: HIGH reports are on disk before they are published.
Keep(r) ==
  /\ pending' = pending \cup {r}
  /\ flash' = IF r.high THEN flash \cup {r} ELSE flash

\* One turn of _sample_loop.  A full window drops the report.
Sample ==
  /\ session # NoGateway
  /\ samples < MaxSamples
  /\ samples' = samples + 1 /\ seq' = seq + 1
  /\ \E reading \in Sides \cup {"FAULT"}, reminder \in BOOLEAN :
     \E routine \in Due(reading) : \E event \in Detected(routine) :
       /\ LET r == [boot |-> boot, seq |-> seq', reading |-> reading,
                    high |-> event \/ Urgent(reading)]
          IN IF (routine \/ Required(reading, reminder)) /\ Admissible(r.high)
             THEN Keep(r)
             ELSE UNCHANGED windowVars
       /\ health' = State(reading)
  /\ UNCHANGED <<boot, reported, first, confirmed, sessionVars, ownerVars, gatewayVars>>

\* due and send_message.  The attempts, and the probes that follow them, only
\* set the time of the next transmission.  A frame that is lost changes nothing.
Transmit(r) ==
  /\ r \in pending /\ session # NoGateway
  /\ control[session] /\ Len(ingress[session]) < Backlog
  /\ ingress' = [ingress EXCEPT ![session] = Append(@, [report |-> r, by |-> boot])]
  /\ UNCHANGED <<senseVars, windowVars, sessionVars, ownerVars, bootOf, busy, ledger, last>>

\* Mutant of MarkReported: the boot of the report is not looked at.
MarkReportedOfAnyBoot(r) ==
  IF r.seq > confirmed
  THEN /\ confirmed' = r.seq
       /\ reported' = IF r.reading = "FAULT" THEN NoReading ELSE r.reading
       /\ first' = (first /\ r.reading = "FAULT")
  ELSE UNCHANGED <<confirmed, reported, first>>

\* mark_reported: only samples of this boot, and only newer ones, move the
\* baseline; a report of a fault empties it.
MarkReported(r) ==
  IF r.boot = boot /\ r.seq > confirmed
  THEN /\ confirmed' = r.seq
       /\ reported' = IF r.reading = "FAULT" THEN NoReading ELSE r.reading
       /\ first' = (first /\ r.reading = "FAULT")
  ELSE UNCHANGED <<confirmed, reported, first>>

\* confirm: the checkpoint without the report, then the window and the baseline.
Confirm(r) ==
  /\ r \in acks
  /\ acks' = acks \ {r}
  /\ IF r \in pending
     THEN /\ pending' = pending \ {r}
          /\ flash' = flash \ {r}
          /\ MarkReported(r)
     ELSE UNCHANGED <<windowVars, confirmed, reported, first>>
  /\ UNCHANGED <<boot, seq, samples, health, session, known, ownerVars, gatewayVars>>

-----------------------------------------------------------------------------
(* Sessions, restarts and authority. *)

\* _handle_register, and _register of the sensor, which may miss the answer.
Register(g, heard) ==
  /\ session = NoGateway
  /\ control[g] /\ known.epoch <= epoch[g]
  /\ bootOf' = [bootOf EXCEPT ![g] = boot]
  /\ IF heard /\ (known.epoch = epoch[g] => known.gw \in {NoGateway, g})
     THEN session' = g /\ known' = [gw |-> g, epoch |-> epoch[g]]
     ELSE UNCHANGED <<session, known>>
  /\ UNCHANGED <<senseVars, windowVars, acks, ownerVars, ingress, busy, ledger, last>>

EndSession ==
  /\ session # NoGateway
  /\ session' = NoGateway /\ acks' = {}
  /\ UNCHANGED <<senseVars, windowVars, known, ownerVars, gatewayVars>>

\* A new process: a new boot_id, and what the checkpoint holds.  A checkpoint
\* that cannot be written ends the process as well.
Reboot ==
  /\ boot < MaxBoots
  /\ boot' = boot + 1 /\ seq' = 0
  /\ health' = NoReading /\ reported' = NoReading /\ first' = TRUE /\ confirmed' = 0
  /\ pending' = flash
  /\ session' = NoGateway /\ known' = Unheard /\ acks' = {}
  /\ UNCHANGED <<samples, flash, ownerVars, gatewayVars>>

GatewayCrash(g) ==
  /\ bootOf' = [bootOf EXCEPT ![g] = 0]
  /\ ingress' = [ingress EXCEPT ![g] = <<>>]
  /\ busy' = [busy EXCEPT ![g] = NoReport]
  /\ IF session = g THEN session' = NoGateway /\ acks' = {} ELSE UNCHANGED <<session, acks>>
  /\ UNCHANGED <<senseVars, windowVars, known, ownerVars, ledger, last>>

Takeover(g) ==
  /\ ~control[g]
  /\ \E e \in 1..MaxEpoch :
       /\ \A h \in Gateways : epoch[h] < e
       /\ epoch' = [epoch EXCEPT ![g] = e]
  /\ control' = [control EXCEPT ![g] = TRUE]
  /\ UNCHANGED <<senseVars, windowVars, sessionVars, gatewayVars>>

Demote(g) ==
  /\ control[g]
  /\ \E h \in Gateways :
       /\ epoch[h] > epoch[g]
       /\ epoch' = [epoch EXCEPT ![g] = epoch[h]]
  /\ control' = [control EXCEPT ![g] = FALSE]
  /\ UNCHANGED <<senseVars, windowVars, sessionVars, gatewayVars>>

-----------------------------------------------------------------------------
(* The gateway: _process_sensor_message. *)

\* Mutant of Fresh: only the receipt of the report itself is looked up.
FreshUnlessRepeated(g, r) == r \notin ledger[g]

\* sensor_is_fresh: the high-water mark of the boot.
Fresh(g, r) == \A x \in ledger[g] : x.boot = r.boot => x.seq < r.seq

\* finalize_sensor_record: age, boot, order and trust.
Usable(g, f) ==
  /\ f.report.reading # "FAULT"
  /\ f.by = f.report.boot /\ f.report.boot = bootOf[g]
  /\ Fresh(g, f.report)

\* A new report is admitted, acknowledged, and only then decided on; the age
\* of a usable one may be out of bounds.  A repetition is acknowledged only.
Process(g) ==
  /\ busy[g] = NoReport /\ ingress[g] # <<>>
  /\ LET f == Head(ingress[g])
     IN /\ ledger' = [ledger EXCEPT ![g] = @ \cup {f.report}]
        /\ \E timely \in BOOLEAN :
             busy' = [busy EXCEPT ![g] =
               IF f.report \notin ledger[g] /\ Usable(g, f) /\ timely
               THEN f.report ELSE @]
        /\ acks' = IF session = g THEN acks \cup {f.report} ELSE acks
  /\ ingress' = [ingress EXCEPT ![g] = Tail(@)]
  /\ UNCHANGED <<senseVars, windowVars, session, known, ownerVars, bootOf, last>>

\* Mutant of Refuse: the acknowledgement does not wait for the admission.
RefuseButAcknowledge(g) ==
  /\ busy[g] = NoReport /\ ingress[g] # <<>>
  /\ ingress' = [ingress EXCEPT ![g] = Tail(@)]
  /\ acks' = IF session = g THEN acks \cup {Head(ingress[g]).report} ELSE acks
  /\ UNCHANGED <<senseVars, windowVars, session, known, ownerVars, bootOf, busy,
                 ledger, last>>

\* Outbox or ledger is full, or the disk fails: no ACK, no decision.
Refuse(g) ==
  /\ busy[g] = NoReport /\ ingress[g] # <<>>
  /\ ingress' = [ingress EXCEPT ![g] = Tail(@)]
  /\ UNCHANGED <<senseVars, windowVars, sessionVars, ownerVars, bootOf, busy,
                 ledger, last>>

\* After the ACK: ownership and age are checked again, and the ACK or the
\* audit may have failed.
Decide(g) ==
  /\ busy[g] # NoReport
  /\ \E drives \in BOOLEAN :
       /\ drives => control[g]
       /\ last' = IF drives THEN [last EXCEPT ![g] = busy[g]] ELSE last
  /\ busy' = [busy EXCEPT ![g] = NoReport]
  /\ UNCHANGED <<senseVars, windowVars, sessionVars, ownerVars, bootOf, ingress, ledger>>

-----------------------------------------------------------------------------
SensorNext ==
  \/ Sample \/ EndSession \/ Reboot
  \/ \E r \in pending : Transmit(r)
  \/ \E r \in acks : Confirm(r)

GatewayNext ==
  \E g \in Gateways :
    \/ \E heard \in BOOLEAN : Register(g, heard)
    \/ Process(g) \/ Refuse(g) \/ Decide(g) \/ GatewayCrash(g)
    \/ Takeover(g) \/ Demote(g)

RNext == SensorNext \/ GatewayNext

RSpec == RInit /\ [][RNext]_reportVars

-----------------------------------------------------------------------------
(* Properties. *)

\* Type invariant, and the checkpoint is the HIGH part of the window.
RTypeOK ==
  /\ boot \in 1..MaxBoots /\ seq \in 0..MaxSamples /\ samples \in 0..MaxSamples
  /\ health \in {NoReading, "HEALTHY", "FAULT"}
  /\ reported \in Sides \cup {NoReading}
  /\ first \in BOOLEAN /\ confirmed \in 0..MaxSamples
  /\ pending \subseteq Report
  /\ flash = {r \in pending : r.high}
  /\ session \in Gateways \cup {NoGateway} /\ known \in Authority
  /\ acks \subseteq Report
  /\ epoch \in [Gateways -> 1..MaxEpoch] /\ control \in [Gateways -> BOOLEAN]
  /\ bootOf \in [Gateways -> 0..MaxBoots]
  /\ ingress \in [Gateways -> Seq(Frames)]
  /\ busy \in [Gateways -> Report \cup {NoReport}]
  /\ ledger \in [Gateways -> SUBSET Report]
  /\ last \in [Gateways -> Report \cup {NoReport}]

\* A HIGH report survives every restart of the sensor until a gateway has it
\* on disk, through lost frames and acknowledgements, full queues and takeovers.
HighReports == {r \in Report : r.high /\ r.reading # "FAULT"}

GatewayCustody ==
  INSTANCE Custody WITH
    Holders <- {"SENSOR"},
    Stores <- Gateways,
    Messages <- HighReports,
    held <- [h \in {"SENSOR"} |-> flash],
    stored <- [g \in Gateways |->
                 [r \in HighReports |-> IF r \in ledger[g] THEN 1 ELSE 0]]

KeepsHighReports == GatewayCustody!Spec

\* The sensor compares new samples with a baseline that some gateway holds:
\* it never stays silent about a change because of a report that was lost, or
\* because of the acknowledgement of an earlier boot.
BaselineIsHeld ==
  confirmed > 0 =>
    \E g \in Gateways : \E r \in ledger[g] :
      /\ r.boot = boot /\ r.seq = confirmed
      /\ reported = IF r.reading = "FAULT" THEN NoReading ELSE r.reading

\* A gateway decides on samples in the order they were taken, each at most
\* once, although reports are repeated, arrive after younger ones, outlive the
\* boot they were sampled in and are replayed to a gateway that restarted.
Later(r, q) == r.boot > q.boot \/ (r.boot = q.boot /\ r.seq > q.seq)

DecidesOnNewerSamples ==
  [][ \A g \in Gateways :
        last'[g] # last[g] /\ last[g] # NoReport => Later(last'[g], last[g])
    ]_reportVars

=============================================================================
