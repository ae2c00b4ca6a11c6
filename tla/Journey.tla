------------------------------- MODULE Journey -------------------------------
(***************************************************************************)
(* The whole way of a sensor report: SensorReport and Upload composed over *)
(* the ledger they share.  The handler of a report and the outbox of its   *)
(* gateway are one process on one SQLite connection, so the steps in which *)
(* both take part happen together; all others leave the other half alone.  *)
(*                                                                         *)
(* Sources: _process_sensor_message and _admit_sensor_upload of            *)
(* gateway/gateway.py with gateway/offline_queue.py, and the sources of    *)
(* the two modules.                                                        *)
(***************************************************************************)
EXTENDS SensorReport

CONSTANTS
  Others,        \* alerts, command history and results that share the outboxes;
                 \* the receipts of results are a ledger of their own, left out
  OthersHigh,    \* those of them that admission_priority calls HIGH
  Refused,       \* those that validate_server_upload refuses
  Capacity, Reserve, MaxReceipts, MaxFaults, NoMessage   \* as in Upload

VARIABLES rows, disk, open, link, flushing, awaited, acked, frame, stale,
          receipt, view, base, faults

\* Everything of Upload but the ledger.
outboxVars == <<rows, disk, open, link, flushing, awaited, acked, frame, stale,
                receipt, view, base, faults>>
journeyVars == <<reportVars, outboxVars>>

\* admission_priority: the importance of a report, or the fault it reports.
HighRows == {r \in Report : r.high \/ r.reading = "FAULT"} \cup OthersHigh

Outbox == INSTANCE Upload WITH
  Messages <- Report \cup Others,
  Offered <- [g \in Gateways |-> Report \cup Others],
  Reports <- Report,
  Results <- {},
  High <- HighRows,
  Invalid <- Refused

\* The values of the constants that the theorems of both halves ask for.
JourneyConstants ==
  /\ OthersHigh \subseteq Others /\ Refused \subseteq Others \ Report
  /\ Capacity \in Nat \ {0} /\ Reserve \in 0..(Capacity - 1)
  /\ MaxReceipts \in Nat /\ MaxFaults \in Nat
  /\ NoMessage \notin Report \cup Others

JInit == RInit /\ Outbox!UploadInit

-----------------------------------------------------------------------------
(* Steps of both halves. *)

\* _admit_sensor_upload: row and receipt in one transaction, then the flush is
\* asked for and the report acknowledged.
Admission(g) == Process(g) /\ Outbox!Admit(g, Head(ingress[g]).report)

\* The transaction raises: BEGIN IMMEDIATE inside one that was left open, whose
\* statements "with" then rolls back, or no room, or the disk.
Refusal(g) ==
  /\ Refuse(g)
  /\ IF open[g] THEN Outbox!RollsBack(g) ELSE UNCHANGED outboxVars

\* The audit precedes the decision and commits what was left open.  When it
\* raises, or the acknowledgement before it, nothing is decided.
Decision(g) ==
  /\ Decide(g)
  /\ \/ ~open[g] /\ UNCHANGED outboxVars
     \/ Outbox!Audit(g)
     \/ last' = last /\ (Outbox!RollsBack(g) \/ UNCHANGED outboxVars)

\* The process of a gateway ends: its queues, its connections, its transaction.
Crash(g) == GatewayCrash(g) /\ Outbox!GatewayCrash(g)

-----------------------------------------------------------------------------
(* Steps of one half. *)

SensorStep ==
  /\ \/ SensorNext
     \/ \E g \in Gateways :
          Takeover(g) \/ Demote(g) \/ \E heard \in BOOLEAN : Register(g, heard)
  /\ UNCHANGED outboxVars

OutboxStep(g) ==
  /\ \/ \E m \in Others : Outbox!Enqueue(g, m)
     \/ \E m \in Report \cup Others : Outbox!ArriveLate(g, m) \/ Outbox!LoseLate(g, m)
     \/ Outbox!RollsBack(g) \/ Outbox!Audit(g)
     \/ Outbox!Connect(g) \/ Outbox!Send(g) \/ Outbox!BumpFails(g)
     \/ Outbox!SendRaises(g) \/ Outbox!EndOfQueue(g) \/ Outbox!ReceiveReceipt(g)
     \/ Outbox!Delete(g) \/ Outbox!DeleteFails(g) \/ Outbox!Timeout(g)
     \/ Outbox!DropWriter(g) \/ Outbox!LinkBreaks(g) \/ Outbox!ReaderEnds(g)
     \/ Outbox!Arrive(g)
  /\ UNCHANGED reportVars

ServerStep ==
  /\ Outbox!EndsTransaction \/ Outbox!ServerCrash
  /\ UNCHANGED reportVars

JNext ==
  \/ \E g \in Gateways : Admission(g) \/ Refusal(g) \/ Decision(g) \/ Crash(g)
                         \/ OutboxStep(g)
  \/ SensorStep \/ ServerStep

JSpec == JInit /\ [][JNext]_journeyVars

-----------------------------------------------------------------------------
(* Properties. *)

\* On disk behind the gateways: in an outbox, or once in the history.
Recorded(r) ==
  (\E g \in Gateways : r \in Outbox!ToSet(disk[g])) \/ base.history[r] = 1

\* The two hops are one custody.  The edge - the checkpoint of the sensor and the
\* outboxes of the gateways together - keeps a HIGH report until the history of
\* the server has it, and the history records it once, although the report is
\* repeated towards every gateway, and every gateway that has it uploads it.
OnEdge ==
  {r \in HighReports : r \in flash \/ \E g \in Gateways : r \in Outbox!ToSet(disk[g])}

EdgeCustody ==
  INSTANCE Custody WITH
    Holders <- {"EDGE"},
    Stores <- {"SERVER"},
    Messages <- HighReports,
    held <- [h \in {"EDGE"} |-> OnEdge],
    stored <- [s \in {"SERVER"} |-> [r \in HighReports |-> base.history[r]]]

EndToEndCustody == EdgeCustody!Spec

\* What a gateway is deciding on, or decided on last, is on disk: no actuator
\* is driven on a sample of which a crash would leave no evidence.
DecisionsLeaveEvidence ==
  \A g \in Gateways : \A r \in {busy[g], last[g]} \ {NoReport} : Recorded(r)

\* What the sensor compares with, and may stay silent for, is on its way to
\* the history or there.
BaselineIsRecorded ==
  confirmed > 0 =>
    \E r \in Report :
      /\ r.boot = boot /\ r.seq = confirmed /\ Recorded(r)
      /\ reported = IF r.reading = "FAULT" THEN NoReading ELSE r.reading
=============================================================================
