------------------------------ MODULE FaultAlert ------------------------------
(***************************************************************************)
(* The alert that accompanies a sample whose trust changed: how the        *)
(* sampling loop of a sensor builds it next to the report of the same      *)
(* sample, and what a gateway makes of it.                                 *)
(*                                                                         *)
(* Sources: sensor_node/sensor_node.py, sensor_node/fault_notifier.py,     *)
(* sensor_node/report_delivery.py, gateway/sensor_delivery.py and          *)
(* _process_sensor_message of gateway/gateway.py.                          *)
(*                                                                         *)
(* The connection holds; losing it is the subject of SensorReport.         *)
(***************************************************************************)
EXTENDS Naturals, Sequences

CONSTANTS
  Faults,      \* signatures of suspect evidence
  Healthy,     \* the signature of trusted evidence
  NoSignature, \* before the first sample
  MaxSamples,  \* bound: samples
  InFlight     \* bound: messages on the connection, at least 2

VARIABLES
  mode,       \* delivery_mode
  seq,        \* sample_sequence
  signature,  \* FaultNotifier.signature, of both notifiers
  wire,       \* messages from the sensor to the gateway
  notices,    \* samples for which an alert was sent (history)
  outbox,     \* messages the gateway has admitted or submitted
  refused     \* messages it has dropped as not reliable

alertVars == <<mode, seq, signature, wire, notices, outbox, refused>>

Modes == {"legacy-write", "gateway-durable"}
Signatures == Faults \cup {Healthy}

\* A message: contract tells whether the payload carries the reliable contract
\* with the sample identity, id and sequence are those of the envelope.
Wired == [type : {"SENSOR_DATA", "ALERT"}, sample : 1..MaxSamples,
          contract : BOOLEAN, id : {"S", "A", "random"}, sequenced : BOOLEAN]

AlertInit ==
  /\ mode \in Modes
  /\ seq = 0 /\ signature = NoSignature
  /\ wire = <<>> /\ notices = {} /\ outbox = {} /\ refused = {}

\* FaultNotifier.update: suspect evidence that changes or stays, a recovery.
Notified(s, reminder) ==
  \/ s # Healthy /\ (s # signature \/ reminder)
  \/ s = Healthy /\ signature \in Faults

\* The report: prepare_report writes contract and identity into the payload.
ReportMessage(n) ==
  [type |-> "SENSOR_DATA", sample |-> n, contract |-> mode = "gateway-durable",
   id |-> IF mode = "gateway-durable" THEN "S" ELSE "random", sequenced |-> TRUE]

\* The alert is built from the same payload, under a new envelope.
AlertMessage(n, reported) ==
  [type |-> "ALERT", sample |-> n,
   contract |-> reported /\ mode = "gateway-durable",
   id |-> "random", sequenced |-> FALSE]

\* One turn of _sample_loop.  The scheduler requests an upload for a notice of
\* its own notifier, whose clock is read later, or for the value or age of a
\* healthy sample; a full report window keeps the report back.
SampleAndNotify ==
  /\ seq < MaxSamples /\ Len(wire) <= InFlight - 2
  /\ seq' = seq + 1
  /\ \E s \in Signatures, routine, reminder, late, sent \in BOOLEAN :
       /\ routine => s = Healthy
       /\ late => reminder
       /\ sent \/ mode = "gateway-durable"
       /\ LET reported == Notified(s, late) \/ routine \/ signature = NoSignature
              notified == Notified(s, reminder)
          IN /\ wire' = wire
                  \o (IF reported /\ sent THEN <<ReportMessage(seq')>> ELSE <<>>)
                  \o (IF notified THEN <<AlertMessage(seq', reported)>> ELSE <<>>)
             /\ notices' = IF notified THEN notices \cup {seq'} ELSE notices
       /\ signature' = s
  /\ UNCHANGED <<mode, outbox, refused>>

\* identity_and_digest.
Canonical(m) ==
  m.sequenced /\ m.id = (IF m.type = "SENSOR_DATA" THEN "S" ELSE "A")

\* _process_sensor_message.
Receive ==
  /\ wire # <<>>
  /\ IF Head(wire).contract => Canonical(Head(wire))
     THEN outbox' = outbox \cup {Head(wire)} /\ UNCHANGED refused
     ELSE refused' = refused \cup {Head(wire)} /\ UNCHANGED outbox
  /\ wire' = Tail(wire)
  /\ UNCHANGED <<mode, seq, signature, notices>>

AlertNext == SampleAndNotify \/ Receive

AlertSpec == AlertInit /\ [][AlertNext]_alertVars

\* A notice that was sent is on its way to the gateway or in its outbox: the
\* transitions the notifier emits once are not lost over a connection that holds.
AlertsAreAdmitted ==
  \A n \in notices :
    \/ \E i \in DOMAIN wire : wire[i].type = "ALERT" /\ wire[i].sample = n
    \/ \E m \in outbox : m.type = "ALERT" /\ m.sample = n
=============================================================================
