--------------------------- MODULE DeliveryProofs ---------------------------
(***************************************************************************)
(* The safety properties of CommandDelivery for every set of commands,     *)
(* every queue and retry bound: no decided command is lost, and one that   *)
(* is reported as not dispatched has not been and will not be sent.        *)
(***************************************************************************)
EXTENDS CommandDelivery, ActuationProofs

\* The variables of the gateway have their types.
GatewayOK ==
  /\ decided \in SUBSET Commands
  /\ queue \in Seq(Commands \X BOOLEAN) /\ Len(queue) <= QueueCapacity
  /\ tracker \in [Commands -> 0..NotTracked]
  /\ outcomes \in [Commands -> {"NONE", "SENT", "ACKED"}]
  /\ {connected, owner} \subseteq BOOLEAN
  /\ frames \in SUBSET Commands
  /\ acks \in SUBSET Commands
  /\ reports \in SUBSET Reports
  /\ gatewayCrashes \in Nat

\* c is reported as never sent.
NeverSent(c) == Report(c, "NOT_DISPATCHED") \in reports

\* What is queued was decided and is not given up; a first attempt is the only
\* entry of its command and has not been sent.
QueueOK ==
  \A i \in 1..Len(queue) :
    /\ queue[i][1] \in decided /\ ~NeverSent(queue[i][1])
    /\ ~queue[i][2] =>
         /\ queue[i][1] \notin frames
         /\ tracker[queue[i][1]] = NotTracked
         /\ \A j \in 1..Len(queue) : queue[j][1] = queue[i][1] => j = i

\* What is not decided, or reported as never sent, has left no trace; what was
\* executed was sent; and what awaits an ACK has an open outcome.
Traced(c) ==
  /\ c \notin decided \/ NeverSent(c) => c \notin frames /\ tracker[c] = NotTracked
  /\ NeverSent(c) => c \in decided
  /\ ran[c] > 0 => c \in frames
  /\ tracker[c] # NotTracked => outcomes[c] = "SENT" \/ Answered(c)

\* The gateway still holds a command, or has answered it.
Held(c) ==
  \/ Answered(c)
  \/ \E i \in 1..Len(queue) : queue[i] = <<c, FALSE>>
  \/ tracker[c] # NotTracked \/ outcomes[c] = "ACKED"

Ledger ==
  /\ QueueOK
  /\ \A c \in Commands : Traced(c)
  /\ gatewayCrashes = 0 => \A c \in decided : Held(c)

\* The inductive invariant.
DInv == IInv /\ GatewayOK /\ Ledger
-----------------------------------------------------------------------------
(* The queue and the reports. *)

\* Two reports are equal when they say the same of the same command.
LEMMA ReportFacts ==
  ASSUME NEW c, NEW s, NEW d, NEW t
  PROVE  (Report(c, s) = Report(d, t)) <=> (c = d /\ s = t)
BY DEF Report

\* What another report changes.
LEMMA ReportAdds ==
  ASSUME NEW c \in Commands, NEW s \in {"NOT_DISPATCHED", "UNKNOWN", "DELIVERY_FAILED",
                                        "RESULT_UNKNOWN"},
         reports \in SUBSET Reports, reports' = reports \cup {Report(c, s)}
  PROVE  /\ reports' \in SUBSET Reports
         /\ \A d \in Commands :
              NeverSent(d)' <=> NeverSent(d) \/ (d = c /\ s = "NOT_DISPATCHED")
         /\ recorded \subseteq recorded' =>
              /\ \A d \in Commands : Answered(d) => Answered(d)'
              /\ Answered(c)'
<1>1. Report(c, s) \in Reports /\ Report(c, s).cmd = c
  BY DEF Report, Reports
<1>2. \A d \in Commands : NeverSent(d)' <=> NeverSent(d) \/ (d = c /\ s = "NOT_DISPATCHED")
  BY ReportFacts DEF NeverSent
<1>3. recorded \subseteq recorded' =>
        (\A d \in Commands : Answered(d) => Answered(d)') /\ Answered(c)'
  BY <1>1 DEF Answered
<1> QED
  BY <1>1, <1>2, <1>3

\* The queue with one more entry.
LEMMA Appended ==
  ASSUME queue \in Seq(Commands \X BOOLEAN), Len(queue) < QueueCapacity,
         NEW c \in Commands, NEW retry \in BOOLEAN,
         queue' = Append(queue, <<c, retry>>)
  PROVE  /\ queue' \in Seq(Commands \X BOOLEAN)
         /\ Len(queue) \in Nat
         /\ Len(queue') = Len(queue) + 1 /\ Len(queue') <= QueueCapacity
         /\ \A i \in 1..Len(queue) : queue'[i] = queue[i]
         /\ queue'[Len(queue) + 1] = <<c, retry>>
<1>1. <<c, retry>> \in Commands \X BOOLEAN
  OBVIOUS
<1>2. Len(queue) \in Nat
  OBVIOUS
<1>3. QueueCapacity \in Nat
  BY DeliveryAssumption
<1>4. queue' \in Seq(Commands \X BOOLEAN)
  BY <1>1
<1>5. Len(queue') = Len(queue) + 1
  BY <1>1
<1>6. \A i \in 1..Len(queue) : queue'[i] = queue[i]
  BY <1>1
<1>7. queue'[Len(queue) + 1] = <<c, retry>>
  BY <1>1
<1> QED
  BY <1>2, <1>3, <1>4, <1>5, <1>6, <1>7

\* The queue without its first entry.
LEMMA Removed ==
  ASSUME queue \in Seq(Commands \X BOOLEAN), Len(queue) <= QueueCapacity,
         queue # <<>>, queue' = Tail(queue)
  PROVE  /\ queue' \in Seq(Commands \X BOOLEAN)
         /\ Len(queue) \in Nat /\ Len(queue) >= 1
         /\ Len(queue') = Len(queue) - 1 /\ Len(queue') <= QueueCapacity
         /\ \A i \in 1..Len(queue') : queue'[i] = queue[i + 1]
         /\ Head(queue) = queue[1] /\ queue[1] \in Commands \X BOOLEAN
         /\ queue[1] = <<queue[1][1], queue[1][2]>>
<1>1. Len(queue) \in Nat /\ Len(queue) >= 1 /\ QueueCapacity \in Nat
  BY DeliveryAssumption
<1>2. queue' \in Seq(Commands \X BOOLEAN) /\ Len(queue') = Len(queue) - 1
  OBVIOUS
<1>3. \A i \in 1..Len(queue') : queue'[i] = queue[i + 1]
  BY <1>2
<1>4. Head(queue) = queue[1] /\ queue[1] \in Commands \X BOOLEAN
  BY <1>1
<1> QED
  BY <1>1, <1>2, <1>3, <1>4

-----------------------------------------------------------------------------
(* The controller, seen from the gateway. *)

\* Recorded results stay, and only a command that was sent is executed.
LEMMA ControllerFacts ==
  ASSUME DInv, [DNext]_deliveryVars
  PROVE  /\ IInv'
         /\ recorded \subseteq recorded'
         /\ \A c \in Commands : ran'[c] > 0 => ran[c] > 0 \/ c \in frames
<1>1. [Next]_actuationVars
  BY DEF DNext, deliveryVars, Decide, ReceiveAck, Retry, GiveUp, ExpireOutcome, ReceiveCommand,
         DispatchRefused, Dispatch, ReceiveResult, ControllerStep, Overtaken,
         ControllerReboot, Connect, LoseOwnership, GatewayCrash, Next, DInv, GatewayOK
<1>2. IInv'
  BY <1>1, IInvStep DEF DInv
<1>3. recorded \subseteq recorded'
  BY <1>1 DEF Next, Receive, Start, Refuse, Repeat, AdmitUnsaved, Backpressure, Expire, Finish,
              Record, AcceptResultAck, Supersede, CoolDown, Reboot, actuationVars
<1>4. \A c \in Commands : ran'[c] > 0 => ran[c] > 0 \/ c \in frames
  <2>1. CASE ran' = ran
    BY <2>1
  <2>2. CASE ran' # ran
    <3>1. PICK d \in Commands : d \in frames /\ Receive(d)
      BY <2>2 DEF DNext, deliveryVars, actuationVars, actuator,
         Decide, ReceiveAck, Retry, GiveUp, ExpireOutcome, ReceiveCommand,
         DispatchRefused, Dispatch, ReceiveResult, ControllerStep, Overtaken,
         ControllerReboot, Connect, LoseOwnership, GatewayCrash,
         Finish, Record, AcceptResultAck, Expire, Supersede, CoolDown, Reboot
    <3>2. ran' = ran \/ ran' = [ran EXCEPT ![d] = @ + 1]
      BY <3>1 DEF Receive, Start, Refuse, Repeat, AdmitUnsaved, Backpressure, actuator
    <3>3. ran \in [Commands -> Nat]
      BY DEF DInv, IInv, TypeOK
    <3> QED
      BY <3>1, <3>2, <3>3
  <2> QED
    BY <2>1, <2>2
<1> QED
  BY <1>2, <1>3, <1>4
-----------------------------------------------------------------------------
(* The steps. *)

LEMMA DInvInit == DInit => DInv
<1> SUFFICES ASSUME DInit PROVE DInv
  OBVIOUS
<1>1. IInv
  BY IInvInit DEF DInit
<1>2. GatewayOK
  BY DeliveryAssumption DEF DInit, GatewayOK, NotTracked
<1>3. Ledger
  BY DEF DInit, Init, Ledger, QueueOK, Traced, NeverSent, Held
<1> QED
  BY <1>1, <1>2, <1>3 DEF DInv

\* What every step may assume.
LEMMA Given ==
  ASSUME DInv
  PROVE  /\ GatewayOK /\ QueueOK
         /\ \A c \in Commands : Traced(c) /\ ran[c] \in Nat /\ tracker[c] \in 0..NotTracked
         /\ \A i \in 1..Len(queue) :
              queue[i][1] \in Commands /\ queue[i][2] \in BOOLEAN
              /\ queue[i] = <<queue[i][1], queue[i][2]>>
         /\ Len(queue) \in Nat
         /\ MaxRetries \in Nat /\ NotTracked = MaxRetries + 1
<1>1. queue \in Seq(Commands \X BOOLEAN)
  BY DEF DInv, GatewayOK
<1>2. \A i \in 1..Len(queue) : queue[i] \in Commands \X BOOLEAN
  BY <1>1
<1> QED
  BY <1>1, <1>2, DeliveryAssumption DEF DInv, IInv, TypeOK, GatewayOK, Ledger, NotTracked

\* Steps of the controller, its connection and its results: the gateway closes
\* the outcome of an answered command at most.
LEMMA QuietDeliveryStep ==
  ASSUME DInv, [DNext]_deliveryVars,
         UNCHANGED <<decided, queue, tracker, frames, reports, gatewayCrashes>>,
         {connected', owner'} \subseteq BOOLEAN, acks' \in SUBSET Commands,
         outcomes' \in [Commands -> {"NONE", "SENT", "ACKED"}],
         \A c \in Commands : outcomes'[c] = outcomes[c] \/ Answered(c)'
  PROVE  DInv'
<1> GatewayOK /\ QueueOK /\ \A c \in Commands : Traced(c) /\ ran[c] \in Nat
  BY Given
<1>1. IInv' /\ recorded \subseteq recorded'
      /\ \A c \in Commands : ran'[c] > 0 => ran[c] > 0 \/ c \in frames
  BY ControllerFacts
<1>2. GatewayOK'
  BY DEF GatewayOK
<1>3. \A c : NeverSent(c)' <=> NeverSent(c)
  BY DEF NeverSent
<1>4. \A c : Answered(c) => Answered(c)'
  BY <1>1 DEF Answered
<1>5. QueueOK'
  BY <1>3 DEF QueueOK
<1>6. \A c \in Commands : Traced(c)'
  BY <1>1, <1>3, <1>4 DEF Traced
<1>7. gatewayCrashes' = 0 => \A c \in decided' : Held(c)'
  BY <1>4 DEF DInv, Ledger, Held, GatewayOK
<1> QED
  BY <1>1, <1>2, <1>5, <1>6, <1>7 DEF DInv, Ledger

\* A decision is queued, or reported as never sent.
LEMMA DecideStep ==
  ASSUME DInv, NEW c \in Commands, Decide(c)
  PROVE  DInv'
<1> GatewayOK /\ QueueOK /\ \A d \in Commands : Traced(d)
  BY Given
<1>1. IInv' /\ recorded \subseteq recorded' /\ ran' = ran
  <2>1. [DNext]_deliveryVars
    BY DEF DNext
  <2> QED
    BY <2>1, ControllerFacts DEF Decide, actuationVars, actuator
<1>2. /\ c \notin decided /\ decided' = decided \cup {c}
      /\ UNCHANGED <<tracker, connected, owner, frames, acks, gatewayCrashes>>
  BY DEF Decide
<1>3. c \notin frames /\ tracker[c] = NotTracked /\ ~NeverSent(c)
  BY <1>2 DEF Traced
<1>4. \A i \in 1..Len(queue) : queue[i][1] # c
  BY <1>2 DEF QueueOK
<1>5. CASE /\ Len(queue) < QueueCapacity
           /\ queue' = Append(queue, <<c, FALSE>>) /\ UNCHANGED <<reports, outcomes>>
  <2>1. /\ queue' \in Seq(Commands \X BOOLEAN)
        /\ Len(queue) \in Nat
        /\ Len(queue') = Len(queue) + 1 /\ Len(queue') <= QueueCapacity
        /\ \A i \in 1..Len(queue) : queue'[i] = queue[i]
        /\ queue'[Len(queue) + 1] = <<c, FALSE>>
    BY <1>5, Appended DEF GatewayOK
  <2>2. GatewayOK'
    BY <1>2, <1>5, <2>1 DEF GatewayOK
  <2>3. \A d : NeverSent(d)' <=> NeverSent(d)
    BY <1>5 DEF NeverSent
  <2>4. \A d : Answered(d) => Answered(d)'
    BY <1>1, <1>5 DEF Answered
  <2>5. QueueOK'
    <3>1. ASSUME NEW i \in 1..Len(queue), NEW j \in 1..Len(queue'),
                 ~queue[i][2], queue'[j][1] = queue[i][1]
          PROVE  j = i
      BY <1>4, <2>1, <3>1 DEF QueueOK
    <3>2. ASSUME NEW j \in 1..Len(queue'), queue'[j][1] = c
          PROVE  j = Len(queue) + 1
      BY <1>4, <2>1, <3>2
    <3> QED
      BY <1>2, <1>3, <2>1, <2>3, <3>1, <3>2 DEF QueueOK
  <2>6. \A d \in Commands : Traced(d)'
    BY <1>1, <1>2, <1>3, <1>5, <2>3, <2>4 DEF Traced
  <2>7. gatewayCrashes' = 0 => \A d \in decided' : Held(d)'
    <3>1. Held(c)'
      <4>1. Len(queue) + 1 \in 1..Len(queue')
        BY <2>1
      <4> QED
        BY <2>1, <4>1 DEF Held
    <3>2. ASSUME NEW d \in Commands, Held(d) PROVE Held(d)'
      <4>1. CASE \E i \in 1..Len(queue) : queue[i] = <<d, FALSE>>
        <5>1. PICK i \in 1..Len(queue) : queue[i] = <<d, FALSE>>
          BY <4>1
        <5>2. i \in 1..Len(queue')
          BY <2>1
        <5>3. queue'[i] = queue[i]
          BY <2>1
        <5> QED
          BY <5>1, <5>2, <5>3 DEF Held
      <4>2. CASE Answered(d) \/ tracker[d] # NotTracked \/ outcomes[d] = "ACKED"
        BY <1>2, <1>5, <2>4, <4>2 DEF Held
      <4> QED
        BY <3>2, <4>1, <4>2 DEF Held
    <3> QED
      BY <1>2, <3>1, <3>2 DEF DInv, Ledger, GatewayOK
  <2> QED
    BY <1>1, <2>2, <2>5, <2>6, <2>7 DEF DInv, Ledger
<1>6. CASE ReportUndispatched(c, FALSE) /\ UNCHANGED queue
  <2>1. reports' = reports \cup {Report(c, "NOT_DISPATCHED")}
        /\ outcomes' = [outcomes EXCEPT ![c] = "NONE"]
    BY <1>6 DEF ReportUndispatched, Undispatched
  <2>2. /\ reports' \in SUBSET Reports
        /\ \A d \in Commands : NeverSent(d)' <=> NeverSent(d) \/ d = c
        /\ \A d \in Commands : Answered(d) => Answered(d)'
        /\ Answered(c)'
    BY <1>1, <2>1, ReportAdds DEF GatewayOK
  <2>3. GatewayOK'
    BY <1>2, <1>6, <2>1, <2>2 DEF GatewayOK
  <2>4. QueueOK'
    BY <1>2, <1>4, <1>6, <2>2 DEF QueueOK, GatewayOK
  <2>5. \A d \in Commands : Traced(d)'
    BY <1>1, <1>2, <1>3, <2>1, <2>2 DEF Traced, GatewayOK
  <2>6. gatewayCrashes' = 0 => \A d \in decided' : Held(d)'
    BY <1>2, <1>6, <2>1, <2>2 DEF DInv, Ledger, Held, GatewayOK
  <2> QED
    BY <1>1, <2>3, <2>4, <2>5, <2>6 DEF DInv, Ledger
<1> QED
  BY <1>5, <1>6 DEF Decide, QueueCommand

\* The first entry leaves the queue; what its command had to hold of a first
\* attempt holds of the others still.
LEMMA QueueAfterRemoval ==
  ASSUME DInv, queue # <<>>, queue' = Tail(queue), UNCHANGED decided,
         \A d \in Commands : NeverSent(d)' =>
            NeverSent(d) \/ (d = queue[1][1] /\ ~queue[1][2]),
         \A d \in Commands \ {queue[1][1]} :
            (d \in frames' <=> d \in frames) /\ tracker'[d] = tracker[d]
  PROVE  QueueOK'
<1> QueueOK /\ \A i \in 1..Len(queue) : queue[i][1] \in Commands
  BY Given
<1>1. /\ Len(queue) \in Nat /\ Len(queue') = Len(queue) - 1
      /\ \A i \in 1..Len(queue') : queue'[i] = queue[i + 1] /\ i + 1 \in 1..Len(queue)
      /\ 1 \in 1..Len(queue)
  BY Removed, Given DEF GatewayOK
<1> SUFFICES ASSUME NEW i \in 1..Len(queue')
             PROVE  /\ queue'[i][1] \in decided'
                    /\ Report(queue'[i][1], "NOT_DISPATCHED") \notin reports'
                    /\ ~queue'[i][2] =>
                         /\ queue'[i][1] \notin frames'
                         /\ tracker'[queue'[i][1]] = NotTracked
                         /\ \A j \in 1..Len(queue') :
                              queue'[j][1] = queue'[i][1] => j = i
  BY DEF QueueOK, NeverSent
<1>2. PICK d \in Commands : d = queue'[i][1]
  BY <1>1
<1>3. queue[i + 1][1] = d /\ queue'[i] = queue[i + 1] /\ i + 1 \in 1..Len(queue)
  BY <1>1, <1>2
<1>4. d \in decided' /\ ~NeverSent(d)
  BY <1>3 DEF QueueOK
<1>5. ~queue[1][2] => d # queue[1][1]
  <2> SUFFICES ASSUME ~queue[1][2], d = queue[1][1] PROVE FALSE
    OBVIOUS
  <2>1. i + 1 = 1
    BY <1>1, <1>3 DEF QueueOK
  <2> QED
    BY <2>1
<1>6. ~NeverSent(d)'
  BY <1>4, <1>5
<1>7. ASSUME ~queue[i + 1][2]
      PROVE  /\ d \notin frames' /\ tracker'[d] = NotTracked
             /\ \A j \in 1..Len(queue') : queue'[j][1] = d => j = i
  <2>1. d # queue[1][1]
    <3> SUFFICES ASSUME d = queue[1][1] PROVE FALSE
      OBVIOUS
    <3>1. 1 = i + 1
      BY <1>1, <1>3, <1>7 DEF QueueOK
    <3> QED
      BY <3>1
  <2>2. d \notin frames /\ tracker[d] = NotTracked
    BY <1>3, <1>7 DEF QueueOK
  <2>3. ASSUME NEW j \in 1..Len(queue'), queue'[j][1] = d PROVE j = i
    <3>1. j + 1 \in 1..Len(queue) /\ queue[j + 1][1] = d
      BY <1>1, <2>3
    <3>2. j + 1 = i + 1
      BY <1>3, <1>7, <3>1 DEF QueueOK
    <3> QED
      BY <3>2
  <2> QED
    BY <2>1, <2>2, <2>3
<1> QED
  BY <1>2, <1>3, <1>4, <1>6, <1>7 DEF NeverSent

\* A held command whose first attempt leaves the queue needs another holder.
LEMMA HeldAfterRemoval ==
  ASSUME queue \in Seq(Commands \X BOOLEAN), Len(queue) <= QueueCapacity,
         queue # <<>>, queue' = Tail(queue),
         NEW d \in Commands, Held(d), queue[1][1] # d \/ queue[1][2],
         Answered(d) => Answered(d)',
         tracker'[d] = tracker[d] /\ outcomes'[d] = outcomes[d]
  PROVE  Held(d)'
<1>1. CASE \E i \in 1..Len(queue) : queue[i] = <<d, FALSE>>
  <2>1. PICK i \in 1..Len(queue) : queue[i] = <<d, FALSE>>
    BY <1>1
  <2>2. /\ Len(queue) \in Nat /\ Len(queue') = Len(queue) - 1
        /\ \A j \in 1..Len(queue') : queue'[j] = queue[j + 1]
    BY Removed
  <2>3. i # 1
    <3> SUFFICES ASSUME i = 1 PROVE FALSE
      OBVIOUS
    <3>1. queue[1] = <<d, FALSE>>
      BY <2>1
    <3>2. queue[1][1] = d /\ queue[1][2] = FALSE
      BY <3>1
    <3> QED
      BY <3>2
  <2>4. i - 1 \in 1..Len(queue') /\ (i - 1) + 1 = i
    BY <2>2, <2>3
  <2>5. queue'[i - 1] = <<d, FALSE>>
    BY <2>1, <2>2, <2>4
  <2> QED
    BY <2>4, <2>5 DEF Held
<1>2. CASE Answered(d) \/ tracker[d] # NotTracked \/ outcomes[d] = "ACKED"
  BY <1>2 DEF Held
<1> QED
  BY <1>1, <1>2 DEF Held

\* A refused command is reported: never sent only if it was a first attempt.
LEMMA DispatchRefusedStep ==
  ASSUME DInv, DispatchRefused
  PROVE  DInv'
<1> GatewayOK /\ QueueOK /\ \A d \in Commands : Traced(d)
  BY Given
<1>1. IInv' /\ recorded \subseteq recorded' /\ ran' = ran
  <2>1. [DNext]_deliveryVars
    BY DEF DNext
  <2> QED
    BY <2>1, ControllerFacts DEF DispatchRefused, actuationVars, actuator
<1>2. /\ queue # <<>> /\ queue' = Tail(queue)
      /\ UNCHANGED <<decided, connected, owner, frames, acks, gatewayCrashes>>
  BY DEF DispatchRefused
<1>3. /\ Head(queue) = queue[1] /\ 1 \in 1..Len(queue)
      /\ queue' \in Seq(Commands \X BOOLEAN) /\ Len(queue') <= QueueCapacity
      /\ queue[1] = <<queue[1][1], queue[1][2]>>
  BY <1>2, Removed DEF GatewayOK
<1>4. PICK c \in Commands, retry \in BOOLEAN : c = queue[1][1] /\ retry = queue[1][2]
  BY <1>3, Given
<1>5. /\ reports' = reports \cup {Report(c, Undispatched(c, retry))}
      /\ outcomes' = [outcomes EXCEPT ![c] = "NONE"]
      /\ tracker' = [tracker EXCEPT ![c] = NotTracked]
  BY <1>3, <1>4 DEF DispatchRefused, ReportUndispatched
<1>6. /\ Undispatched(c, retry) \in {"UNKNOWN", "NOT_DISPATCHED"}
      /\ Undispatched(c, retry) = "NOT_DISPATCHED" <=> ~retry
  BY DEF Undispatched
<1>7. /\ reports' \in SUBSET Reports
      /\ \A d \in Commands : NeverSent(d)' <=> NeverSent(d) \/ (d = c /\ ~retry)
      /\ \A d \in Commands : Answered(d) => Answered(d)'
      /\ Answered(c)'
  BY <1>1, <1>5, <1>6, ReportAdds DEF GatewayOK
<1>8. GatewayOK'
  BY <1>2, <1>3, <1>5, <1>7, Given DEF GatewayOK
<1>9. QueueOK'
  BY <1>2, <1>4, <1>5, <1>7, QueueAfterRemoval DEF GatewayOK
<1>10. c \in decided /\ (~retry => c \notin frames)
  BY <1>3, <1>4 DEF QueueOK
<1>11. \A d \in Commands : Traced(d)'
  BY <1>1, <1>2, <1>5, <1>7, <1>10 DEF Traced, GatewayOK
<1>12. gatewayCrashes' = 0 => \A d \in decided' : Held(d)'
  <2>1. Held(c)'
    BY <1>7 DEF Held
  <2>2. ASSUME NEW d \in Commands \ {c}, Held(d) PROVE Held(d)'
    <3>1. tracker'[d] = tracker[d] /\ outcomes'[d] = outcomes[d]
      BY <1>5, <2>2 DEF GatewayOK
    <3>2. queue[1][1] # d
      BY <1>4, <2>2
    <3> QED
      BY <1>2, <1>7, <2>2, <3>1, <3>2, HeldAfterRemoval DEF GatewayOK
  <2> QED
    BY <1>2, <2>1, <2>2 DEF DInv, Ledger, GatewayOK
<1> QED
  BY <1>1, <1>8, <1>9, <1>11, <1>12 DEF DInv, Ledger

\* A command that is sent, or whose write fails, awaits an ACK.
LEMMA DispatchStep ==
  ASSUME DInv, Dispatch
  PROVE  DInv'
<1> GatewayOK /\ QueueOK /\ \A d \in Commands : Traced(d)
  BY Given
<1>1. IInv' /\ recorded \subseteq recorded' /\ ran' = ran
  <2>1. [DNext]_deliveryVars
    BY DEF DNext
  <2> QED
    BY <2>1, ControllerFacts DEF Dispatch, actuationVars, actuator
<1>2. /\ queue # <<>> /\ queue' = Tail(queue)
      /\ UNCHANGED <<decided, owner, acks, reports, gatewayCrashes>>
  BY DEF Dispatch
<1>3. /\ Head(queue) = queue[1] /\ 1 \in 1..Len(queue)
      /\ queue' \in Seq(Commands \X BOOLEAN) /\ Len(queue') <= QueueCapacity
      /\ queue[1] = <<queue[1][1], queue[1][2]>>
  BY <1>2, Removed DEF GatewayOK
<1>4. PICK c \in Commands, retry \in BOOLEAN : c = queue[1][1] /\ retry = queue[1][2]
  BY <1>3, Given
<1>5. /\ tracker' = IF retry THEN tracker ELSE [tracker EXCEPT ![c] = 0]
      /\ outcomes' = IF retry THEN outcomes ELSE [outcomes EXCEPT ![c] = "SENT"]
      /\ frames' \in {frames, frames \cup {c}} /\ connected' \in {connected, FALSE}
  BY <1>3, <1>4 DEF Dispatch
<1>6. 0 \in 0..NotTracked /\ 0 # NotTracked
  BY Given
<1>7. GatewayOK'
  <2>1. tracker' \in [Commands -> 0..NotTracked]
    BY <1>5, <1>6 DEF GatewayOK
  <2>2. outcomes' \in [Commands -> {"NONE", "SENT", "ACKED"}]
    BY <1>5 DEF GatewayOK
  <2>3. frames' \in SUBSET Commands
    BY <1>5 DEF GatewayOK
  <2>4. {connected', owner'} \subseteq BOOLEAN
    BY <1>2, <1>5 DEF GatewayOK
  <2> QED
    BY <1>2, <1>3, <2>1, <2>2, <2>3, <2>4 DEF GatewayOK
<1>8. \A d : NeverSent(d)' <=> NeverSent(d)
  BY <1>2 DEF NeverSent
<1>9. \A d : Answered(d) => Answered(d)'
  BY <1>1, <1>2 DEF Answered
<1>10. QueueOK'
  <2>1. \A d \in Commands \ {queue[1][1]} :
          (d \in frames' <=> d \in frames) /\ tracker'[d] = tracker[d]
    BY <1>4, <1>5 DEF GatewayOK
  <2> QED
    BY <1>2, <1>8, <2>1, QueueAfterRemoval
<1>11. c \in decided /\ ~NeverSent(c)
  BY <1>3, <1>4 DEF QueueOK
<1>12. ASSUME NEW d \in Commands PROVE Traced(d)'
  <2>1. CASE d # c
    BY <1>1, <1>2, <1>5, <1>8, <1>9, <2>1 DEF Traced, GatewayOK
  <2>2. CASE d = c
    <3>1. ran[c] > 0 => c \in frames'
      BY <1>5 DEF Traced
    <3>2. tracker'[c] # NotTracked => outcomes'[c] = "SENT" \/ Answered(c)'
      BY <1>5, <1>9 DEF Traced, GatewayOK
    <3> QED
      BY <1>1, <1>2, <1>8, <1>11, <2>2, <3>1, <3>2 DEF Traced
  <2> QED
    BY <2>1, <2>2
<1>13. gatewayCrashes' = 0 => \A d \in decided' : Held(d)'
  <2>1. ASSUME NEW d \in Commands, Held(d) PROVE Held(d)'
    <3>1. CASE d = c /\ ~retry
      BY <1>5, <1>6, <3>1 DEF Held, GatewayOK
    <3>2. CASE d # c \/ retry
      <4>1. tracker'[d] = tracker[d] /\ outcomes'[d] = outcomes[d]
        BY <1>5, <3>2 DEF GatewayOK
      <4>2. queue[1][1] # d \/ queue[1][2]
        BY <1>4, <3>2
      <4> QED
        BY <1>2, <1>9, <2>1, <4>1, <4>2, HeldAfterRemoval DEF GatewayOK
    <3> QED
      BY <3>1, <3>2
  <2> QED
    BY <1>2, <2>1 DEF DInv, Ledger, GatewayOK
<1> QED
  BY <1>1, <1>7, <1>10, <1>12, <1>13 DEF DInv, Ledger

\* An ACK, and the ends of waiting for an ACK or a result: the queue and the
\* frames stay, and a command that loses its holder is acknowledged or answered.
LEMMA CloseStep ==
  ASSUME DInv, NEW c \in Commands, ReceiveAck(c) \/ GiveUp(c) \/ ExpireOutcome(c)
  PROVE  DInv'
<1> GatewayOK /\ QueueOK /\ \A d \in Commands : Traced(d)
  BY Given
<1>1. IInv' /\ recorded \subseteq recorded' /\ ran' = ran
  <2>1. [DNext]_deliveryVars
    BY DEF DNext
  <2> QED
    BY <2>1, ControllerFacts
       DEF ReceiveAck, GiveUp, ExpireOutcome, actuationVars, actuator
<1>2. /\ UNCHANGED <<decided, queue, connected, owner, frames, gatewayCrashes>>
      /\ acks' \in SUBSET Commands
  BY DEF ReceiveAck, GiveUp, ExpireOutcome, GatewayOK
<1>3. NotTracked \in 0..NotTracked
  BY Given
<1>4. tracker' = tracker \/ tracker' = [tracker EXCEPT ![c] = NotTracked]
  BY DEF ReceiveAck, GiveUp, ExpireOutcome
<1>5. \A d \in Commands : NeverSent(d)' <=> NeverSent(d)
  <2>1. CASE ReceiveAck(c)
    BY <2>1 DEF ReceiveAck, NeverSent
  <2>2. CASE GiveUp(c)
    BY <2>2, ReportFacts DEF GiveUp, NeverSent
  <2>3. CASE ExpireOutcome(c)
    BY <2>3, ReportFacts DEF ExpireOutcome, NeverSent
  <2> QED
    BY <2>1, <2>2, <2>3
<1>6. reports' \in SUBSET Reports /\ \A d \in Commands : Answered(d) => Answered(d)'
  <2>1. CASE ReceiveAck(c)
    BY <1>1, <2>1 DEF ReceiveAck, Answered, GatewayOK
  <2>2. CASE GiveUp(c) \/ ExpireOutcome(c)
    BY <1>1, <2>2, ReportAdds DEF GiveUp, ExpireOutcome, GatewayOK
  <2> QED
    BY <2>1, <2>2
<1>7. /\ outcomes' \in [Commands -> {"NONE", "SENT", "ACKED"}]
      /\ \A d \in Commands \ {c} : outcomes'[d] = outcomes[d]
  BY DEF ReceiveAck, GiveUp, ExpireOutcome, GatewayOK
<1>8. GatewayOK'
  BY <1>2, <1>3, <1>4, <1>6, <1>7 DEF GatewayOK
<1>9. QueueOK'
  BY <1>2, <1>4, <1>5, Given DEF QueueOK, GatewayOK, NeverSent
<1>10. \/ Answered(c)'
       \/ tracker'[c] = tracker[c] /\ outcomes'[c] = outcomes[c]
       \/ tracker'[c] = NotTracked /\ outcomes'[c] = "ACKED"
  <2>1. CASE ReceiveAck(c)
    <3>1. CASE tracker[c] = NotTracked
      BY <2>1, <3>1 DEF ReceiveAck
    <3>2. CASE tracker[c] # NotTracked
      BY <1>6, <2>1, <3>2 DEF ReceiveAck, Traced, GatewayOK
    <3> QED
      BY <3>1, <3>2
  <2>2. CASE GiveUp(c) \/ ExpireOutcome(c)
    BY <1>1, <2>2, ReportAdds DEF GiveUp, ExpireOutcome, GatewayOK
  <2> QED
    BY <2>1, <2>2
<1>11. ASSUME NEW d \in Commands PROVE Traced(d)'
  <2>1. CASE d # c
    BY <1>1, <1>2, <1>4, <1>5, <1>6, <1>7, <2>1 DEF Traced, GatewayOK
  <2>2. CASE d = c
    BY <1>1, <1>2, <1>4, <1>5, <1>6, <1>10, <2>2 DEF Traced, GatewayOK
  <2> QED
    BY <2>1, <2>2
<1>12. gatewayCrashes' = 0 => \A d \in decided' : Held(d)'
  <2>1. ASSUME NEW d \in Commands, Held(d) PROVE Held(d)'
    <3>1. CASE d # c
      BY <1>2, <1>4, <1>6, <1>7, <2>1, <3>1 DEF Held, GatewayOK
    <3>2. CASE d = c
      BY <1>2, <1>6, <1>10, <2>1, <3>2 DEF Held
    <3> QED
      BY <3>1, <3>2
  <2> QED
    BY <1>2, <2>1 DEF DInv, Ledger, GatewayOK
<1> QED
  BY <1>1, <1>8, <1>9, <1>11, <1>12 DEF DInv, Ledger

\* A retry is queued behind what is there, or reported as UNKNOWN: it may have
\* been sent before.
LEMMA RetryStep ==
  ASSUME DInv, NEW c \in Commands, Retry(c)
  PROVE  DInv'
<1> GatewayOK /\ QueueOK /\ \A d \in Commands : Traced(d)
  BY Given
<1>1. IInv' /\ recorded \subseteq recorded' /\ ran' = ran
  <2>1. [DNext]_deliveryVars
    BY DEF DNext
  <2> QED
    BY <2>1, ControllerFacts DEF Retry, actuationVars, actuator
<1>2. UNCHANGED <<decided, connected, owner, frames, acks, gatewayCrashes>>
  BY DEF Retry
<1>3. tracker[c] # NotTracked /\ tracker[c] < MaxRetries /\ tracker[c] \in Nat
  BY Given DEF Retry
<1>4. c \in decided /\ ~NeverSent(c)
  BY <1>3 DEF Traced
<1>5. ASSUME NEW i \in 1..Len(queue), ~queue[i][2] PROVE queue[i][1] # c
  BY <1>3, <1>5 DEF QueueOK
<1>6. tracker[c] + 1 \in 0..NotTracked /\ tracker[c] + 1 # NotTracked
      /\ NotTracked \in 0..NotTracked
  BY <1>3, Given
<1>7. CASE Len(queue) < QueueCapacity
  <2>1. /\ queue' = Append(queue, <<c, TRUE>>) /\ UNCHANGED <<reports, outcomes>>
        /\ tracker' = [tracker EXCEPT ![c] = tracker[c] + 1]
    BY <1>7 DEF Retry, QueueCommand
  <2>2. /\ queue' \in Seq(Commands \X BOOLEAN)
        /\ Len(queue) \in Nat
        /\ Len(queue') = Len(queue) + 1 /\ Len(queue') <= QueueCapacity
        /\ \A i \in 1..Len(queue) : queue'[i] = queue[i]
        /\ queue'[Len(queue) + 1] = <<c, TRUE>>
    BY <1>7, <2>1, Appended DEF GatewayOK
  <2>3. GatewayOK'
    BY <1>2, <1>6, <2>1, <2>2 DEF GatewayOK
  <2>4. \A d : (NeverSent(d)' <=> NeverSent(d)) /\ (Answered(d) => Answered(d)')
    BY <1>1, <2>1 DEF NeverSent, Answered
  <2>5. QueueOK'
    <3> SUFFICES ASSUME NEW i \in 1..Len(queue')
                 PROVE  /\ queue'[i][1] \in decided'
                        /\ Report(queue'[i][1], "NOT_DISPATCHED") \notin reports'
                        /\ ~queue'[i][2] =>
                             /\ queue'[i][1] \notin frames'
                             /\ tracker'[queue'[i][1]] = NotTracked
                             /\ \A j \in 1..Len(queue') :
                                  queue'[j][1] = queue'[i][1] => j = i
      BY DEF QueueOK, NeverSent
    <3>1. CASE i = Len(queue) + 1
      BY <1>2, <1>4, <2>1, <2>2, <3>1 DEF NeverSent
    <3>2. CASE i # Len(queue) + 1
      <4>1. i \in 1..Len(queue) /\ queue'[i] = queue[i]
        BY <2>2, <3>2
      <4>2. queue[i][1] \in decided' /\ Report(queue[i][1], "NOT_DISPATCHED") \notin reports'
        BY <1>2, <2>1, <4>1 DEF QueueOK, NeverSent
      <4>3. ASSUME ~queue[i][2]
            PROVE  /\ queue[i][1] \notin frames' /\ tracker'[queue[i][1]] = NotTracked
                   /\ \A j \in 1..Len(queue') : queue'[j][1] = queue[i][1] => j = i
        <5>1. queue[i][1] # c /\ queue[i][1] \in Commands
          BY <1>5, <4>1, <4>3, Given
        <5>2. queue[i][1] \notin frames' /\ tracker'[queue[i][1]] = NotTracked
          BY <1>2, <2>1, <4>1, <4>3, <5>1 DEF QueueOK, GatewayOK
        <5>3. ASSUME NEW j \in 1..Len(queue'), queue'[j][1] = queue[i][1] PROVE j = i
          <6>1. j # Len(queue) + 1
            BY <2>2, <5>1, <5>3
          <6>2. j \in 1..Len(queue) /\ queue'[j] = queue[j]
            BY <2>2, <6>1
          <6> QED
            BY <4>1, <4>3, <5>3, <6>2 DEF QueueOK
        <5> QED
          BY <5>2, <5>3
      <4> QED
        BY <4>1, <4>2, <4>3
    <3> QED
      BY <3>1, <3>2
  <2>6. \A d \in Commands : Traced(d)'
    BY <1>1, <1>2, <1>3, <1>4, <2>1, <2>4 DEF Traced, GatewayOK
  <2>7. gatewayCrashes' = 0 => \A d \in decided' : Held(d)'
    <3>1. ASSUME NEW d \in Commands, Held(d) PROVE Held(d)'
      <4>1. CASE d = c
        BY <1>6, <2>1, <4>1 DEF Held, GatewayOK
      <4>2. CASE \E i \in 1..Len(queue) : queue[i] = <<d, FALSE>>
        <5>1. PICK i \in 1..Len(queue) : queue[i] = <<d, FALSE>>
          BY <4>2
        <5>2. i \in 1..Len(queue')
          BY <2>2
        <5>3. queue'[i] = queue[i]
          BY <2>2
        <5> QED
          BY <5>1, <5>2, <5>3 DEF Held
      <4>3. CASE d # c /\ (Answered(d) \/ tracker[d] # NotTracked \/ outcomes[d] = "ACKED")
        BY <2>1, <2>4, <4>3 DEF Held, GatewayOK
      <4> QED
        BY <3>1, <4>1, <4>2, <4>3 DEF Held
    <3> QED
      BY <1>2, <3>1 DEF DInv, Ledger, GatewayOK
  <2> QED
    BY <1>1, <2>3, <2>5, <2>6, <2>7 DEF DInv, Ledger
<1>8. CASE ~(Len(queue) < QueueCapacity)
  <2>1. /\ queue' = queue /\ reports' = reports \cup {Report(c, "UNKNOWN")}
        /\ outcomes' = [outcomes EXCEPT ![c] = "NONE"]
        /\ tracker' = [tracker EXCEPT ![c] = NotTracked]
    BY <1>8 DEF Retry, QueueCommand, ReportUndispatched, Undispatched
  <2>2. /\ reports' \in SUBSET Reports
        /\ \A d \in Commands : NeverSent(d)' <=> NeverSent(d)
        /\ \A d \in Commands : Answered(d) => Answered(d)'
        /\ Answered(c)'
    BY <1>1, <2>1, ReportAdds DEF GatewayOK
  <2>3. GatewayOK'
    BY <1>2, <1>6, <2>1, <2>2 DEF GatewayOK
  <2>4. QueueOK'
    BY <1>2, <2>1, <2>2, Given DEF QueueOK, GatewayOK, NeverSent
  <2>5. \A d \in Commands : Traced(d)'
    BY <1>1, <1>2, <2>1, <2>2 DEF Traced, GatewayOK
  <2>6. gatewayCrashes' = 0 => \A d \in decided' : Held(d)'
    BY <1>2, <2>1, <2>2 DEF DInv, Ledger, Held, GatewayOK
  <2> QED
    BY <1>1, <2>3, <2>4, <2>5, <2>6 DEF DInv, Ledger
<1> QED
  BY <1>7, <1>8

\* A restarted gateway holds nothing.
LEMMA GatewayCrashStep ==
  ASSUME DInv, GatewayCrash
  PROVE  DInv'
<1> GatewayOK /\ \A d \in Commands : Traced(d)
  BY Given
<1>1. IInv' /\ ran' = ran
  <2>1. [DNext]_deliveryVars
    BY DEF DNext
  <2> QED
    BY <2>1, ControllerFacts DEF GatewayCrash, actuationVars, actuator
<1>2. /\ queue' = <<>> /\ tracker' = [d \in Commands |-> NotTracked]
      /\ outcomes' = [d \in Commands |-> "NONE"] /\ connected' = FALSE
      /\ gatewayCrashes' = gatewayCrashes + 1
      /\ UNCHANGED <<decided, owner, frames, acks, reports>>
  BY DEF GatewayCrash
<1>3. GatewayOK'
  <2>1. NotTracked \in 0..NotTracked /\ Len(<<>>) <= QueueCapacity
    BY Given, DeliveryAssumption
  <2>2. queue' \in Seq(Commands \X BOOLEAN) /\ Len(queue') <= QueueCapacity
    BY <1>2, <2>1
  <2>3. tracker' \in [Commands -> 0..NotTracked]
    BY <1>2, <2>1
  <2>4. outcomes' \in [Commands -> {"NONE", "SENT", "ACKED"}]
    BY <1>2
  <2>5. connected' \in BOOLEAN
    BY <1>2
  <2>6. owner' \in BOOLEAN /\ gatewayCrashes' \in Nat
    BY <1>2 DEF GatewayOK
  <2> QED
    BY <1>2, <2>2, <2>3, <2>4, <2>5, <2>6 DEF GatewayOK
<1>4. QueueOK'
  BY <1>2 DEF QueueOK
<1>5. \A d \in Commands : Traced(d)'
  BY <1>1, <1>2 DEF Traced, NeverSent
<1>6. gatewayCrashes' # 0
  BY <1>2 DEF GatewayOK
<1> QED
  BY <1>1, <1>3, <1>4, <1>5, <1>6 DEF DInv, Ledger

LEMMA DInvStep == DInv /\ [DNext]_deliveryVars => DInv'
<1> SUFFICES ASSUME DInv, [DNext]_deliveryVars PROVE DInv'
  OBVIOUS
<1> GatewayOK
  BY Given
<1>1. ASSUME NEW c \in Commands,
             Decide(c) \/ ReceiveAck(c) \/ Retry(c) \/ GiveUp(c) \/ ExpireOutcome(c)
      PROVE  DInv'
  BY <1>1, DecideStep, CloseStep, RetryStep
<1>2. CASE DispatchRefused \/ Dispatch \/ GatewayCrash
  BY <1>2, DispatchRefusedStep, DispatchStep, GatewayCrashStep
<1>3. CASE \E c \in Commands : ReceiveCommand(c)
  BY <1>3, QuietDeliveryStep DEF ReceiveCommand, GatewayOK
<1>4. CASE \E r \in Results : ReceiveResult(r)
  <2>1. PICK r \in Results : ReceiveResult(r)
    BY <1>4
  <2>2. r.cmd \in Commands /\ Answered(r.cmd)'
    BY <2>1 DEF ReceiveResult, Record, Answered, Results
  <2>3. /\ outcomes' \in [Commands -> {"NONE", "SENT", "ACKED"}]
        /\ \A c \in Commands : outcomes'[c] = outcomes[c] \/ Answered(c)'
    BY <2>1, <2>2 DEF ReceiveResult, GatewayOK
  <2> QED
    BY <2>1, <2>3, QuietDeliveryStep DEF ReceiveResult, GatewayOK
<1>5. CASE ControllerStep \/ Overtaken \/ ControllerReboot \/ Connect \/ LoseOwnership
           \/ UNCHANGED deliveryVars
  <2>1. /\ UNCHANGED <<decided, queue, tracker, outcomes, frames, acks, reports,
                       gatewayCrashes>>
        /\ {connected', owner'} \subseteq BOOLEAN
    BY <1>5 DEF ControllerStep, Overtaken, ControllerReboot, Connect, LoseOwnership,
                deliveryVars, gatewayVars, GatewayOK
  <2> QED
    BY <2>1, QuietDeliveryStep DEF GatewayOK
<1> QED
  BY <1>1, <1>2, <1>3, <1>4, <1>5 DEF DNext

\* The invariant holds for ever.
LEMMA DInvAlways == DSpec => []DInv
BY DInvInit, DInvStep, PTL DEF DSpec

-----------------------------------------------------------------------------
(* The theorems. *)

\* Every variable of the gateway and the controller keeps its type, and the
\* command queue its bound.
THEOREM DeliveryTypeCorrect == DSpec => []DTypeOK
<1>1. DInv => DTypeOK
  BY DEF DInv, IInv, GatewayOK, DTypeOK
<1> QED
  BY <1>1, DInvAlways, PTL

\* A command reported as NOT_DISPATCHED was never sent, is not executed and waits
\* nowhere (_report_undispatched).
THEOREM NotDispatchedIsFinal == DSpec => []NotDispatchedNeverSent
<1>1. DInv => NotDispatchedNeverSent
  <2> SUFFICES ASSUME DInv, NEW c \in Commands, NeverSent(c)
               PROVE  c \notin frames /\ ran[c] = 0 /\ \A i \in DOMAIN queue : queue[i][1] # c
    BY DEF NotDispatchedNeverSent, NeverSent
  <2>1. c \notin frames /\ ran[c] \in Nat /\ Traced(c) /\ QueueOK /\ GatewayOK
    BY Given DEF Traced
  <2>2. ran[c] = 0
    BY <2>1 DEF Traced
  <2>3. DOMAIN queue = 1..Len(queue)
    BY <2>1 DEF GatewayOK
  <2> QED
    BY <2>1, <2>2, <2>3 DEF QueueOK
<1> QED
  BY <1>1, DInvAlways, PTL

\* While the gateway process lives, something in it holds every command that is
\* decided and not answered (_queue_command, task_retry).
THEOREM CommandsAreNotLost == DSpec => []NoCommandIsLost
<1>1. DInv => NoCommandIsLost
  <2> SUFFICES ASSUME DInv PROVE NoCommandIsLost
    OBVIOUS
  <2>1. DOMAIN queue = 1..Len(queue)
    BY DEF DInv, GatewayOK
  <2> QED
    BY <2>1 DEF DInv, Ledger, Held, NoCommandIsLost
<1> QED
  BY <1>1, DInvAlways, PTL

-----------------------------------------------------------------------------
(* The controller within the delivery. *)

\* To the controller every step of the delivery is one of its own, or none.
LEMMA ActuationStep ==
  ASSUME GatewayOK, [DNext]_deliveryVars
  PROVE  [Next]_actuationVars
<1>1. CASE UNCHANGED deliveryVars
  BY <1>1 DEF deliveryVars
<1>2. ASSUME NEW c \in Commands,
             Decide(c) \/ ReceiveAck(c) \/ Retry(c) \/ GiveUp(c) \/ ExpireOutcome(c)
      PROVE  UNCHANGED actuationVars
  BY <1>2 DEF Decide, ReceiveAck, Retry, GiveUp, ExpireOutcome
<1>3. CASE DispatchRefused \/ Dispatch \/ Connect \/ LoseOwnership \/ GatewayCrash
  BY <1>3 DEF DispatchRefused, Dispatch, Connect, LoseOwnership, GatewayCrash
<1>4. ASSUME NEW c \in Commands, ReceiveCommand(c)
      PROVE  Next
  BY <1>4 DEF ReceiveCommand, Next
<1>5. ASSUME NEW r \in Results, ReceiveResult(r)
      PROVE  Next
  BY <1>5 DEF ReceiveResult, Next
<1>6. CASE ControllerStep
  BY <1>6 DEF ControllerStep, Next, GatewayOK
<1>7. CASE Overtaken \/ ControllerReboot
  BY <1>7 DEF Overtaken, ControllerReboot, Next
<1> QED
  BY <1>1, <1>2, <1>3, <1>4, <1>5, <1>6, <1>7 DEF DNext

\* CommandDelivery implements Actuation: under retries, duplicates, lost ACKs
\* and crashes of the gateway the controller takes no step it could not take by
\* itself (gateway.py task_retry and _dispatch_command; _process_command).
THEOREM DeliveryImplementsActuation == DSpec => Spec
<1>1. DInit => Init
  BY DEF DInit
<1>2. DInv => GatewayOK
  BY DEF DInv
<1> QED
  BY <1>1, <1>2, DInvAlways, ActuationStep, PTL DEF DSpec, Spec

\* So what a controller promises by itself it keeps for its gateway: one
\* execution and one outcome, a record of it, a rested actuator, a window that
\* fits.
THEOREM DeliveryKeepsControllerSafe ==
  DSpec => ExecutesOnce /\ ActuatorRests /\ []ExecutionIsOnRecord /\ []WindowIsBounded
BY DeliveryImplementsActuation, ControllerExecutesOnce, ActuatorsRest, ExecutionsAreOnRecord,
   WindowStaysBounded

\* An actuator that has moved for a command has moved for it.
LEMMA RanKept ==
  ASSUME OnceStep, NEW c \in Commands, ran[c] > 0, ran \in [Commands -> Nat]
  PROVE  ran'[c] > 0
<1>1. ASSUME NEW d \in Commands, Once!Execute(d) PROVE ran'[c] > 0
  BY <1>1 DEF Once!Execute
<1>2. ASSUME NEW d \in Commands, NEW o, Once!Report(d, o) PROVE ran'[c] > 0
  BY <1>2 DEF Once!Report
<1> QED
  BY <1>1, <1>2 DEF OnceStep, Once!Next, Once!ReportInterrupted, Once!onceVars

\* NOT_DISPATCHED is the truth for ever: a command so reported is never sent or
\* executed later, and a command that has been executed is never so reported
\* later, by a retry, a refusal or a late queue entry (_report_undispatched).
THEOREM NotDispatchedForEver ==
  ASSUME NEW c \in Commands
  PROVE  DSpec => /\ [](NeverSent(c) => [](c \notin frames /\ ran[c] = 0))
                  /\ [](ran[c] > 0 => []~NeverSent(c))
<1> DEFINE Untouched == c \notin frames /\ ran[c] = 0
           Executed == ran[c] > 0
<1>1. DInv => (NeverSent(c) => Untouched) /\ (Executed => ~NeverSent(c))
  <2> SUFFICES ASSUME DInv, NeverSent(c) PROVE Untouched /\ ~Executed
    OBVIOUS
  <2>1. ran[c] \in Nat /\ Traced(c)
    BY Given
  <2> QED
    BY <2>1 DEF Traced
<1>2. NeverSent(c) /\ [DNext]_deliveryVars => NeverSent(c)'
  <2> SUFFICES ASSUME [DNext]_deliveryVars PROVE reports \subseteq reports'
    BY DEF NeverSent
  <2>1. ASSUME NEW d \in Commands,
               Decide(d) \/ ReceiveAck(d) \/ Retry(d) \/ GiveUp(d) \/ ExpireOutcome(d)
                 \/ ReceiveCommand(d)
        PROVE  reports \subseteq reports'
    BY <2>1 DEF Decide, ReceiveAck, Retry, GiveUp, ExpireOutcome, ReceiveCommand,
                QueueCommand, ReportUndispatched
  <2>2. CASE DispatchRefused \/ Dispatch
    BY <2>2 DEF DispatchRefused, Dispatch, ReportUndispatched
  <2>3. CASE (\E r \in Results : ReceiveResult(r)) \/ ControllerStep \/ Overtaken
               \/ ControllerReboot
    BY <2>3 DEF ReceiveResult, ControllerStep, Overtaken, ControllerReboot, gatewayVars
  <2>4. CASE Connect \/ LoseOwnership \/ GatewayCrash \/ UNCHANGED deliveryVars
    BY <2>4 DEF Connect, LoseOwnership, GatewayCrash, deliveryVars, gatewayVars
  <2> QED
    BY <2>1, <2>2, <2>3, <2>4 DEF DNext
<1>3. DInv /\ Executed /\ [DNext]_deliveryVars => Executed'
  BY IInvStep, ActuationStep, RanKept DEF DInv, IInv, TypeOK
<1> HIDE DEF Untouched, Executed
<1>4. DSpec => /\ [](NeverSent(c) => []Untouched)
               /\ [](Executed => []~NeverSent(c))
  BY <1>1, <1>2, <1>3, DInvAlways, PTL DEF DSpec
<1> QED
  BY <1>4 DEF Untouched, Executed
=============================================================================
