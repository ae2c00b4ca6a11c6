--------------------------- MODULE CommandDelivery ---------------------------
(***************************************************************************)
(* A gateway that decides on commands, sends and resends them to the       *)
(* controller of Actuation, and accounts for every one of them.            *)
(*                                                                         *)
(* Sources: common/reliability.py (AckTracker, CommandOutcomes) and the    *)
(* command tasks of gateway/gateway.py.                                    *)
(* A frame that was sent may arrive late, repeatedly or never: the         *)
(* connection may break under it and the gateway may duplicate it.         *)
(***************************************************************************)
EXTENDS Actuation, Sequences

CONSTANTS
  QueueCapacity,     \* of command_queue
  MaxRetries,        \* MAX_RETRIES
  MaxGatewayCrashes  \* bound: gateway restarts

ASSUME DeliveryAssumption ==
  QueueCapacity \in Nat \ {0} /\ MaxRetries \in Nat /\ MaxGatewayCrashes \in Nat

VARIABLES
  decided,    \* commands the edge decision has produced
  queue,      \* command_queue: <<command, is_retry>>
  tracker,    \* tracker[c]: its retries while an ACK is awaited, or NotTracked
  outcomes,   \* outcomes[c]: CommandOutcomes.pending, SENT or ACKED
  connected,  \* connections holds an open writer of the controller
  owner,      \* may_control(controller) at the epoch of the commands
  frames,     \* commands written to the socket
  acks,       \* ACKs written to the socket
  reports,    \* what the gateway has told the server of a command
  gatewayCrashes

gatewayVars ==
  <<decided, queue, tracker, outcomes, connected, owner, frames, acks, reports,
    gatewayCrashes>>
deliveryVars == <<actuationVars, gatewayVars>>

NotTracked == MaxRetries + 1
Report(c, s) == [cmd |-> c, status |-> s]
Reports == [cmd : Commands,
            status : {"NOT_DISPATCHED", "UNKNOWN", "DELIVERY_FAILED", "RESULT_UNKNOWN"}]

DInit ==
  /\ Init
  /\ decided = {}
  /\ queue = <<>>
  /\ tracker = [c \in Commands |-> NotTracked]
  /\ outcomes = [c \in Commands |-> "NONE"]
  /\ connected = TRUE
  /\ owner = TRUE
  /\ frames = {}
  /\ acks = {}
  /\ reports = {}
  /\ gatewayCrashes = 0

-----------------------------------------------------------------------------
(* The command queue. *)

\* Mutant of Undispatched: a refused retry was not dispatched either.
UndispatchedAlways(c, retry) == "NOT_DISPATCHED"

\* _report_undispatched: only a first attempt is known not to have been sent.
Undispatched(c, retry) == IF retry THEN "UNKNOWN" ELSE "NOT_DISPATCHED"

ReportUndispatched(c, retry) ==
  /\ reports' = reports \cup {Report(c, Undispatched(c, retry))}
  /\ outcomes' = [outcomes EXCEPT ![c] = "NONE"]

\* Mutants of QueueCommand: a full queue drops the command silently; off by one.
QueueCommandBeyond(c, retry) ==
  IF Len(queue) <= QueueCapacity
  THEN queue' = Append(queue, <<c, retry>>) /\ UNCHANGED <<reports, outcomes>>
  ELSE ReportUndispatched(c, retry) /\ UNCHANGED queue
QueueCommandOrDrop(c, retry) ==
  /\ queue' = IF Len(queue) < QueueCapacity THEN Append(queue, <<c, retry>>) ELSE queue
  /\ UNCHANGED <<reports, outcomes>>

\* _queue_command.
QueueCommand(c, retry) ==
  IF Len(queue) < QueueCapacity
  THEN queue' = Append(queue, <<c, retry>>) /\ UNCHANGED <<reports, outcomes>>
  ELSE ReportUndispatched(c, retry) /\ UNCHANGED queue

\* The edge decision asks for an action.
Decide(c) ==
  /\ owner /\ c \notin decided
  /\ decided' = decided \cup {c}
  /\ QueueCommand(c, FALSE)
  /\ UNCHANGED <<actuationVars, tracker, connected, owner, frames, acks, gatewayCrashes>>

\* _dispatch_command refuses: not the owner (or not at this epoch), expired, or
\* no connection.  Nothing is kept for later.
DispatchRefused ==
  /\ queue # <<>>
  /\ LET c == Head(queue)[1] IN
       /\ ~owner \/ c \in expired \/ ~connected
       /\ ReportUndispatched(c, Head(queue)[2])
       /\ tracker' = [tracker EXCEPT ![c] = NotTracked]
  /\ queue' = Tail(queue)
  /\ UNCHANGED <<actuationVars, decided, connected, owner, frames, acks, gatewayCrashes>>

\* _dispatch_command sends; the write may find the connection broken.
Dispatch ==
  /\ queue # <<>>
  /\ owner /\ connected
  /\ LET c == Head(queue)[1]
         retry == Head(queue)[2]
     IN /\ c \notin expired
        /\ tracker' = IF retry THEN tracker ELSE [tracker EXCEPT ![c] = 0]
        /\ outcomes' = IF retry THEN outcomes ELSE [outcomes EXCEPT ![c] = "SENT"]
        /\ \/ frames' = frames \cup {c} /\ UNCHANGED connected
           \/ connected' = FALSE /\ UNCHANGED frames
  /\ queue' = Tail(queue)
  /\ UNCHANGED <<actuationVars, decided, owner, acks, reports, gatewayCrashes>>

-----------------------------------------------------------------------------
(* Acknowledgements, retries and results. *)

\* Mutant of ReceiveAck: the outcome is not told of the ACK.
ReceiveAckOnly(c) ==
  /\ connected /\ c \in acks
  /\ acks' = acks \ {c}
  /\ tracker' = [tracker EXCEPT ![c] = NotTracked]
  /\ UNCHANGED <<actuationVars, decided, queue, outcomes, connected, owner, frames, reports,
                 gatewayCrashes>>

\* The ACK branch of _handle_client.
ReceiveAck(c) ==
  /\ connected /\ c \in acks
  /\ acks' = acks \ {c}
  /\ IF tracker[c] # NotTracked
     THEN /\ tracker' = [tracker EXCEPT ![c] = NotTracked]
          /\ outcomes' = [outcomes EXCEPT ![c] = IF @ = "SENT" THEN "ACKED" ELSE @]
     ELSE UNCHANGED <<tracker, outcomes>>
  /\ UNCHANGED <<actuationVars, decided, queue, connected, owner, frames, reports,
                 gatewayCrashes>>

\* task_retry: the ACK of c is overdue.
Retry(c) ==
  /\ tracker[c] < MaxRetries
  /\ QueueCommand(c, TRUE)
  /\ tracker' = [tracker EXCEPT ![c] =
                   IF Len(queue) < QueueCapacity THEN @ + 1 ELSE NotTracked]
  /\ UNCHANGED <<actuationVars, decided, connected, owner, frames, acks, gatewayCrashes>>

\* task_retry: the retries of c are used up.
GiveUp(c) ==
  /\ tracker[c] = MaxRetries
  /\ tracker' = [tracker EXCEPT ![c] = NotTracked]
  /\ outcomes' = [outcomes EXCEPT ![c] = "NONE"]
  /\ reports' = reports \cup {Report(c, "DELIVERY_FAILED")}
  /\ UNCHANGED <<actuationVars, decided, queue, connected, owner, frames, acks,
                 gatewayCrashes>>

\* CommandOutcomes.expire: acknowledged, but no result in time.
ExpireOutcome(c) ==
  /\ outcomes[c] = "ACKED"
  /\ outcomes' = [outcomes EXCEPT ![c] = "NONE"]
  /\ reports' = reports \cup {Report(c, "RESULT_UNKNOWN")}
  /\ UNCHANGED <<actuationVars, decided, queue, tracker, connected, owner, frames, acks,
                 gatewayCrashes>>

\* _process_control_result, here or, after a takeover, at the peer.
ReceiveResult(r) ==
  /\ Record(r)
  /\ \/ connected /\ outcomes' = [outcomes EXCEPT ![r.cmd] = "NONE"]
     \/ superseded /\ UNCHANGED outcomes
  /\ UNCHANGED <<decided, queue, tracker, connected, owner, frames, acks, reports,
                 gatewayCrashes>>

-----------------------------------------------------------------------------
(* The controller, its connection, and time. *)

\* The controller acknowledges a command before it looks at it.
ReceiveCommand(c) ==
  /\ c \in frames
  /\ Receive(c)
  /\ acks' = acks \cup {c}
  /\ UNCHANGED <<decided, queue, tracker, outcomes, connected, owner, frames, reports,
                 gatewayCrashes>>

\* The steps of the controller that the gateway does not see.
ControllerStep ==
  /\ \/ \E fails \in SUBSET {"OUTCOME", "RESULT"} : Finish(fails)
     \/ \E r \in Results : AcceptResultAck(r)
     \/ \E c \in decided : Expire(c)
     \/ CoolDown
  /\ UNCHANGED gatewayVars

\* The controller registers with the peer at a newer epoch.
Overtaken ==
  /\ Supersede
  /\ connected' = FALSE
  /\ UNCHANGED <<decided, queue, tracker, outcomes, owner, frames, acks, reports,
                 gatewayCrashes>>

ControllerReboot ==
  /\ \E fails \in SUBSET {"GUARD", "RECENT", "RESULT"} : Reboot(fails)
  /\ connected' = FALSE
  /\ UNCHANGED <<decided, queue, tracker, outcomes, owner, frames, acks, reports,
                 gatewayCrashes>>

Connect ==
  /\ ~connected /\ owner /\ ~superseded
  /\ connected' = TRUE
  /\ UNCHANGED <<actuationVars, decided, queue, tracker, outcomes, owner, frames, acks,
                 reports, gatewayCrashes>>

\* The gateway is deposed.
LoseOwnership ==
  /\ owner
  /\ owner' = FALSE
  /\ UNCHANGED <<actuationVars, decided, queue, tracker, outcomes, connected, frames, acks,
                 reports, gatewayCrashes>>

\* The gateway process restarts: it never resumes commands.
GatewayCrash ==
  /\ gatewayCrashes < MaxGatewayCrashes
  /\ gatewayCrashes' = gatewayCrashes + 1
  /\ queue' = <<>>
  /\ tracker' = [c \in Commands |-> NotTracked]
  /\ outcomes' = [c \in Commands |-> "NONE"]
  /\ connected' = FALSE
  /\ UNCHANGED <<actuationVars, decided, owner, frames, acks, reports>>

DNext ==
  \/ \E c \in Commands :
       Decide(c) \/ ReceiveAck(c) \/ Retry(c) \/ GiveUp(c) \/ ExpireOutcome(c)
         \/ ReceiveCommand(c)
  \/ DispatchRefused \/ Dispatch
  \/ \E r \in Results : ReceiveResult(r)
  \/ ControllerStep \/ Overtaken \/ ControllerReboot \/ Connect
  \/ LoseOwnership \/ GatewayCrash

DSpec == DInit /\ [][DNext]_deliveryVars

\* The tasks of the gateway run and its deadlines pass.
GatewayFairness ==
  /\ WF_deliveryVars(Dispatch \/ DispatchRefused)
  /\ \A c \in Commands : WF_deliveryVars(Retry(c) \/ GiveUp(c) \/ ExpireOutcome(c))

\* An execution ends, and a result that is resent for ever is stored once the
\* controller is connected again and again.
ControllerFairness ==
  /\ WF_deliveryVars(Finish({}) /\ UNCHANGED gatewayVars)
  /\ \A r \in Results : SF_deliveryVars(ReceiveResult(r))
  /\ WF_deliveryVars(Connect)

FairDSpec == DSpec /\ GatewayFairness /\ ControllerFairness

-----------------------------------------------------------------------------
(* Properties. *)

DTypeOK ==
  /\ TypeOK
  /\ decided \in SUBSET Commands
  /\ queue \in Seq(Commands \X BOOLEAN) /\ Len(queue) <= QueueCapacity
  /\ tracker \in [Commands -> 0..NotTracked]
  /\ outcomes \in [Commands -> {"NONE", "SENT", "ACKED"}]
  /\ {connected, owner} \subseteq BOOLEAN
  /\ frames \in SUBSET Commands
  /\ acks \in SUBSET Commands
  /\ reports \in SUBSET Reports
  /\ gatewayCrashes \in Nat

\* "Only an unsent first attempt is known NOT_DISPATCHED": such a command has
\* not been sent and never will be, so it is safe to decide anew
\* (gateway.py _report_undispatched).
NotDispatchedNeverSent ==
  \A c \in Commands :
    Report(c, "NOT_DISPATCHED") \in reports =>
      c \notin frames /\ ran[c] = 0 /\ \A i \in DOMAIN queue : queue[i][1] # c

\* While a command is neither answered nor accounted for, something in the
\* gateway still holds it: no ACK, retry, refusal or early result loses it.
Answered(c) ==
  (\E x \in reports : x.cmd = c) \/ \E r \in recorded : r.cmd = c

NoCommandIsLost ==
  gatewayCrashes = 0 =>
    \A c \in decided :
      \/ Answered(c)
      \/ \E i \in DOMAIN queue : queue[i] = <<c, FALSE>>
      \/ tracker[c] # NotTracked \/ outcomes[c] = "ACKED"

\* Every decision gets an answer, unless the gateway itself dies.
EveryDecisionIsAnswered ==
  \A c \in Commands :
    c \in decided ~> Answered(c) \/ gatewayCrashes > 0

\* An execution is not silent: crash or not, a gateway stores a result of the
\* command once the checkpoints of the controller work and a gateway serves it.
ExecutionIsReported ==
  <>[](~fault /\ (owner \/ superseded)) =>
    \A c \in Commands : ran[c] > 0 ~> \E r \in recorded : r.cmd = c
=============================================================================
