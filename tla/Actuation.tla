------------------------------ MODULE Actuation ------------------------------
(***************************************************************************)
(* How a controller decides on a command, executes it, remembers it and    *)
(* reports its outcome: the SafetyGuard, the RecentCommandStore and the    *)
(* result delivery of ControllerNode, with crashes at every await and      *)
(* failing checkpoints.                                                    *)
(*                                                                         *)
(* Sources: controller_node/recent_commands.py, safety_guard.py (identity, *)
(* TTL, cooldown), controller_node.py (_process_command, recovery, result  *)
(* receipts).  The commands are those of one owner, well formed and of one *)
(* actuator; superseded stands for a newer epoch of Failover.              *)
(*                                                                         *)
(* Every operation of the store saves a copy and assigns its memory only   *)
(* when the write succeeded, so memory and checkpoint are one variable.    *)
(* Rejections of one command for different reasons are one result.         *)
(***************************************************************************)
EXTENDS Naturals, FiniteSets

CONSTANTS
  Commands,    \* command identifiers
  NoCommand,   \* the actuator rests
  Capacity,    \* recent_command_capacity, of rows and of pending results
  MaxReboots,  \* bound: controller restarts
  MaxFaults    \* bound: handlers that meet a failing disk

ASSUME ActuationAssumption ==
  /\ IsFiniteSet(Commands)
  /\ NoCommand \notin Commands
  /\ Capacity \in Nat \ {0}
  /\ MaxReboots \in Nat
  /\ MaxFaults \in Nat

VARIABLES
  rows,        \* rows[c]: the recent command entry of c
  pending,     \* pending_results
  recorded,    \* results a gateway has stored durably and acknowledged
  loaded,      \* the recent command store could be loaded
  fault,       \* persistence_fault
  seen,        \* executed_command_ids
  cooling,     \* the cooldown since last_executed has not passed
  running,     \* the command whose execution the handler awaits
  expired,     \* commands older than command_ttl
  superseded,  \* current_generation is above that of the commands
  warm,        \* the actuator moved less than a cooldown ago (physics)
  ran,         \* ran[c]: how often the actuator moved for c (history)
  reboots,     \* restarts so far
  faults       \* handlers so far that met a failing disk

store == <<rows, pending>>
clock == <<expired, superseded>>
actuator == <<running, warm, ran>>
actuationVars ==
  <<store, recorded, loaded, fault, seen, cooling, actuator, clock, reboots, faults>>

Result(c, s) == [cmd |-> c, status |-> s]
Results == [cmd : Commands, status : {"EXECUTED", "REJECTED", "UNKNOWN"}]

Init ==
  /\ rows = [c \in Commands |-> "NONE"]
  /\ pending = {}
  /\ recorded = {}
  /\ loaded = TRUE
  /\ fault = FALSE
  /\ seen = {}
  /\ cooling = FALSE
  /\ running = NoCommand
  /\ expired = {}
  /\ superseded = FALSE
  /\ warm = FALSE
  /\ ran = [c \in Commands |-> 0]
  /\ reboots = 0
  /\ faults = 0

-----------------------------------------------------------------------------
(* The store. *)

\* A handler may meet a failing disk: fails is the set of its saves that fail.
Meets(fails) ==
  /\ fails = {} \/ faults < MaxFaults
  /\ faults' = IF fails = {} THEN faults ELSE faults + 1

Occupied == {c \in Commands : rows[c] # "NONE"}
Unconfirmed(c) == \E r \in pending : r.cmd = c

\* Mutant of Evictable: a confirmed result is enough.
EvictableOnceConfirmed(c) == rows[c] = "COMPLETED" /\ ~Unconfirmed(c)

\* _trim: only a completed, confirmed command that could not be accepted again.
Evictable(c) == rows[c] = "COMPLETED" /\ ~Unconfirmed(c) /\ c \in expired

\* Mutant of Room: off by one.
RoomOffByOne(r) == r \in pending \/ Cardinality(pending) <= Capacity

\* Room for one more result (_with_result).
Room(r) == r \in pending \/ Cardinality(pending) < Capacity

\* queue_result of an answer; broken says that an earlier save of the same
\* handler failed.  Without a store the answer is sent but not kept.
Answer(r, broken, saved) ==
  LET kept == loaded /\ Room(r)
  IN /\ pending' = IF kept /\ saved THEN pending \cup {r} ELSE pending
     /\ fault' = (fault \/ broken \/ (kept /\ ~saved))

-----------------------------------------------------------------------------
(* _process_command up to the execution. *)

\* Rejections of SafetyGuard.check that come before the duplicate check, and
\* the cooldown after it.
Refuse(c, fails) ==
  /\ running = NoCommand
  /\ \/ fault \/ superseded \/ c \in expired
     \/ c \notin seen /\ cooling
  /\ fails \subseteq {"RESULT"} /\ Meets(fails)
  /\ Answer(Result(c, "REJECTED"), FALSE, fails = {})
  /\ UNCHANGED <<rows, recorded, loaded, seen, cooling, actuator, clock, reboots>>

\* Mutant of Known: the answer only says that the command is a duplicate.
KnownDuplicate(c) == "DUPLICATE"

\* What is known of an admitted command.
Known(c) == IF rows[c] = "COMPLETED" THEN "EXECUTED" ELSE "UNKNOWN"

\* A repetition of an admitted command reports its outcome again.
Repeat(c, fails) ==
  /\ running = NoCommand
  /\ ~fault /\ ~superseded /\ c \notin expired /\ c \in seen
  /\ fails \subseteq {"RESULT"} /\ Meets(fails)
  /\ Answer(Result(c, Known(c)), FALSE, fails = {})
  /\ UNCHANGED <<rows, recorded, loaded, seen, cooling, actuator, clock, reboots>>

\* SafetyGuard.check passes.
Allowed(c) ==
  /\ running = NoCommand
  /\ ~fault /\ ~superseded /\ c \notin expired
  /\ c \notin seen /\ ~cooling

\* The epoch or the intent cannot be saved.
AdmitUnsaved(c, fails) ==
  /\ Allowed(c)
  /\ fails \subseteq {"INTENT", "RESULT"} /\ "INTENT" \in fails /\ Meets(fails)
  /\ Answer(Result(c, "REJECTED"), TRUE, "RESULT" \notin fails)
  /\ UNCHANGED <<rows, recorded, loaded, seen, cooling, actuator, clock, reboots>>

\* ResultBackpressure of begin: no result slot, or nothing to evict.
Backpressure(c, fails) ==
  /\ Allowed(c)
  /\ \/ Cardinality(pending) >= Capacity
     \/ Cardinality(Occupied) >= Capacity /\ ~\E d \in Commands : Evictable(d)
  /\ fails \subseteq {"RESULT"} /\ Meets(fails)
  /\ Answer(Result(c, "REJECTED"), FALSE, fails = {})
  /\ UNCHANGED <<rows, recorded, loaded, seen, cooling, actuator, clock, reboots>>

\* The row of the oldest command that may go, when the window is full.
Victims ==
  IF Cardinality(Occupied) < Capacity THEN {{}}
  ELSE {{d} : d \in {x \in Commands : Evictable(x)}}

\* begin saves the intent; then the actuator starts to move.
Start(c) ==
  /\ Allowed(c)
  /\ Cardinality(pending) < Capacity
  /\ \E victims \in Victims :
       /\ rows' = [d \in Commands |-> IF d = c THEN "INTENT"
                                      ELSE IF d \in victims THEN "NONE" ELSE rows[d]]
       /\ seen' = (seen \ victims) \cup {c}
  /\ running' = c
  /\ ran' = [ran EXCEPT ![c] = @ + 1]
  /\ warm' = TRUE
  /\ UNCHANGED <<pending, recorded, loaded, fault, cooling, clock, reboots, faults>>

Receive(c) ==
  \/ Start(c)
  \/ \E fails \in SUBSET {"INTENT", "RESULT"} :
       Refuse(c, fails) \/ Repeat(c, fails) \/ AdmitUnsaved(c, fails)
         \/ Backpressure(c, fails)

-----------------------------------------------------------------------------
(* The end of an execution, and its result. *)

\* The execution is over: commit, complete and queue_result.
Finish(fails) ==
  /\ running # NoCommand
  /\ fails \subseteq {"OUTCOME", "RESULT"} /\ Meets(fails)
  /\ running' = NoCommand
  /\ cooling' = TRUE
  /\ seen' = seen \cup {running}
  /\ LET done == Result(running, "EXECUTED")
     IN IF "OUTCOME" \notin fails /\ Room(done)
        THEN /\ rows' = [rows EXCEPT ![running] = "COMPLETED"]
             /\ pending' = pending \cup {done}
             /\ fault' = (fault \/ "RESULT" \in fails)
        ELSE /\ Answer(Result(running, "UNKNOWN"), TRUE, "RESULT" \notin fails)
             /\ UNCHANGED rows
  /\ UNCHANGED <<recorded, loaded, warm, ran, clock, reboots>>

\* A gateway stores a result that the controller (re)sends; a later copy
\* changes nothing there.
Record(r) ==
  /\ r \in pending \ recorded
  /\ recorded' = recorded \cup {r}
  /\ UNCHANGED <<store, loaded, fault, seen, cooling, actuator, clock, reboots, faults>>

\* Mutant of Confirmed: RESULT_RECEIVED already counts.
ConfirmedOnReceipt(r) == r \in pending

\* The result is confirmed by RESULT_DURABLY_STORED.
Confirmed(r) == r \in pending \cap recorded

\* _accept_result_ack; when the save fails the result stays.
AcceptResultAck(r) ==
  /\ loaded /\ Confirmed(r)
  /\ pending' = pending \ {r}
  /\ UNCHANGED <<rows, recorded, loaded, fault, seen, cooling, actuator, clock,
                 reboots, faults>>

-----------------------------------------------------------------------------
(* Time and restarts. *)

Expire(c) ==
  /\ c \notin expired
  /\ expired' = expired \cup {c}
  /\ UNCHANGED <<store, recorded, loaded, fault, seen, cooling, actuator, superseded,
                 reboots, faults>>

\* The controller adopts a newer epoch.
Supersede ==
  /\ ~superseded
  /\ superseded' = TRUE
  /\ UNCHANGED <<store, recorded, loaded, fault, seen, cooling, actuator, expired,
                 reboots, faults>>

\* A cooldown passes since the actuator stopped, and perhaps since the later
\* moment that last_executed holds.
CoolDown ==
  /\ running = NoCommand
  /\ warm \/ cooling
  /\ warm' = FALSE
  /\ cooling' \in {cooling, FALSE}
  /\ UNCHANGED <<store, recorded, loaded, fault, seen, running, ran, clock,
                 reboots, faults>>

\* Mutant of CoolingAtBoot: last_executed starts empty.
CoolingForgotten(fails) == FALSE

\* A restart waits for a full cooldown.
CoolingAtBoot(fails) == "GUARD" \notin fails

\* The commands the guard knows after a restart.
IdsAtBoot(fails) == IF "RECENT" \in fails THEN {} ELSE Occupied

\* Mutant of Interrupted: unfinished commands are not looked at.
InterruptedForgotten == {}

\* The results that _recover_interrupted_results owes.
Interrupted ==
  {Result(c, "UNKNOWN") :
     c \in {x \in Commands : rows[x] = "INTENT" /\ ~Unconfirmed(x)}}

\* The process dies and starts again: __init__ and the recovery of results,
\* which stops at the first save that fails and when the results are full.
Reboot(fails) ==
  /\ reboots < MaxReboots
  /\ fails \subseteq {"GUARD", "RECENT", "RESULT"} /\ Meets(fails)
  /\ reboots' = reboots + 1
  /\ running' = NoCommand
  /\ loaded' = ("RECENT" \notin fails)
  /\ seen' = IdsAtBoot(fails)
  /\ cooling' = CoolingAtBoot(fails)
  /\ \E filed \in SUBSET Interrupted :
       /\ Cardinality(pending \cup filed) <= Capacity
       /\ filed = Interrupted => "RESULT" \notin fails
       /\ filed # Interrupted => \/ {"RECENT", "RESULT"} \cap fails # {}
                                \/ Cardinality(pending \cup filed) = Capacity
       /\ "RECENT" \in fails => filed = {}
       /\ pending' = pending \cup filed
       /\ fault' = ({"GUARD", "RECENT"} \cap fails # {} \/ filed # Interrupted)
  /\ UNCHANGED <<rows, recorded, warm, ran, clock>>

-----------------------------------------------------------------------------

Next ==
  \/ \E c \in Commands : Receive(c) \/ Expire(c)
  \/ \E fails \in SUBSET {"OUTCOME", "RESULT"} : Finish(fails)
  \/ \E r \in Results : Record(r) \/ AcceptResultAck(r)
  \/ Supersede
  \/ CoolDown
  \/ \E fails \in SUBSET {"GUARD", "RECENT", "RESULT"} : Reboot(fails)

Spec == Init /\ [][Next]_actuationVars

-----------------------------------------------------------------------------
(* Properties. *)

TypeOK ==
  /\ rows \in [Commands -> {"NONE", "INTENT", "COMPLETED"}]
  /\ pending \in SUBSET Results
  /\ recorded \in SUBSET Results
  /\ seen \in SUBSET Commands
  /\ running \in Commands \cup {NoCommand}
  /\ expired \in SUBSET Commands
  /\ {loaded, fault, cooling, superseded, warm} \subseteq BOOLEAN
  /\ ran \in [Commands -> Nat]
  /\ reboots \in Nat
  /\ faults \in Nat

\* What the controller or a gateway durably holds about executions.
Verdicts(c) ==
  {s \in {"EXECUTED", "UNKNOWN"} : Result(c, s) \in pending \cup recorded}

\* "A retried command must never run the actuator twice", and the reports of
\* an execution agree for ever: through repetitions, evictions, failing saves
\* and a crash before, during or after the execution (recent_commands.py).
Once == INSTANCE ExecuteOnce WITH verdict <- [c \in Commands |-> Verdicts(c)]
ExecutesOnce == Once!Spec

\* An execution is never forgotten before somebody holds its outcome: there is
\* an intent to report from, a pending result, or a result stored by a gateway
\* (complete, acknowledge_result, _trim, _recover_interrupted_results).
ExecutionIsOnRecord ==
  \A c \in Commands :
    ran[c] > 0 => rows[c] = "INTENT" \/ Verdicts(c) # {}

\* The actuator rests a full cooldown between two movements, even when the
\* process died in the middle of the first (safety_guard.py restart_cooldown).
ActuatorRests == [][ran' # ran => ~warm]_ran

\* The bounds of the window hold, and nothing is executed without room for its
\* result (begin "Reserve result capacity before permitting an execution").
WindowIsBounded ==
  /\ Cardinality(Occupied) <= Capacity
  /\ Cardinality(pending) <= Capacity
  /\ running # NoCommand =>
       rows[running] = "INTENT" /\ Room(Result(running, "EXECUTED"))

\* "A repeated delivery of an admitted command reports the durable original
\* outcome": no rejection is filed for a command that has been admitted.
RepeatReportsOriginal ==
  [][\A c \in Commands :
       rows[c] # "NONE" => Result(c, "REJECTED") \notin pending' \ pending]_pending

\* "An interrupted physical execution is UNKNOWN": a running controller that is
\* not faulted has reported every execution it did not complete as UNKNOWN.
InterruptedIsUnknown ==
  ~fault =>
    \A c \in Commands :
      rows[c] = "INTENT" /\ running # c => "UNKNOWN" \in Verdicts(c)
=============================================================================
