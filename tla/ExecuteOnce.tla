---------------------------- MODULE ExecuteOnce ----------------------------
(***************************************************************************)
(* What a controller promises about commands: it executes a command at     *)
(* most once, and its later reports about an execution name one outcome,   *)
(* for good.  Actuation implements this specification.                     *)
(***************************************************************************)
EXTENDS Naturals

CONSTANT Commands

VARIABLES
  ran,     \* ran[c]: how often the actuator has moved for c
  verdict  \* verdict[c]: the outcomes reported of the execution of c

onceVars == <<ran, verdict>>

Outcomes == {"EXECUTED", "UNKNOWN"}

TypeOK ==
  /\ ran \in [Commands -> 0..1]
  /\ verdict \in [Commands -> SUBSET Outcomes]

Init ==
  /\ ran = [c \in Commands |-> 0]
  /\ verdict = [c \in Commands |-> {}]

Execute(c) ==
  /\ ran[c] = 0 /\ verdict[c] = {}
  /\ ran' = [ran EXCEPT ![c] = 1]
  /\ UNCHANGED verdict

Report(c, outcome) ==
  /\ ran[c] = 1 /\ verdict[c] = {}
  /\ verdict' = [verdict EXCEPT ![c] = {outcome}]
  /\ UNCHANGED ran

\* A restart reports every interrupted execution at once.
ReportInterrupted ==
  /\ \A c \in Commands :
       verdict'[c] # verdict[c] =>
         ran[c] = 1 /\ verdict[c] = {} /\ verdict'[c] = {"UNKNOWN"}
  /\ verdict' \in [Commands -> SUBSET Outcomes]
  /\ UNCHANGED ran

Next ==
  \/ \E c \in Commands : Execute(c) \/ \E o \in Outcomes : Report(c, o)
  \/ ReportInterrupted

Spec == Init /\ [][Next]_onceVars
=============================================================================
