-------------------------- MODULE ActuationProofs --------------------------
(***************************************************************************)
(* The safety properties of Actuation for every set of commands, every     *)
(* capacity and all bounds, among them that a controller implements        *)
(* ExecuteOnce.                                                            *)
(***************************************************************************)
EXTENDS Actuation, FiniteSetTheorems, TLAPS

\* The window of recent commands and the pending results fit.
Fits ==
  /\ IsFiniteSet(pending)
  /\ Cardinality(pending) <= Capacity
  /\ Cardinality(Occupied) <= Capacity

\* The guard knows the commands of the window; without a store it is faulted.
Knows ==
  IF loaded THEN seen = Occupied ELSE seen = {} /\ fault

\* While a command is executed there is room for its result.
Executing ==
  running # NoCommand =>
    /\ loaded /\ warm
    /\ rows[running] = "INTENT"
    /\ Verdicts(running) = {}
    /\ Cardinality(pending) < Capacity

\* An actuator at rest that moved lately is protected by the cooldown or by the
\* fault.
Rested ==
  running = NoCommand /\ warm => cooling \/ fault

\* The four stages of a command: new, executing or interrupted, completed, and
\* evicted after it has expired.
Stage(c) ==
  \/ rows[c] = "NONE" /\ ran[c] = 0 /\ Verdicts(c) = {}
  \/ rows[c] = "INTENT" /\ ran[c] = 1 /\ Verdicts(c) \in {{}, {"UNKNOWN"}}
  \/ rows[c] = "COMPLETED" /\ ran[c] = 1 /\ Verdicts(c) = {"EXECUTED"}
  \/ rows[c] = "NONE" /\ ran[c] = 1 /\ Verdicts(c) = {"EXECUTED"} /\ c \in expired

\* The inductive invariant.
IInv ==
  /\ TypeOK
  /\ Fits
  /\ Knows
  /\ Executing
  /\ Rested
  /\ \A c \in Commands : Stage(c)

\* The abstract step: one of ExecuteOnce, or none.
OnceStep == [Once!Next]_(Once!onceVars)
-----------------------------------------------------------------------------
(* What the steps do to the reports. *)

\* Verdicts depend on the results that the controller and the gateways hold.
LEMMA VerdictsSame ==
  ASSUME pending' \cup recorded' = pending \cup recorded
  PROVE  \A d \in Commands : Verdicts(d)' = Verdicts(d)
BY DEF Verdicts

\* One more result adds at most its own verdict.
LEMMA VerdictsOfResult ==
  ASSUME NEW c \in Commands, NEW s \in {"EXECUTED", "REJECTED", "UNKNOWN"},
         pending' \cup recorded' = pending \cup recorded \cup {Result(c, s)}
  PROVE  \A d \in Commands :
           Verdicts(d)' = Verdicts(d) \cup (IF d = c /\ s # "REJECTED" THEN {s} ELSE {})
<1>1. \A d \in Commands : \A o \in {"EXECUTED", "UNKNOWN"} :
        Result(d, o) = Result(c, s) <=> d = c /\ o = s
  BY DEF Result
<1>2. ASSUME NEW d \in Commands, NEW o \in {"EXECUTED", "UNKNOWN"}
      PROVE  o \in Verdicts(d)' <=> o \in Verdicts(d) \/ (d = c /\ o = s)
  BY <1>1 DEF Verdicts, Result
<1>3. \A d \in Commands : /\ Verdicts(d) \subseteq {"EXECUTED", "UNKNOWN"}
                          /\ Verdicts(d)' \subseteq {"EXECUTED", "UNKNOWN"}
  BY DEF Verdicts
<1> QED
  BY <1>2, <1>3

\* A stage is left alone by a step that leaves what it speaks of alone.
LEMMA StageKept ==
  ASSUME NEW c \in Commands, Stage(c),
         rows'[c] = rows[c], ran'[c] = ran[c], Verdicts(c)' = Verdicts(c),
         expired \subseteq expired'
  PROVE  Stage(c)'
BY DEF Stage

\* A result that is added to fewer than Capacity fits.
LEMMA OneMoreFits ==
  ASSUME Fits, NEW r, Room(r)
  PROVE  /\ IsFiniteSet(pending \cup {r})
         /\ Cardinality(pending \cup {r}) <= Capacity
<1>1. IsFiniteSet(pending) /\ Cardinality(pending) \in Nat
  BY FS_CardinalityType DEF Fits
<1>2. /\ IsFiniteSet(pending \cup {r})
      /\ Cardinality(pending \cup {r}) =
           IF r \in pending THEN Cardinality(pending) ELSE Cardinality(pending) + 1
  BY <1>1, FS_AddElement
<1> QED
  BY <1>1, <1>2, ActuationAssumption DEF Fits, Room

\* Answer files the result or leaves the pending results alone.
LEMMA AnswerFacts ==
  ASSUME TypeOK, Fits, Knows,
         NEW c \in Commands, NEW s \in {"EXECUTED", "REJECTED", "UNKNOWN"},
         NEW broken \in BOOLEAN, NEW saved \in BOOLEAN,
         Answer(Result(c, s), broken, saved), recorded' = recorded
  PROVE  /\ pending' \in SUBSET Results
         /\ IsFiniteSet(pending') /\ Cardinality(pending') <= Capacity
         /\ fault' \in BOOLEAN /\ (fault => fault')
         /\ \/ \A d \in Commands : Verdicts(d)' = Verdicts(d)
            \/ \A d \in Commands : Verdicts(d)' =
                 Verdicts(d) \cup (IF d = c /\ s # "REJECTED" THEN {s} ELSE {})
<1>1. Result(c, s) \in Results
  BY DEF Result, Results
<1>2. fault' \in BOOLEAN /\ (fault => fault')
  BY DEF Answer, TypeOK
<1>3. CASE pending' = pending
  BY <1>2, <1>3, VerdictsSame DEF TypeOK, Fits
<1>4. CASE loaded /\ Room(Result(c, s)) /\ pending' = pending \cup {Result(c, s)}
  <2>1. pending' \cup recorded' = pending \cup recorded \cup {Result(c, s)}
    BY <1>4
  <2> QED
    BY <1>1, <1>2, <1>4, <2>1, OneMoreFits, VerdictsOfResult DEF TypeOK
<1> QED
  BY <1>3, <1>4 DEF Answer

-----------------------------------------------------------------------------
(* The steps. *)

LEMMA IInvInit == Init => IInv
<1> SUFFICES ASSUME Init PROVE IInv
  OBVIOUS
<1>1. TypeOK
  BY DEF Init, TypeOK
<1>2. Occupied = {}
  BY DEF Init, Occupied
<1>3. Fits
  BY <1>2, FS_EmptySet, ActuationAssumption DEF Init, Fits
<1>4. \A c \in Commands : Verdicts(c) = {}
  BY DEF Init, Verdicts
<1> QED
  BY <1>1, <1>2, <1>3, <1>4 DEF Init, IInv, Knows, Executing, Rested, Stage

\* A handler that answers a command without executing it: the answer is a
\* rejection, or what is known of an admitted command.
LEMMA AnswerStep ==
  ASSUME IInv, NEW c \in Commands, NEW s \in {"REJECTED", "EXECUTED", "UNKNOWN"},
         s = "REJECTED" \/ (rows[c] # "NONE" /\ s = Known(c)),
         NEW broken \in BOOLEAN, NEW saved \in BOOLEAN, NEW fails,
         running = NoCommand, Meets(fails),
         Answer(Result(c, s), broken, saved),
         UNCHANGED <<rows, recorded, loaded, seen, cooling, actuator, clock, reboots>>
  PROVE  IInv' /\ OnceStep
<1> USE DEF actuator, clock
<1>1. /\ pending' \in SUBSET Results
      /\ IsFiniteSet(pending') /\ Cardinality(pending') <= Capacity
      /\ fault' \in BOOLEAN /\ (fault => fault')
  BY AnswerFacts DEF IInv
<1>2. faults' \in Nat
  BY DEF IInv, TypeOK, Meets
<1>3. TypeOK'
  BY <1>1, <1>2 DEF IInv, TypeOK
<1>4. Occupied' = Occupied
  BY DEF Occupied
<1>5. Fits'
  BY <1>1, <1>4 DEF IInv, Fits
<1>6. Knows' /\ Executing' /\ Rested'
  BY <1>1, <1>4 DEF IInv, Knows, Executing, Rested
<1>7. \/ \A d \in Commands : Verdicts(d)' = Verdicts(d)
      \/ \A d \in Commands : Verdicts(d)' =
           Verdicts(d) \cup (IF d = c /\ s # "REJECTED" THEN {s} ELSE {})
  BY AnswerFacts DEF IInv
<1>8. Stage(c)
  BY DEF IInv
<1>9. CASE \A d \in Commands : Verdicts(d)' = Verdicts(d)
  <2>1. \A d \in Commands : Stage(d)'
    BY <1>9, StageKept DEF IInv
  <2>2. UNCHANGED Once!onceVars
    BY <1>9 DEF Once!onceVars
  <2> QED
    BY <1>3, <1>5, <1>6, <2>1, <2>2 DEF IInv, OnceStep
<1>10. CASE /\ s = "UNKNOWN" /\ rows[c] = "INTENT" /\ Verdicts(c) = {}
            /\ \A d \in Commands : Verdicts(d)' =
                 Verdicts(d) \cup (IF d = c /\ s # "REJECTED" THEN {s} ELSE {})
  <2>1. Stage(c)' /\ ran[c] = 1
    BY <1>8, <1>10 DEF Stage
  <2>2. \A d \in Commands : Stage(d)'
    BY <1>10, <2>1, StageKept DEF IInv
  <2>3. Once!Report(c, "UNKNOWN")
    BY <1>10, <2>1 DEF Once!Report
  <2>4. Once!Next
    BY <2>3 DEF Once!Next, Once!Outcomes
  <2> QED
    BY <1>3, <1>5, <1>6, <2>2, <2>4 DEF IInv, OnceStep
<1>11. (\A d \in Commands : Verdicts(d)' = Verdicts(d)) \/
       (/\ s = "UNKNOWN" /\ rows[c] = "INTENT" /\ Verdicts(c) = {}
        /\ \A d \in Commands : Verdicts(d)' =
             Verdicts(d) \cup (IF d = c /\ s # "REJECTED" THEN {s} ELSE {}))
  <2>1. CASE s = "REJECTED"
    BY <1>7, <2>1
  <2>2. CASE rows[c] = "COMPLETED" /\ s = "EXECUTED"
    BY <1>7, <1>8, <2>2 DEF Stage
  <2>3. CASE rows[c] = "INTENT" /\ s = "UNKNOWN"
    BY <1>7, <1>8, <2>3 DEF Stage
  <2>4. rows[c] \in {"NONE", "INTENT", "COMPLETED"}
    BY DEF IInv, TypeOK
  <2> QED
    BY <2>1, <2>2, <2>3, <2>4 DEF Known
<1> QED
  BY <1>9, <1>10, <1>11

\* Refuse, Repeat, AdmitUnsaved and Backpressure.
LEMMA AnswersStep ==
  ASSUME IInv, NEW c \in Commands, NEW fails \in SUBSET {"INTENT", "RESULT"},
         Refuse(c, fails) \/ Repeat(c, fails) \/ AdmitUnsaved(c, fails)
           \/ Backpressure(c, fails)
  PROVE  IInv' /\ OnceStep
<1>1. CASE Refuse(c, fails)
  BY <1>1, AnswerStep DEF Refuse
<1>2. CASE Repeat(c, fails)
  <2>1. Known(c) \in {"EXECUTED", "UNKNOWN"}
    BY DEF Known
  <2>2. rows[c] # "NONE"
    BY <1>2 DEF Repeat, IInv, Knows, Occupied
  <2> QED
    BY <1>2, <2>1, <2>2, AnswerStep DEF Repeat
<1>3. CASE AdmitUnsaved(c, fails)
  BY <1>3, AnswerStep DEF AdmitUnsaved, Allowed
<1>4. CASE Backpressure(c, fails)
  BY <1>4, AnswerStep DEF Backpressure, Allowed
<1> QED
  BY <1>1, <1>2, <1>3, <1>4

\* The window after an admission: one row more, or one for another.
LEMMA OccupiedAfterStart ==
  ASSUME TypeOK, Fits, NEW c \in Commands, rows[c] = "NONE",
         NEW victims \in Victims,
         rows' = [d \in Commands |-> IF d = c THEN "INTENT"
                                     ELSE IF d \in victims THEN "NONE" ELSE rows[d]]
  PROVE  /\ Occupied' = (Occupied \ victims) \cup {c}
         /\ Cardinality(Occupied') <= Capacity
<1>1. IsFiniteSet(Occupied) /\ Cardinality(Occupied) \in Nat
  <2>1. Occupied \in SUBSET Commands
    BY DEF Occupied
  <2> QED
    BY <2>1, FS_Subset, FS_CardinalityType, ActuationAssumption
<1>2. c \notin Occupied
  BY DEF Occupied
<1>3. victims \subseteq Occupied
  BY DEF Victims, Evictable, Occupied
<1>4. Occupied' = (Occupied \ victims) \cup {c}
  BY <1>2, <1>3 DEF Occupied
<1>5. CASE Cardinality(Occupied) < Capacity
  <2>1. victims = {}
    BY <1>5 DEF Victims
  <2>2. Cardinality(Occupied \cup {c}) = Cardinality(Occupied) + 1
    BY <1>1, <1>2, FS_AddElement
  <2> QED
    BY <1>1, <1>4, <1>5, <2>1, <2>2, ActuationAssumption
<1>6. CASE ~(Cardinality(Occupied) < Capacity)
  <2>1. PICK d \in Commands : victims = {d}
    BY <1>6 DEF Victims
  <2>2. /\ IsFiniteSet(Occupied \ {d})
        /\ Cardinality(Occupied \ {d}) = Cardinality(Occupied) - 1
    BY <1>1, <1>3, <2>1, FS_RemoveElement
  <2>3. Cardinality((Occupied \ {d}) \cup {c}) = Cardinality(Occupied \ {d}) + 1
    BY <1>2, <2>2, FS_AddElement
  <2>4. Cardinality((Occupied \ {d}) \cup {c}) = Cardinality(Occupied)
    BY <1>1, <2>2, <2>3
  <2> QED
    BY <1>4, <2>1, <2>4 DEF Fits
<1> QED
  BY <1>4, <1>5, <1>6

\* An execution starts: the command is new and the actuator has rested.
LEMMA StartStep ==
  ASSUME IInv, NEW c \in Commands, Start(c)
  PROVE  IInv' /\ OnceStep /\ ~warm
<1> USE DEF clock
<1> TypeOK /\ Fits /\ Knows /\ Rested
  BY DEF IInv
<1>1. running = NoCommand /\ ~fault /\ ~cooling /\ c \notin expired /\ c \notin seen
  BY DEF Start, Allowed
<1>2. loaded /\ seen = Occupied
  BY <1>1 DEF Knows
<1>3. rows[c] = "NONE"
  BY <1>1, <1>2 DEF Occupied
<1>4. ran[c] = 0 /\ Verdicts(c) = {}
  BY <1>1, <1>3 DEF IInv, Stage
<1>5. PICK victims \in Victims :
        /\ rows' = [d \in Commands |-> IF d = c THEN "INTENT"
                                       ELSE IF d \in victims THEN "NONE" ELSE rows[d]]
        /\ seen' = (seen \ victims) \cup {c}
  BY DEF Start
<1>6. /\ Occupied' = (Occupied \ victims) \cup {c}
      /\ Cardinality(Occupied') <= Capacity
  BY <1>3, <1>5, OccupiedAfterStart
<1>7. /\ running' = c /\ warm' = TRUE /\ ran' = [ran EXCEPT ![c] = @ + 1]
      /\ Cardinality(pending) < Capacity
      /\ UNCHANGED <<pending, recorded, loaded, fault, cooling, expired, superseded,
                     reboots, faults>>
  BY DEF Start
<1>8. \A d \in victims : d \in Commands /\ rows[d] = "COMPLETED" /\ d \in expired
  BY DEF Victims, Evictable
<1>9. TypeOK'
  BY <1>1, <1>5, <1>7 DEF TypeOK
<1>10. Fits'
  BY <1>6, <1>7 DEF Fits
<1>11. Knows'
  BY <1>2, <1>5, <1>6, <1>7 DEF Knows
<1>12. \A d \in Commands : Verdicts(d)' = Verdicts(d)
  BY <1>7, VerdictsSame
<1>13. Executing'
  BY <1>2, <1>4, <1>5, <1>7, <1>12 DEF Executing, TypeOK
<1>14. Rested'
  BY <1>7, ActuationAssumption DEF Rested
<1>15. ran' = [ran EXCEPT ![c] = 1]
  BY <1>4, <1>7 DEF TypeOK
<1>16. ASSUME NEW d \in Commands PROVE Stage(d)'
  <2> Stage(d)
    BY DEF IInv
  <2>1. CASE d = c
    BY <1>4, <1>5, <1>12, <1>15, <2>1 DEF Stage, TypeOK
  <2>2. CASE d # c /\ d \in victims
    BY <1>5, <1>7, <1>8, <1>12, <1>15, <2>2 DEF Stage, TypeOK
  <2>3. CASE d # c /\ d \notin victims
    <3>1. rows'[d] = rows[d] /\ ran'[d] = ran[d] /\ expired' = expired
      BY <1>5, <1>7, <1>15, <2>3 DEF TypeOK
    <3> QED
      BY <1>12, <3>1, StageKept
  <2> QED
    BY <2>1, <2>2, <2>3
<1>17. Once!Execute(c)
  BY <1>4, <1>12, <1>15 DEF Once!Execute
<1>18. OnceStep
  BY <1>17 DEF OnceStep, Once!Next
<1>19. ~warm
  BY <1>1 DEF Rested
<1> QED
  BY <1>9, <1>10, <1>11, <1>13, <1>14, <1>16, <1>18, <1>19 DEF IInv

\* An execution ends: with a completed row and its result, or with a fault.
LEMMA FinishStep ==
  ASSUME IInv, NEW fails \in SUBSET {"OUTCOME", "RESULT"}, Finish(fails)
  PROVE  IInv' /\ OnceStep
<1> USE DEF clock
<1> TypeOK /\ Fits /\ Knows /\ Executing
  BY DEF IInv
<1>0. PICK c \in Commands : c = running
  BY DEF Finish, TypeOK
<1> DEFINE done == Result(c, "EXECUTED")
<1>1. /\ loaded /\ warm /\ rows[c] = "INTENT"
      /\ Verdicts(c) = {} /\ Cardinality(pending) < Capacity
  BY <1>0 DEF Finish, Executing, Verdicts
<1>2. /\ running' = NoCommand /\ cooling' = TRUE /\ seen' = seen \cup {c}
      /\ UNCHANGED <<recorded, loaded, warm, ran, expired, superseded, reboots>>
  BY <1>0 DEF Finish
<1>3. Stage(c)
  BY <1>1 DEF IInv
<1>4. ran[c] = 1
  BY <1>1, <1>3 DEF Stage
<1>5. faults' \in Nat
  BY DEF Finish, Meets, TypeOK
<1>6. c \in Occupied /\ seen = Occupied
  BY <1>1 DEF Knows, Occupied
<1>7. Executing' /\ Rested'
  BY <1>2 DEF Executing, Rested
<1>8. ASSUME \A d \in Commands \ {c} : Verdicts(d)' = Verdicts(d) /\ rows'[d] = rows[d],
             Stage(c)',
             Verdicts(c)' = {} \/ \E o \in Once!Outcomes : Verdicts(c)' = {o}
      PROVE  (\A d \in Commands : Stage(d)') /\ OnceStep
  <2>1. \A d \in Commands : Stage(d)'
    BY <1>2, <1>8, StageKept DEF IInv
  <2>2. CASE Verdicts(c)' = {}
    <3>1. UNCHANGED Once!onceVars
      BY <1>1, <1>2, <1>8, <2>2 DEF Once!onceVars
    <3> QED
      BY <2>1, <3>1 DEF OnceStep
  <2>3. CASE \E o \in Once!Outcomes : Verdicts(c)' = {o}
    <3>1. PICK o \in Once!Outcomes : Verdicts(c)' = {o}
      BY <2>3
    <3>2. Once!Report(c, o)
      BY <1>1, <1>2, <1>4, <1>8, <3>1 DEF Once!Report
    <3> QED
      BY <1>1, <2>1, <3>2 DEF OnceStep, Once!Next
  <2> QED
    BY <1>8, <2>2, <2>3
<1>9. CASE /\ rows' = [rows EXCEPT ![c] = "COMPLETED"]
           /\ pending' = pending \cup {done}
           /\ fault' = (fault \/ "RESULT" \in fails)
           /\ Room(done)
  <2>1. Occupied' = Occupied
    BY <1>1, <1>9 DEF Occupied, TypeOK
  <2>2. Fits'
    BY <1>9, <2>1, OneMoreFits DEF Fits
  <2>3. done \in Results
    BY <1>1 DEF Result, Results
  <2>4. TypeOK'
    BY <1>1, <1>2, <1>5, <1>9, <2>3 DEF TypeOK
  <2>5. Knows'
    BY <1>1, <1>2, <1>6, <2>1 DEF Knows
  <2>6. pending' \cup recorded' = pending \cup recorded \cup {done}
    BY <1>2, <1>9
  <2>7. \A d \in Commands :
          Verdicts(d)' = Verdicts(d) \cup (IF d = c THEN {"EXECUTED"} ELSE {})
    BY <1>1, <2>6, VerdictsOfResult
  <2>8. Stage(c)'
    BY <1>1, <1>2, <1>4, <1>9, <2>7 DEF Stage, TypeOK
  <2>9. \A d \in Commands \ {c} : rows'[d] = rows[d]
    BY <1>9 DEF TypeOK
  <2>10. (\A d \in Commands : Stage(d)') /\ OnceStep
    BY <1>1, <1>8, <2>7, <2>8, <2>9 DEF Once!Outcomes
  <2> QED
    BY <1>7, <2>2, <2>4, <2>5, <2>10 DEF IInv
<1>10. CASE Answer(Result(c, "UNKNOWN"), TRUE, "RESULT" \notin fails) /\ rows' = rows
  <2>1. /\ pending' \in SUBSET Results
        /\ IsFiniteSet(pending') /\ Cardinality(pending') <= Capacity
        /\ fault' \in BOOLEAN
        /\ \/ \A d \in Commands : Verdicts(d)' = Verdicts(d)
           \/ \A d \in Commands : Verdicts(d)' =
                Verdicts(d) \cup (IF d = c THEN {"UNKNOWN"} ELSE {})
    BY <1>1, <1>2, <1>10, AnswerFacts
  <2>2. Occupied' = Occupied
    BY <1>10 DEF Occupied
  <2>3. TypeOK'
    BY <1>1, <1>2, <1>5, <1>10, <2>1 DEF TypeOK
  <2>4. Fits' /\ Knows'
    BY <1>1, <1>2, <1>6, <2>1, <2>2 DEF Fits, Knows
  <2>5. Verdicts(c)' \in {{}, {"UNKNOWN"}}
    BY <1>1, <2>1
  <2>6. Stage(c)'
    BY <1>1, <1>2, <1>4, <1>10, <2>5 DEF Stage
  <2>7. \A d \in Commands \ {c} : Verdicts(d)' = Verdicts(d) /\ rows'[d] = rows[d]
    BY <1>10, <2>1
  <2>8. (\A d \in Commands : Stage(d)') /\ OnceStep
    BY <1>8, <2>5, <2>6, <2>7 DEF Once!Outcomes
  <2> QED
    BY <1>7, <2>3, <2>4, <2>8 DEF IInv
<1> QED
  BY <1>0, <1>9, <1>10 DEF Finish

\* Steps that change neither the window nor what the controller and the
\* gateways together hold: results that move on, time, and a newer epoch.
LEMMA QuietStep ==
  ASSUME IInv,
         \/ \E r \in Results : Record(r) \/ AcceptResultAck(r)
         \/ \E c \in Commands : Expire(c)
         \/ Supersede
         \/ CoolDown
         \/ UNCHANGED actuationVars
  PROVE  IInv' /\ OnceStep
<1> USE DEF store, actuator, clock
<1> TypeOK /\ Fits /\ Knows /\ Executing /\ Rested
  BY DEF IInv
<1>1. UNCHANGED <<rows, loaded, fault, seen, running, ran>> /\ expired \subseteq expired'
  BY DEF Record, AcceptResultAck, Expire, Supersede, CoolDown, actuationVars
<1>2. pending' \subseteq pending /\ pending' \cup recorded' = pending \cup recorded
  BY DEF Record, AcceptResultAck, Expire, Supersede, CoolDown, Confirmed, actuationVars
<1>3. \A d \in Commands : Verdicts(d)' = Verdicts(d)
  BY <1>2, VerdictsSame
<1>4. TypeOK'
  BY DEF TypeOK, Record, AcceptResultAck, Expire, Supersede, CoolDown, actuationVars
<1>5. Occupied' = Occupied
  BY <1>1 DEF Occupied
<1>6. /\ IsFiniteSet(pending') /\ Cardinality(pending') <= Cardinality(pending)
      /\ Cardinality(pending) \in Nat /\ Cardinality(pending') \in Nat
  BY <1>2, FS_Subset, FS_CardinalityType DEF Fits
<1>7. Fits'
  BY <1>5, <1>6, ActuationAssumption DEF Fits
<1>8. Knows'
  BY <1>1, <1>5 DEF Knows
<1>9. Executing'
  <2>1. warm' = warm \/ running = NoCommand
    BY DEF Record, AcceptResultAck, Expire, Supersede, CoolDown, actuationVars
  <2>2. CASE running = NoCommand
    BY <1>1, <2>2 DEF Executing
  <2>3. CASE running # NoCommand
    <3>1. PICK c \in Commands : c = running
      BY <2>3 DEF TypeOK
    <3>2. Verdicts(c)' = {}
      BY <1>3, <2>3, <3>1 DEF Executing, Verdicts
    <3>3. Verdicts(running)' = {}
      BY <1>1, <3>1, <3>2 DEF Verdicts
    <3>4. loaded' /\ warm' /\ rows'[running'] = "INTENT"
      BY <1>1, <2>1, <2>3 DEF Executing
    <3>5. Cardinality(pending') < Capacity
      BY <1>6, <2>3, ActuationAssumption DEF Executing
    <3> QED
      BY <3>3, <3>4, <3>5 DEF Executing
  <2> QED
    BY <2>2, <2>3
<1>10. Rested'
  BY <1>1 DEF Rested, Record, AcceptResultAck, Expire, Supersede, CoolDown, actuationVars
<1>11. \A d \in Commands : Stage(d)'
  BY <1>1, <1>3, StageKept DEF IInv
<1>12. UNCHANGED Once!onceVars
  BY <1>1, <1>3 DEF Once!onceVars
<1> QED
  BY <1>4, <1>7, <1>8, <1>9, <1>10, <1>11, <1>12 DEF IInv, OnceStep

\* There are at most as many interrupted executions as commands.
LEMMA InterruptedFinite ==
  ASSUME NEW filed \in SUBSET Interrupted
  PROVE  IsFiniteSet(filed)
<1> DEFINE f == [r \in filed |-> r.cmd]
<1>1. \A r \in filed : r.cmd \in Commands /\ r = Result(r.cmd, "UNKNOWN")
  BY DEF Interrupted, Result
<1>2. f \in Injection(filed, Commands)
  BY <1>1 DEF Injection, IsInjective
<1> QED
  BY <1>2, FS_Injection, ActuationAssumption

\* A restart reports interrupted executions as UNKNOWN and nothing else.
LEMMA RebootStep ==
  ASSUME IInv, NEW fails \in SUBSET {"GUARD", "RECENT", "RESULT"}, Reboot(fails)
  PROVE  IInv' /\ OnceStep
<1> TypeOK /\ Fits
  BY DEF IInv
<1>1. PICK filed \in SUBSET Interrupted :
        /\ Cardinality(pending \cup filed) <= Capacity
        /\ pending' = pending \cup filed
        /\ fault' = ({"GUARD", "RECENT"} \cap fails # {} \/ filed # Interrupted)
  BY DEF Reboot
<1>2. /\ running' = NoCommand
      /\ loaded' = ("RECENT" \notin fails)
      /\ seen' = IF "RECENT" \in fails THEN {} ELSE Occupied
      /\ cooling' = ("GUARD" \notin fails)
      /\ reboots' = reboots + 1
      /\ UNCHANGED <<rows, recorded, warm, ran, expired, superseded>>
  BY DEF Reboot, IdsAtBoot, CoolingAtBoot, clock
<1>3. faults' \in Nat
  BY DEF Reboot, Meets, TypeOK
<1>4. Occupied' = Occupied /\ Occupied \subseteq Commands
  BY <1>2 DEF Occupied
<1>5. Interrupted \subseteq Results
  BY DEF Interrupted, Results, Result
<1>6. TypeOK'
  BY <1>1, <1>2, <1>3, <1>4, <1>5 DEF TypeOK
<1>7. Fits'
  <2>1. IsFiniteSet(pending \cup filed)
    BY InterruptedFinite, FS_Union DEF Fits
  <2> QED
    BY <1>1, <1>4, <2>1 DEF Fits
<1>8. Knows' /\ Executing' /\ Rested'
  BY <1>1, <1>2, <1>4 DEF Knows, Executing, Rested
<1>9. ASSUME NEW d \in Commands
      PROVE  \/ Verdicts(d)' = Verdicts(d)
             \/ rows[d] = "INTENT" /\ Verdicts(d)' = Verdicts(d) \cup {"UNKNOWN"}
  <2>1. \A o \in {"EXECUTED", "UNKNOWN"} :
          Result(d, o) \in filed => o = "UNKNOWN" /\ rows[d] = "INTENT"
    BY DEF Interrupted, Result
  <2>2. Verdicts(d)' =
          {o \in {"EXECUTED", "UNKNOWN"} :
             Result(d, o) \in pending \cup recorded \/ Result(d, o) \in filed}
    BY <1>1, <1>2 DEF Verdicts
  <2>3. CASE Result(d, "UNKNOWN") \in filed
    BY <2>1, <2>2, <2>3 DEF Verdicts
  <2>4. CASE Result(d, "UNKNOWN") \notin filed
    BY <2>1, <2>2, <2>4 DEF Verdicts
  <2> QED
    BY <2>3, <2>4
<1>10. ASSUME NEW d \in Commands
       PROVE  /\ Stage(d)'
              /\ Verdicts(d)' # Verdicts(d) =>
                   ran[d] = 1 /\ Verdicts(d) = {} /\ Verdicts(d)' = {"UNKNOWN"}
  <2> Stage(d)
    BY DEF IInv
  <2>1. CASE Verdicts(d)' = Verdicts(d)
    BY <1>2, <2>1, StageKept
  <2>2. CASE rows[d] = "INTENT" /\ Verdicts(d)' = Verdicts(d) \cup {"UNKNOWN"}
    BY <1>2, <2>2 DEF Stage
  <2> QED
    BY <1>9, <2>1, <2>2
<1>11. Once!ReportInterrupted
  <2>1. \A d \in Commands : Verdicts(d)' \in SUBSET Once!Outcomes
    BY DEF Verdicts, Once!Outcomes
  <2> QED
    BY <1>2, <1>10, <2>1 DEF Once!ReportInterrupted
<1>12. OnceStep
  BY <1>11 DEF OnceStep, Once!Next
<1> QED
  BY <1>6, <1>7, <1>8, <1>10, <1>12 DEF IInv

\* Every step keeps the invariant, is a step of ExecuteOnce or none, and starts
\* to move only an actuator that has rested.
LEMMA IInvStep ==
  IInv /\ [Next]_actuationVars => IInv' /\ OnceStep /\ (ran' # ran => ~warm)
<1> SUFFICES ASSUME IInv, [Next]_actuationVars
             PROVE  IInv' /\ OnceStep /\ (ran' # ran => ~warm)
  OBVIOUS
<1>1. CASE \E c \in Commands : Start(c)
  BY <1>1, StartStep
<1>2. ASSUME NEW c \in Commands, NEW fails \in SUBSET {"INTENT", "RESULT"},
             Refuse(c, fails) \/ Repeat(c, fails) \/ AdmitUnsaved(c, fails)
               \/ Backpressure(c, fails)
      PROVE  IInv' /\ OnceStep /\ ran' = ran
  <2>1. ran' = ran
    BY <1>2 DEF Refuse, Repeat, AdmitUnsaved, Backpressure, actuator
  <2> QED
    BY <1>2, <2>1, AnswersStep
<1>3. CASE \E fails \in SUBSET {"OUTCOME", "RESULT"} : Finish(fails)
  BY <1>3, FinishStep DEF Finish
<1>4. CASE \/ \E r \in Results : Record(r) \/ AcceptResultAck(r)
           \/ \E c \in Commands : Expire(c)
           \/ Supersede
           \/ CoolDown
           \/ UNCHANGED actuationVars
  <2>1. ran' = ran
    BY <1>4 DEF Record, AcceptResultAck, Expire, Supersede, CoolDown, actuationVars,
                actuator
  <2> QED
    BY <1>4, <2>1, QuietStep
<1>5. CASE \E fails \in SUBSET {"GUARD", "RECENT", "RESULT"} : Reboot(fails)
  BY <1>5, RebootStep DEF Reboot
<1> QED
  BY <1>1, <1>2, <1>3, <1>4, <1>5 DEF Next, Receive

\* The invariant holds for ever.
LEMMA IInvAlways == Spec => []IInv
BY IInvInit, IInvStep, PTL DEF Spec

-----------------------------------------------------------------------------
(* The theorems. *)

\* Every variable keeps its type.
THEOREM TypeCorrect == Spec => []TypeOK
<1>1. IInv => TypeOK
  BY DEF IInv
<1> QED
  BY <1>1, IInvAlways, PTL

\* A controller executes a command at most once and its reports of it agree,
\* whatever crashes and failing saves do (begin, complete, Reboot).
THEOREM ControllerExecutesOnce == Spec => ExecutesOnce
<1>1. Init => Once!Init
  BY DEF Init, Once!Init, Verdicts
<1> QED
  BY <1>1, IInvAlways, IInvStep, PTL DEF Spec, ExecutesOnce, Once!Spec, OnceStep

\* No execution is forgotten before somebody holds its outcome (_trim, complete).
THEOREM ExecutionsAreOnRecord == Spec => []ExecutionIsOnRecord
<1>1. IInv => ExecutionIsOnRecord
  BY DEF IInv, Stage, ExecutionIsOnRecord
<1> QED
  BY <1>1, IInvAlways, PTL

\* The actuator rests a cooldown between two movements (restart_cooldown).
THEOREM ActuatorsRest == Spec => ActuatorRests
<1>1. IInv /\ [Next]_actuationVars => [ran' # ran => ~warm]_ran
  BY IInvStep
<1> QED
  BY <1>1, IInvAlways, PTL DEF Spec, ActuatorRests

\* The window and the results stay within the capacity, and an execution has
\* room for its result (begin, _with_result).
THEOREM WindowStaysBounded == Spec => []WindowIsBounded
<1>1. IInv => WindowIsBounded
  BY DEF IInv, Fits, Executing, WindowIsBounded, Room
<1> QED
  BY <1>1, IInvAlways, PTL

-----------------------------------------------------------------------------
(* What one state decides for the whole future. *)

\* A reported outcome stands, and the actuator does not move again for it.
LEMMA OutcomeKept ==
  ASSUME IInv, OnceStep, NEW c \in Commands, NEW s, Verdicts(c) = {s}
  PROVE  Verdicts(c)' = {s}
<1> DEFINE verdict == [d \in Commands |-> Verdicts(d)]
<1>1. ASSUME verdict'[c] = verdict[c] PROVE Verdicts(c)' = {s}
  BY <1>1
<1>2. verdict[c] # {}
  OBVIOUS
<1>3. CASE UNCHANGED Once!onceVars
  BY <1>1, <1>3 DEF Once!onceVars
<1>4. ASSUME NEW d \in Commands, Once!Execute(d) PROVE verdict'[c] = verdict[c]
  BY <1>4 DEF Once!Execute
<1>5. ASSUME NEW d \in Commands, NEW o, Once!Report(d, o) PROVE verdict'[c] = verdict[c]
  BY <1>2, <1>5 DEF Once!Report
<1>6. ASSUME Once!ReportInterrupted PROVE verdict'[c] = verdict[c]
  BY <1>2, <1>6 DEF Once!ReportInterrupted
<1> QED
  BY <1>1, <1>3, <1>4, <1>5, <1>6 DEF OnceStep, Once!Next

\* The outcome of a command, once reported, is its only one for ever, and the
\* actuator has moved for it exactly once: no repetition, eviction, failing save
\* or restart changes what a gateway was told (complete, recover_interrupted).
THEOREM OutcomeIsFinal ==
  ASSUME NEW c \in Commands, NEW s \in {"EXECUTED", "UNKNOWN"}
  PROVE  Spec => [](s \in Verdicts(c) => [](Verdicts(c) = {s} /\ ran[c] = 1))
<1> DEFINE Told == s \in Verdicts(c)
           Only == Verdicts(c) = {s}
           Final == Verdicts(c) = {s} /\ ran[c] = 1
<1>1. IInv /\ Told => Only
  BY DEF IInv, Stage
<1>2. IInv /\ Only /\ [Next]_actuationVars => Only'
  BY IInvStep, OutcomeKept
<1>3. IInv /\ Only => Final
  BY DEF IInv, Stage
<1> HIDE DEF Told, Only, Final
<1>4. Spec => [](Told => []Final)
  BY <1>1, <1>2, <1>3, IInvAlways, PTL DEF Spec
<1> QED
  BY <1>4 DEF Told, Final

\* The execution of c was cut short: it has an intent and nobody is at it.
CutShort(c) == rows[c] = "INTENT" /\ running # c

\* Nothing completes or repeats an execution that was cut short.
LEMMA CutShortStays ==
  ASSUME IInv, [Next]_actuationVars, NEW c \in Commands, CutShort(c)
  PROVE  CutShort(c)'
<1> rows[c] = "INTENT" /\ running # c /\ c # NoCommand
  BY ActuationAssumption DEF CutShort
<1> rows \in [Commands -> {"NONE", "INTENT", "COMPLETED"}]
  BY DEF IInv, TypeOK
<1>1. ASSUME NEW d \in Commands, Start(d) PROVE CutShort(c)'
  <2>1. c \in Occupied
    BY DEF Occupied
  <2>2. d \notin seen /\ ~fault
    BY <1>1 DEF Start, Allowed
  <2>3. d # c
    BY <2>1, <2>2 DEF IInv, Knows
  <2>4. PICK victims \in Victims :
          rows' = [x \in Commands |-> IF x = d THEN "INTENT"
                                      ELSE IF x \in victims THEN "NONE" ELSE rows[x]]
    BY <1>1 DEF Start
  <2>5. c \notin victims
    BY <2>4 DEF Victims, Evictable
  <2>6. running' = d
    BY <1>1 DEF Start
  <2> QED
    BY <2>3, <2>4, <2>5, <2>6 DEF CutShort
<1>2. ASSUME NEW d \in Commands, NEW fails \in SUBSET {"INTENT", "RESULT"},
             Refuse(d, fails) \/ Repeat(d, fails) \/ AdmitUnsaved(d, fails)
               \/ Backpressure(d, fails)
      PROVE  CutShort(c)'
  BY <1>2 DEF Refuse, Repeat, AdmitUnsaved, Backpressure, actuator, CutShort
<1>3. ASSUME NEW fails \in SUBSET {"OUTCOME", "RESULT"}, Finish(fails)
      PROVE  CutShort(c)'
  <2>1. running' = NoCommand
    BY <1>3 DEF Finish
  <2>2. rows'[c] = rows[c]
    BY <1>3 DEF Finish
  <2> QED
    BY <2>1, <2>2 DEF CutShort
<1>4. ASSUME NEW fails \in SUBSET {"GUARD", "RECENT", "RESULT"}, Reboot(fails)
      PROVE  CutShort(c)'
  BY <1>4 DEF Reboot, CutShort
<1>5. CASE \/ \E r \in Results : Record(r) \/ AcceptResultAck(r)
           \/ \E d \in Commands : Expire(d)
           \/ Supersede
           \/ CoolDown
           \/ UNCHANGED actuationVars
  BY <1>5 DEF Record, AcceptResultAck, Expire, Supersede, CoolDown, actuationVars, store,
              actuator, CutShort
<1> QED
  BY <1>1, <1>2, <1>3, <1>4, <1>5 DEF Next, Receive

\* An execution that a crash or a failing save has cut short is never taken up
\* again and never reported as executed: the only outcome anybody will hold is
\* UNKNOWN (recent_commands.py recover_interrupted, controller_node.py
\* _recover_interrupted_results).
THEOREM InterruptedIsNeverExecuted ==
  ASSUME NEW c \in Commands
  PROVE  Spec => [](CutShort(c)
                      => [](running # c /\ ran[c] = 1 /\ Verdicts(c) \subseteq {"UNKNOWN"}))
<1> DEFINE Uncertain == running # c /\ ran[c] = 1 /\ Verdicts(c) \subseteq {"UNKNOWN"}
<1>1. IInv /\ CutShort(c) /\ [Next]_actuationVars => CutShort(c)'
  BY CutShortStays
<1>2. IInv /\ CutShort(c) => Uncertain
  BY DEF IInv, Stage, CutShort
<1> HIDE DEF Uncertain
<1>3. Spec => [](CutShort(c) => []Uncertain)
  BY <1>1, <1>2, IInvAlways, PTL DEF Spec
<1> QED
  BY <1>3 DEF Uncertain
=============================================================================
