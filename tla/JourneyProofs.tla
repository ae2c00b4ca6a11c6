---------------------------- MODULE JourneyProofs ----------------------------
(***************************************************************************)
(* What one half of Journey keeps the other takes over: from the           *)
(* checkpoint of the sensor to the history of the server the composition   *)
(* is one Custody, and decisions and baseline rest on evidence.            *)
(***************************************************************************)
EXTENDS Journey, ReportProofs

\* The theorems about Upload, of the outboxes of Journey.
Kept == INSTANCE UploadProofs WITH
  Messages <- Report \cup Others,
  Offered <- [g \in Gateways |-> Report \cup Others],
  Reports <- Report,
  Results <- {},
  High <- HighRows,
  Invalid <- Refused

-----------------------------------------------------------------------------
(* The two instances of Upload are one specification. *)

\* The two names of an admission mean the same.
LEMMA SameAdmission ==
  ASSUME NEW g \in Gateways, NEW m, Outbox!Admit(g, m)
  PROVE  Kept!Admit(g, m)
<1>1. /\ Outbox!Enqueued(g, m) = Kept!Enqueued(g, m)
      /\ Outbox!LedgerOf(g, m) = Kept!LedgerOf(g, m)
      /\ Outbox!HasRoom(g, m) <=> Kept!HasRoom(g, m)
      /\ Outbox!ToSet(rows[g]) = Kept!ToSet(rows[g])
  BY DEF Outbox!Enqueued, Kept!Enqueued, Outbox!LedgerOf, Kept!LedgerOf,
     Outbox!HasRoom, Kept!HasRoom, Outbox!Limit, Kept!Limit, Outbox!ToSet,
     Kept!ToSet
<1>2. ASSUME NEW S PROVE Outbox!Cardinality(S) = Kept!Cardinality(S)
  BY DEF Outbox!Cardinality, Kept!Cardinality
<1>3. ASSUME NEW q PROVE Outbox!Commit(g, q) <=> Kept!Commit(g, q)
  BY DEF Outbox!Commit, Kept!Commit
<1> QED
  BY <1>1, <1>2, <1>3 DEF Outbox!Admit, Kept!Admit, Outbox!Receipted,
     Kept!Receipted, Outbox!RequestFlush, Kept!RequestFlush, Outbox!gatewayVars,
     Kept!gatewayVars, Outbox!serverVars, Kept!serverVars

\* So do the two names of every step.
LEMMA SameStep == Outbox!UploadNext => Kept!UploadNext
<1> SUFFICES ASSUME Outbox!UploadNext PROVE Kept!UploadNext
  OBVIOUS
<1>1. ASSUME NEW g \in Gateways, NEW m, Outbox!Enqueue(g, m) PROVE Kept!Enqueue(g, m)
  BY <1>1 DEF Outbox!Enqueue, Kept!Enqueue, Outbox!RequestFlush,
     Kept!RequestFlush, Outbox!HasRoom, Kept!HasRoom, Outbox!Limit, Kept!Limit,
     Outbox!Enqueued, Kept!Enqueued, Outbox!ToSet, Kept!ToSet, Outbox!Commit,
     Kept!Commit, Outbox!Receipted, Kept!Receipted, Outbox!serverVars,
     Kept!serverVars
<1>2. ASSUME NEW g \in Gateways, NEW m, Outbox!ArriveLate(g, m) PROVE Kept!ArriveLate(g, m)
  BY <1>2 DEF Outbox!ArriveLate, Kept!ArriveLate, Outbox!Store, Kept!Store,
     Outbox!Stored, Kept!Stored, Outbox!IsNew, Kept!IsNew, Outbox!Recorded,
     Kept!Recorded, Outbox!Valid, Kept!Valid, Outbox!Fault, Kept!Fault,
     Outbox!gatewayVars, Kept!gatewayVars, Outbox!serverVars, Kept!serverVars
<1>3. ASSUME NEW g \in Gateways, NEW m, Outbox!LoseLate(g, m) PROVE Kept!LoseLate(g, m)
  BY <1>3 DEF Outbox!LoseLate, Kept!LoseLate, Outbox!gatewayVars,
     Kept!gatewayVars, Outbox!serverVars, Kept!serverVars
<1>4. ASSUME NEW g \in Gateways, Outbox!RollsBack(g) PROVE Kept!RollsBack(g)
  BY <1>4 DEF Outbox!RollsBack, Kept!RollsBack, Outbox!Rollback, Kept!Rollback,
     Outbox!linkVars, Kept!linkVars, Outbox!serverVars, Kept!serverVars
<1>5. ASSUME NEW g \in Gateways, Outbox!Audit(g) PROVE Kept!Audit(g)
  BY <1>5 DEF Outbox!Audit, Kept!Audit, Outbox!Commit, Kept!Commit,
     Outbox!linkVars, Kept!linkVars, Outbox!serverVars, Kept!serverVars
<1>6. ASSUME NEW g \in Gateways, Outbox!Connect(g) PROVE Kept!Connect(g)
  BY <1>6 DEF Outbox!Connect, Kept!Connect, Outbox!gatewayVars,
     Kept!gatewayVars, Outbox!serverVars, Kept!serverVars
<1>7. ASSUME NEW g \in Gateways, Outbox!Send(g) PROVE Kept!Send(g)
  BY <1>7 DEF Outbox!Send, Kept!Send, Outbox!Commit, Kept!Commit, Outbox!Peeked,
     Kept!Peeked, Outbox!serverVars, Kept!serverVars
<1>8. ASSUME NEW g \in Gateways, Outbox!BumpFails(g) PROVE Kept!BumpFails(g)
  BY <1>8 DEF Outbox!BumpFails, Kept!BumpFails, Outbox!Fault, Kept!Fault,
     Outbox!CommitFails, Kept!CommitFails, Outbox!Rollback, Kept!Rollback,
     Outbox!EndFlush, Kept!EndFlush, Outbox!CloseLink, Kept!CloseLink,
     Outbox!Abandon, Kept!Abandon, Outbox!serverVars, Kept!serverVars
<1>9. ASSUME NEW g \in Gateways, Outbox!SendRaises(g) PROVE Kept!SendRaises(g)
  BY <1>9 DEF Outbox!SendRaises, Kept!SendRaises, Outbox!Commit, Kept!Commit,
     Outbox!EndFlush, Kept!EndFlush, Outbox!CloseLink, Kept!CloseLink,
     Outbox!Abandon, Kept!Abandon, Outbox!serverVars, Kept!serverVars
<1>10. ASSUME NEW g \in Gateways, Outbox!EndOfQueue(g) PROVE Kept!EndOfQueue(g)
  BY <1>10 DEF Outbox!EndOfQueue, Kept!EndOfQueue, Outbox!EndFlush,
     Kept!EndFlush, Outbox!gatewayVars, Kept!gatewayVars, Outbox!serverVars,
     Kept!serverVars
<1>11. ASSUME NEW g \in Gateways, Outbox!ReceiveReceipt(g) PROVE Kept!ReceiveReceipt(g)
  BY <1>11 DEF Outbox!ReceiveReceipt, Kept!ReceiveReceipt, Outbox!gatewayVars,
     Kept!gatewayVars, Outbox!serverVars, Kept!serverVars
<1>12. ASSUME NEW g \in Gateways, Outbox!Delete(g) PROVE Kept!Delete(g)
  BY <1>12 DEF Outbox!Delete, Kept!Delete, Outbox!Commit, Kept!Commit,
     Outbox!WithoutAwaited, Kept!WithoutAwaited, Outbox!RemoveAt, Kept!RemoveAt,
     Outbox!serverVars, Kept!serverVars
<1>13. ASSUME NEW g \in Gateways, Outbox!DeleteFails(g) PROVE Kept!DeleteFails(g)
  BY <1>13 DEF Outbox!DeleteFails, Kept!DeleteFails, Outbox!Fault, Kept!Fault,
     Outbox!CommitFails, Kept!CommitFails, Outbox!Rollback, Kept!Rollback,
     Outbox!WithoutAwaited, Kept!WithoutAwaited, Outbox!RemoveAt, Kept!RemoveAt,
     Outbox!EndFlush, Kept!EndFlush, Outbox!CloseLink, Kept!CloseLink,
     Outbox!Abandon, Kept!Abandon, Outbox!serverVars, Kept!serverVars
<1>14. ASSUME NEW g \in Gateways, Outbox!Timeout(g) PROVE Kept!Timeout(g)
  BY <1>14 DEF Outbox!Timeout, Kept!Timeout, Outbox!EndFlush, Kept!EndFlush,
     Outbox!CloseLink, Kept!CloseLink, Outbox!Abandon, Kept!Abandon,
     Outbox!gatewayVars, Kept!gatewayVars, Outbox!serverVars, Kept!serverVars
<1>15. ASSUME NEW g \in Gateways, Outbox!DropWriter(g) PROVE Kept!DropWriter(g)
  BY <1>15 DEF Outbox!DropWriter, Kept!DropWriter, Outbox!CloseLink,
     Kept!CloseLink, Outbox!Abandon, Kept!Abandon, Outbox!gatewayVars,
     Kept!gatewayVars, Outbox!serverVars, Kept!serverVars
<1>16. ASSUME NEW g \in Gateways, Outbox!LinkBreaks(g) PROVE Kept!LinkBreaks(g)
  BY <1>16 DEF Outbox!LinkBreaks, Kept!LinkBreaks, Outbox!Abandon, Kept!Abandon,
     Outbox!gatewayVars, Kept!gatewayVars, Outbox!serverVars, Kept!serverVars
<1>17. ASSUME NEW g \in Gateways, Outbox!ReaderEnds(g) PROVE Kept!ReaderEnds(g)
  BY <1>17 DEF Outbox!ReaderEnds, Kept!ReaderEnds, Outbox!EndFlush,
     Kept!EndFlush, Outbox!gatewayVars, Kept!gatewayVars, Outbox!serverVars,
     Kept!serverVars
<1>18. ASSUME NEW g \in Gateways, Outbox!GatewayCrash(g) PROVE Kept!GatewayCrash(g)
  BY <1>18 DEF Outbox!GatewayCrash, Kept!GatewayCrash, Outbox!Rollback,
     Kept!Rollback, Outbox!EndFlush, Kept!EndFlush, Outbox!Abandon,
     Kept!Abandon, Outbox!serverVars, Kept!serverVars
<1>19. ASSUME NEW g \in Gateways, Outbox!Arrive(g) PROVE Kept!Arrive(g)
  BY <1>19 DEF Outbox!Arrive, Kept!Arrive, Outbox!Store, Kept!Store,
     Outbox!Stored, Kept!Stored, Outbox!IsNew, Kept!IsNew, Outbox!Recorded,
     Kept!Recorded, Outbox!Valid, Kept!Valid, Outbox!Fault, Kept!Fault,
     Outbox!gatewayVars, Kept!gatewayVars, Outbox!serverVars, Kept!serverVars
<1>20. Outbox!EndsTransaction => Kept!EndsTransaction
  BY DEF Outbox!EndsTransaction, Kept!EndsTransaction, Outbox!gatewayVars,
     Kept!gatewayVars, Outbox!linkVars, Kept!linkVars
<1>21. Outbox!ServerCrash => Kept!ServerCrash
  BY DEF Outbox!ServerCrash, Kept!ServerCrash, Outbox!gatewayVars,
     Kept!gatewayVars
<1> QED
  BY <1>1, <1>2, <1>3, <1>4, <1>5, <1>6, <1>7, <1>8, <1>9, <1>10, <1>11, <1>12,
     <1>13, <1>14, <1>15, <1>16, <1>17, <1>18, <1>19, <1>20, <1>21,
     SameAdmission DEF Outbox!UploadNext, Kept!UploadNext

-----------------------------------------------------------------------------
(* The composition is made of both halves. *)

\* What the steps of the reports leave alone is what the outboxes are made of.
LEMMA OutboxKept ==
  ASSUME UNCHANGED <<ledger, outboxVars>>
  PROVE  UNCHANGED Outbox!uploadVars
BY DEF outboxVars, Outbox!uploadVars, Outbox!gatewayVars, Outbox!linkVars, Outbox!serverVars

\* A step of the composition is a step of the report or leaves it alone.
LEMMA ReportStep == [JNext]_journeyVars => [RNext]_reportVars
<1>1. ASSUME NEW g \in Gateways, Admission(g) \/ Refusal(g) \/ Decision(g) \/ Crash(g)
      PROVE  RNext
  BY <1>1 DEF Admission, Refusal, Decision, Crash, RNext, GatewayNext
<1>2. SensorStep => RNext
  BY DEF SensorStep, RNext, GatewayNext
<1>3. ASSUME NEW g \in Gateways, OutboxStep(g) PROVE UNCHANGED reportVars
  BY <1>3 DEF OutboxStep
<1>4. ServerStep \/ UNCHANGED journeyVars => UNCHANGED reportVars
  BY DEF ServerStep, journeyVars
<1> QED
  BY <1>1, <1>2, <1>3, <1>4 DEF JNext

\* The report that is admitted is one that an outbox may be offered.
LEMMA OfferedReport ==
  ASSUME RInv, NEW g \in Gateways, Process(g)
  PROVE  Head(ingress[g]).report \in Report
<1>1. ingress[g] \in Seq(Frames) /\ ingress[g] # <<>>
  BY DEF RInv, WayOK, Process
<1>2. Head(ingress[g]) \in Frames
  BY <1>1
<1> QED
  BY <1>2 DEF Frames

\* A step of the composition is a step of the outboxes or leaves them alone.
LEMMA UploadStep == RInv /\ [JNext]_journeyVars => [Outbox!UploadNext]_(Outbox!uploadVars)
<1> SUFFICES ASSUME RInv, [JNext]_journeyVars
             PROVE  [Outbox!UploadNext]_(Outbox!uploadVars)
  OBVIOUS
<1>1. ASSUME NEW g \in Gateways, Admission(g) PROVE Outbox!UploadNext
  BY <1>1, OfferedReport DEF Admission, Outbox!UploadNext
<1>2. ASSUME NEW g \in Gateways, Refusal(g) PROVE [Outbox!UploadNext]_(Outbox!uploadVars)
  BY <1>2, OutboxKept DEF Refusal, Refuse, Outbox!UploadNext
<1>3. ASSUME NEW g \in Gateways, Decision(g) PROVE [Outbox!UploadNext]_(Outbox!uploadVars)
  BY <1>3, OutboxKept DEF Decision, Decide, Outbox!UploadNext
<1>4. ASSUME NEW g \in Gateways, Crash(g) PROVE Outbox!UploadNext
  BY <1>4 DEF Crash, Outbox!UploadNext
<1>5. ASSUME NEW g \in Gateways, OutboxStep(g) PROVE Outbox!UploadNext
  BY <1>5 DEF OutboxStep, Outbox!UploadNext
<1>6. ASSUME SensorStep PROVE UNCHANGED ledger
  BY <1>6 DEF SensorStep, SensorNext, Sample, EndSession, Reboot, Transmit, Confirm,
     Takeover, Demote, Register, gatewayVars
<1>7. SensorStep => UNCHANGED Outbox!uploadVars
  BY <1>6, OutboxKept DEF SensorStep
<1>8. ServerStep => Outbox!UploadNext
  BY DEF ServerStep, Outbox!UploadNext
<1>9. UNCHANGED journeyVars => UNCHANGED Outbox!uploadVars
  BY OutboxKept DEF journeyVars, reportVars, gatewayVars
<1> QED
  BY <1>1, <1>2, <1>3, <1>4, <1>5, <1>7, <1>8, <1>9 DEF JNext

\* JNext is made of steps of the two halves, so this says nothing of either: it
\* lets the theorems about each be cited for the composition.
LEMMA JourneyIsBoth == JSpec => RSpec /\ Outbox!UploadSpec
<1>1. JInit => RInit /\ Outbox!UploadInit
  BY DEF JInit
<1>2. JSpec => RSpec
  BY <1>1, ReportStep, PTL DEF JSpec, RSpec
<1> QED
  BY <1>1, <1>2, UploadStep, RInvAlways, PTL DEF JSpec, Outbox!UploadSpec

-----------------------------------------------------------------------------
(* What both halves keep together. *)

\* JourneyConstants are what UploadAssumption asks of the constants of Upload.
LEMMA UploadConstants ==
  ASSUME JourneyConstants
  PROVE  /\ [g \in Gateways |-> Report \cup Others]
              \in [Gateways -> SUBSET (Report \cup Others)]
         /\ Report \subseteq Report \cup Others /\ {} \subseteq Report \cup Others
         /\ Report \cap {} = {} /\ HighRows \subseteq Report \cup Others
         /\ Refused \subseteq (Report \cup Others) \ Kept!Receipted
         /\ Capacity \in Nat \ {0} /\ Reserve \in 0..(Capacity - 1)
         /\ MaxReceipts \in Nat /\ MaxFaults \in Nat
         /\ NoMessage \notin Report \cup Others
BY DEF JourneyConstants, HighRows, Kept!Receipted

LEMMA SameVars == UNCHANGED Outbox!uploadVars => UNCHANGED Kept!uploadVars
BY DEF Outbox!uploadVars, Outbox!gatewayVars, Outbox!linkVars, Outbox!serverVars,
   Kept!uploadVars, Kept!gatewayVars, Kept!linkVars, Kept!serverVars

\* The composition implements Upload as UploadProofs reads it.
LEMMA KeptSpec == JSpec => Kept!UploadSpec
<1>1. Outbox!UploadInit => Kept!UploadInit
  BY DEF Outbox!UploadInit, Kept!UploadInit
<1>2. [Outbox!UploadNext]_(Outbox!uploadVars) => [Kept!UploadNext]_(Kept!uploadVars)
  BY SameVars, SameStep
<1> QED
  BY <1>1, <1>2, JourneyIsBoth, PTL DEF Outbox!UploadSpec, Kept!UploadSpec

\* Whatever a gateway has acknowledged is recorded behind it.
LedgersRecorded == \A g \in Gateways : \A r \in ledger[g] : Recorded(r)

LEMMA LedgersStayRecorded == ASSUME JourneyConstants PROVE JSpec => []LedgersRecorded
<1>1. Kept!UploadSpec => []Kept!AcknowledgedIsKept
  BY UploadConstants, Kept!AcknowledgedStaysKept
<1>2. Kept!AcknowledgedIsKept => LedgersRecorded
  BY DEF Kept!AcknowledgedIsKept, LedgersRecorded, Recorded, Outbox!ToSet, Kept!ToSet
<1> QED
  BY <1>1, <1>2, KeptSpec, PTL

\* The invariant of the outboxes holds in the composition.
LEMMA UIInvHere == ASSUME JourneyConstants PROVE JSpec => []Kept!UIInv
<1>1. Kept!UploadSpec => []Kept!UIInv
  BY UploadConstants, Kept!UIInvAlways
<1> QED
  BY <1>1, KeptSpec, PTL

\* A report that is recorded stays recorded: its row leaves an outbox only when
\* the history has it.
LEMMA RecordedStays ==
  ASSUME JourneyConstants, RInv, Kept!UIInv, [JNext]_journeyVars,
         NEW r \in Report, Recorded(r)
  PROVE  Recorded(r)'
<1>1. [Kept!UploadNext]_(Kept!uploadVars)
  BY UploadStep, SameStep, SameVars
<1>2. Kept!UIInv' /\ Kept!Promise
  BY <1>1, UploadConstants, Kept!UIInvStep
<1>3. /\ base.history[r] = 1 => base'.history[r] = 1
      /\ \A g \in Gateways :
           r \in Kept!ToSet(disk[g]) => r \in Kept!ToSet(disk'[g]) \/ base'.history[r] = 1
  BY <1>2, UploadConstants, Kept!CustodyKeeps
<1> QED
  BY <1>3 DEF Recorded, Outbox!ToSet, Kept!ToSet

\* The invariant of the sensor and its gateways holds in the composition.
LEMMA RInvHere == JSpec => []RInv
BY JourneyIsBoth, RInvAlways, PTL

-----------------------------------------------------------------------------
(* The two hops as one custody. *)

\* A step is one of the sensor alone, or one that leaves its checkpoint alone.
LEMMA OneHopSteps ==
  ASSUME [JNext]_journeyVars
  PROVE  UNCHANGED flash \/ UNCHANGED <<disk, base>>
<1>1. ASSUME NEW g \in Gateways, Admission(g) \/ Refusal(g) \/ Decision(g) \/ Crash(g)
      PROVE  UNCHANGED flash
  BY <1>1 DEF Admission, Process, Refusal, Refuse, Decision, Decide, Crash,
     GatewayCrash, windowVars
<1>2. ASSUME NEW g \in Gateways, OutboxStep(g) PROVE UNCHANGED flash
  BY <1>2 DEF OutboxStep, reportVars, windowVars
<1>3. ServerStep \/ UNCHANGED journeyVars => UNCHANGED flash
  BY DEF ServerStep, journeyVars, reportVars, windowVars
<1>4. SensorStep => UNCHANGED <<disk, base>>
  BY DEF SensorStep, outboxVars
<1> QED
  BY <1>1, <1>2, <1>3, <1>4 DEF JNext

\* How the edge may change, given that the history does not.
LEMMA EdgeStep ==
  ASSUME base'.history = base.history,
         \/ OnEdge' = OnEdge
         \/ \E r \in HighReports \ OnEdge : OnEdge' = OnEdge \cup {r}
         \/ \E r \in OnEdge : base.history[r] > 0 /\ OnEdge' = OnEdge \ {r}
  PROVE  [EdgeCustody!Next]_(EdgeCustody!custodyVars)
<1>1. CASE OnEdge' = OnEdge
  BY <1>1 DEF EdgeCustody!custodyVars
<1>2. ASSUME NEW r \in HighReports \ OnEdge, OnEdge' = OnEdge \cup {r}
      PROVE  EdgeCustody!Accept("EDGE", r)
  BY <1>2 DEF EdgeCustody!Accept
<1>3. ASSUME NEW r \in OnEdge, base.history[r] > 0, OnEdge' = OnEdge \ {r}
      PROVE  EdgeCustody!Release("EDGE", r) /\ r \in HighReports
  <2>1. r \in HighReports
    BY DEF OnEdge
  <2>2. EdgeCustody!Safe(r)
    BY <1>3, <2>1 DEF EdgeCustody!Safe
  <2> QED
    BY <1>3, <2>1, <2>2 DEF EdgeCustody!Release
<1> QED
  BY <1>1, <1>2, <1>3 DEF EdgeCustody!Next

\* The second hop: a row leaves the last outbox when the history has it.
LEMMA OutboxHop ==
  ASSUME UNCHANGED flash,
         [Kept!ServerCustody!Next]_(Kept!ServerCustody!custodyVars)
  PROVE  [EdgeCustody!Next]_(EdgeCustody!custodyVars)
<1> DEFINE Rows == [g \in Gateways |-> Kept!ToSet(disk[g])]
<1>1. /\ OnEdge = {r \in HighReports : r \in flash \/ \E g \in Gateways : r \in Rows[g]}
      /\ OnEdge' = {r \in HighReports : r \in flash \/ \E g \in Gateways : r \in Rows'[g]}
  BY DEF OnEdge, Outbox!ToSet, Kept!ToSet
<1>2. HighReports \subseteq Report
  BY DEF HighReports
<1>3. ASSUME UNCHANGED Kept!ServerCustody!custodyVars
      PROVE  UNCHANGED EdgeCustody!custodyVars
  <2>1. Rows' = Rows /\ base'.history = base.history
    BY <1>3 DEF Kept!ServerCustody!custodyVars
  <2>2. OnEdge' = OnEdge
    BY <1>1, <2>1
  <2> QED
    BY <2>1, <2>2 DEF EdgeCustody!custodyVars
<1>4. ASSUME NEW g \in Gateways, NEW m \in Report \cup Others,
             Kept!ServerCustody!Accept(g, m)
      PROVE  [EdgeCustody!Next]_(EdgeCustody!custodyVars)
  <2>1. Rows' = [Rows EXCEPT ![g] = @ \cup {m}] /\ base'.history = base.history
    BY <1>4 DEF Kept!ServerCustody!Accept
  <2>2. \A r : (\E h \in Gateways : r \in Rows'[h]) <=> r = m \/ \E h \in Gateways : r \in Rows[h]
    BY <2>1
  <2>3. CASE m \notin HighReports \/ m \in OnEdge
    BY <1>1, <2>1, <2>2, <2>3, EdgeStep
  <2>4. CASE m \in HighReports \ OnEdge
    <3>1. OnEdge' = OnEdge \cup {m}
      BY <1>1, <2>2, <2>4
    <3> QED
      BY <2>1, <2>4, <3>1, EdgeStep
  <2> QED
    BY <2>3, <2>4
<1>5. ASSUME NEW g \in Gateways, NEW m \in Report \cup Others,
             Kept!ServerCustody!Release(g, m)
      PROVE  [EdgeCustody!Next]_(EdgeCustody!custodyVars)
  <2>1. /\ Rows' = [Rows EXCEPT ![g] = @ \ {m}] /\ base'.history = base.history
        /\ base.history[m] > 0
    BY <1>5 DEF Kept!ServerCustody!Release, Kept!ServerCustody!Safe
  <2>2. \A r : r # m => ((\E h \in Gateways : r \in Rows'[h]) <=> \E h \in Gateways : r \in Rows[h])
    BY <2>1
  <2>3. OnEdge' \subseteq OnEdge
    BY <1>1, <2>1
  <2>4. OnEdge' = OnEdge \/ (m \in OnEdge /\ OnEdge' = OnEdge \ {m})
    BY <1>1, <2>2, <2>3
  <2> QED
    BY <2>1, <2>4, EdgeStep
<1>6. ASSUME NEW s \in {"SERVER"}, Kept!ServerCustody!Store(s)
      PROVE  EdgeCustody!Store("SERVER")
  <2>1. /\ Rows' = Rows
        /\ base'.history \in [Report \cup Others -> 0..1]
        /\ \A m \in Report \cup Others : base'.history[m] # base.history[m] =>
             base.history[m] = 0
             /\ (base.history[m] > 0 \/ \E g \in Gateways : m \in Rows[g])
    BY <1>6 DEF Kept!ServerCustody!Store, Kept!ServerCustody!Safe
  <2>2. OnEdge' = OnEdge
    BY <1>1, <2>1
  <2>3. \A m \in HighReports : base'.history[m] # base.history[m] =>
          base.history[m] = 0 /\ m \in OnEdge
    BY <1>1, <1>2, <2>1
  <2>4. [r \in HighReports |-> base'.history[r]] \in [HighReports -> 0..1]
    BY <1>2, <2>1
  <2> QED
    BY <2>2, <2>3, <2>4 DEF EdgeCustody!Store
<1> QED
  BY <1>3, <1>4, <1>5, <1>6 DEF Kept!ServerCustody!Next, EdgeCustody!Next

\* The first hop: a report leaves the checkpoint when a ledger has it, hence an
\* outbox or the history.
LEMMA SensorHop ==
  ASSUME LedgersRecorded, UNCHANGED <<disk, base>>,
         [GatewayCustody!Next]_(GatewayCustody!custodyVars)
  PROVE  [EdgeCustody!Next]_(EdgeCustody!custodyVars)
<1> DEFINE InRow(r) == \E g \in Gateways : r \in Outbox!ToSet(disk[g])
<1>1. /\ OnEdge = {r \in HighReports : r \in flash \/ InRow(r)}
      /\ OnEdge' = {r \in HighReports : r \in flash' \/ InRow(r)}
  BY DEF OnEdge, Outbox!ToSet
<1> HIDE DEF InRow
<1>2. CASE flash' = flash
  BY <1>1, <1>2, EdgeStep
<1>3. ASSUME NEW h \in {"SENSOR"}, NEW r \in HighReports, GatewayCustody!Accept(h, r)
      PROVE  [EdgeCustody!Next]_(EdgeCustody!custodyVars)
  <2>1. flash' = flash \cup {r}
    BY <1>3 DEF GatewayCustody!Accept
  <2>2. OnEdge' = OnEdge \/ (r \notin OnEdge /\ OnEdge' = OnEdge \cup {r})
    BY <1>1, <2>1
  <2> QED
    BY <2>2, EdgeStep
<1>4. ASSUME NEW h \in {"SENSOR"}, NEW r \in HighReports, GatewayCustody!Release(h, r)
      PROVE  [EdgeCustody!Next]_(EdgeCustody!custodyVars)
  <2>1. r \in flash /\ flash' = flash \ {r} /\ Held(r)
    BY <1>4 DEF GatewayCustody!Release, GatewayCustody!Safe, Held
  <2>2. InRow(r) \/ base.history[r] = 1
    BY <2>1 DEF Held, LedgersRecorded, Recorded, InRow
  <2>3. InRow(r) => OnEdge' = OnEdge
    BY <1>1, <2>1
  <2>4. ~InRow(r) => r \in OnEdge /\ OnEdge' = OnEdge \ {r}
    BY <1>1, <2>1
  <2> QED
    BY <2>2, <2>3, <2>4, EdgeStep
<1>5. ASSUME NEW g \in Gateways, GatewayCustody!Store(g) PROVE flash' = flash
  BY <1>5 DEF GatewayCustody!Store
<1>6. UNCHANGED GatewayCustody!custodyVars => flash' = flash
  BY DEF GatewayCustody!custodyVars
<1> QED
  BY <1>2, <1>3, <1>4, <1>5, <1>6 DEF GatewayCustody!Next

-----------------------------------------------------------------------------
(* The theorems. *)

\* No actuator is driven on a sample of which a crash would leave no evidence:
\* what a gateway is deciding on, or decided on last, is in an outbox on disk or
\* once in the history (_process_sensor_message decides after admit_sensor).
THEOREM DecisionsStayEvidenced ==
  ASSUME JourneyConstants PROVE JSpec => []DecisionsLeaveEvidence
<1>1. RInv /\ LedgersRecorded => DecisionsLeaveEvidence
  BY DEF RInv, LedgerOK, DecidedOK, LedgersRecorded, DecisionsLeaveEvidence
<1> QED
  BY <1>1, RInvHere, LedgersStayRecorded, PTL

\* The sensor compares its samples with, and stays silent because of, only what
\* is on its way to the history or there (mark_reported, admit_sensor).
THEOREM BaselineStaysRecorded ==
  ASSUME JourneyConstants PROVE JSpec => []BaselineIsRecorded
<1>1. RInv /\ LedgersRecorded => BaselineIsRecorded
  <2> SUFFICES ASSUME RInv, LedgersRecorded, confirmed > 0
               PROVE  \E r \in Report :
                        /\ r.boot = boot /\ r.seq = confirmed /\ Recorded(r)
                        /\ reported = IF r.reading = "FAULT" THEN NoReading ELSE r.reading
    BY DEF BaselineIsRecorded
  <2>1. PICK g \in Gateways : \E r \in ledger[g] :
          /\ r.boot = boot /\ r.seq = confirmed
          /\ reported = IF r.reading = "FAULT" THEN NoReading ELSE r.reading
    BY DEF RInv, BaselineOK, BaselineIsHeld
  <2>2. ledger[g] \subseteq Report
    BY DEF RInv, LedgerOK
  <2> QED
    BY <2>1, <2>2 DEF LedgersRecorded
<1> QED
  BY <1>1, RInvHere, LedgersStayRecorded, PTL

\* From sample to history no HIGH report is lost: once published, it is at all
\* times in the checkpoint of the sensor, in an outbox on disk, or once in the
\* history, whoever crashes, and whichever frame, acknowledgement or receipt is
\* lost (report_delivery.py, offline_queue.py, database.py).
THEOREM HighReportsReachTheHistory ==
  ASSUME JourneyConstants, NEW r \in HighReports
  PROVE  JSpec => [](r \in flash => [](r \in flash \/ Recorded(r)))
<1> DEFINE Here == r \in flash \/ Recorded(r)
<1>1. RInv /\ Safe(r) /\ [JNext]_journeyVars => Safe(r)'
  BY ReportStep, RInvStep, CustodyKeeps
<1>2. LedgersRecorded /\ Safe(r) => Here
  BY DEF LedgersRecorded, Safe, Held
<1>3. r \in flash => Safe(r)
  BY DEF Safe
<1> HIDE DEF Here
<1>4. JSpec => [](r \in flash => []Here)
  BY <1>1, <1>2, <1>3, RInvHere, LedgersStayRecorded, PTL DEF JSpec
<1> QED
  BY <1>4 DEF Here

\* From sample to history the sensor, its gateways and the server are one
\* custody: a HIGH report leaves the edge - the checkpoint of the sensor and the
\* outboxes - only when the history has it, and the history records it once,
\* although it is repeated, admitted by several gateways and uploaded by each
\* (report_delivery.py confirm, offline_queue.py delete, server/dedup.py).
THEOREM JourneyImplementsCustody ==
  ASSUME JourneyConstants PROVE JSpec => EndToEndCustody
<1>1. JInit => EdgeCustody!Init
  BY DEF JInit, RInit, Outbox!UploadInit, EdgeCustody!Init, OnEdge, Outbox!ToSet,
     HighReports
<1>2. RInv /\ Kept!UIInv /\ LedgersRecorded /\ [JNext]_journeyVars
        => [EdgeCustody!Next]_(EdgeCustody!custodyVars)
  <2> SUFFICES ASSUME RInv, Kept!UIInv, LedgersRecorded, [JNext]_journeyVars
               PROVE  [EdgeCustody!Next]_(EdgeCustody!custodyVars)
    OBVIOUS
  <2>1. [GatewayCustody!Next]_(GatewayCustody!custodyVars)
    BY ReportStep, RInvStep DEF Promise
  <2>2. [Kept!UploadNext]_(Kept!uploadVars)
    BY UploadStep, SameStep, SameVars
  <2>3. Kept!Promise
    BY <2>2, UploadConstants, Kept!UIInvStep
  <2>4. [Kept!ServerCustody!Next]_(Kept!ServerCustody!custodyVars)
    BY <2>3 DEF Kept!Promise
  <2> QED
    BY <2>1, <2>4, OneHopSteps, SensorHop, OutboxHop
<1> QED
  BY <1>1, <1>2, RInvHere, UIInvHere, LedgersStayRecorded, PTL
     DEF JSpec, EndToEndCustody, EdgeCustody!Spec

\* The evidence of a decision is never lost again: when a gateway has decided on
\* a report, the report is in an outbox or once in the history for ever after,
\* although its row is deleted and the gateway decides on later ones
\* (offline_queue.py delete after PERSISTED_ACK).
THEOREM EvidenceIsForEver ==
  ASSUME JourneyConstants, NEW g \in Gateways, NEW r \in Report \ {NoReport}
  PROVE  JSpec => [](last[g] = r => []Recorded(r))
<1> DEFINE Decided == last[g] = r
<1>1. DecisionsLeaveEvidence /\ Decided => Recorded(r)
  BY DEF DecisionsLeaveEvidence
<1>2. RInv /\ Kept!UIInv /\ Recorded(r) /\ [JNext]_journeyVars => Recorded(r)'
  BY RecordedStays
<1> HIDE DEF Decided
<1>3. JSpec => [](Decided => []Recorded(r))
  BY <1>1, <1>2, RInvHere, UIInvHere, DecisionsStayEvidenced, PTL DEF JSpec
<1> QED
  BY <1>3 DEF Decided
=============================================================================
