---------------------------- MODULE ReportProofs ----------------------------
(***************************************************************************)
(* The safety properties of SensorReport for every number of gateways,     *)
(* samples, boots and epochs: what is acknowledged is in a ledger, and a   *)
(* report under way is still in the checkpoint or in a ledger already.     *)
(***************************************************************************)
EXTENDS SensorReport, TLAPS

\* The window: reports taken so far, HIGH ones on disk.
Taken(r) == r.boot < boot \/ (r.boot = boot /\ r.seq <= seq)

WindowOK ==
  /\ boot \in 1..MaxBoots /\ seq \in 0..MaxSamples /\ samples \in 0..MaxSamples
  /\ seq <= samples
  /\ pending \subseteq Report /\ flash = {r \in pending : r.high}
  /\ \A r \in pending : Taken(r) /\ (r.high => r.reading # "FAULT")

\* What is on the way: a report is acknowledged only when a gateway holds it.
Held(r) == \E g \in Gateways : r \in ledger[g]
Safe(r) == r \in flash \/ Held(r)

WayOK ==
  /\ acks \subseteq Report /\ \A r \in acks : Held(r)
  /\ ingress \in [Gateways -> Seq(Frames)]
  /\ \A g \in Gateways : \A i \in 1..Len(ingress[g]) :
       ingress[g][i].report.high => Safe(ingress[g][i].report)

BaselineOK ==
  /\ health \in {NoReading, "HEALTHY", "FAULT"} /\ reported \in Sides \cup {NoReading}
  /\ first \in BOOLEAN /\ confirmed \in 0..MaxSamples
  /\ BaselineIsHeld

AuthorityOK ==
  /\ session \in Gateways \cup {NoGateway} /\ known \in Authority
  /\ epoch \in [Gateways -> 1..MaxEpoch] /\ control \in [Gateways -> BOOLEAN]

\* Decisions: of admitted reports, and never of a boot the gateway has left.
DecidedOK(g) ==
  /\ last[g] # NoReport =>
       last[g] \in ledger[g] /\ last[g].boot <= boot
       /\ (bootOf[g] # 0 => last[g].boot <= bootOf[g])
  /\ busy[g] # NoReport =>
       busy[g] \in ledger[g] /\ bootOf[g] # 0 /\ busy[g].boot <= bootOf[g]
       /\ (last[g] # NoReport => Later(busy[g], last[g]))

LedgerOK ==
  /\ ledger \in [Gateways -> SUBSET Report]
  /\ bootOf \in [Gateways -> 0..MaxBoots] /\ \A g \in Gateways : bootOf[g] <= boot
  /\ busy \in [Gateways -> Report \cup {NoReport}]
  /\ last \in [Gateways -> Report \cup {NoReport}]
  /\ \A g \in Gateways : DecidedOK(g)

RInv == WindowOK /\ WayOK /\ BaselineOK /\ AuthorityOK /\ LedgerOK

DecidesStep ==
  \A g \in Gateways :
    last'[g] # last[g] /\ last[g] # NoReport => Later(last'[g], last[g])

\* What every step promises.
Promise ==
  /\ [GatewayCustody!Next]_(GatewayCustody!custodyVars)
  /\ DecidesStep

-----------------------------------------------------------------------------
(* What the steps have in common. *)

LEMMA NothingHandedOver ==
  ASSUME UNCHANGED <<flash, ledger, last>>
  PROVE  Promise
BY DEF Promise, DecidesStep, GatewayCustody!custodyVars

LEMMA WindowKept ==
  ASSUME RInv, UNCHANGED <<boot, seq, samples, pending, flash>>
  PROVE  WindowOK'
BY DEF RInv, WindowOK, Taken

\* Frames and acknowledgements may be lost, and ledgers grow.
LEMMA WayKept ==
  ASSUME RInv, ingress' = ingress, acks' \subseteq acks,
         \A r : Safe(r) => Safe(r)', \A r : Held(r) => Held(r)'
  PROVE  WayOK'
<1>1. acks' \subseteq Report /\ \A r \in acks' : Held(r)'
  BY DEF RInv, WayOK
<1>2. \A g \in Gateways : \A i \in 1..Len(ingress[g]) :
        ingress[g][i].report.high => Safe(ingress[g][i].report)
  BY DEF RInv, WayOK
<1>3. \A g \in Gateways : \A i \in 1..Len(ingress[g]) : \A r :
        r = ingress[g][i].report /\ r.high => Safe(r)'
  BY <1>2
<1>4. \A g \in Gateways : \A i \in 1..Len(ingress'[g]) :
        (ingress[g][i].report.high => Safe(ingress[g][i].report))'
  BY <1>3 DEF Safe, Held
<1> QED
  BY <1>1, <1>4 DEF RInv, WayOK

LEMMA BaselineKept ==
  ASSUME RInv, UNCHANGED <<boot, health, reported, first, confirmed>>,
         \A g \in Gateways : ledger[g] \subseteq ledger'[g]
  PROVE  BaselineOK'
BY DEF RInv, BaselineOK, BaselineIsHeld

LEMMA AuthorityKept ==
  ASSUME RInv, UNCHANGED <<epoch, control>>,
         UNCHANGED known \/ known' = Unheard, UNCHANGED session \/ session' = NoGateway
  PROVE  AuthorityOK'
BY ReportAssumption DEF RInv, AuthorityOK, Authority, Unheard

LEMMA LedgerKept ==
  ASSUME RInv, UNCHANGED <<ledger, bootOf, busy, last>>, boot <= boot',
         boot' \in Nat
  PROVE  LedgerOK'
BY DEF RInv, WindowOK, LedgerOK, DecidedOK, Later, Report

\* A step of the sensor's connection changes none of it.
LEMMA SafeKept ==
  ASSUME UNCHANGED ledger, flash \subseteq flash'
  PROVE  /\ \A r : Safe(r) => Safe(r)'
         /\ \A r : Held(r) => Held(r)'
BY DEF Safe, Held

-----------------------------------------------------------------------------
(* The sensor. *)

LEMMA EndSessionStep ==
  ASSUME RInv, EndSession
  PROVE  RInv' /\ Promise
<1>1. /\ session' = NoGateway /\ acks' = {}
      /\ UNCHANGED <<senseVars, windowVars, known, ownerVars, gatewayVars>>
  BY DEF EndSession
<1>2. WindowOK' /\ BaselineOK' /\ AuthorityOK' /\ LedgerOK'
  BY <1>1, WindowKept, BaselineKept, AuthorityKept, LedgerKept
     DEF senseVars, windowVars, ownerVars, gatewayVars, RInv, WindowOK
<1>3. WayOK'
  BY <1>1, SafeKept, WayKept DEF windowVars, gatewayVars
<1> QED
  BY <1>1, <1>2, <1>3, NothingHandedOver DEF RInv, windowVars, gatewayVars

\* What outlives the process is on disk.
LEMMA RebootStep ==
  ASSUME RInv, Reboot
  PROVE  RInv' /\ Promise
<1>1. /\ boot < MaxBoots /\ boot' = boot + 1 /\ seq' = 0
      /\ health' = NoReading /\ reported' = NoReading /\ first' = TRUE /\ confirmed' = 0
      /\ pending' = flash /\ session' = NoGateway /\ known' = Unheard /\ acks' = {}
      /\ UNCHANGED <<samples, flash, ownerVars, gatewayVars>>
  BY DEF Reboot
<1>2. WindowOK'
  <2>1. boot' \in 1..MaxBoots /\ seq' \in 0..MaxSamples /\ seq' <= samples'
    BY <1>1, ReportAssumption DEF RInv, WindowOK
  <2>2. flash \subseteq Report /\ \A r \in flash : r.boot <= boot /\ r.boot \in Nat
    BY DEF RInv, WindowOK, Taken, Report
  <2>3. \A r \in pending' : r.boot < boot'
    BY <1>1, <2>2 DEF RInv, WindowOK
  <2> QED
    BY <1>1, <2>1, <2>2, <2>3 DEF RInv, WindowOK, Taken
<1>3. WayOK'
  BY <1>1, SafeKept, WayKept DEF gatewayVars
<1>4. BaselineOK'
  BY <1>1, ReportAssumption DEF BaselineOK, BaselineIsHeld
<1>5. AuthorityOK' /\ LedgerOK'
  BY <1>1, AuthorityKept, LedgerKept DEF ownerVars, gatewayVars, RInv, WindowOK
<1> QED
  BY <1>1, <1>2, <1>3, <1>4, <1>5, NothingHandedOver DEF RInv, gatewayVars

\* A new report is none the window has had.
LEMMA KeepReport ==
  ASSUME RInv, NEW r \in Report, r.boot = boot, r.seq = seq + 1,
         r.high => r.reading # "FAULT",
         Keep(r) \/ UNCHANGED windowVars
  PROVE  /\ pending' \subseteq pending \cup {r} /\ flash' = {x \in pending' : x.high}
         /\ flash \subseteq flash'
         /\ flash' = flash \/ (r \in HighReports /\ r \notin flash /\ flash' = flash \cup {r})
<1>1. r \notin flash
  BY DEF RInv, WindowOK, Taken, Report
<1>2. CASE Keep(r)
  BY <1>1, <1>2 DEF Keep, RInv, WindowOK, HighReports
<1>3. CASE UNCHANGED windowVars
  BY <1>3 DEF windowVars, RInv, WindowOK
<1> QED
  BY <1>2, <1>3

\* What one sample does to window and trust, for given inputs.
Sampled(reading, reminder, routine, event) ==
  /\ LET r == [boot |-> boot, seq |-> seq', reading |-> reading,
               high |-> event \/ Urgent(reading)]
     IN IF (routine \/ Required(reading, reminder)) /\ Admissible(r.high)
        THEN Keep(r)
        ELSE UNCHANGED windowVars
  /\ health' = State(reading)

LEMMA SampleStep ==
  ASSUME RInv, Sample
  PROVE  RInv' /\ Promise
<1>1. /\ samples < MaxSamples /\ samples' = samples + 1 /\ seq' = seq + 1
      /\ UNCHANGED <<boot, reported, first, confirmed, sessionVars, ownerVars, gatewayVars>>
  BY DEF Sample
<1>2. PICK reading \in Sides \cup {"FAULT"}, reminder \in BOOLEAN :
        \E routine \in Due(reading) : \E event \in Detected(routine) :
          Sampled(reading, reminder, routine, event)
  BY DEF Sample, Sampled
<1>3. PICK routine \in Due(reading) : \E event \in Detected(routine) :
        Sampled(reading, reminder, routine, event)
  BY <1>2
<1>4. PICK event \in Detected(routine) : Sampled(reading, reminder, routine, event)
  BY <1>3
<1>5. event \in BOOLEAN /\ (event => reading # "FAULT")
  BY DEF Due, Detected
<1>6. PICK urgent \in BOOLEAN :
        /\ urgent = (event \/ Urgent(reading)) /\ (urgent => reading # "FAULT")
  BY <1>5 DEF Urgent
<1> DEFINE r == [boot |-> boot, seq |-> seq + 1, reading |-> reading, high |-> urgent]
<1>7. Keep(r) \/ UNCHANGED windowVars
  BY <1>1, <1>4, <1>6 DEF Sampled
<1>8. /\ boot \in 1..MaxBoots /\ seq \in Nat /\ samples \in Nat /\ seq <= samples
      /\ MaxSamples \in Nat
  BY ReportAssumption DEF RInv, WindowOK
<1>9. seq + 1 \in 1..MaxSamples
  BY <1>1, <1>8
<1>10. /\ r \in Report /\ r.boot = boot /\ r.seq = seq + 1
      /\ (r.high => r.reading # "FAULT")
  BY <1>6, <1>8, <1>9 DEF Report
<1> HIDE DEF r
<1>11. /\ pending' \subseteq pending \cup {r} /\ flash' = {x \in pending' : x.high}
       /\ flash \subseteq flash'
       /\ flash' = flash \/ (r \in HighReports /\ r \notin flash /\ flash' = flash \cup {r})
  BY <1>7, <1>10, KeepReport
<1>12. WindowOK'
  <2>1. seq' \in 0..MaxSamples /\ samples' \in 0..MaxSamples /\ seq' <= samples'
    BY <1>1, <1>8
  <2>2. \A x \in pending' : Taken(x)' /\ (x.high => x.reading # "FAULT")
    BY <1>1, <1>8, <1>10, <1>11 DEF RInv, WindowOK, Taken, Report
  <2> QED
    BY <1>1, <1>8, <1>10, <1>11, <2>1, <2>2 DEF RInv, WindowOK
<1>13. WayOK'
  BY <1>1, <1>11, SafeKept, WayKept DEF sessionVars, gatewayVars
<1>14. BaselineOK'
  BY <1>1, <1>4 DEF Sampled, State, RInv, BaselineOK, BaselineIsHeld, gatewayVars
<1>15. AuthorityOK' /\ LedgerOK'
  BY <1>1, <1>8, AuthorityKept, LedgerKept DEF sessionVars, ownerVars, gatewayVars
<1>16. Promise
  <2>1. UNCHANGED <<ledger, last>>
    BY <1>1 DEF gatewayVars
  <2>2. CASE flash' = flash
    BY <2>1, <2>2, NothingHandedOver
  <2>3. CASE r \in HighReports /\ r \notin flash /\ flash' = flash \cup {r}
    <3>1. GatewayCustody!Accept("SENSOR", r)
      BY <2>1, <2>3 DEF GatewayCustody!Accept
    <3> QED
      BY <2>1, <2>3, <3>1 DEF Promise, DecidesStep, GatewayCustody!Next
  <2> QED
    BY <1>11, <2>2, <2>3
<1> QED
  BY <1>12, <1>13, <1>14, <1>15, <1>16 DEF RInv

LEMMA TransmitStep ==
  ASSUME RInv, NEW r \in pending, Transmit(r)
  PROVE  RInv' /\ Promise
<1> DEFINE f == [report |-> r, by |-> boot]
<1>1. /\ session # NoGateway
      /\ ingress' = [ingress EXCEPT ![session] = Append(@, f)]
      /\ UNCHANGED <<senseVars, windowVars, sessionVars, ownerVars, bootOf, busy, ledger, last>>
  BY DEF Transmit
<1>2. session \in Gateways
  BY <1>1 DEF RInv, AuthorityOK
<1>3. f \in Frames /\ (r.high => Safe(r))
  BY DEF RInv, WindowOK, Frames, Safe
<1>4. /\ ingress[session] \in Seq(Frames)
      /\ \A i \in 1..Len(ingress[session]) :
           ingress[session][i].report.high => Safe(ingress[session][i].report)
  BY <1>2 DEF RInv, WayOK
<1>5. \A i \in 1..Len(Append(ingress[session], f)) :
        Append(ingress[session], f)[i].report.high =>
          Safe(Append(ingress[session], f)[i].report)
  BY <1>3, <1>4
<1>6. ingress' \in [Gateways -> Seq(Frames)]
  BY <1>1, <1>2, <1>3, <1>4 DEF RInv, WayOK
<1>7. \A g \in Gateways : \A i \in 1..Len(ingress'[g]) :
        ingress'[g][i].report.high => Safe(ingress'[g][i].report)
  BY <1>1, <1>2, <1>5 DEF RInv, WayOK
<1>8. WayOK'
  BY <1>1, <1>6, <1>7 DEF RInv, WayOK, Safe, Held, windowVars, sessionVars
<1>9. WindowOK' /\ BaselineOK' /\ AuthorityOK' /\ LedgerOK'
  BY <1>1, WindowKept, BaselineKept, AuthorityKept, LedgerKept
     DEF senseVars, windowVars, sessionVars, ownerVars, RInv, WindowOK
<1> QED
  BY <1>1, <1>8, <1>9, NothingHandedOver DEF RInv, windowVars

\* The sensor lets go of a report, and builds on it, when a gateway has it.
LEMMA ConfirmStep ==
  ASSUME RInv, NEW r \in acks, Confirm(r)
  PROVE  RInv' /\ Promise
<1>1. /\ acks' = acks \ {r}
      /\ UNCHANGED <<boot, seq, samples, health, session, known, ownerVars, gatewayVars>>
  BY DEF Confirm
<1>2. r \in Report /\ Held(r)
  BY DEF RInv, WayOK
<1>3. CASE r \notin pending
  <2>1. UNCHANGED <<windowVars, reported, first, confirmed>>
    BY <1>3 DEF Confirm
  <2>2. WindowOK' /\ BaselineOK' /\ AuthorityOK' /\ LedgerOK'
    BY <1>1, <2>1, WindowKept, BaselineKept, AuthorityKept, LedgerKept
       DEF windowVars, ownerVars, gatewayVars, RInv, WindowOK
  <2>3. WayOK'
    BY <1>1, <2>1, SafeKept, WayKept DEF windowVars, gatewayVars
  <2> QED
    BY <1>1, <2>1, <2>2, <2>3, NothingHandedOver DEF RInv, windowVars, gatewayVars
<1>4. CASE r \in pending
  <2>1. pending' = pending \ {r} /\ flash' = flash \ {r} /\ MarkReported(r)
    BY <1>4 DEF Confirm
  <2>2. WindowOK'
    BY <1>1, <2>1 DEF RInv, WindowOK, Taken
  <2>3. WayOK'
    <3>1. \A x : (Safe(x) => Safe(x)') /\ (Held(x) => Held(x)')
      BY <1>1, <1>2, <2>1 DEF Safe, Held, gatewayVars
    <3> QED
      BY <1>1, <3>1, WayKept DEF gatewayVars
  <2>4. BaselineOK'
    <3>1. CASE r.boot = boot /\ r.seq > confirmed
      <4>1. /\ confirmed' = r.seq
            /\ reported' = IF r.reading = "FAULT" THEN NoReading ELSE r.reading
            /\ first' = (first /\ r.reading = "FAULT")
        BY <2>1, <3>1 DEF MarkReported
      <4>2. /\ r.seq \in 0..MaxSamples
            /\ (IF r.reading = "FAULT" THEN NoReading ELSE r.reading) \in Sides \cup {NoReading}
        BY <1>2 DEF Report
      <4>3. BaselineIsHeld'
        BY <1>1, <1>2, <3>1, <4>1 DEF BaselineIsHeld, Held, gatewayVars
      <4> QED
        BY <1>1, <4>1, <4>2, <4>3 DEF RInv, BaselineOK
    <3>2. CASE ~(r.boot = boot /\ r.seq > confirmed)
      <4>1. UNCHANGED <<confirmed, reported, first>>
        BY <2>1, <3>2 DEF MarkReported
      <4> QED
        BY <1>1, <4>1, BaselineKept DEF gatewayVars
    <3> QED
      BY <3>1, <3>2
  <2>5. AuthorityOK' /\ LedgerOK'
    BY <1>1, AuthorityKept, LedgerKept DEF ownerVars, gatewayVars, RInv, WindowOK
  <2>6. Promise
    <3>1. UNCHANGED <<ledger, last>>
      BY <1>1 DEF gatewayVars
    <3>2. CASE r \notin flash
      <4>1. flash' = flash
        BY <2>1, <3>2
      <4> QED
        BY <3>1, <4>1, NothingHandedOver
    <3>3. CASE r \in flash
      <4>1. r \in HighReports
        BY <1>2, <3>3 DEF RInv, WindowOK, HighReports
      <4>2. GatewayCustody!Safe(r)
        BY <1>2, <4>1 DEF GatewayCustody!Safe, Held
      <4>3. GatewayCustody!Release("SENSOR", r)
        BY <2>1, <3>1, <3>3, <4>2 DEF GatewayCustody!Release
      <4> QED
        BY <3>1, <4>1, <4>3 DEF Promise, DecidesStep, GatewayCustody!Next
    <3> QED
      BY <3>2, <3>3
  <2> QED
    BY <2>2, <2>3, <2>4, <2>5, <2>6 DEF RInv
<1> QED
  BY <1>3, <1>4

-----------------------------------------------------------------------------
(* Authority and restarts of the gateways. *)

\* A gateway learns the boot of the sensor: none is newer.
LEMMA RegisterStep ==
  ASSUME RInv, NEW g \in Gateways, NEW heard \in BOOLEAN, Register(g, heard)
  PROVE  RInv' /\ Promise
<1>1. /\ bootOf' = [bootOf EXCEPT ![g] = boot]
      /\ \/ session' = g /\ known' = [gw |-> g, epoch |-> epoch[g]]
         \/ UNCHANGED <<session, known>>
      /\ UNCHANGED <<senseVars, windowVars, acks, ownerVars, ingress, busy, ledger, last>>
  BY DEF Register
<1>2. WindowOK' /\ BaselineOK'
  BY <1>1, WindowKept, BaselineKept DEF senseVars, windowVars
<1>3. WayOK'
  BY <1>1, SafeKept, WayKept DEF windowVars
<1>4. AuthorityOK'
  BY <1>1, ReportAssumption DEF RInv, AuthorityOK, Authority, ownerVars
<1>5. LedgerOK'
  <2>1. boot \in 1..MaxBoots /\ boot' = boot
    BY <1>1 DEF RInv, WindowOK, senseVars
  <2>2. bootOf' \in [Gateways -> 0..MaxBoots]
    BY <1>1, <2>1 DEF RInv, LedgerOK
  <2>3. \A h \in Gateways : bootOf'[h] = IF h = g THEN boot ELSE bootOf[h]
    BY <1>1 DEF RInv, LedgerOK
  <2>4. \A h \in Gateways : bootOf'[h] <= boot'
    BY <2>1, <2>3 DEF RInv, LedgerOK
  <2>5. ASSUME NEW h \in Gateways PROVE DecidedOK(h)'
    <3>1. /\ busy[h] # NoReport => busy[h] \in Report /\ bootOf[h] <= boot
          /\ bootOf[h] \in Nat /\ boot \in Nat \ {0}
          /\ \A x \in Report : x.boot \in Nat
      BY <2>1 DEF RInv, LedgerOK, Report
    <3> QED
      BY <1>1, <2>1, <2>3, <3>1 DEF RInv, LedgerOK, DecidedOK, Later
  <2> QED
    BY <1>1, <2>2, <2>4, <2>5 DEF RInv, LedgerOK
<1> QED
  BY <1>1, <1>2, <1>3, <1>4, <1>5, NothingHandedOver DEF RInv, windowVars

LEMMA OwnerStep ==
  ASSUME RInv, epoch' \in [Gateways -> 1..MaxEpoch], control' \in [Gateways -> BOOLEAN],
         UNCHANGED <<senseVars, windowVars, sessionVars, gatewayVars>>
  PROVE  RInv' /\ Promise
<1>1. WindowOK' /\ BaselineOK' /\ LedgerOK'
  BY WindowKept, BaselineKept, LedgerKept
     DEF senseVars, windowVars, gatewayVars, RInv, WindowOK
<1>2. WayOK'
  BY SafeKept, WayKept DEF windowVars, sessionVars, gatewayVars
<1>3. AuthorityOK'
  BY DEF RInv, AuthorityOK, sessionVars
<1> QED
  BY <1>1, <1>2, <1>3, NothingHandedOver DEF RInv, windowVars, gatewayVars

LEMMA TakeoverStep ==
  ASSUME RInv, NEW g \in Gateways, Takeover(g)
  PROVE  RInv' /\ Promise
<1>1. PICK e \in 1..MaxEpoch : epoch' = [epoch EXCEPT ![g] = e]
  BY DEF Takeover
<1> QED
  BY <1>1, OwnerStep DEF Takeover, RInv, AuthorityOK

LEMMA DemoteStep ==
  ASSUME RInv, NEW g \in Gateways, Demote(g)
  PROVE  RInv' /\ Promise
<1>1. PICK h \in Gateways : epoch' = [epoch EXCEPT ![g] = epoch[h]]
  BY DEF Demote
<1> QED
  BY <1>1, OwnerStep DEF Demote, RInv, AuthorityOK

LEMMA GatewayCrashStep ==
  ASSUME RInv, NEW g \in Gateways, GatewayCrash(g)
  PROVE  RInv' /\ Promise
<1>1. /\ bootOf' = [bootOf EXCEPT ![g] = 0]
      /\ ingress' = [ingress EXCEPT ![g] = <<>>]
      /\ busy' = [busy EXCEPT ![g] = NoReport]
      /\ (session' = NoGateway /\ acks' = {}) \/ UNCHANGED <<session, acks>>
      /\ UNCHANGED <<senseVars, windowVars, known, ownerVars, ledger, last>>
  BY DEF GatewayCrash
<1>2. WindowOK' /\ BaselineOK' /\ AuthorityOK'
  BY <1>1, WindowKept, BaselineKept, AuthorityKept DEF senseVars, windowVars, ownerVars
<1>3. WayOK'
  <2>1. acks' \subseteq Report /\ \A r \in acks' : Held(r)'
    BY <1>1 DEF RInv, WayOK, Held
  <2>2. ingress' \in [Gateways -> Seq(Frames)]
    BY <1>1 DEF RInv, WayOK
  <2>3. \A h \in Gateways : \A i \in 1..Len(ingress'[h]) :
          ingress'[h][i] = ingress[h][i] /\ i \in 1..Len(ingress[h])
    BY <1>1 DEF RInv, WayOK
  <2>4. \A h \in Gateways : \A i \in 1..Len(ingress'[h]) :
          ingress'[h][i].report.high => Safe(ingress'[h][i].report)
    BY <2>3 DEF RInv, WayOK
  <2> QED
    BY <1>1, <2>1, <2>2, <2>4 DEF WayOK, Safe, Held, windowVars
<1>4. LedgerOK'
  <2>1. /\ bootOf' \in [Gateways -> 0..MaxBoots]
        /\ busy' \in [Gateways -> Report \cup {NoReport}]
    BY <1>1, ReportAssumption DEF RInv, LedgerOK
  <2>2. boot' = boot /\ boot \in Nat
    BY <1>1 DEF senseVars, RInv, WindowOK
  <2>3. \A h \in Gateways : bootOf'[h] <= boot'
    BY <1>1, <2>2 DEF RInv, LedgerOK
  <2>4. \A h \in Gateways : DecidedOK(h)'
    BY <1>1, <2>2 DEF RInv, LedgerOK, DecidedOK, Later
  <2> QED
    BY <1>1, <2>1, <2>3, <2>4 DEF RInv, LedgerOK
<1> QED
  BY <1>1, <1>2, <1>3, <1>4, NothingHandedOver DEF RInv, windowVars

-----------------------------------------------------------------------------
(* Admission and decision. *)

\* The frame a gateway reads next, and what is left of its queue.
LEMMA FrameRead ==
  ASSUME RInv, NEW g \in Gateways, ingress[g] # <<>>,
         ingress' = [ingress EXCEPT ![g] = Tail(@)]
  PROVE  /\ Head(ingress[g]) \in Frames /\ Head(ingress[g]).report \in Report
         /\ Head(ingress[g]).report.high => Safe(Head(ingress[g]).report)
         /\ ingress' \in [Gateways -> Seq(Frames)]
         /\ \A h \in Gateways : \A i \in 1..Len(ingress'[h]) :
              ingress'[h][i].report.high => Safe(ingress'[h][i].report)
<1>1. /\ ingress[g] \in Seq(Frames)
      /\ \A i \in 1..Len(ingress[g]) :
           ingress[g][i].report.high => Safe(ingress[g][i].report)
  BY DEF RInv, WayOK
<1>2. /\ Len(ingress[g]) \in Nat \ {0} /\ Head(ingress[g]) = ingress[g][1]
      /\ Head(ingress[g]) \in Frames
      /\ Tail(ingress[g]) \in Seq(Frames) /\ Len(Tail(ingress[g])) = Len(ingress[g]) - 1
      /\ \A i \in 1..Len(ingress[g]) - 1 : Tail(ingress[g])[i] = ingress[g][i + 1]
  BY <1>1
<1>3. Head(ingress[g]).report.high => Safe(Head(ingress[g]).report)
  BY <1>1, <1>2
<1>4. \A i \in 1..Len(Tail(ingress[g])) :
        Tail(ingress[g])[i].report.high => Safe(Tail(ingress[g])[i].report)
  BY <1>1, <1>2
<1>5. ingress' \in [Gateways -> Seq(Frames)]
  BY <1>2 DEF RInv, WayOK
<1>6. \A h \in Gateways : \A i \in 1..Len(ingress'[h]) :
        ingress'[h][i].report.high => Safe(ingress'[h][i].report)
  BY <1>4 DEF RInv, WayOK
<1> QED
  BY <1>2, <1>3, <1>5, <1>6 DEF Frames

LEMMA RefuseStep ==
  ASSUME RInv, NEW g \in Gateways, Refuse(g)
  PROVE  RInv' /\ Promise
<1>1. /\ ingress[g] # <<>> /\ ingress' = [ingress EXCEPT ![g] = Tail(@)]
      /\ UNCHANGED <<senseVars, windowVars, sessionVars, ownerVars, bootOf, busy,
                     ledger, last>>
  BY DEF Refuse
<1>2. WindowOK' /\ BaselineOK' /\ AuthorityOK' /\ LedgerOK'
  BY <1>1, WindowKept, BaselineKept, AuthorityKept, LedgerKept
     DEF senseVars, windowVars, sessionVars, ownerVars, RInv, WindowOK
<1>3. WayOK'
  BY <1>1, FrameRead DEF RInv, WayOK, Safe, Held, windowVars, sessionVars
<1> QED
  BY <1>1, <1>2, <1>3, NothingHandedOver DEF RInv, windowVars

LEMMA ProcessStep ==
  ASSUME RInv, NEW g \in Gateways, Process(g)
  PROVE  RInv' /\ Promise
<1> DEFINE f == Head(ingress[g])
<1>1. /\ busy[g] = NoReport /\ ingress[g] # <<>>
      /\ ingress' = [ingress EXCEPT ![g] = Tail(@)]
      /\ ledger' = [ledger EXCEPT ![g] = @ \cup {f.report}]
      /\ acks' = acks \cup {f.report} \/ acks' = acks
      /\ UNCHANGED <<senseVars, windowVars, session, known, ownerVars, bootOf, last>>
  BY DEF Process
<1>2. \/ busy' = busy
      \/ Usable(g, f) /\ busy' = [busy EXCEPT ![g] = f.report]
  BY DEF Process, RInv, LedgerOK
<1>3. PICK r \in Report : r = f.report
  BY <1>1, FrameRead
<1>4. r.high => Safe(r)
  BY <1>1, <1>3, FrameRead
<1>5. /\ ledger' \in [Gateways -> SUBSET Report] /\ ledger'[g] = ledger[g] \cup {r}
      /\ \A h \in Gateways \ {g} : ledger'[h] = ledger[h]
      /\ \A h \in Gateways : ledger[h] \subseteq ledger'[h]
  BY <1>1, <1>3 DEF RInv, LedgerOK
<1>6. Held(r)' /\ \A x : (Held(x) => Held(x)') /\ (Safe(x) => Safe(x)')
  BY <1>1, <1>5 DEF Held, Safe, windowVars
<1>7. WindowOK' /\ BaselineOK' /\ AuthorityOK'
  BY <1>1, <1>5, WindowKept, BaselineKept, AuthorityKept
     DEF senseVars, windowVars, ownerVars
<1>8. WayOK'
  <2>1. acks' \subseteq Report /\ \A x \in acks' : Held(x)'
    BY <1>1, <1>3, <1>6 DEF RInv, WayOK
  <2>2. /\ ingress' \in [Gateways -> Seq(Frames)]
        /\ \A h \in Gateways : \A i \in 1..Len(ingress'[h]) :
             ingress'[h][i].report.high => Safe(ingress'[h][i].report)
    BY <1>1, FrameRead
  <2>3. \A h \in Gateways : \A i \in 1..Len(ingress'[h]) : \A x :
          x = ingress'[h][i].report /\ x.high => Safe(x)'
    BY <1>6, <2>2
  <2>4. \A h \in Gateways : \A i \in 1..Len(ingress'[h]) :
          (ingress[h][i].report.high => Safe(ingress[h][i].report))'
    BY <2>3 DEF Safe, Held
  <2> QED
    BY <2>1, <2>2, <2>4 DEF WayOK
<1>9. LedgerOK'
  <2>1. boot' = boot /\ boot \in Nat
    BY <1>1 DEF senseVars, RInv, WindowOK
  <2>2. busy' \in [Gateways -> Report \cup {NoReport}]
    BY <1>2, <1>3 DEF RInv, LedgerOK
  <2>3. \A h \in Gateways \ {g} : busy'[h] = busy[h] /\ DecidedOK(h)
    BY <1>2 DEF RInv, LedgerOK
  <2>4. \A h \in Gateways \ {g} : DecidedOK(h)'
    BY <1>1, <1>5, <2>1, <2>3 DEF DecidedOK, Later
  <2>5. DecidedOK(g)'
    <3>1. DecidedOK(g) /\ bootOf[g] \in Nat /\ \A x \in Report : x.boot \in Nat \ {0}
      BY DEF RInv, LedgerOK, Report
    <3>2. CASE busy' = busy
      BY <1>1, <1>5, <2>1, <3>1, <3>2 DEF DecidedOK, Later
    <3>3. CASE Usable(g, f) /\ busy' = [busy EXCEPT ![g] = f.report]
      <4>1. r.boot = bootOf[g] /\ \A x \in ledger[g] : x.boot = r.boot => x.seq < r.seq
        BY <1>3, <3>3 DEF Usable, Fresh
      <4>2. busy'[g] = r
        BY <1>3, <3>3 DEF RInv, LedgerOK
      <4>3. \A x \in ledger[g] : x.boot <= bootOf[g] => Later(r, x)
        <5> SUFFICES ASSUME NEW x \in ledger[g], x.boot <= bootOf[g]
                     PROVE  Later(r, x)
          OBVIOUS
        <5>1. x \in Report
          BY DEF RInv, LedgerOK
        <5>2. x.boot \in Nat /\ x.seq \in Nat /\ r.seq \in Nat
          BY <1>3, <5>1, ReportAssumption DEF Report
        <5>3. CASE x.boot = r.boot
          BY <4>1, <5>2, <5>3 DEF Later
        <5>4. CASE x.boot # r.boot
          BY <3>1, <4>1, <5>2, <5>4 DEF Later
        <5> QED
          BY <5>3, <5>4
      <4> QED
        BY <1>1, <1>5, <2>1, <3>1, <4>1, <4>2, <4>3 DEF DecidedOK, Later
    <3> QED
      BY <1>2, <3>2, <3>3
  <2> QED
    BY <1>1, <1>5, <2>1, <2>2, <2>4, <2>5 DEF RInv, LedgerOK
<1>10. Promise
  <2> DEFINE stored == [h \in Gateways |->
                          [x \in HighReports |-> IF x \in ledger[h] THEN 1 ELSE 0]]
  <2>1. stored' = [h \in Gateways |->
                     [x \in HighReports |-> IF x \in ledger'[h] THEN 1 ELSE 0]]
    OBVIOUS
  <2>2. stored' \in [Gateways -> [HighReports -> 0..1]]
    BY <2>1
  <2>3. \A h \in Gateways : h # g => stored'[h] = stored[h]
    BY <1>5, <2>1
  <2>4. ASSUME NEW x \in HighReports, stored'[g][x] # stored[g][x]
        PROVE  stored[g][x] = 0 /\ x = r
    BY <1>5, <2>1, <2>4
  <2>5. ASSUME NEW x \in HighReports, x = r
        PROVE  GatewayCustody!Safe(x) \/ \E h \in {"SENSOR"} : x \in flash
    BY <1>4, <2>5 DEF HighReports, Safe, Held, GatewayCustody!Safe
  <2>6. UNCHANGED flash
    BY <1>1 DEF windowVars
  <2>7. GatewayCustody!Store(g)
    BY <2>2, <2>3, <2>4, <2>5, <2>6 DEF GatewayCustody!Store
  <2>8. DecidesStep
    BY <1>1 DEF DecidesStep
  <2> QED
    BY <2>7, <2>8 DEF Promise, GatewayCustody!Next
<1> QED
  BY <1>7, <1>8, <1>9, <1>10 DEF RInv

LEMMA DecideStep ==
  ASSUME RInv, NEW g \in Gateways, Decide(g)
  PROVE  RInv' /\ Promise
<1>1. /\ busy[g] # NoReport /\ busy' = [busy EXCEPT ![g] = NoReport]
      /\ last' = [last EXCEPT ![g] = busy[g]] \/ last' = last
      /\ UNCHANGED <<senseVars, windowVars, sessionVars, ownerVars, bootOf, ingress, ledger>>
  BY DEF Decide
<1>2. WindowOK' /\ BaselineOK' /\ AuthorityOK'
  BY <1>1, WindowKept, BaselineKept, AuthorityKept
     DEF senseVars, windowVars, sessionVars, ownerVars
<1>3. WayOK'
  BY <1>1, SafeKept, WayKept DEF windowVars, sessionVars
<1>4. LedgerOK'
  <2>1. boot' = boot /\ boot \in Nat
    BY <1>1 DEF senseVars, RInv, WindowOK
  <2>2. /\ busy' \in [Gateways -> Report \cup {NoReport}]
        /\ last' \in [Gateways -> Report \cup {NoReport}]
    BY <1>1 DEF RInv, LedgerOK
  <2>3. \A h \in Gateways \ {g} : busy'[h] = busy[h] /\ last'[h] = last[h] /\ DecidedOK(h)
    BY <1>1 DEF RInv, LedgerOK
  <2>4. \A h \in Gateways \ {g} : DecidedOK(h)'
    BY <1>1, <2>1, <2>3 DEF DecidedOK, Later
  <2>5. DecidedOK(g)'
    <3>1. /\ DecidedOK(g) /\ bootOf[g] \in Nat /\ bootOf[g] <= boot
          /\ busy[g] \in Report /\ busy[g].boot \in Nat
      BY <1>1 DEF RInv, LedgerOK, Report
    <3>2. busy'[g] = NoReport /\ (last'[g] = busy[g] \/ last'[g] = last[g])
      BY <1>1 DEF RInv, LedgerOK
    <3> QED
      BY <1>1, <2>1, <3>1, <3>2 DEF DecidedOK
  <2> QED
    BY <1>1, <2>1, <2>2, <2>4, <2>5 DEF RInv, LedgerOK
<1>5. DecidesStep
  BY <1>1 DEF DecidesStep, RInv, LedgerOK, DecidedOK
<1>6. UNCHANGED GatewayCustody!custodyVars
  BY <1>1 DEF GatewayCustody!custodyVars, windowVars
<1> QED
  BY <1>2, <1>3, <1>4, <1>5, <1>6 DEF RInv, Promise

-----------------------------------------------------------------------------
(* The invariant. *)

LEMMA RInvInit == RInit => RInv /\ GatewayCustody!Init
<1> SUFFICES ASSUME RInit PROVE RInv /\ GatewayCustody!Init
  OBVIOUS
<1>1. MaxSamples \in Nat /\ MaxBoots \in Nat \ {0} /\ MaxEpoch \in Nat \ {0}
  BY ReportAssumption
<1>2. WindowOK /\ AuthorityOK
  BY <1>1 DEF RInit, WindowOK, AuthorityOK, Authority, Unheard
<1>3. BaselineOK
  BY <1>1 DEF RInit, BaselineOK, BaselineIsHeld
<1>4. WayOK
  <2>1. \A g \in Gateways : ingress[g] = <<>>
    BY DEF RInit
  <2>2. \A g \in Gateways : 1..Len(ingress[g]) = {}
    BY <2>1
  <2> QED
    BY <2>2 DEF RInit, WayOK
<1>5. LedgerOK
  BY <1>1 DEF RInit, LedgerOK, DecidedOK
<1>6. GatewayCustody!Init
  BY DEF RInit, GatewayCustody!Init
<1> QED
  BY <1>2, <1>3, <1>4, <1>5, <1>6 DEF RInv

\* Every step keeps the invariant and its promise.
LEMMA RInvStep == RInv /\ [RNext]_reportVars => RInv' /\ Promise
<1> SUFFICES ASSUME RInv, [RNext]_reportVars PROVE RInv' /\ Promise
  OBVIOUS
<1>1. CASE SensorNext
  BY <1>1, SampleStep, EndSessionStep, RebootStep, TransmitStep, ConfirmStep DEF SensorNext
<1>2. CASE GatewayNext
  BY <1>2, RegisterStep, ProcessStep, RefuseStep, DecideStep, GatewayCrashStep,
     TakeoverStep, DemoteStep DEF GatewayNext
<1>3. CASE UNCHANGED reportVars
  BY <1>3, OwnerStep DEF reportVars, ownerVars, RInv, AuthorityOK
<1> QED
  BY <1>1, <1>2, <1>3 DEF RNext

\* The invariant holds for ever.
LEMMA RInvAlways == RSpec => []RInv
BY RInvInit, RInvStep, PTL DEF RSpec

-----------------------------------------------------------------------------
(* The theorems. *)

\* Every variable of sensor and gateways keeps its type, and the checkpoint of
\* the sensor is the HIGH part of its window (SensorReportWindow).
THEOREM ReportTypeCorrect == RSpec => []RTypeOK
<1>1. RInv => RTypeOK
  BY DEF RInv, WindowOK, WayOK, BaselineOK, AuthorityOK, LedgerOK, RTypeOK
<1> QED
  BY <1>1, RInvAlways, PTL

\* The baseline a sensor compares with is in the ledger of a gateway (mark_reported).
THEOREM BaselineStaysHeld == RSpec => []BaselineIsHeld
<1>1. RInv => BaselineIsHeld
  BY DEF RInv, BaselineOK
<1> QED
  BY <1>1, RInvAlways, PTL

\* Sensor and gateways implement Custody: a HIGH report stays in the checkpoint
\* of the sensor until a gateway has admitted it (confirm, admit_sensor).
THEOREM ReportsImplementCustody == RSpec => KeepsHighReports
<1>1. RInv /\ [RNext]_reportVars => [GatewayCustody!Next]_(GatewayCustody!custodyVars)
  BY RInvStep DEF Promise
<1>2. RInit => GatewayCustody!Init
  BY RInvInit
<1> QED
  BY <1>1, <1>2, RInvAlways, PTL DEF RSpec, KeepsHighReports, GatewayCustody!Spec

\* A gateway decides on the samples of a sensor in their order, on each at most
\* once (sensor_is_fresh, finalize_sensor_record).
THEOREM DecisionsFollowSamples == RSpec => DecidesOnNewerSamples
<1>1. RInv /\ [RNext]_reportVars => DecidesStep
  BY RInvStep DEF Promise
<1>2. DecidesStep =>
        [\A g \in Gateways :
           last'[g] # last[g] /\ last[g] # NoReport => Later(last'[g], last[g])]_reportVars
  BY DEF DecidesStep
<1> QED
  BY <1>1, <1>2, RInvAlways, PTL DEF RSpec, DecidesOnNewerSamples

-----------------------------------------------------------------------------
(* What one state decides for the whole future. *)

\* A step of Custody takes nothing out of a ledger, and out of the checkpoint of
\* the sensor only what a ledger has.
LEMMA CustodyKeeps ==
  ASSUME RInv, Promise, NEW r \in HighReports
  PROVE  /\ Held(r) => Held(r)'
         /\ Safe(r) => Safe(r)'
<1> DEFINE held == [h \in {"SENSOR"} |-> flash]
           stored == [g \in Gateways |-> [q \in HighReports |-> IF q \in ledger[g] THEN 1 ELSE 0]]
<1>1. /\ held["SENSOR"] = flash /\ held'["SENSOR"] = flash'
      /\ \A g \in Gateways : /\ r \in ledger[g] <=> stored[g][r] > 0
                             /\ r \in ledger'[g] <=> stored'[g][r] > 0
  OBVIOUS
<1>2. CASE UNCHANGED GatewayCustody!custodyVars
  <2>1. held' = held /\ stored' = stored
    BY <1>2 DEF GatewayCustody!custodyVars
  <2> HIDE DEF held, stored
  <2> QED
    BY <1>1, <2>1 DEF Held, Safe
<1>3. ASSUME NEW h \in {"SENSOR"}, NEW x \in HighReports, GatewayCustody!Accept(h, x)
      PROVE  held["SENSOR"] \subseteq held'["SENSOR"] /\ stored' = stored
  BY <1>3 DEF GatewayCustody!Accept
<1>4. ASSUME NEW h \in {"SENSOR"}, NEW x \in HighReports, GatewayCustody!Release(h, x)
      PROVE  /\ stored' = stored
             /\ r \in held["SENSOR"] =>
                  r \in held'["SENSOR"] \/ \E g \in Gateways : stored[g][r] > 0
  BY <1>4 DEF GatewayCustody!Release, GatewayCustody!Safe
<1>5. ASSUME NEW s \in Gateways, GatewayCustody!Store(s)
      PROVE  /\ held' = held
             /\ \A g \in Gateways : stored[g][r] > 0 => stored'[g][r] > 0
  <2>1. held' = held
    BY <1>5 DEF GatewayCustody!Store
  <2>2. stored'[s][r] # stored[s][r] => stored[s][r] = 0
    BY <1>5 DEF GatewayCustody!Store
  <2>3. \A g \in Gateways : g # s => stored'[g] = stored[g]
    BY <1>5 DEF GatewayCustody!Store
  <2> HIDE DEF held, stored
  <2>4. ASSUME NEW g \in Gateways, stored[g][r] > 0 PROVE stored'[g][r] > 0
    BY <2>2, <2>3, <2>4
  <2> QED
    BY <2>1, <2>4
<1> HIDE DEF held, stored
<1> QED
  BY <1>1, <1>2, <1>3, <1>4, <1>5 DEF Promise, GatewayCustody!Next, Held, Safe

\* A HIGH report that was published once is never lost: at all times it is in
\* the checkpoint of the sensor or in the ledger of a gateway, through reboots,
\* lost acknowledgements and takeovers (report_delivery.py admit, confirm).
THEOREM HighReportsAreNeverLost ==
  ASSUME NEW r \in HighReports
  PROVE  RSpec => [](r \in flash => [](r \in flash \/ \E g \in Gateways : r \in ledger[g]))
<1>1. RInv /\ Safe(r) /\ [RNext]_reportVars => Safe(r)'
  BY RInvStep, CustodyKeeps
<1>2. r \in flash => Safe(r)
  BY DEF Safe
<1>3. RSpec => [](r \in flash => []Safe(r))
  BY <1>1, <1>2, RInvAlways, PTL DEF RSpec
<1> QED
  BY <1>3 DEF Safe, Held

\* A gateway decides on the report it has admitted, or on none.
LEMMA DecidesOnBusy ==
  ASSUME [RNext]_reportVars, NEW g \in Gateways, last \in [Gateways -> Report \cup {NoReport}]
  PROVE  last'[g] = last[g] \/ (last'[g] = busy[g] /\ busy[g] # NoReport)
<1>1. CASE UNCHANGED last
  BY <1>1
<1>2. ASSUME NEW h \in Gateways, Decide(h)
      PROVE  last'[g] = last[g] \/ (last'[g] = busy[g] /\ busy[g] # NoReport)
  BY <1>2 DEF Decide
<1>3. ASSUME SensorNext PROVE UNCHANGED last
  BY <1>3 DEF SensorNext, Sample, EndSession, Reboot, Transmit, Confirm, gatewayVars
<1>4. ASSUME NEW h \in Gateways, NEW heard \in BOOLEAN,
             \/ Register(h, heard) \/ Process(h) \/ Refuse(h) \/ GatewayCrash(h)
             \/ Takeover(h) \/ Demote(h)
      PROVE  UNCHANGED last
  BY <1>4 DEF Register, Process, Refuse, GatewayCrash, Takeover, Demote, gatewayVars
<1> QED
  BY <1>1, <1>2, <1>3, <1>4 DEF RNext, GatewayNext, reportVars, gatewayVars

\* Once a gateway has decided on a sample, it decides, ever after, on younger
\* ones only: not on a repetition, a straggler or a report of an earlier boot,
\* however the gateway and the sensor restart (sensor_is_fresh).
THEOREM OldSamplesNeverDecide ==
  ASSUME NEW g \in Gateways, NEW r \in Report \ {NoReport}
  PROVE  RSpec => [](last[g] = r => [][last'[g] # last[g] => Later(last'[g], r)]_reportVars)
<1> DEFINE Decided == last[g] = r
           Ahead == last[g] # NoReport /\ (last[g] = r \/ Later(last[g], r))
           Younger == last'[g] # last[g] => Later(last'[g], r)
<1>1. Decided => Ahead
  OBVIOUS
<1>2. RInv /\ Ahead /\ [RNext]_reportVars => Ahead' /\ Younger
  <2> SUFFICES ASSUME RInv, Ahead, [RNext]_reportVars PROVE Ahead' /\ Younger
    OBVIOUS
  <2>1. RInv' /\ DecidesStep
    BY RInvStep DEF Promise
  <2>2. last[g] # NoReport /\ last[g] \in Report
    BY DEF RInv, LedgerOK
  <2>3. last'[g] # NoReport /\ last'[g] \in Report
    BY <2>1, <2>2, DecidesOnBusy DEF RInv, LedgerOK
  <2>4. last'[g] # last[g] => Later(last'[g], last[g])
    BY <2>1, <2>2 DEF DecidesStep
  <2>5. ASSUME Later(last'[g], last[g]), Later(last[g], r) PROVE Later(last'[g], r)
    BY <2>2, <2>3, <2>5, ReportAssumption DEF Later, Report
  <2>6. last[g] = r \/ Later(last[g], r)
    OBVIOUS
  <2> HIDE DEF Ahead, Younger
  <2>7. last'[g] = r \/ Later(last'[g], r)
    BY <2>4, <2>5, <2>6
  <2> QED
    BY <2>3, <2>4, <2>5, <2>6, <2>7 DEF Ahead, Younger
<1> HIDE DEF Decided, Ahead, Younger
<1>3. RSpec => [](Decided => [][Younger]_reportVars)
  BY <1>1, <1>2, RInvAlways, PTL DEF RSpec
<1> QED
  BY <1>3 DEF Decided, Younger
=============================================================================
