---------------------------- MODULE PolicyProofs ----------------------------
(***************************************************************************)
(* The safety properties of PolicyStore for every set of servers, gateways *)
(* and policies: every policy on its way was committed, so the whole       *)
(* implements PolicyHistory; and the two slots of a checkpoint.            *)
(***************************************************************************)
EXTENDS PolicyStore, TLAPS

\* The policies the database has held.
Committed == {[version |-> v, content |-> log[v]] : v \in 1..Len(log)}

\* The database.  The first version is inserted by the server that created the
\* table, before any other version exists.
HeadOK ==
  /\ table \in BOOLEAN
  /\ log \in Seq(Contents) /\ Len(log) <= MaxVersion
  /\ head = IF log = <<>> THEN NoPolicy
            ELSE [version |-> Len(log), content |-> log[Len(log)]]
  /\ mode \in [Publishers -> {"DOWN", "CREATING", "UP"}]
  /\ ~table => log = <<>>
  /\ \A s \in Publishers : mode[s] = "CREATING" => table /\ log = <<>>
  /\ \A s, t \in Publishers : mode[s] = "CREATING" /\ mode[t] = "CREATING" => s = t

\* A server publishes what was committed.
CastOK ==
  /\ served \in [Publishers -> Committed \cup {NoPolicy}]
  /\ pushed \in [Publishers -> Committed \cup {NoPolicy}]
  /\ clients \in [Publishers -> SUBSET Gateways]
  /\ targets \in [Publishers -> SUBSET Gateways]
  /\ \A s \in Publishers : targets[s] # {} => pushed[s] # NoPolicy
  /\ gone \in [Publishers -> SUBSET Gateways]

WireOK ==
  /\ link \in [Gateways -> Publishers \cup {NoPublisher}]
  /\ frames \in [Gateways -> Seq(Policies)]
  /\ \A g \in Gateways : \A i \in 1..Len(frames[g]) : frames[g][i] \in Committed

\* A slot of a checkpoint.
Kept == Committed \cup {NoPolicy, Corrupt}

\* Without damage since the last save, two saved slots are good.
TwoGood(saved, harmed) ==
  /\ saved.current = NoPolicy => saved.previous = NoPolicy
  /\ saved.previous # NoPolicy =>
       /\ Good(saved.current) \/ Good(saved.previous)
       /\ harmed \/ (Good(saved.current) /\ Good(saved.previous))

StoreOK ==
  /\ up \in [Gateways -> BOOLEAN]
  /\ policy \in [Gateways -> Committed \cup {Compiled}]
  /\ slots \in [Gateways -> [current : Kept, previous : Kept]]
  /\ damaged \in [Gateways -> BOOLEAN]
  /\ \A g \in Gateways : TwoGood(slots[g], damaged[g])

IInv == HeadOK /\ CastOK /\ WireOK /\ StoreOK

\* The step of the abstract specification, or none.
HistoryStep == [History!Next]_(History!historyVars)

-----------------------------------------------------------------------------
(* Policies. *)

\* What was committed is a policy with a version of its own.
LEMMA CommittedPolicies ==
  ASSUME HeadOK
  PROVE  /\ Committed \subseteq Policies
         /\ Compiled \in Policies
         /\ NoPolicy \notin Committed /\ Corrupt \notin Committed
         /\ \A p \in Committed : p.version \in 1..Len(log) /\ p.content \in Contents
<1>1. Len(log) \in Nat /\ \A v \in 1..Len(log) : log[v] \in Contents
  BY DEF HeadOK
<1>2. Committed \subseteq Policies
  BY <1>1, PolicyAssumption DEF Committed, Policies, HeadOK
<1>3. \A p \in Committed : p.version \in 1..Len(log) /\ p.content \in Contents
  BY <1>1 DEF Committed
<1> QED
  BY <1>2, <1>3, PolicyAssumption DEF Compiled, Policies

\* A commit takes none back.
LEMMA CommittedGrows ==
  ASSUME HeadOK, NEW content \in Contents, log' = Append(log, content)
  PROVE  /\ Committed \subseteq Committed'
         /\ [version |-> Len(log) + 1, content |-> content] \in Committed'
<1>1. /\ Len(log) \in Nat /\ Len(log') = Len(log) + 1
      /\ \A v \in 1..Len(log) : log'[v] = log[v]
      /\ log'[Len(log) + 1] = content
  BY DEF HeadOK
<1>2. \A v \in 1..Len(log) : v \in 1..Len(log') /\ log'[v] = log[v]
  BY <1>1
<1>3. Len(log) + 1 \in 1..Len(log')
  BY <1>1
<1> QED
  BY <1>1, <1>2, <1>3 DEF Committed

\* What was committed stays so.
LEMMA CastKept ==
  ASSUME CastOK, Committed \subseteq Committed', UNCHANGED <<served, clients, castVars>>
  PROVE  CastOK'
BY DEF CastOK, castVars

LEMMA WireKept ==
  ASSUME WireOK, Committed \subseteq Committed', UNCHANGED wireVars
  PROVE  WireOK'
BY DEF WireOK, wireVars

LEMMA StoreKept ==
  ASSUME StoreOK, Committed \subseteq Committed', UNCHANGED storeVars
  PROVE  StoreOK'
<1>1. Kept \subseteq Kept'
  BY DEF Kept
<1>2. /\ up' \in [Gateways -> BOOLEAN]
      /\ policy' \in [Gateways -> Committed' \cup {Compiled}]
      /\ damaged' \in [Gateways -> BOOLEAN]
  BY DEF StoreOK, storeVars
<1>3. slots' \in [Gateways -> [current : Kept', previous : Kept']]
  BY <1>1 DEF StoreOK, storeVars
<1>4. \A g \in Gateways : TwoGood(slots[g], damaged[g])'
  BY DEF StoreOK, storeVars, TwoGood, Good
<1> QED
  BY <1>2, <1>3, <1>4 DEF StoreOK

\* Steps that leave the gateways alone and commit nothing are none of the
\* abstract specification.
LEMMA NoHistory ==
  ASSUME UNCHANGED <<log, up, policy>>
  PROVE  HistoryStep
BY DEF HistoryStep, History!historyVars

\* Steps that leave the database alone.
LEMMA HeadKept ==
  ASSUME HeadOK, UNCHANGED <<headVars, mode>>
  PROVE  HeadOK' /\ Committed' = Committed
BY DEF HeadOK, headVars, Committed
-----------------------------------------------------------------------------
(* Publishers. *)

LEMMA CreateTableStep ==
  ASSUME IInv, NEW s \in Publishers, CreateTable(s)
  PROVE  IInv' /\ HistoryStep
<1>1. /\ log' = log /\ head' = head /\ table' = TRUE
      /\ mode' = [mode EXCEPT ![s] = "CREATING"]
      /\ ~table /\ UNCHANGED <<served, clients, castVars, wireVars, storeVars>>
  BY DEF CreateTable
<1>2. Committed' = Committed
  BY <1>1 DEF Committed
<1>3. HeadOK'
  BY <1>1 DEF IInv, HeadOK
<1>4. CastOK' /\ WireOK' /\ StoreOK'
  BY <1>1, <1>2, CastKept, WireKept, StoreKept DEF IInv
<1> QED
  BY <1>1, <1>3, <1>4, NoHistory DEF IInv, storeVars

LEMMA InsertHeadStep ==
  ASSUME IInv, NEW s \in Publishers, InsertHead(s)
  PROVE  IInv' /\ HistoryStep
<1>1. /\ mode[s] = "CREATING" /\ log' = <<Default>> /\ head' = Initial
      /\ table' = table
      /\ mode' = [mode EXCEPT ![s] = "UP"]
      /\ served' = [served EXCEPT ![s] = Initial]
      /\ UNCHANGED <<clients, castVars, wireVars, storeVars>>
  BY DEF InsertHead
<1>2. HeadOK /\ log = <<>> /\ table /\ \A t \in Publishers \ {s} : mode[t] # "CREATING"
  BY <1>1 DEF IInv, HeadOK
<1>3. log' = Append(log, Default)
  BY <1>1, <1>2
<1>4. Committed \subseteq Committed' /\ Initial \in Committed'
  <2>1. Len(log) + 1 = 1
    BY <1>2
  <2> QED
    BY <1>2, <1>3, <2>1, CommittedGrows, PolicyAssumption DEF Initial
<1>5. HeadOK'
  <2>1. log' \in Seq(Contents) /\ Len(log') = 1 /\ log'[1] = Default /\ log' # <<>>
    BY <1>1, PolicyAssumption
  <2>2. \A t \in Publishers : mode'[t] # "CREATING"
    BY <1>1, <1>2 DEF HeadOK
  <2> QED
    BY <1>1, <1>2, <2>1, <2>2, PolicyAssumption DEF HeadOK, Initial
<1>6. CastOK'
  BY <1>1, <1>4 DEF IInv, CastOK, castVars
<1>7. WireOK' /\ StoreOK'
  BY <1>1, <1>4, WireKept, StoreKept DEF IInv
<1>8. History!Publish(Default)
  BY <1>1, <1>3 DEF History!Publish, storeVars
<1>9. HistoryStep
  BY <1>8, PolicyAssumption DEF HistoryStep, History!Next
<1> QED
  BY <1>5, <1>6, <1>7, <1>9 DEF IInv

LEMMA LoadHeadStep ==
  ASSUME IInv, NEW s \in Publishers, LoadHead(s)
  PROVE  IInv' /\ HistoryStep
<1>1. /\ UNCHANGED <<headVars, clients, castVars, wireVars, storeVars>>
      /\ mode' = [mode EXCEPT ![s] = "UP"]
      /\ served' = [served EXCEPT ![s] = head]
  BY DEF LoadHead
<1>2. HeadOK'
  BY <1>1 DEF IInv, HeadOK, headVars
<1>3. Committed' = Committed
  BY <1>1 DEF Committed, headVars
<1>4. head \in Committed \cup {NoPolicy}
  <2>1. CASE log = <<>>
    BY <2>1 DEF IInv, HeadOK
  <2>2. CASE log # <<>>
    <3>1. Len(log) \in 1..Len(log)
      BY <2>2 DEF IInv, HeadOK
    <3>2. head = [version |-> Len(log), content |-> log[Len(log)]]
      BY <2>2 DEF IInv, HeadOK
    <3> QED
      BY <3>1, <3>2 DEF Committed
  <2> QED
    BY <2>1, <2>2
<1>5. CastOK'
  BY <1>1, <1>3, <1>4 DEF IInv, CastOK, castVars
<1>6. WireOK' /\ StoreOK'
  BY <1>1, <1>3, WireKept, StoreKept DEF IInv
<1> QED
  BY <1>1, <1>2, <1>5, <1>6, NoHistory DEF IInv, headVars, storeVars

\* The version follows the one compared with, so it is the next of the log.
LEMMA UpdatePolicyStep ==
  ASSUME IInv, NEW s \in Publishers, NEW content \in Contents, UpdatePolicy(s, content)
  PROVE  IInv' /\ HistoryStep
<1> DEFINE new == Successor(s, content)
<1>1. /\ served[s] # NoPolicy /\ served[s].version < MaxVersion
      /\ head.version = served[s].version
      /\ head' = new /\ log' = Append(log, content)
      /\ served' = [served EXCEPT ![s] = new]
      /\ UNCHANGED <<table, mode, clients, castVars, wireVars, storeVars>>
  BY DEF UpdatePolicy, Swap
<1>2. HeadOK
  BY DEF IInv
<1>3. served[s] \in Committed
  BY <1>1 DEF IInv, CastOK
<1>4. served[s].version \in 1..Len(log)
  BY <1>2, <1>3, CommittedPolicies
<1>5. log # <<>> /\ head.version = Len(log)
  BY <1>2, <1>4 DEF HeadOK
<1>6. Len(log) \in Nat /\ Len(log) < MaxVersion
      /\ new = [version |-> Len(log) + 1, content |-> content]
  BY <1>1, <1>2, <1>5 DEF HeadOK, Successor
<1>7. Committed \subseteq Committed' /\ new \in Committed'
  BY <1>1, <1>2, <1>6, CommittedGrows
<1>8. HeadOK'
  <2>1. /\ log' \in Seq(Contents) /\ Len(log') = Len(log) + 1
        /\ log'[Len(log) + 1] = content /\ log' # <<>>
    BY <1>1, <1>2 DEF HeadOK
  <2>2. \A t \in Publishers : mode[t] # "CREATING"
    BY <1>2, <1>5 DEF HeadOK
  <2>3. Len(log') <= MaxVersion
    BY <1>6, <2>1, PolicyAssumption
  <2>4. table
    BY <1>2, <1>5 DEF HeadOK
  <2> HIDE DEF new
  <2> QED
    BY <1>1, <1>2, <1>6, <2>1, <2>2, <2>3, <2>4 DEF HeadOK
<1> HIDE DEF new
<1>9. CastOK'
  BY <1>1, <1>7 DEF IInv, CastOK, castVars
<1>10. WireOK' /\ StoreOK'
  BY <1>1, <1>7, WireKept, StoreKept DEF IInv
<1>11. History!Publish(content)
  BY <1>1 DEF History!Publish, storeVars
<1>12. HistoryStep
  BY <1>11 DEF HistoryStep, History!Next
<1> QED
  BY <1>8, <1>9, <1>10, <1>12 DEF IInv

\* A policy that was committed is appended to a connection.
LEMMA FrameSent ==
  ASSUME IInv, NEW g \in Gateways, NEW p \in Committed,
         UNCHANGED <<headVars, link>>,
         frames' = [frames EXCEPT ![g] = Append(frames[g], p)]
  PROVE  WireOK'
<1>1. Committed' = Committed /\ p \in Policies
  BY CommittedPolicies DEF Committed, headVars, IInv
<1>2. ASSUME NEW h \in Gateways
      PROVE  frames'[h] \in Seq(Policies) /\ \A i \in 1..Len(frames'[h]) : frames'[h][i] \in Committed
  <2>1. frames[h] \in Seq(Policies) /\ \A i \in 1..Len(frames[h]) : frames[h][i] \in Committed
    BY DEF IInv, WireOK
  <2>2. CASE h = g
    <3>1. frames'[h] = Append(frames[h], p)
      BY <2>2 DEF IInv, WireOK
    <3>2. /\ frames'[h] \in Seq(Policies) /\ Len(frames'[h]) = Len(frames[h]) + 1
          /\ \A i \in 1..Len(frames[h]) : frames'[h][i] = frames[h][i]
          /\ frames'[h][Len(frames[h]) + 1] = p
      BY <1>1, <2>1, <3>1
    <3>3. Len(frames[h]) \in Nat
      BY <2>1
    <3> QED
      BY <2>1, <3>2, <3>3
  <2>3. CASE h # g
    BY <2>1, <2>3 DEF IInv, WireOK
  <2> QED
    BY <2>2, <2>3
<1>3. DOMAIN frames' = Gateways /\ frames' = [h \in Gateways |-> frames'[h]]
  BY DEF IInv, WireOK
<1> QED
  BY <1>1, <1>2, <1>3 DEF IInv, WireOK

LEMMA StartBroadcastStep ==
  ASSUME IInv, NEW s \in Publishers, NEW g \in Gateways, StartBroadcast(s, g)
  PROVE  IInv' /\ HistoryStep
<1>1. /\ served[s] # NoPolicy
      /\ pushed' = [pushed EXCEPT ![s] = served[s]]
      /\ frames' = [frames EXCEPT ![g] = Append(frames[g], served[s])]
      /\ targets' = [targets EXCEPT ![s] = clients[s] \ {g}]
      /\ UNCHANGED <<headVars, mode, served, clients, gone, link, storeVars>>
  BY DEF StartBroadcast, Due, IInv, WireOK
<1>2. served[s] \in Committed
  BY <1>1 DEF IInv, CastOK
<1>3. HeadOK' /\ Committed' = Committed
  BY <1>1, HeadKept DEF IInv
<1>4. CastOK'
  BY <1>1, <1>2, <1>3 DEF IInv, CastOK
<1>5. WireOK'
  BY <1>1, <1>2, FrameSent
<1>6. StoreOK'
  BY <1>1, <1>3, StoreKept DEF IInv
<1> QED
  BY <1>1, <1>3, <1>4, <1>5, <1>6, NoHistory DEF IInv, headVars, storeVars

\* The policy of a broadcast is set before it has targets.
LEMMA PushStep ==
  ASSUME IInv, NEW s \in Publishers, NEW g \in Gateways, Push(s, g)
  PROVE  IInv' /\ HistoryStep
<1>1. /\ g \in targets[s]
      /\ targets' = [targets EXCEPT ![s] = targets[s] \ {g}]
      /\ frames' = [frames EXCEPT ![g] = Append(frames[g], pushed[s])]
      /\ UNCHANGED <<headVars, mode, served, clients, pushed, gone, link, storeVars>>
  BY DEF Push, IInv, CastOK, WireOK
<1>2. pushed[s] \in Committed
  BY <1>1 DEF IInv, CastOK
<1>3. HeadOK' /\ Committed' = Committed
  BY <1>1, HeadKept DEF IInv
<1>4. CastOK'
  BY <1>1, <1>3 DEF IInv, CastOK
<1>5. WireOK'
  BY <1>1, <1>2, FrameSent
<1>6. StoreOK'
  BY <1>1, <1>3, StoreKept DEF IInv
<1> QED
  BY <1>1, <1>3, <1>4, <1>5, <1>6, NoHistory DEF IInv, headVars, storeVars

LEMMA PushRaisesStep ==
  ASSUME IInv, NEW s \in Publishers, NEW g \in Gateways, PushRaises(s, g)
  PROVE  IInv' /\ HistoryStep
<1>1. UNCHANGED <<headVars, mode, served, pushed, wireVars, storeVars>>
  BY DEF PushRaises
<1>2. HeadOK' /\ Committed' = Committed
  BY <1>1, HeadKept DEF IInv
<1>3. CastOK'
  BY <1>2 DEF PushRaises, IInv, CastOK
<1>4. WireOK' /\ StoreOK'
  BY <1>1, <1>2, WireKept, StoreKept DEF IInv
<1> QED
  BY <1>1, <1>2, <1>3, <1>4, NoHistory DEF IInv, headVars, storeVars

\* A server that dies forgets its clients; the database keeps the head.
LEMMA PublisherCrashStep ==
  ASSUME IInv, NEW s \in Publishers, PublisherCrash(s)
  PROVE  IInv' /\ HistoryStep
<1>1. /\ UNCHANGED <<headVars, frames, storeVars>>
      /\ mode' = [mode EXCEPT ![s] = "DOWN"]
  BY DEF PublisherCrash
<1>2. Committed' = Committed
  BY <1>1 DEF Committed, headVars
<1>3. HeadOK'
  BY <1>1 DEF IInv, HeadOK, headVars
<1>4. CastOK'
  BY <1>2 DEF PublisherCrash, IInv, CastOK
<1>5. WireOK'
  BY <1>1, <1>2 DEF PublisherCrash, IInv, WireOK
<1>6. StoreOK'
  BY <1>1, <1>2, StoreKept DEF IInv
<1> QED
  BY <1>1, <1>3, <1>4, <1>5, <1>6, NoHistory DEF IInv, headVars, storeVars

-----------------------------------------------------------------------------
(* Connections. *)

LEMMA ConnectStep ==
  ASSUME IInv, NEW g \in Gateways, NEW s \in Publishers, Connect(g, s)
  PROVE  IInv' /\ HistoryStep
<1>1. UNCHANGED <<headVars, mode, served, castVars, frames, storeVars>>
  BY DEF Connect
<1>2. HeadOK' /\ Committed' = Committed
  BY <1>1, HeadKept DEF IInv
<1>3. CastOK'
  BY <1>1, <1>2 DEF Connect, IInv, CastOK, castVars
<1>4. WireOK'
  BY <1>1, <1>2 DEF Connect, IInv, WireOK
<1>5. StoreOK'
  BY <1>1, <1>2, StoreKept DEF IInv
<1> QED
  BY <1>1, <1>2, <1>3, <1>4, <1>5, NoHistory DEF IInv, headVars, storeVars

\* A connection that ends, with or without what was on it.
LEMMA ClosedKeeps ==
  ASSUME IInv, NEW g \in Gateways, Closed(g),
         frames' = [frames EXCEPT ![g] = <<>>] \/ frames' = frames,
         UNCHANGED <<headVars, mode, served, pushed, targets>>
  PROVE  HeadOK' /\ CastOK' /\ WireOK' /\ Committed' = Committed
<1>1. HeadOK' /\ Committed' = Committed
  BY HeadKept DEF IInv
<1>2. CastOK'
  BY <1>1 DEF Closed, IInv, CastOK
<1>3. \A h \in Gateways : frames'[h] = <<>> \/ frames'[h] = frames[h]
  BY DEF IInv, WireOK
<1>4. frames' \in [Gateways -> Seq(Policies)]
  <2>1. <<>> \in Seq(Policies) /\ frames \in [Gateways -> Seq(Policies)]
    BY DEF IInv, WireOK
  <2>2. CASE frames' = [frames EXCEPT ![g] = <<>>]
    BY <2>1, <2>2
  <2>3. CASE frames' = frames
    BY <2>1, <2>3
  <2> QED
    BY <2>2, <2>3
<1>5. link' \in [Gateways -> Publishers \cup {NoPublisher}]
  BY DEF Closed, IInv, WireOK
<1>6. ASSUME NEW h \in Gateways, NEW i \in 1..Len(frames'[h])
      PROVE  frames'[h][i] \in Committed
  <2>1. frames'[h] # <<>>
    BY <1>6
  <2>2. frames'[h] = frames[h]
    BY <1>3, <2>1
  <2> QED
    BY <1>6, <2>2 DEF IInv, WireOK
<1> QED
  BY <1>1, <1>2, <1>4, <1>5, <1>6 DEF WireOK

LEMMA DisconnectStep ==
  ASSUME IInv, NEW g \in Gateways, Disconnect(g)
  PROVE  IInv' /\ HistoryStep
<1>1. UNCHANGED <<headVars, mode, served, pushed, targets, storeVars>>
  BY DEF Disconnect
<1>2. HeadOK' /\ CastOK' /\ WireOK' /\ Committed' = Committed
  BY ClosedKeeps DEF Disconnect
<1>3. StoreOK'
  BY <1>1, <1>2, StoreKept DEF IInv
<1> QED
  BY <1>1, <1>2, <1>3, NoHistory DEF IInv, headVars, storeVars

-----------------------------------------------------------------------------
(* Gateways. *)

\* The frame at the head of a connection was committed.
LEMMA FrameRead ==
  ASSUME IInv, NEW g \in Gateways, frames[g] # <<>>,
         UNCHANGED <<headVars, link>>,
         frames' = [frames EXCEPT ![g] = Tail(frames[g])]
  PROVE  Head(frames[g]) \in Committed /\ WireOK'
<1>1. frames[g] \in Seq(Policies) /\ \A i \in 1..Len(frames[g]) : frames[g][i] \in Committed
  BY DEF IInv, WireOK
<1>2. Len(frames[g]) \in Nat \ {0} /\ Head(frames[g]) = frames[g][1]
  BY <1>1
<1>3. Head(frames[g]) \in Committed
  BY <1>1, <1>2
<1>4. /\ Tail(frames[g]) \in Seq(Policies) /\ Len(Tail(frames[g])) = Len(frames[g]) - 1
      /\ \A i \in 1..Len(frames[g]) - 1 : Tail(frames[g])[i] = frames[g][i + 1]
  BY <1>1
<1>5. \A i \in 1..Len(Tail(frames[g])) : Tail(frames[g])[i] \in Committed
  BY <1>1, <1>2, <1>4
<1>6. Committed' = Committed
  BY DEF Committed, headVars
<1>7. frames' \in [Gateways -> Seq(Policies)]
  BY <1>4 DEF IInv, WireOK
<1>8. \A h \in Gateways : \A i \in 1..Len(frames'[h]) : frames'[h][i] \in Committed
  BY <1>5 DEF IInv, WireOK
<1> QED
  BY <1>3, <1>6, <1>7, <1>8 DEF IInv, WireOK

\* A save keeps a good slot and repairs a damaged one.
LEMMA SavedKeepsTwo ==
  ASSUME IInv, NEW old \in [current : Kept, previous : Kept], NEW harmed \in BOOLEAN,
         TwoGood(old, harmed), NEW p \in Committed
  PROVE  /\ Saved(old, p) \in [current : Kept, previous : Kept]
         /\ TwoGood(Saved(old, p), FALSE)
<1>1. NoPolicy \notin Committed /\ Corrupt \notin Committed /\ NoPolicy # Corrupt
  BY CommittedPolicies, PolicyAssumption DEF IInv
<1>2. Saved(old, p) \in [current : Kept, previous : Kept]
  BY DEF Saved, Kept
<1>3. /\ Saved(old, p).current = p /\ p # NoPolicy /\ Good(p)
      /\ Saved(old, p).previous = IF Good(old.current) THEN old.current ELSE old.previous
  BY <1>1 DEF Saved, Good
<1>4. TwoGood(Saved(old, p), FALSE)
  <2>1. CASE Good(old.current)
    BY <1>3, <2>1 DEF TwoGood
  <2>2. CASE ~Good(old.current)
    <3>1. old.previous # NoPolicy => Good(old.previous)
      BY <2>2 DEF TwoGood
    <3> QED
      BY <1>3, <2>2, <3>1 DEF TwoGood
  <2> QED
    BY <2>1, <2>2
<1> QED
  BY <1>2, <1>4

\* A newer policy is saved and taken; another changes nothing.
LEMMA ApplyStep ==
  ASSUME IInv, NEW g \in Gateways, Apply(g)
  PROVE  IInv' /\ HistoryStep
<1> DEFINE p == Head(frames[g])
<1>1. /\ up[g] /\ frames[g] # <<>>
      /\ frames' = [frames EXCEPT ![g] = Tail(frames[g])]
      /\ UNCHANGED <<headVars, mode, served, clients, castVars, link, up>>
  BY DEF Apply
<1>2. p \in Committed /\ WireOK'
  BY <1>1, FrameRead
<1>3. HeadOK' /\ CastOK' /\ Committed' = Committed
  BY <1>1, HeadKept, CastKept DEF IInv
<1>4. CASE ~Newer(g, p)
  <2>1. UNCHANGED <<slots, policy, damaged>>
    BY <1>4 DEF Apply
  <2>2. StoreOK'
    BY <1>1, <1>3, <2>1, StoreKept DEF IInv, storeVars
  <2> QED
    BY <1>1, <1>2, <1>3, <2>1, <2>2, NoHistory DEF IInv, headVars
<1>5. CASE Newer(g, p)
  <2>1. /\ slots' = [slots EXCEPT ![g] = Saved(slots[g], p)]
        /\ policy' = [policy EXCEPT ![g] = p]
        /\ damaged' = [damaged EXCEPT ![g] = FALSE]
    BY <1>5 DEF Apply
  <2>2. /\ slots[g] \in [current : Kept, previous : Kept] /\ damaged[g] \in BOOLEAN
        /\ TwoGood(slots[g], damaged[g])
    BY DEF IInv, StoreOK
  <2>3. /\ Saved(slots[g], p) \in [current : Kept, previous : Kept]
        /\ TwoGood(Saved(slots[g], p), FALSE)
    BY <1>2, <2>2, SavedKeepsTwo
  <2>4. Kept' = Kept
    BY <1>3 DEF Kept
  <2>5. \A h \in Gateways : TwoGood(slots'[h], damaged'[h])
    BY <2>1, <2>3 DEF IInv, StoreOK
  <2>6. /\ slots' \in [Gateways -> [current : Kept', previous : Kept']]
        /\ policy' \in [Gateways -> Committed' \cup {Compiled}]
        /\ damaged' \in [Gateways -> BOOLEAN] /\ up' \in [Gateways -> BOOLEAN]
    BY <1>1, <1>2, <1>3, <2>1, <2>3, <2>4 DEF IInv, StoreOK
  <2>7. StoreOK'
    BY <2>5, <2>6 DEF StoreOK, TwoGood, Good
  <2>8. p \in History!Published
    BY <1>2 DEF IInv, HeadOK, Committed, History!Published
  <2>9. History!Adopt(g)
    BY <1>1, <1>5, <2>1, <2>8 DEF History!Adopt, Newer, headVars
  <2>10. HistoryStep
    BY <2>9 DEF HistoryStep, History!Next
  <2> QED
    BY <1>2, <1>3, <2>7, <2>10 DEF IInv
<1> QED
  BY <1>4, <1>5

LEMMA ApplyFailsStep ==
  ASSUME IInv, NEW g \in Gateways, ApplyFails(g)
  PROVE  IInv' /\ HistoryStep
<1>1. /\ frames[g] # <<>> /\ frames' = [frames EXCEPT ![g] = Tail(frames[g])]
      /\ UNCHANGED <<headVars, mode, served, clients, castVars, link, storeVars>>
  BY DEF ApplyFails
<1>2. WireOK'
  BY <1>1, FrameRead
<1>3. HeadOK' /\ CastOK' /\ StoreOK'
  BY <1>1, HeadKept, CastKept, StoreKept DEF IInv
<1> QED
  BY <1>1, <1>2, <1>3, NoHistory DEF IInv, headVars, storeVars

\* One of two good slots is left.
LEMMA DamageStep ==
  ASSUME IInv, NEW g \in Gateways, Damage(g)
  PROVE  IInv' /\ HistoryStep
<1>1. /\ ~damaged[g] /\ damaged' = [damaged EXCEPT ![g] = TRUE]
      /\ UNCHANGED <<headVars, mode, served, clients, castVars, wireVars, up, policy>>
  BY DEF Damage
<1>2. PICK field \in {"current", "previous"} :
        Good(slots[g][field]) /\ slots' = [slots EXCEPT ![g][field] = Corrupt]
  BY DEF Damage
<1>3. /\ slots \in [Gateways -> [current : Kept, previous : Kept]]
      /\ damaged \in [Gateways -> BOOLEAN]
      /\ \A h \in Gateways : TwoGood(slots[h], damaged[h])
  BY DEF IInv, StoreOK
<1>4. HeadOK' /\ CastOK' /\ WireOK' /\ Committed' = Committed
  BY <1>1, HeadKept, CastKept, WireKept DEF IInv
<1>5. slots' \in [Gateways -> [current : Kept, previous : Kept]]
  BY <1>2, <1>3 DEF Kept
<1>6. TwoGood(slots'[g], TRUE)
  <2>1. TwoGood(slots[g], FALSE)
    BY <1>1, <1>3 DEF TwoGood
  <2>2. CASE field = "current"
    <3>1. slots'[g].current = Corrupt /\ slots'[g].previous = slots[g].previous
      BY <1>2, <1>3, <2>2
    <3> QED
      BY <1>2, <2>1, <2>2, <3>1, PolicyAssumption DEF TwoGood, Good
  <2>3. CASE field = "previous"
    <3>1. slots'[g].previous = Corrupt /\ slots'[g].current = slots[g].current
      BY <1>2, <1>3, <2>3
    <3> QED
      BY <1>2, <2>1, <2>3, <3>1, PolicyAssumption DEF TwoGood, Good
  <2> QED
    BY <2>2, <2>3
<1>7. \A h \in Gateways : TwoGood(slots'[h], damaged'[h])
  BY <1>1, <1>2, <1>3, <1>6
<1>8. StoreOK'
  <2>1. Kept' = Kept
    BY <1>4 DEF Kept
  <2>2. /\ up' \in [Gateways -> BOOLEAN]
        /\ policy' \in [Gateways -> Committed' \cup {Compiled}]
        /\ damaged' \in [Gateways -> BOOLEAN]
    BY <1>1, <1>4 DEF IInv, StoreOK
  <2> QED
    BY <1>5, <1>7, <2>1, <2>2 DEF StoreOK, TwoGood, Good
<1> QED
  BY <1>1, <1>4, <1>8, NoHistory DEF IInv, headVars

LEMMA GatewayCrashStep ==
  ASSUME IInv, NEW g \in Gateways, GatewayCrash(g)
  PROVE  IInv' /\ HistoryStep
<1>1. /\ up' = [up EXCEPT ![g] = FALSE]
      /\ UNCHANGED <<headVars, mode, served, pushed, targets, policy, slots, damaged>>
  BY DEF GatewayCrash
<1>2. HeadOK' /\ CastOK' /\ WireOK' /\ Committed' = Committed
  BY ClosedKeeps DEF GatewayCrash
<1>3. Kept' = Kept
  BY <1>2 DEF Kept
<1>4. StoreOK'
  BY <1>1, <1>2, <1>3 DEF IInv, StoreOK, TwoGood, Good
<1>5. {h \in Gateways : up'[h]} = {h \in Gateways : up[h]} \ {g}
  BY <1>1 DEF IInv, StoreOK
<1>6. History!Stop(g)
  BY <1>1, <1>5 DEF History!Stop, headVars
<1>7. HistoryStep
  BY <1>6 DEF HistoryStep, History!Next
<1> QED
  BY <1>2, <1>4, <1>7 DEF IInv

\* It comes back with a policy that was committed, or the compiled default.
LEMMA GatewayStartStep ==
  ASSUME IInv, NEW g \in Gateways, GatewayStart(g)
  PROVE  IInv' /\ HistoryStep
<1>1. /\ ~up[g] /\ up' = [up EXCEPT ![g] = TRUE]
      /\ policy' = [policy EXCEPT ![g] = Restored(slots[g])]
      /\ UNCHANGED <<headVars, mode, served, clients, castVars, wireVars, slots, damaged>>
  BY DEF GatewayStart
<1>2. HeadOK' /\ CastOK' /\ WireOK' /\ Committed' = Committed
  BY <1>1, HeadKept, CastKept, WireKept DEF IInv
<1>3. Restored(slots[g]) \in Committed \cup {Compiled}
  BY DEF IInv, StoreOK, Kept, Restored, Good
<1>4. Kept' = Kept
  BY <1>2 DEF Kept
<1>5. StoreOK'
  BY <1>1, <1>2, <1>3, <1>4 DEF IInv, StoreOK, TwoGood, Good
<1>6. {h \in Gateways : up'[h]} = {h \in Gateways : up[h]} \cup {g}
  BY <1>1 DEF IInv, StoreOK
<1>7. Restored(slots[g]) \in History!Published
  <2>1. DOMAIN log = 1..Len(log)
    BY DEF IInv, HeadOK
  <2>2. History!Published = Committed \cup {Compiled}
    BY <2>1 DEF History!Published, Committed, Compiled, History!Compiled
  <2> QED
    BY <1>3, <2>2
<1>8. History!Recover(g)
  BY <1>1, <1>6, <1>7 DEF History!Recover, headVars
<1>9. HistoryStep
  BY <1>8 DEF HistoryStep, History!Next
<1> QED
  BY <1>2, <1>5, <1>9 DEF IInv

-----------------------------------------------------------------------------
(* The invariant. *)

LEMMA IInvInit == PInit => IInv
<1> SUFFICES ASSUME PInit PROVE IInv
  OBVIOUS
<1>1. log = <<>> /\ Len(log) = 0 /\ Committed = {}
  BY DEF PInit, Committed
<1>2. HeadOK
  BY <1>1, PolicyAssumption DEF PInit, HeadOK
<1>3. CastOK
  BY DEF PInit, CastOK
<1>4. WireOK
  <2>1. \A g \in Gateways : frames[g] = <<>>
    BY DEF PInit
  <2>2. frames \in [Gateways -> Seq(Policies)]
    BY DEF PInit
  <2>3. \A g \in Gateways : 1..Len(frames[g]) = {}
    BY <2>1
  <2> QED
    BY <2>2, <2>3 DEF PInit, WireOK
<1>5. StoreOK
  BY DEF PInit, StoreOK, Kept, TwoGood
<1> QED
  BY <1>2, <1>3, <1>4, <1>5 DEF IInv

\* Every step keeps the invariant and is a step of PolicyHistory or none.
LEMMA IInvStep == IInv /\ [PNext]_policyVars => IInv' /\ HistoryStep
<1> SUFFICES ASSUME IInv, [PNext]_policyVars PROVE IInv' /\ HistoryStep
  OBVIOUS
<1>1. ASSUME NEW s \in Publishers, PublisherNext(s) PROVE IInv' /\ HistoryStep
  BY <1>1, CreateTableStep, InsertHeadStep, LoadHeadStep, PublisherCrashStep,
     UpdatePolicyStep, StartBroadcastStep, PushStep, PushRaisesStep DEF PublisherNext
<1>2. ASSUME NEW g \in Gateways, GatewayNext(g) PROVE IInv' /\ HistoryStep
  BY <1>2, ConnectStep, DisconnectStep, ApplyStep, ApplyFailsStep, DamageStep,
     GatewayCrashStep, GatewayStartStep DEF GatewayNext
<1>3. CASE UNCHANGED policyVars
  <2>1. HeadOK' /\ Committed' = Committed
    BY <1>3, HeadKept DEF policyVars, IInv
  <2>2. CastOK' /\ WireOK' /\ StoreOK'
    BY <1>3, <2>1, CastKept, WireKept, StoreKept DEF policyVars, IInv
  <2> QED
    BY <1>3, <2>1, <2>2, NoHistory DEF policyVars, headVars, storeVars, IInv
<1> QED
  BY <1>1, <1>2, <1>3 DEF PNext

\* The invariant holds for ever.
LEMMA IInvAlways == PSpec => []IInv
BY IInvInit, IInvStep, PTL DEF PSpec

-----------------------------------------------------------------------------
(* The theorems. *)

\* Every variable of servers and gateways keeps its type, and the head of the
\* database is the last version committed (_write_policy).
THEOREM PolicyTypeCorrect == PSpec => []PTypeOK
<1>1. IInv => PTypeOK
  <2> SUFFICES ASSUME IInv PROVE PTypeOK
    OBVIOUS
  <2>1. Committed \subseteq Policies /\ Compiled \in Policies
    BY CommittedPolicies DEF IInv
  <2>2. served \in [Publishers -> Policies \cup {NoPolicy}]
        /\ pushed \in [Publishers -> Policies \cup {NoPolicy}]
    BY <2>1 DEF IInv, CastOK
  <2>3. policy \in [Gateways -> Policies]
    BY <2>1 DEF IInv, StoreOK
  <2>4. slots \in [Gateways -> Slots]
    BY <2>1 DEF IInv, StoreOK, Kept, Slots
  <2> QED
    BY <2>2, <2>3, <2>4 DEF IInv, HeadOK, CastOK, WireOK, StoreOK, PTypeOK
<1> QED
  BY <1>1, IInvAlways, PTL

\* A gateway that has saved two policies comes back with one of them (save,
\* load with allow_previous).
THEOREM LastGoodIsKept == PSpec => []LastKnownGood
<1>1. IInv => LastKnownGood
  BY DEF IInv, StoreOK, TwoGood, LastKnownGood
<1> QED
  BY <1>1, IInvAlways, PTL

\* Servers, database and gateways implement PolicyHistory: one policy per
\* version, and a running gateway moves to newer ones only (update_policy).
THEOREM PolicyImplementsHistory == PSpec => ImplementsHistory
<1>1. PInit => History!Init
  BY DEF PInit, History!Init, Compiled, History!Compiled
<1> QED
  BY <1>1, IInvAlways, IInvStep, PTL
     DEF PSpec, ImplementsHistory, History!Spec, HistoryStep

-----------------------------------------------------------------------------
(* What one state decides for the whole future. *)

\* p is published, pushed, on its way, in force or in a checkpoint.
Found(p) ==
  \/ p = head
  \/ \E s \in Publishers : p \in {served[s], pushed[s]}
  \/ \E g \in Gateways : \/ p \in {policy[g], slots[g].current, slots[g].previous}
                         \/ \E i \in 1..Len(frames[g]) : p = frames[g][i]

\* Whatever is found anywhere was committed, or is compiled in.
LEMMA FoundIsCommitted ==
  ASSUME IInv, NEW p, Found(p), Good(p)
  PROVE  p \in Committed \cup {Compiled}
<1> Good(p) /\ p # NoPolicy /\ p # Corrupt
  BY DEF Good
<1>1. ASSUME p = head PROVE p \in Committed
  <2>1. log # <<>> /\ log \in Seq(Contents)
    BY <1>1 DEF IInv, HeadOK
  <2>2. Len(log) \in 1..Len(log)
    BY <2>1
  <2>3. p = [version |-> Len(log), content |-> log[Len(log)]]
    BY <1>1, <2>1 DEF IInv, HeadOK
  <2> QED
    BY <2>2, <2>3 DEF Committed
<1>2. ASSUME NEW s \in Publishers, p \in {served[s], pushed[s]} PROVE p \in Committed
  BY <1>2 DEF IInv, CastOK
<1>3. ASSUME NEW g \in Gateways, NEW i \in 1..Len(frames[g]), p = frames[g][i]
      PROVE  p \in Committed
  BY <1>3 DEF IInv, WireOK
<1>4. ASSUME NEW g \in Gateways, p \in {policy[g], slots[g].current, slots[g].previous}
      PROVE  p \in Committed \cup {Compiled}
  BY <1>4 DEF IInv, StoreOK, Kept
<1> QED
  BY <1>1, <1>2, <1>3, <1>4 DEF Found

\* Nothing that was committed is taken back.
LEMMA CommittedStays ==
  ASSUME IInv, [PNext]_policyVars
  PROVE  Committed \subseteq Committed'
<1>1. HistoryStep
  BY IInvStep
<1>2. ASSUME NEW content \in Contents, log' = Append(log, content)
      PROVE  Committed \subseteq Committed'
  BY <1>2, CommittedGrows DEF IInv
<1>3. ASSUME log' = log PROVE Committed \subseteq Committed'
  BY <1>3 DEF Committed
<1> QED
  BY <1>1, <1>2, <1>3 DEF HistoryStep, History!Next, History!Publish, History!Adopt,
     History!Stop, History!Recover, History!historyVars

\* A version has one content.
LEMMA OneContent ==
  ASSUME HeadOK, NEW p \in Committed \cup {Compiled}, NEW q \in Committed \cup {Compiled},
         p.version = q.version
  PROVE  p = q
<1>1. Compiled.version = 0
  BY DEF Compiled
<1>2. \A r \in Committed : r.version \in 1..Len(log)
  BY CommittedPolicies
<1>3. Len(log) \in Nat
  BY DEF HeadOK
<1>4. CASE p \in Committed /\ q \in Committed
  BY <1>4 DEF Committed
<1>5. CASE p = Compiled /\ q = Compiled
  BY <1>5
<1>6. CASE p = Compiled /\ q \in Committed
  BY <1>1, <1>2, <1>3, <1>6
<1>7. CASE p \in Committed /\ q = Compiled
  BY <1>1, <1>2, <1>3, <1>7
<1> QED
  BY <1>4, <1>5, <1>6, <1>7

\* A version is never given twice: once a policy is found anywhere, at a server,
\* on the wire, in force or in a checkpoint, whatever is found anywhere at the
\* same version, at any later time, is the same policy, although servers crash,
\* are overtaken by a second one and replay (_write_policy, update_policy).
THEOREM VersionNamesOnePolicy ==
  ASSUME NEW p \in Policies
  PROVE  PSpec => [](Found(p) => [](\A q \in Policies :
                                      Found(q) /\ q.version = p.version => q = p))
<1> DEFINE Known == p \in Committed \cup {Compiled}
           Unique == \A q \in Policies : Found(q) /\ q.version = p.version => q = p
<1>1. \A q \in Policies : Good(q)
  BY PolicyAssumption DEF Good
<1>2. IInv /\ Found(p) => Known
  BY <1>1, FoundIsCommitted
<1>3. IInv /\ Known /\ [PNext]_policyVars => Known'
  <2> SUFFICES ASSUME IInv, Known, [PNext]_policyVars PROVE Known'
    OBVIOUS
  <2>1. Compiled' = Compiled
    BY DEF Compiled
  <2> QED
    BY <2>1, CommittedStays
<1>4. IInv /\ Known => Unique
  BY <1>1, FoundIsCommitted, OneContent DEF IInv
<1> HIDE DEF Known, Unique
<1>5. PSpec => [](Found(p) => []Unique)
  BY <1>2, <1>3, <1>4, IInvAlways, PTL DEF PSpec
<1> QED
  BY <1>5 DEF Unique

\* The table of a first boot that was interrupted: created, and left empty.
Abandoned == table /\ log = <<>> /\ \A s \in Publishers : mode[s] # "CREATING"

LEMMA AbandonedStays ==
  ASSUME IInv, [PNext]_policyVars, Abandoned
  PROVE  Abandoned'
<1> table /\ log = <<>> /\ \A s \in Publishers : mode[s] # "CREATING"
  BY DEF Abandoned
<1> Committed = {}
  BY DEF Committed
<1> mode \in [Publishers -> {"DOWN", "CREATING", "UP"}]
  BY DEF IInv, HeadOK
<1>1. ASSUME NEW s \in Publishers, PublisherNext(s) PROVE Abandoned'
  <2>1. served[s] = NoPolicy
    BY DEF IInv, CastOK
  <2>2. ~CreateTable(s) /\ ~InsertHead(s) /\ \A content \in Contents : ~UpdatePolicy(s, content)
    BY <2>1 DEF CreateTable, InsertHead, UpdatePolicy
  <2>3. CASE LoadHead(s)
    BY <2>3 DEF LoadHead, headVars, Abandoned
  <2>4. CASE PublisherCrash(s)
    BY <2>4 DEF PublisherCrash, headVars, Abandoned
  <2>5. CASE \E g \in Gateways : StartBroadcast(s, g) \/ Push(s, g) \/ PushRaises(s, g)
    BY <2>5 DEF StartBroadcast, Push, PushRaises, headVars, Abandoned
  <2> QED
    BY <1>1, <2>2, <2>3, <2>4, <2>5 DEF PublisherNext
<1>2. ASSUME NEW g \in Gateways, GatewayNext(g) PROVE Abandoned'
  BY <1>2 DEF GatewayNext, Connect, Disconnect, Apply, ApplyFails, Damage, GatewayCrash,
     GatewayStart, headVars, Abandoned
<1>3. CASE UNCHANGED policyVars
  BY <1>3 DEF policyVars, headVars, Abandoned
<1> QED
  BY <1>1, <1>2, <1>3 DEF PNext

\* A first boot that dies between the table and its first row disables the
\* publication of policies for ever, and safely: no server publishes, nothing is
\* on its way and every gateway controls by the compiled policy, whatever starts
\* or crashes later (database.py load_policy, a missing row is no first boot).
THEOREM EmptyTableStaysEmpty ==
  PSpec => [](Abandoned => [](/\ \A s \in Publishers : served[s] = NoPolicy
                              /\ \A g \in Gateways : frames[g] = <<>> /\ policy[g] = Compiled))
<1> DEFINE Disabled == /\ \A s \in Publishers : served[s] = NoPolicy
                       /\ \A g \in Gateways : frames[g] = <<>> /\ policy[g] = Compiled
<1>1. IInv /\ Abandoned => Disabled
  <2> SUFFICES ASSUME IInv, Abandoned PROVE Disabled
    OBVIOUS
  <2>1. Committed = {}
    BY DEF Committed, Abandoned
  <2>2. \A s \in Publishers : served[s] = NoPolicy
    BY <2>1 DEF IInv, CastOK
  <2>3. \A g \in Gateways : policy[g] = Compiled
    BY <2>1 DEF IInv, StoreOK
  <2>4. ASSUME NEW g \in Gateways PROVE frames[g] = <<>>
    <3>1. frames[g] \in Seq(Policies) /\ \A i \in 1..Len(frames[g]) : FALSE
      BY <2>1 DEF IInv, WireOK
    <3> QED
      BY <3>1
  <2> QED
    BY <2>2, <2>3, <2>4
<1>2. IInv /\ Abandoned /\ [PNext]_policyVars => Abandoned'
  BY AbandonedStays
<1> HIDE DEF Disabled
<1>3. PSpec => [](Abandoned => []Disabled)
  BY <1>1, <1>2, IInvAlways, PTL DEF PSpec
<1> QED
  BY <1>3 DEF Disabled
=============================================================================
