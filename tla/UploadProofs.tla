---------------------------- MODULE UploadProofs ----------------------------
(***************************************************************************)
(* The safety properties of Upload for every number of gateways, messages  *)
(* and faults: only the head of an outbox is ever under way, and it leaves *)
(* the outbox only after the server has committed it.                      *)
(***************************************************************************)
EXTENDS Upload, FiniteSetTheorems, TLAPS

Normal(queue) == {i \in DOMAIN queue : queue[i] \notin High}

Bounded(queue) ==
  Len(queue) <= Capacity /\ Cardinality(Normal(queue)) <= Capacity - Reserve

\* Outboxes on disk: a message has one row, and the limits hold.
DiskOK ==
  /\ disk \in [Gateways -> Seq(Messages)]
  /\ \A g \in Gateways : IsInjective(disk[g]) /\ Bounded(disk[g])

\* A transaction that is left open has at most deleted a head that the server
\* has committed.
DeletedOpen(g) ==
  /\ open[g] /\ disk[g] # <<>> /\ Head(disk[g]) \in base.seen
  /\ rows[g] = Tail(disk[g])

RowsOK ==
  /\ rows \in [Gateways -> Seq(Messages)] /\ open \in [Gateways -> BOOLEAN]
  /\ \A g \in Gateways : rows[g] = disk[g] \/ DeletedOpen(g)

\* What a ledger acknowledges is on disk here or there.
Kept(g, m) == m \in ToSet(disk[g]) \/ m \in base.seen

LedgerOK ==
  /\ ledger \in [Gateways -> SUBSET Receipted]
  /\ \A g \in Gateways : \A m \in ledger[g] : Kept(g, m)

\* The flush awaits the head of the disk, and believes only what is committed.
FlushOK(g) ==
  /\ awaited[g] # NoMessage =>
       flushing[g] /\ ~open[g] /\ disk[g] # <<>> /\ awaited[g] = Head(disk[g])
  /\ acked[g] => awaited[g] # NoMessage /\ awaited[g] \in base.seen
  /\ receipt[g] # NoMessage => receipt[g] \in base.seen

LinkOK ==
  /\ link \in [Gateways -> LinkStates] /\ flushing \in [Gateways -> BOOLEAN]
  /\ awaited \in [Gateways -> Messages \cup {NoMessage}]
  /\ acked \in [Gateways -> BOOLEAN]
  /\ receipt \in [Gateways -> Messages \cup {NoMessage}]
  /\ \A g \in Gateways : FlushOK(g)

\* A message under way is committed, or the head of an outbox.
AtHead(g, m) == disk[g] # <<>> /\ Head(disk[g]) = m
Founded(m) == m \in base.seen \/ \E g \in Gateways : AtHead(g, m)

SentOK ==
  /\ frame \in [Gateways -> Messages \cup {NoMessage}]
  /\ stale \in [Gateways -> SUBSET Messages]
  /\ \A g \in Gateways :
       /\ frame[g] # NoMessage => Founded(frame[g])
       /\ \A m \in stale[g] : Founded(m)

\* The tables: one row per message seen.
Consistent(tables) ==
  /\ tables \in Tables
  /\ tables.history = [m \in Messages |-> IF m \in tables.seen THEN 1 ELSE 0]

ServerOK ==
  /\ Consistent(view) /\ Consistent(base) /\ base.seen \subseteq view.seen
  /\ \A m \in view.seen : Founded(m)
  /\ faults \in 0..MaxFaults

UIInv == DiskOK /\ RowsOK /\ LedgerOK /\ LinkOK /\ SentOK /\ ServerOK

\* What every step promises: a step of Custody or none, in the order of the rows.
FifoStep ==
  \A m \in Messages :
    base.history[m] = 0 /\ base'.history[m] = 1 =>
      \E g \in Gateways : m \in ToSet(disk[g]) /\ ~Overtakes(g, m)

Promise ==
  /\ [ServerCustody!Next]_(ServerCustody!custodyVars)
  /\ FifoStep

\* What was founded or kept remains so.
Lasts ==
  /\ \A m \in Messages : Founded(m) => Founded(m)'
  /\ \A g \in Gateways, m \in Messages : Kept(g, m) => Kept(g, m)'

-----------------------------------------------------------------------------
(* Outboxes as sequences. *)

\* A message is appended within its limit.
LEMMA AppendedQueue ==
  ASSUME NEW queue \in Seq(Messages), IsInjective(queue), Bounded(queue),
         NEW m \in Messages, m \notin ToSet(queue), Len(queue) < Limit(m)
  PROVE  LET grown == Append(queue, m)
         IN /\ grown \in Seq(Messages) /\ grown # <<>>
            /\ IsInjective(grown) /\ Bounded(grown)
            /\ ToSet(grown) = ToSet(queue) \cup {m}
            /\ queue # <<>> => Head(grown) = Head(queue)
<1> DEFINE grown == Append(queue, m)
<1>1. /\ grown \in Seq(Messages) /\ Len(grown) = Len(queue) + 1 /\ Len(queue) \in Nat
      /\ DOMAIN grown = 1..Len(queue) + 1 /\ DOMAIN queue = 1..Len(queue)
      /\ \A i \in 1..Len(queue) : grown[i] = queue[i]
      /\ grown[Len(queue) + 1] = m
  OBVIOUS
<1>2. \A i \in 1..Len(queue) : queue[i] # m
  BY <1>1 DEF ToSet
<1>3. IsInjective(grown)
  BY <1>1, <1>2 DEF IsInjective
<1>4. ToSet(grown) = ToSet(queue) \cup {m}
  <2>1. 1..Len(queue) + 1 = 1..Len(queue) \cup {Len(queue) + 1}
    BY <1>1
  <2> QED
    BY <1>1, <2>1 DEF ToSet
<1>5. Capacity \in Nat /\ Reserve \in Nat /\ Reserve < Capacity
  BY UploadAssumption
<1>6. Bounded(grown)
  <2>1. CASE m \in High
    <3>1. Normal(grown) = Normal(queue)
      BY <1>1, <2>1 DEF Normal
    <3> QED
      BY <1>1, <1>5, <2>1, <3>1 DEF Bounded, Limit
  <2>2. CASE m \notin High
    <3>1. IsFiniteSet(1..Len(queue) + 1) /\ Cardinality(1..Len(queue) + 1) = Len(queue) + 1
      BY <1>1, FS_Interval
    <3>2. Normal(grown) \in SUBSET (1..Len(queue) + 1)
      BY <1>1 DEF Normal
    <3>3. IsFiniteSet(Normal(grown)) /\ Cardinality(Normal(grown)) <= Len(queue) + 1
      BY <3>1, <3>2, FS_Subset
    <3>4. Cardinality(Normal(grown)) \in Nat
      BY <3>3, FS_CardinalityType
    <3> QED
      BY <1>1, <1>5, <2>2, <3>3, <3>4 DEF Bounded, Limit
  <2> QED
    BY <2>1, <2>2
<1> QED
  BY <1>1, <1>3, <1>4, <1>6

\* The oldest row is deleted.
LEMMA TailQueue ==
  ASSUME NEW queue \in Seq(Messages), IsInjective(queue), Bounded(queue), queue # <<>>
  PROVE  /\ Tail(queue) \in Seq(Messages)
         /\ IsInjective(Tail(queue)) /\ Bounded(Tail(queue))
         /\ Head(queue) \in ToSet(queue)
         /\ ToSet(Tail(queue)) = ToSet(queue) \ {Head(queue)}
<1> DEFINE rest == Tail(queue)
<1>1. /\ rest \in Seq(Messages) /\ Len(queue) \in Nat \ {0} /\ Len(rest) = Len(queue) - 1
      /\ DOMAIN rest = 1..Len(queue) - 1 /\ DOMAIN queue = 1..Len(queue)
      /\ \A i \in 1..Len(queue) - 1 : rest[i] = queue[i + 1]
      /\ Head(queue) = queue[1]
  OBVIOUS
<1>2. IsInjective(rest)
  BY <1>1 DEF IsInjective
<1>3. Head(queue) \in ToSet(queue)
  BY <1>1 DEF ToSet
<1>4. ToSet(rest) = ToSet(queue) \ {Head(queue)}
  <2>1. ASSUME NEW x \in ToSet(rest) PROVE x \in ToSet(queue) \ {Head(queue)}
    <3>1. PICK i \in 1..Len(queue) - 1 : x = queue[i + 1]
      BY <1>1 DEF ToSet
    <3> QED
      BY <1>1, <3>1 DEF ToSet, IsInjective
  <2>2. ASSUME NEW x \in ToSet(queue), x # Head(queue) PROVE x \in ToSet(rest)
    <3>1. PICK i \in 1..Len(queue) : x = queue[i]
      BY <1>1 DEF ToSet
    <3>2. i # 1 /\ i - 1 \in 1..Len(queue) - 1 /\ rest[i - 1] = x
      BY <1>1, <2>2, <3>1
    <3> QED
      BY <1>1, <3>2 DEF ToSet
  <2> QED
    BY <2>1, <2>2
<1>5. Bounded(rest)
  <2> DEFINE f == [i \in Normal(rest) |-> i + 1]
  <2>1. Normal(rest) \subseteq 1..Len(queue) - 1 /\ Normal(queue) \subseteq 1..Len(queue)
    BY <1>1 DEF Normal
  <2>2. \A i \in Normal(rest) : i + 1 \in Normal(queue)
    BY <1>1 DEF Normal
  <2>3. f \in [Normal(rest) -> Normal(queue)]
    BY <2>2
  <2>4. \A i, j \in Normal(rest) : f[i] = f[j] => i = j
    BY <2>1
  <2>5. f \in Injection(Normal(rest), Normal(queue))
    <3>1. DOMAIN f = Normal(rest)
      OBVIOUS
    <3>2. IsInjective(f)
      BY <2>4, <3>1 DEF IsInjective
    <3> QED
      BY <2>3, <3>2 DEF Injection
  <2>6. IsFiniteSet(Normal(queue))
    <3>1. IsFiniteSet(1..Len(queue))
      BY <1>1, FS_Interval
    <3> QED
      BY <2>1, <3>1, FS_Subset
  <2>7. /\ IsFiniteSet(Normal(rest))
        /\ Cardinality(Normal(rest)) <= Cardinality(Normal(queue))
    BY <2>5, <2>6, FS_Injection
  <2>8. Cardinality(Normal(rest)) \in Nat /\ Cardinality(Normal(queue)) \in Nat
    BY <2>6, <2>7, FS_CardinalityType
  <2>9. Capacity \in Nat /\ Reserve \in Nat
    BY UploadAssumption
  <2> QED
    BY <1>1, <2>7, <2>8, <2>9 DEF Bounded
<1> QED
  BY <1>1, <1>2, <1>3, <1>4, <1>5

\* delete removes the head when the head is what was awaited.
LEMMA RemovedHead ==
  ASSUME NEW queue \in Seq(Messages), IsInjective(queue), queue # <<>>
  PROVE  RemoveAt(queue, CHOOSE i \in DOMAIN queue : queue[i] = Head(queue)) = Tail(queue)
<1> DEFINE position == CHOOSE i \in DOMAIN queue : queue[i] = Head(queue)
<1>1. 1 \in DOMAIN queue /\ queue[1] = Head(queue)
  OBVIOUS
<1>2. position \in DOMAIN queue /\ queue[position] = Head(queue)
  BY <1>1
<1>3. position = 1
  BY <1>1, <1>2 DEF IsInjective
<1>4. RemoveAt(queue, 1) = Tail(queue)
  <2>1. RemoveAt(queue, 1) = SubSeq(queue, 1, 0) \o SubSeq(queue, 2, Len(queue))
    BY DEF RemoveAt
  <2>2. SubSeq(queue, 1, 0) = <<>>
    OBVIOUS
  <2>3. SubSeq(queue, 2, Len(queue)) = Tail(queue)
    OBVIOUS
  <2> QED
    BY <2>1, <2>2, <2>3
<1> QED
  BY <1>3, <1>4

-----------------------------------------------------------------------------
(* What the steps have in common. *)

\* An outbox on disk stays, takes a message, or loses a committed head.
Grown(g, queue) ==
  \/ queue = disk[g]
  \/ \E m \in Messages :
       /\ m \notin ToSet(disk[g]) /\ Len(disk[g]) < Limit(m)
       /\ queue = Append(disk[g], m)
  \/ disk[g] # <<>> /\ Head(disk[g]) \in base.seen /\ queue = Tail(disk[g])

LEMMA GrownQueue ==
  ASSUME UIInv, NEW g \in Gateways, NEW queue, Grown(g, queue)
  PROVE  /\ queue \in Seq(Messages) /\ IsInjective(queue) /\ Bounded(queue)
         /\ \A m \in ToSet(disk[g]) : m \in ToSet(queue) \/ m \in base.seen
         /\ \A m : AtHead(g, m) =>
              (queue # <<>> /\ Head(queue) = m) \/ m \in base.seen
         /\ \/ ToSet(queue) = ToSet(disk[g])
            \/ \E m \in Messages : m \notin ToSet(disk[g])
                                   /\ ToSet(queue) = ToSet(disk[g]) \cup {m}
            \/ \E m \in ToSet(disk[g]) : m \in base.seen
                                         /\ ToSet(queue) = ToSet(disk[g]) \ {m}
<1>1. disk[g] \in Seq(Messages) /\ IsInjective(disk[g]) /\ Bounded(disk[g])
  BY DEF UIInv, DiskOK
<1>2. CASE queue = disk[g]
  BY <1>1, <1>2 DEF AtHead
<1>3. ASSUME NEW m \in Messages, m \notin ToSet(disk[g]), Len(disk[g]) < Limit(m),
             queue = Append(disk[g], m)
      PROVE  /\ queue \in Seq(Messages) /\ IsInjective(queue) /\ Bounded(queue)
             /\ ToSet(queue) = ToSet(disk[g]) \cup {m}
             /\ queue # <<>> /\ (disk[g] # <<>> => Head(queue) = Head(disk[g]))
  BY <1>1, <1>3, AppendedQueue
<1>4. CASE disk[g] # <<>> /\ Head(disk[g]) \in base.seen /\ queue = Tail(disk[g])
  <2>1. /\ queue \in Seq(Messages) /\ IsInjective(queue) /\ Bounded(queue)
        /\ Head(disk[g]) \in ToSet(disk[g])
        /\ ToSet(queue) = ToSet(disk[g]) \ {Head(disk[g])}
    BY <1>1, <1>4, TailQueue
  <2> QED
    BY <1>4, <2>1 DEF AtHead
<1> QED
  BY <1>2, <1>3, <1>4 DEF Grown, AtHead

\* The tables of a step that commits nothing on the server.
LEMMA BaseKept ==
  ASSUME UIInv, base' = base
  PROVE  FifoStep
<1>1. \A m \in Messages : base.history[m] \in {0, 1}
  BY DEF UIInv, ServerOK, Consistent
<1> QED
  BY <1>1 DEF FifoStep

\* One outbox changes as a holder may.
LEMMA OutboxStep ==
  ASSUME UIInv, NEW g \in Gateways, NEW queue, Grown(g, queue),
         disk' = [disk EXCEPT ![g] = queue], base' = base
  PROVE  Lasts /\ Promise /\ DiskOK'
<1> DEFINE held == [h \in Gateways |-> ToSet(disk[h])]
<1>1. /\ disk' \in [Gateways -> Seq(Messages)]
      /\ disk'[g] = queue /\ \A h \in Gateways \ {g} : disk'[h] = disk[h]
      /\ disk \in [Gateways -> Seq(Messages)]
  BY GrownQueue DEF UIInv, DiskOK
<1>2. DiskOK'
  <2>1. \A h \in Gateways : IsInjective(disk'[h]) /\ Bounded(disk'[h])
    BY <1>1, GrownQueue DEF UIInv, DiskOK
  <2> QED
    BY <1>1, <2>1 DEF DiskOK, Bounded, Normal
<1>3. Lasts
  <2>1. ASSUME NEW m \in Messages, Founded(m) PROVE Founded(m)'
    BY <1>1, <2>1, GrownQueue DEF Founded, AtHead
  <2>2. ASSUME NEW h \in Gateways, NEW m \in Messages, Kept(h, m) PROVE Kept(h, m)'
    <3>1. CASE h = g
      BY <1>1, <2>2, <3>1, GrownQueue DEF Kept
    <3>2. CASE h # g
      BY <1>1, <2>2, <3>2 DEF Kept, ToSet
    <3> QED
      BY <3>1, <3>2
  <2> QED
    BY <2>1, <2>2 DEF Lasts
<1>4. /\ held' = [held EXCEPT ![g] = ToSet(queue)]
      /\ \A s \in {"SERVER"} : base'.history = base.history
  <2>1. \A h \in Gateways : ToSet(disk[h])' = IF h = g THEN ToSet(queue) ELSE ToSet(disk[h])
    BY <1>1 DEF ToSet
  <2> QED
    BY <2>1
<1>5. \A m \in base.seen : ServerCustody!Safe(m)
  BY DEF UIInv, ServerOK, Consistent, Tables, ServerCustody!Safe
<1>6. [ServerCustody!Next]_(ServerCustody!custodyVars)
  <2>1. CASE ToSet(queue) = ToSet(disk[g])
    BY <1>4, <2>1 DEF ServerCustody!custodyVars
  <2>2. ASSUME NEW m \in Messages, m \notin ToSet(disk[g]),
               ToSet(queue) = ToSet(disk[g]) \cup {m}
        PROVE  ServerCustody!Accept(g, m)
    BY <1>4, <2>2 DEF ServerCustody!Accept
  <2>3. ASSUME NEW m \in ToSet(disk[g]), m \in base.seen,
               ToSet(queue) = ToSet(disk[g]) \ {m}
        PROVE  ServerCustody!Release(g, m) /\ m \in Messages
    <3>1. m \in Messages
      BY <1>1, <2>3 DEF ToSet
    <3> QED
      BY <1>4, <1>5, <2>3, <3>1 DEF ServerCustody!Release
  <2> QED
    BY <2>1, <2>2, <2>3, GrownQueue DEF ServerCustody!Next
<1> QED
  BY <1>2, <1>3, <1>6, BaseKept DEF Promise

\* A commit with the rows the gateway sees, or with what it adds or deletes.
LEMMA CommitKeeps ==
  ASSUME UIInv, NEW g \in Gateways, NEW queue, Grown(g, queue),
         Commit(g, queue), base' = base
  PROVE  Lasts /\ Promise /\ DiskOK' /\ RowsOK'
<1>1. Lasts /\ Promise /\ DiskOK'
  BY OutboxStep DEF Commit
<1>2. queue \in Seq(Messages)
  BY GrownQueue
<1>3. RowsOK'
  BY <1>2 DEF Commit, UIInv, DiskOK, RowsOK, DeletedOpen
<1> QED
  BY <1>1, <1>3

LEMMA RollbackKeeps ==
  ASSUME UIInv, NEW g \in Gateways, Rollback(g), base' = base
  PROVE  Lasts /\ Promise /\ DiskOK' /\ RowsOK'
<1>1. Grown(g, disk[g]) /\ disk' = [disk EXCEPT ![g] = disk[g]]
  BY DEF Grown, Rollback, UIInv, DiskOK
<1>2. Lasts /\ Promise /\ DiskOK'
  BY <1>1, OutboxStep
<1>3. RowsOK'
  BY DEF Rollback, UIInv, DiskOK, RowsOK, DeletedOpen
<1> QED
  BY <1>2, <1>3

LEMMA CommitFailsKeeps ==
  ASSUME UIInv, NEW g \in Gateways, NEW queue, CommitFails(g, queue), base' = base,
         \/ queue = rows[g]
         \/ disk[g] # <<>> /\ Head(disk[g]) \in base.seen /\ queue = Tail(disk[g])
  PROVE  Lasts /\ Promise /\ DiskOK' /\ RowsOK'
<1>1. CASE Rollback(g)
  BY <1>1, RollbackKeeps
<1>2. CASE /\ rows' = [rows EXCEPT ![g] = queue]
           /\ open' = [open EXCEPT ![g] = TRUE] /\ disk' = disk
  <2>1. Grown(g, disk[g]) /\ disk' = [disk EXCEPT ![g] = disk[g]]
    BY <1>2 DEF Grown, UIInv, DiskOK
  <2>2. Lasts /\ Promise /\ DiskOK'
    BY <2>1, OutboxStep
  <2>3. queue = disk[g] \/ (disk[g] # <<>> /\ Head(disk[g]) \in base.seen
                            /\ queue = Tail(disk[g]))
    BY DEF UIInv, RowsOK, DeletedOpen
  <2>4. queue \in Seq(Messages)
    BY <2>3, GrownQueue DEF Grown
  <2>5. /\ rows' \in [Gateways -> Seq(Messages)] /\ open' \in [Gateways -> BOOLEAN]
    BY <1>2, <2>4 DEF UIInv, RowsOK
  <2>6. \A h \in Gateways : (rows[h] = disk[h] \/ DeletedOpen(h))'
    BY <1>2, <2>3 DEF UIInv, RowsOK, DeletedOpen
  <2> QED
    BY <2>2, <2>5, <2>6 DEF RowsOK
<1> QED
  BY <1>1, <1>2 DEF CommitFails

LEMMA GatewayKept ==
  ASSUME UIInv, UNCHANGED <<rows, disk, open>>, base.seen \subseteq base'.seen
  PROVE  Lasts /\ DiskOK' /\ RowsOK'
BY DEF UIInv, DiskOK, RowsOK, DeletedOpen, Lasts, Founded, AtHead, Kept,
       IsInjective, Bounded, Normal, ToSet

LEMMA LedgerKept ==
  ASSUME UIInv, Lasts, UNCHANGED ledger
  PROVE  LedgerOK'
<1>1. \A g \in Gateways : \A m \in ledger[g] : m \in Messages
  BY UploadAssumption DEF UIInv, LedgerOK, Receipted
<1> QED
  BY <1>1 DEF UIInv, LedgerOK, Lasts

LEMMA SentKept ==
  ASSUME UIInv, Lasts, frame' \in [Gateways -> Messages \cup {NoMessage}],
         stale' \in [Gateways -> SUBSET Messages],
         \A g \in Gateways :
           /\ frame'[g] # NoMessage => Founded(frame'[g])
           /\ \A m \in stale'[g] : Founded(m)
  PROVE  SentOK'
BY DEF SentOK, Lasts

LEMMA FramesKept ==
  ASSUME UIInv, Lasts, UNCHANGED <<frame, stale>>
  PROVE  SentOK'
BY SentKept DEF UIInv, SentOK

LEMMA AbandonKeeps ==
  ASSUME UIInv, Lasts, NEW g \in Gateways, NEW arrives \in BOOLEAN, Abandon(g, arrives)
  PROVE  SentOK'
<1>1. /\ frame \in [Gateways -> Messages \cup {NoMessage}]
      /\ stale \in [Gateways -> SUBSET Messages]
  BY DEF UIInv, SentOK
<1>2. /\ frame' \in [Gateways -> Messages \cup {NoMessage}]
      /\ stale' \in [Gateways -> SUBSET Messages]
  BY <1>1 DEF Abandon
<1>3. \A h \in Gateways :
        /\ frame'[h] # NoMessage => frame'[h] = frame[h]
        /\ \A m \in stale'[h] : m \in stale[h] \/ (m = frame[h] /\ frame[h] # NoMessage)
  BY <1>1 DEF Abandon
<1>4. \A h \in Gateways :
        /\ frame'[h] # NoMessage => Founded(frame'[h])
        /\ \A m \in stale'[h] : Founded(m)
  BY <1>3 DEF UIInv, SentOK
<1> QED
  BY <1>2, <1>4, SentKept

LEMMA ServerKept ==
  ASSUME UIInv, Lasts, UNCHANGED serverVars, faults' = faults \/ Fault
  PROVE  ServerOK'
<1>1. view.seen \subseteq Messages
  BY DEF UIInv, ServerOK, Consistent, Tables
<1>2. faults' \in 0..MaxFaults
  BY UploadAssumption DEF UIInv, ServerOK, Fault
<1>3. \A m \in view.seen : Founded(m)'
  BY <1>1 DEF UIInv, ServerOK, Lasts
<1>4. /\ Consistent(view)' /\ Consistent(base)' /\ base'.seen \subseteq view'.seen
  BY DEF UIInv, ServerOK, Consistent, serverVars
<1>5. \A m \in view'.seen : Founded(m)'
  BY <1>3 DEF serverVars
<1> QED
  BY <1>2, <1>4, <1>5 DEF ServerOK

\* The flush goes on: the head it awaits stays where it is.
LEMMA FlushLasts ==
  ASSUME UIInv, base.seen \subseteq base'.seen,
         UNCHANGED <<awaited, acked>>, link' \in [Gateways -> LinkStates],
         flushing' \in [Gateways -> BOOLEAN],
         receipt' \in [Gateways -> Messages \cup {NoMessage}],
         \A h \in Gateways :
           /\ flushing[h] => flushing'[h]
           /\ receipt'[h] = receipt[h] \/ receipt'[h] = NoMessage
              \/ receipt'[h] \in base'.seen
           /\ awaited[h] # NoMessage =>
                ~open'[h] /\ disk'[h] # <<>> /\ Head(disk'[h]) = Head(disk[h])
  PROVE  LinkOK'
BY DEF UIInv, LinkOK, FlushOK

\* It ends, and forgets the receipt it awaited.
LEMMA FlushEnds ==
  ASSUME UIInv, NEW g \in Gateways, EndFlush(g), base.seen \subseteq base'.seen,
         link' \in [Gateways -> LinkStates],
         receipt' = receipt \/ receipt' = [receipt EXCEPT ![g] = NoMessage],
         \A h \in Gateways \ {g} : open'[h] = open[h] /\ disk'[h] = disk[h]
  PROVE  LinkOK'
<1>1. /\ flushing' \in [Gateways -> BOOLEAN]
      /\ awaited' \in [Gateways -> Messages \cup {NoMessage}]
      /\ acked' \in [Gateways -> BOOLEAN]
      /\ receipt' \in [Gateways -> Messages \cup {NoMessage}]
  BY DEF UIInv, LinkOK, EndFlush
<1>2. \A h \in Gateways : receipt'[h] # NoMessage => receipt'[h] \in base'.seen
  BY DEF UIInv, LinkOK, FlushOK
<1>3. FlushOK(g)'
  BY <1>2 DEF UIInv, LinkOK, FlushOK, EndFlush
<1>4. \A h \in Gateways \ {g} : FlushOK(h)'
  BY <1>2 DEF UIInv, LinkOK, FlushOK, EndFlush
<1> QED
  BY <1>1, <1>3, <1>4 DEF LinkOK

\* While a receipt is awaited the gateway sees what is on its disk.
LEMMA SeesDisk ==
  ASSUME UIInv, NEW g \in Gateways, ~open[g] \/ awaited[g] # NoMessage
  PROVE  ~open[g] /\ rows[g] = disk[g]
BY DEF UIInv, RowsOK, DeletedOpen, LinkOK, FlushOK

\* What a commit of the rows as they are deletes is committed on the server.
LEMMA RowsGrown ==
  ASSUME UIInv, NEW g \in Gateways
  PROVE  Grown(g, rows[g])
BY DEF UIInv, RowsOK, DeletedOpen, Grown

\* A step that leaves outbox and server alone promises nothing new.
LEMMA NothingStored ==
  ASSUME UIInv, UNCHANGED <<gatewayVars, base>>
  PROVE  Lasts /\ Promise /\ DiskOK' /\ RowsOK' /\ LedgerOK'
<1>1. Lasts /\ DiskOK' /\ RowsOK'
  BY GatewayKept DEF gatewayVars
<1>2. LedgerOK'
  BY <1>1, LedgerKept DEF gatewayVars
<1>3. UNCHANGED ServerCustody!custodyVars
  BY DEF gatewayVars, ServerCustody!custodyVars
<1> QED
  BY <1>1, <1>2, <1>3, BaseKept DEF Promise

-----------------------------------------------------------------------------
(* Admission. *)

LEMMA EnqueuedQueue ==
  ASSUME UIInv, NEW g \in Gateways, NEW m \in Messages, ~open[g],
         m \in ToSet(rows[g]) \/ HasRoom(g, m)
  PROVE  /\ Grown(g, Enqueued(g, m)) /\ m \in ToSet(Enqueued(g, m))
         /\ disk[g] # <<>> => Enqueued(g, m) # <<>> /\ Head(Enqueued(g, m)) = Head(disk[g])
<1>1. rows[g] = disk[g]
  BY SeesDisk
<1>2. disk[g] \in Seq(Messages) /\ IsInjective(disk[g]) /\ Bounded(disk[g])
  BY DEF UIInv, DiskOK
<1>3. CASE m \in ToSet(rows[g])
  BY <1>1, <1>3 DEF Enqueued, Grown
<1>4. CASE m \notin ToSet(rows[g])
  <2>1. Enqueued(g, m) = Append(disk[g], m) /\ Len(disk[g]) < Limit(m)
    BY <1>1, <1>4 DEF Enqueued, HasRoom
  <2>2. /\ ToSet(Append(disk[g], m)) = ToSet(disk[g]) \cup {m}
        /\ Append(disk[g], m) # <<>>
        /\ disk[g] # <<>> => Head(Append(disk[g], m)) = Head(disk[g])
    BY <1>1, <1>2, <1>4, <2>1, AppendedQueue
  <2> QED
    BY <1>1, <1>4, <2>1, <2>2 DEF Grown
<1> QED
  BY <1>3, <1>4

\* Heads that are awaited stay heads while the outbox takes a message.
LEMMA AdmittedLink ==
  ASSUME UIInv, NEW g \in Gateways, UNCHANGED <<link, awaited, acked, receipt, base>>,
         RequestFlush(g), open' = [open EXCEPT ![g] = FALSE],
         \A h \in Gateways \ {g} : disk'[h] = disk[h],
         disk[g] # <<>> => disk'[g] # <<>> /\ Head(disk'[g]) = Head(disk[g])
  PROVE  LinkOK'
<1>1. /\ flushing' \in [Gateways -> BOOLEAN]
      /\ \A h \in Gateways : flushing[h] => flushing'[h]
  BY DEF RequestFlush, UIInv, LinkOK
<1>2. \A h \in Gateways : awaited[h] # NoMessage =>
        ~open'[h] /\ disk'[h] # <<>> /\ Head(disk'[h]) = Head(disk[h])
  BY DEF UIInv, LinkOK, FlushOK, RowsOK
<1>3. /\ link' \in [Gateways -> LinkStates]
      /\ receipt' \in [Gateways -> Messages \cup {NoMessage}]
  BY DEF UIInv, LinkOK
<1> QED
  BY <1>1, <1>2, <1>3, FlushLasts

LEMMA EnqueueStep ==
  ASSUME UIInv, NEW g \in Gateways, NEW m \in Messages, Enqueue(g, m)
  PROVE  UIInv' /\ Promise
<1>1. /\ ~open[g] /\ (m \in ToSet(rows[g]) \/ HasRoom(g, m))
      /\ Commit(g, Enqueued(g, m)) /\ RequestFlush(g)
      /\ UNCHANGED <<ledger, link, awaited, acked, frame, stale, receipt, serverVars, faults>>
  BY DEF Enqueue
<1>2. /\ Grown(g, Enqueued(g, m))
      /\ disk[g] # <<>> => Enqueued(g, m) # <<>> /\ Head(Enqueued(g, m)) = Head(disk[g])
  BY <1>1, EnqueuedQueue DEF Enqueue
<1>3. Lasts /\ Promise /\ DiskOK' /\ RowsOK'
  BY <1>1, <1>2, CommitKeeps DEF serverVars
<1>4. /\ disk'[g] = Enqueued(g, m) /\ \A h \in Gateways \ {g} : disk'[h] = disk[h]
      /\ open' = [open EXCEPT ![g] = FALSE]
  BY <1>1 DEF Commit, UIInv, DiskOK
<1>5. LinkOK'
  BY <1>1, <1>2, <1>4, AdmittedLink DEF serverVars
<1> QED
  BY <1>1, <1>3, <1>5, LedgerKept, FramesKept, ServerKept DEF UIInv

LEMMA AdmitStep ==
  ASSUME UIInv, NEW g \in Gateways, NEW m \in Messages, Admit(g, m)
  PROVE  UIInv' /\ Promise
<1>1. /\ ~open[g] /\ m \in Receipted /\ RequestFlush(g)
      /\ UNCHANGED <<link, awaited, acked, frame, stale, receipt, serverVars, faults>>
  BY DEF Admit
<1>2. CASE UNCHANGED gatewayVars
  <2>1. Lasts /\ Promise /\ DiskOK' /\ RowsOK' /\ LedgerOK'
    BY <1>1, <1>2, NothingStored DEF serverVars
  <2>2. open' = [open EXCEPT ![g] = FALSE] /\ disk' = disk
    BY <1>1, <1>2 DEF gatewayVars, UIInv, RowsOK
  <2>3. LinkOK'
    BY <1>1, <2>2, AdmittedLink DEF serverVars
  <2> QED
    BY <1>1, <2>1, <2>3, FramesKept, ServerKept DEF UIInv
<1>3. CASE /\ m \in ToSet(rows[g]) \/ HasRoom(g, m)
           /\ Commit(g, Enqueued(g, m))
           /\ ledger' = [ledger EXCEPT ![g] = @ \cup {m}]
  <2>1. /\ Grown(g, Enqueued(g, m)) /\ m \in ToSet(Enqueued(g, m))
        /\ disk[g] # <<>> => Enqueued(g, m) # <<>> /\ Head(Enqueued(g, m)) = Head(disk[g])
    BY <1>1, <1>3, EnqueuedQueue
  <2>2. Lasts /\ Promise /\ DiskOK' /\ RowsOK'
    BY <1>1, <1>3, <2>1, CommitKeeps DEF serverVars
  <2>3. /\ disk'[g] = Enqueued(g, m) /\ \A h \in Gateways \ {g} : disk'[h] = disk[h]
        /\ open' = [open EXCEPT ![g] = FALSE]
    BY <1>3 DEF Commit, UIInv, DiskOK
  <2>4. LinkOK'
    BY <1>1, <2>1, <2>3, AdmittedLink DEF serverVars
  <2>5. LedgerOK'
    <3>1. ledger' \in [Gateways -> SUBSET Receipted]
      BY <1>1, <1>3 DEF UIInv, LedgerOK
    <3>2. Kept(g, m)'
      BY <2>1, <2>3 DEF Kept, ToSet
    <3>3. ASSUME NEW h \in Gateways, NEW x \in ledger'[h] PROVE Kept(h, x)'
      <4>1. x \in ledger[h] \/ (h = g /\ x = m)
        BY <1>3, <3>3 DEF UIInv, LedgerOK
      <4>2. ledger[h] \subseteq Messages
        BY UploadAssumption DEF UIInv, LedgerOK, Receipted
      <4> QED
        BY <2>2, <3>2, <4>1, <4>2 DEF UIInv, LedgerOK, Lasts
    <3> QED
      BY <3>1, <3>3 DEF LedgerOK
  <2> QED
    BY <1>1, <2>2, <2>4, <2>5, FramesKept, ServerKept DEF UIInv
<1> QED
  BY <1>2, <1>3 DEF Admit

\* No receipt is awaited while a transaction is open.
LEMMA OpenLink ==
  ASSUME UIInv, NEW g \in Gateways, open[g], UNCHANGED <<linkVars, base>>,
         \A h \in Gateways \ {g} : open'[h] = open[h] /\ disk'[h] = disk[h]
  PROVE  LinkOK'
<1>1. \A h \in Gateways : awaited[h] # NoMessage =>
        ~open'[h] /\ disk'[h] # <<>> /\ Head(disk'[h]) = Head(disk[h])
  BY DEF UIInv, LinkOK, FlushOK
<1> QED
  BY <1>1, FlushLasts DEF UIInv, LinkOK, linkVars

LEMMA RollsBackStep ==
  ASSUME UIInv, NEW g \in Gateways, RollsBack(g)
  PROVE  UIInv' /\ Promise
<1>1. /\ open[g] /\ Rollback(g) /\ UNCHANGED <<ledger, linkVars, serverVars, faults>>
  BY DEF RollsBack
<1>2. Lasts /\ Promise /\ DiskOK' /\ RowsOK'
  BY <1>1, RollbackKeeps DEF serverVars
<1>3. LinkOK'
  BY <1>1, OpenLink DEF Rollback, serverVars, UIInv, RowsOK
<1> QED
  BY <1>1, <1>2, <1>3, LedgerKept, FramesKept, ServerKept DEF UIInv, linkVars

LEMMA AuditStep ==
  ASSUME UIInv, NEW g \in Gateways, Audit(g)
  PROVE  UIInv' /\ Promise
<1>1. /\ open[g] /\ Commit(g, rows[g]) /\ UNCHANGED <<ledger, linkVars, serverVars, faults>>
  BY DEF Audit
<1>2. Lasts /\ Promise /\ DiskOK' /\ RowsOK'
  BY <1>1, RowsGrown, CommitKeeps DEF serverVars
<1>3. LinkOK'
  BY <1>1, OpenLink DEF Commit, serverVars, UIInv, RowsOK, DiskOK
<1> QED
  BY <1>1, <1>2, <1>3, LedgerKept, FramesKept, ServerKept DEF UIInv, linkVars

-----------------------------------------------------------------------------
(* The flush. *)

LEMMA ConnectStep ==
  ASSUME UIInv, NEW g \in Gateways, Connect(g)
  PROVE  UIInv' /\ Promise
<1>1. /\ link' = [link EXCEPT ![g] = "UP"] /\ flushing' = [flushing EXCEPT ![g] = TRUE]
      /\ UNCHANGED <<gatewayVars, awaited, acked, frame, stale, receipt, serverVars, faults>>
  BY DEF Connect
<1>2. Lasts /\ Promise /\ DiskOK' /\ RowsOK' /\ LedgerOK'
  BY <1>1, NothingStored DEF serverVars
<1>3. LinkOK'
  BY <1>1 DEF UIInv, LinkOK, FlushOK, LinkStates, gatewayVars, serverVars
<1> QED
  BY <1>1, <1>2, <1>3, FramesKept, ServerKept DEF UIInv

LEMMA SendStep ==
  ASSUME UIInv, NEW g \in Gateways, Send(g)
  PROVE  UIInv' /\ Promise
<1> DEFINE m == Head(rows[g])
<1>1. /\ flushing[g] /\ awaited[g] = NoMessage /\ rows[g] # <<>>
      /\ Commit(g, rows[g])
      /\ awaited' = [awaited EXCEPT ![g] = m]
      /\ frame' = [frame EXCEPT ![g] = IF link[g] = "UP" THEN m ELSE @]
      /\ UNCHANGED <<ledger, link, flushing, acked, stale, receipt, serverVars, faults>>
  BY DEF Send, Peeked
<1>2. Lasts /\ Promise /\ DiskOK' /\ RowsOK'
  BY <1>1, RowsGrown, CommitKeeps DEF serverVars
<1>3. /\ disk'[g] = rows[g] /\ ~open'[g]
      /\ \A h \in Gateways \ {g} : disk'[h] = disk[h] /\ open'[h] = open[h]
      /\ rows[g] \in Seq(Messages) /\ m \in Messages
  BY <1>1 DEF Commit, UIInv, DiskOK, RowsOK
<1>4. LinkOK'
  <2>1. awaited' \in [Gateways -> Messages \cup {NoMessage}]
    BY <1>1, <1>3 DEF UIInv, LinkOK
  <2>2. FlushOK(g)'
    BY <1>1, <1>3 DEF UIInv, LinkOK, FlushOK, serverVars
  <2>3. \A h \in Gateways \ {g} : FlushOK(h)'
    BY <1>1, <1>3 DEF UIInv, LinkOK, FlushOK, serverVars
  <2> QED
    BY <1>1, <2>1, <2>2, <2>3 DEF UIInv, LinkOK
<1>5. SentOK'
  <2>1. \A x : x = m => Founded(x)'
    BY <1>1, <1>3 DEF Founded, AtHead
  <2>2. frame' \in [Gateways -> Messages \cup {NoMessage}]
    BY <1>1, <1>3 DEF UIInv, SentOK
  <2>3. \A h \in Gateways : \A x : x = frame'[h] /\ x # NoMessage => Founded(x)'
    BY <1>1, <1>2, <2>1 DEF UIInv, SentOK, Lasts
  <2>4. \A h \in Gateways : \A x \in stale'[h] : Founded(x)'
    BY <1>1, <1>2 DEF UIInv, SentOK, Lasts
  <2>5. \A h \in Gateways : (frame[h] # NoMessage => Founded(frame[h]))'
    BY <2>3 DEF Founded, AtHead
  <2> QED
    BY <1>1, <2>2, <2>4, <2>5 DEF UIInv, SentOK
<1> QED
  BY <1>1, <1>2, <1>4, <1>5, LedgerKept, ServerKept DEF UIInv

\* The flush of a gateway ends and its connection is closed.
LEMMA FlushClosed ==
  ASSUME UIInv, Lasts, NEW g \in Gateways, EndFlush(g), CloseLink(g),
         \A h \in Gateways \ {g} : open'[h] = open[h] /\ disk'[h] = disk[h],
         UNCHANGED <<ledger, receipt, serverVars>>, faults' = faults \/ Fault
  PROVE  LinkOK' /\ SentOK' /\ LedgerOK' /\ ServerOK'
<1>1. SentOK'
  BY AbandonKeeps DEF CloseLink
<1>2. link' \in [Gateways -> LinkStates]
  BY DEF CloseLink, UIInv, LinkOK, LinkStates
<1>3. LinkOK'
  BY <1>2, FlushEnds DEF serverVars
<1> QED
  BY <1>1, <1>3, LedgerKept, ServerKept

LEMMA BumpFailsStep ==
  ASSUME UIInv, NEW g \in Gateways, BumpFails(g)
  PROVE  UIInv' /\ Promise
<1>1. /\ CommitFails(g, rows[g]) /\ EndFlush(g) /\ CloseLink(g) /\ Fault
      /\ UNCHANGED <<ledger, receipt, serverVars>>
  BY DEF BumpFails
<1>2. Lasts /\ Promise /\ DiskOK' /\ RowsOK'
  BY <1>1, CommitFailsKeeps DEF serverVars
<1>3. \A h \in Gateways \ {g} : open'[h] = open[h] /\ disk'[h] = disk[h]
  BY <1>1 DEF CommitFails, Rollback, UIInv, RowsOK
<1> QED
  BY <1>1, <1>2, <1>3, FlushClosed DEF UIInv

LEMMA SendRaisesStep ==
  ASSUME UIInv, NEW g \in Gateways, SendRaises(g)
  PROVE  UIInv' /\ Promise
<1>1. /\ Commit(g, rows[g]) /\ EndFlush(g) /\ CloseLink(g)
      /\ UNCHANGED <<ledger, receipt, serverVars, faults>>
  BY DEF SendRaises
<1>2. Lasts /\ Promise /\ DiskOK' /\ RowsOK'
  BY <1>1, RowsGrown, CommitKeeps DEF serverVars
<1>3. \A h \in Gateways \ {g} : open'[h] = open[h] /\ disk'[h] = disk[h]
  BY <1>1 DEF Commit, UIInv, RowsOK, DiskOK
<1> QED
  BY <1>1, <1>2, <1>3, FlushClosed DEF UIInv

LEMMA EndOfQueueStep ==
  ASSUME UIInv, NEW g \in Gateways, EndOfQueue(g)
  PROVE  UIInv' /\ Promise
<1>1. /\ EndFlush(g)
      /\ UNCHANGED <<gatewayVars, link, frame, stale, receipt, serverVars, faults>>
  BY DEF EndOfQueue
<1>2. Lasts /\ Promise /\ DiskOK' /\ RowsOK' /\ LedgerOK'
  BY <1>1, NothingStored DEF serverVars
<1>3. LinkOK'
  BY <1>1, FlushEnds DEF gatewayVars, serverVars, UIInv, LinkOK
<1> QED
  BY <1>1, <1>2, <1>3, FramesKept, ServerKept DEF UIInv

\* A receipt that is believed is one the server has sent.
LEMMA ReceiveReceiptStep ==
  ASSUME UIInv, NEW g \in Gateways, ReceiveReceipt(g)
  PROVE  UIInv' /\ Promise
<1>1. /\ receipt[g] # NoMessage
      /\ acked' = [acked EXCEPT ![g] =
           @ \/ (link[g] \in {"UP", "LOST"} /\ receipt[g] = awaited[g])]
      /\ receipt' = [receipt EXCEPT ![g] = NoMessage]
      /\ UNCHANGED <<gatewayVars, link, flushing, awaited, frame, stale, serverVars, faults>>
  BY DEF ReceiveReceipt
<1>2. Lasts /\ Promise /\ DiskOK' /\ RowsOK' /\ LedgerOK'
  BY <1>1, NothingStored DEF serverVars
<1>3. LinkOK'
  <2>1. /\ acked' \in [Gateways -> BOOLEAN]
        /\ receipt' \in [Gateways -> Messages \cup {NoMessage}]
    BY <1>1 DEF UIInv, LinkOK
  <2>2. FlushOK(g)'
    BY <1>1 DEF UIInv, LinkOK, FlushOK, gatewayVars, serverVars
  <2>3. \A h \in Gateways \ {g} : FlushOK(h)'
    BY <1>1 DEF UIInv, LinkOK, FlushOK, gatewayVars, serverVars
  <2> QED
    BY <1>1, <2>1, <2>2, <2>3 DEF UIInv, LinkOK
<1> QED
  BY <1>1, <1>2, <1>3, FramesKept, ServerKept DEF UIInv

\* What is deleted is the head of the disk, and the server has committed it.
LEMMA AwaitedHead ==
  ASSUME UIInv, NEW g \in Gateways, awaited[g] # NoMessage, acked[g]
  PROVE  /\ disk[g] # <<>> /\ Head(disk[g]) \in base.seen
         /\ rows[g] = disk[g] /\ WithoutAwaited(g) = Tail(disk[g])
<1>1. /\ disk[g] # <<>> /\ awaited[g] = Head(disk[g]) /\ awaited[g] \in base.seen
  BY DEF UIInv, LinkOK, FlushOK
<1>2. rows[g] = disk[g]
  BY SeesDisk
<1>3. disk[g] \in Seq(Messages) /\ IsInjective(disk[g])
  BY DEF UIInv, DiskOK
<1>4. WithoutAwaited(g) = Tail(disk[g])
  BY <1>1, <1>2, <1>3, RemovedHead DEF WithoutAwaited
<1> QED
  BY <1>1, <1>2, <1>4

LEMMA DeleteStep ==
  ASSUME UIInv, NEW g \in Gateways, Delete(g)
  PROVE  UIInv' /\ Promise
<1>1. /\ awaited[g] # NoMessage /\ acked[g] /\ Commit(g, WithoutAwaited(g))
      /\ awaited' = [awaited EXCEPT ![g] = NoMessage]
      /\ acked' = [acked EXCEPT ![g] = FALSE]
      /\ UNCHANGED <<ledger, link, flushing, frame, stale, receipt, serverVars, faults>>
  BY DEF Delete
<1>2. Grown(g, WithoutAwaited(g))
  BY <1>1, AwaitedHead DEF Grown
<1>3. Lasts /\ Promise /\ DiskOK' /\ RowsOK'
  BY <1>1, <1>2, CommitKeeps DEF serverVars
<1>4. \A h \in Gateways \ {g} : open'[h] = open[h] /\ disk'[h] = disk[h]
  BY <1>1 DEF Commit, UIInv, RowsOK, DiskOK
<1>5. LinkOK'
  <2>1. /\ awaited' \in [Gateways -> Messages \cup {NoMessage}]
        /\ acked' \in [Gateways -> BOOLEAN]
    BY <1>1 DEF UIInv, LinkOK
  <2>2. FlushOK(g)'
    BY <1>1 DEF UIInv, LinkOK, FlushOK, serverVars
  <2>3. \A h \in Gateways \ {g} : FlushOK(h)'
    BY <1>1, <1>4 DEF UIInv, LinkOK, FlushOK, serverVars
  <2> QED
    BY <1>1, <2>1, <2>2, <2>3 DEF UIInv, LinkOK
<1> QED
  BY <1>1, <1>3, <1>5, LedgerKept, FramesKept, ServerKept DEF UIInv

LEMMA DeleteFailsStep ==
  ASSUME UIInv, NEW g \in Gateways, DeleteFails(g)
  PROVE  UIInv' /\ Promise
<1>1. /\ awaited[g] # NoMessage /\ acked[g] /\ Fault
      /\ CommitFails(g, rows[g]) \/ CommitFails(g, WithoutAwaited(g))
      /\ EndFlush(g) /\ CloseLink(g)
      /\ UNCHANGED <<ledger, receipt, serverVars>>
  BY DEF DeleteFails
<1>2. Lasts /\ Promise /\ DiskOK' /\ RowsOK'
  BY <1>1, AwaitedHead, CommitFailsKeeps DEF serverVars
<1>3. \A h \in Gateways \ {g} : open'[h] = open[h] /\ disk'[h] = disk[h]
  BY <1>1 DEF CommitFails, Rollback, UIInv, RowsOK
<1> QED
  BY <1>1, <1>2, <1>3, FlushClosed DEF UIInv

LEMMA TimeoutStep ==
  ASSUME UIInv, NEW g \in Gateways, Timeout(g)
  PROVE  UIInv' /\ Promise
<1>1. /\ EndFlush(g) /\ CloseLink(g)
      /\ UNCHANGED <<gatewayVars, receipt, serverVars, faults>>
  BY DEF Timeout
<1>2. Lasts /\ Promise /\ DiskOK' /\ RowsOK'
  BY <1>1, NothingStored DEF serverVars
<1> QED
  BY <1>1, <1>2, FlushClosed DEF UIInv, gatewayVars

-----------------------------------------------------------------------------
(* Connections that end. *)

\* The flush does not notice.
LEMMA Unnoticed ==
  ASSUME UIInv, link' \in [Gateways -> LinkStates],
         UNCHANGED <<gatewayVars, flushing, awaited, acked, receipt, base>>
  PROVE  LinkOK'
BY DEF UIInv, LinkOK, FlushOK, gatewayVars

LEMMA DropWriterStep ==
  ASSUME UIInv, NEW g \in Gateways, DropWriter(g)
  PROVE  UIInv' /\ Promise
<1>1. /\ CloseLink(g)
      /\ UNCHANGED <<gatewayVars, flushing, awaited, acked, receipt, serverVars, faults>>
  BY DEF DropWriter
<1>2. Lasts /\ Promise /\ DiskOK' /\ RowsOK' /\ LedgerOK'
  BY <1>1, NothingStored DEF serverVars
<1>3. LinkOK'
  BY <1>1, Unnoticed DEF CloseLink, UIInv, LinkOK, LinkStates, serverVars
<1> QED
  BY <1>1, <1>2, <1>3, AbandonKeeps, ServerKept DEF UIInv, CloseLink

LEMMA LinkBreaksStep ==
  ASSUME UIInv, NEW g \in Gateways, LinkBreaks(g)
  PROVE  UIInv' /\ Promise
<1>1. /\ link' = [link EXCEPT ![g] = "LOST"]
      /\ \E arrives \in BOOLEAN : Abandon(g, arrives)
      /\ UNCHANGED <<gatewayVars, flushing, awaited, acked, receipt, serverVars, faults>>
  BY DEF LinkBreaks
<1>2. Lasts /\ Promise /\ DiskOK' /\ RowsOK' /\ LedgerOK'
  BY <1>1, NothingStored DEF serverVars
<1>3. LinkOK'
  BY <1>1, Unnoticed DEF UIInv, LinkOK, LinkStates, serverVars
<1> QED
  BY <1>1, <1>2, <1>3, AbandonKeeps, ServerKept DEF UIInv

LEMMA ReaderEndsStep ==
  ASSUME UIInv, NEW g \in Gateways, ReaderEnds(g)
  PROVE  UIInv' /\ Promise
<1>1. /\ link' = [link EXCEPT ![g] = "DOWN"] /\ EndFlush(g)
      /\ receipt' = [receipt EXCEPT ![g] = NoMessage]
      /\ UNCHANGED <<gatewayVars, frame, stale, serverVars, faults>>
  BY DEF ReaderEnds
<1>2. Lasts /\ Promise /\ DiskOK' /\ RowsOK' /\ LedgerOK'
  BY <1>1, NothingStored DEF serverVars
<1>3. LinkOK'
  BY <1>1, FlushEnds DEF gatewayVars, serverVars, UIInv, LinkOK, LinkStates
<1> QED
  BY <1>1, <1>2, <1>3, FramesKept, ServerKept DEF UIInv

LEMMA GatewayCrashStep ==
  ASSUME UIInv, NEW g \in Gateways, GatewayCrash(g)
  PROVE  UIInv' /\ Promise
<1>1. /\ Rollback(g) /\ link' = [link EXCEPT ![g] = "DOWN"] /\ EndFlush(g)
      /\ \E arrives \in BOOLEAN : Abandon(g, arrives)
      /\ receipt' = [receipt EXCEPT ![g] = NoMessage]
      /\ UNCHANGED <<ledger, serverVars, faults>>
  BY DEF GatewayCrash
<1>2. Lasts /\ Promise /\ DiskOK' /\ RowsOK'
  BY <1>1, RollbackKeeps DEF serverVars
<1>3. \A h \in Gateways \ {g} : open'[h] = open[h] /\ disk'[h] = disk[h]
  BY <1>1 DEF Rollback, UIInv, RowsOK
<1>4. link' \in [Gateways -> LinkStates]
  BY <1>1 DEF UIInv, LinkOK, LinkStates
<1>5. LinkOK'
  BY <1>1, <1>3, <1>4, FlushEnds DEF serverVars
<1> QED
  BY <1>1, <1>2, <1>5, AbandonKeeps, LedgerKept, ServerKept DEF UIInv

LEMMA LoseLateStep ==
  ASSUME UIInv, NEW g \in Gateways, NEW m \in Messages, LoseLate(g, m)
  PROVE  UIInv' /\ Promise
<1>1. /\ stale' = [stale EXCEPT ![g] = @ \ {m}]
      /\ UNCHANGED <<gatewayVars, link, flushing, awaited, acked, frame, receipt,
                     serverVars, faults>>
  BY DEF LoseLate
<1>2. Lasts /\ Promise /\ DiskOK' /\ RowsOK' /\ LedgerOK'
  BY <1>1, NothingStored DEF serverVars
<1>3. LinkOK'
  BY <1>1, Unnoticed DEF UIInv, LinkOK, serverVars
<1>4. /\ frame' \in [Gateways -> Messages \cup {NoMessage}]
      /\ stale' \in [Gateways -> SUBSET Messages]
      /\ \A h \in Gateways :
           /\ frame'[h] # NoMessage => Founded(frame'[h])
           /\ \A x \in stale'[h] : Founded(x)
  BY <1>1 DEF UIInv, SentOK
<1>5. SentOK'
  BY <1>2, <1>4, SentKept
<1> QED
  BY <1>1, <1>2, <1>3, <1>5, ServerKept DEF UIInv

-----------------------------------------------------------------------------
(* The server. *)

\* What one transaction makes of consistent tables.
LEMMA StoredTables ==
  ASSUME NEW tables, Consistent(tables), NEW m \in Messages
  PROVE  /\ Consistent(Stored(tables, m))
         /\ Stored(tables, m).seen = tables.seen \cup {m}
<1>1. /\ tables \in Tables /\ tables.seen \subseteq Messages
      /\ tables.history = [x \in Messages |-> IF x \in tables.seen THEN 1 ELSE 0]
  BY DEF Consistent, Tables
<1>2. CASE m \in tables.seen
  BY <1>1, <1>2 DEF Stored, IsNew, Consistent
<1>3. CASE m \notin tables.seen
  <2>1. Stored(tables, m) =
          [seen |-> tables.seen \cup {m}, history |-> Recorded(tables.history, m)]
    BY <1>3 DEF Stored, IsNew
  <2>2. Recorded(tables.history, m) =
          [x \in Messages |-> IF x \in tables.seen \cup {m} THEN 1 ELSE 0]
    BY <1>1, <1>3 DEF Recorded
  <2>3. Stored(tables, m) \in Tables
    BY <1>1, <2>1, <2>2 DEF Tables
  <2> QED
    BY <2>1, <2>2, <2>3 DEF Consistent
<1> QED
  BY <1>2, <1>3

\* A commit of the server: everything new on its disk is the head of an outbox.
LEMMA ServerCommits ==
  ASSUME UIInv, UNCHANGED gatewayVars, Consistent(base)',
         base.seen \subseteq base'.seen,
         \A m \in base'.seen : Founded(m)
  PROVE  Lasts /\ Promise /\ DiskOK' /\ RowsOK' /\ LedgerOK'
<1>1. Lasts /\ DiskOK' /\ RowsOK'
  BY GatewayKept DEF gatewayVars
<1>2. LedgerOK'
  BY <1>1, LedgerKept DEF gatewayVars
<1>3. /\ base.seen \subseteq Messages /\ base'.seen \subseteq Messages
      /\ base.history = [m \in Messages |-> IF m \in base.seen THEN 1 ELSE 0]
      /\ base'.history = [m \in Messages |-> IF m \in base'.seen THEN 1 ELSE 0]
  BY DEF UIInv, ServerOK, Consistent, Tables
<1>4. ASSUME NEW m \in Messages, m \notin base.seen, m \in base'.seen
      PROVE  \E g \in Gateways : m \in ToSet(disk[g]) /\ ~Overtakes(g, m)
  <2>1. PICK g \in Gateways : disk[g] # <<>> /\ Head(disk[g]) = m
    BY <1>4 DEF Founded, AtHead
  <2>2. disk[g] \in Seq(Messages) /\ IsInjective(disk[g])
    BY DEF UIInv, DiskOK
  <2>3. DOMAIN disk[g] = 1..Len(disk[g]) /\ 1 \in DOMAIN disk[g] /\ disk[g][1] = m
    BY <2>1, <2>2
  <2>4. m \in ToSet(disk[g])
    BY <2>3 DEF ToSet
  <2>5. ~Overtakes(g, m)
    BY <2>2, <2>3 DEF Overtakes, IsInjective
  <2> QED
    BY <2>4, <2>5
<1>5. FifoStep
  BY <1>3, <1>4 DEF FifoStep
<1>6. ServerCustody!Store("SERVER") \/ UNCHANGED ServerCustody!custodyVars
  <2> DEFINE stored == [s \in {"SERVER"} |-> base.history]
  <2>1. stored' = [s \in {"SERVER"} |-> base'.history]
    OBVIOUS
  <2>2. base'.history \in [Messages -> 0..1]
    BY <1>3
  <2>3. stored' \in [{"SERVER"} -> [Messages -> 0..1]]
    BY <2>1, <2>2
  <2>4. \A m \in Messages : stored'["SERVER"][m] # stored["SERVER"][m] =>
          stored["SERVER"][m] = 0 /\ \E g \in Gateways : m \in ToSet(disk[g])
    BY <1>3, <1>4, <2>1
  <2>5. [g \in Gateways |-> ToSet(disk[g])]' = [g \in Gateways |-> ToSet(disk[g])]
    BY DEF gatewayVars, ToSet
  <2> QED
    BY <2>3, <2>4, <2>5 DEF ServerCustody!Store
<1>7. [ServerCustody!Next]_(ServerCustody!custodyVars)
  BY <1>6 DEF ServerCustody!Next
<1> QED
  BY <1>1, <1>2, <1>5, <1>7 DEF Promise

LEMMA ServerTables ==
  ASSUME UIInv, Lasts, Consistent(view)', Consistent(base)',
         base'.seen \subseteq view'.seen, \A m \in view'.seen : Founded(m),
         faults' = faults \/ Fault
  PROVE  ServerOK'
<1>1. view'.seen \subseteq Messages
  BY DEF Consistent, Tables
<1>2. \A m \in view'.seen : Founded(m)'
  BY <1>1 DEF Lasts
<1>3. faults' \in 0..MaxFaults
  BY UploadAssumption DEF UIInv, ServerOK, Fault
<1> QED
  BY <1>2, <1>3 DEF ServerOK

LEMMA StoreKeeps ==
  ASSUME UIInv, NEW m \in Messages, Founded(m), NEW done \in BOOLEAN, Store(m, done),
         UNCHANGED gatewayVars
  PROVE  /\ Lasts /\ Promise /\ DiskOK' /\ RowsOK' /\ LedgerOK' /\ ServerOK'
         /\ base.seen \subseteq base'.seen /\ (done => m \in base'.seen)
<1>1. /\ Consistent(view) /\ Consistent(base) /\ base.seen \subseteq view.seen
      /\ \A x \in view.seen : Founded(x)
  BY DEF UIInv, ServerOK
<1>2. Consistent(Stored(view, m)) /\ Stored(view, m).seen = view.seen \cup {m}
  BY <1>1, StoredTables
<1>3. CASE ~done /\ UNCHANGED <<serverVars, faults>>
  <2>1. Lasts /\ Promise /\ DiskOK' /\ RowsOK' /\ LedgerOK'
    BY <1>3, NothingStored DEF serverVars
  <2> QED
    BY <1>3, <2>1, ServerKept DEF serverVars
<1>4. CASE view' = Stored(view, m) /\ base' = view' /\ UNCHANGED faults
  <2>1. Consistent(view)' /\ Consistent(base)'
    BY <1>2, <1>4 DEF Consistent
  <2>2. base'.seen = view.seen \cup {m} /\ view'.seen = view.seen \cup {m}
    BY <1>2, <1>4
  <2>3. \A x \in view'.seen : Founded(x)
    BY <1>1, <2>2
  <2>4. Lasts /\ Promise /\ DiskOK' /\ RowsOK' /\ LedgerOK'
    BY <1>1, <2>1, <2>2, <2>3, ServerCommits
  <2>5. ServerOK'
    BY <1>4, <2>1, <2>2, <2>3, <2>4, ServerTables
  <2> QED
    BY <1>1, <2>2, <2>4, <2>5
<1>5. CASE /\ ~done /\ Fault /\ UNCHANGED base
           /\ view' = base \/ view' = Stored(view, m)
  <2>1. Lasts /\ Promise /\ DiskOK' /\ RowsOK' /\ LedgerOK'
    BY <1>5, NothingStored
  <2>2. Consistent(view)' /\ Consistent(base)'
    BY <1>1, <1>2, <1>5 DEF Consistent
  <2>3. base'.seen \subseteq view'.seen /\ \A x \in view'.seen : Founded(x)
    BY <1>1, <1>2, <1>5
  <2>4. ServerOK'
    BY <1>5, <2>1, <2>2, <2>3, ServerTables
  <2> QED
    BY <1>5, <2>1, <2>4
<1> QED
  BY <1>3, <1>4, <1>5 DEF Store

LEMMA ArriveStep ==
  ASSUME UIInv, NEW g \in Gateways, Arrive(g)
  PROVE  UIInv' /\ Promise
<1>1. /\ frame[g] # NoMessage /\ frame' = [frame EXCEPT ![g] = NoMessage]
      /\ UNCHANGED <<gatewayVars, link, flushing, awaited, acked, stale>>
  BY DEF Arrive
<1>2. PICK done \in BOOLEAN :
        /\ Store(frame[g], done)
        /\ receipt' = [receipt EXCEPT ![g] = IF done THEN frame[g] ELSE @]
  BY DEF Arrive
<1>3. frame[g] \in Messages /\ Founded(frame[g])
  BY <1>1 DEF UIInv, SentOK
<1>4. /\ Lasts /\ Promise /\ DiskOK' /\ RowsOK' /\ LedgerOK' /\ ServerOK'
      /\ base.seen \subseteq base'.seen /\ (done => frame[g] \in base'.seen)
  BY <1>1, <1>2, <1>3, StoreKeeps
<1>5. LinkOK'
  <2>1. receipt' \in [Gateways -> Messages \cup {NoMessage}]
    BY <1>2, <1>3 DEF UIInv, LinkOK
  <2>2. \A h \in Gateways : receipt'[h] = receipt[h] \/ receipt'[h] \in base'.seen
    BY <1>2, <1>4 DEF UIInv, LinkOK
  <2>3. \A h \in Gateways : awaited[h] # NoMessage =>
          ~open'[h] /\ disk'[h] # <<>> /\ Head(disk'[h]) = Head(disk[h])
    BY <1>1 DEF UIInv, LinkOK, FlushOK, gatewayVars
  <2> QED
    BY <1>1, <1>4, <2>1, <2>2, <2>3, FlushLasts DEF UIInv, LinkOK
<1>6. SentOK'
  <2>1. /\ frame' \in [Gateways -> Messages \cup {NoMessage}]
        /\ stale' \in [Gateways -> SUBSET Messages]
        /\ \A h \in Gateways :
             /\ frame'[h] # NoMessage => Founded(frame'[h])
             /\ \A x \in stale'[h] : Founded(x)
    BY <1>1 DEF UIInv, SentOK
  <2> QED
    BY <1>4, <2>1, SentKept
<1> QED
  BY <1>4, <1>5, <1>6 DEF UIInv

\* The server's transactions change nothing of the flush.
LEMMA FlushUntouched ==
  ASSUME UIInv, base.seen \subseteq base'.seen, link' \in [Gateways -> LinkStates],
         UNCHANGED <<gatewayVars, flushing, awaited, acked, receipt>>
  PROVE  LinkOK'
BY DEF UIInv, LinkOK, FlushOK, gatewayVars

LEMMA ArriveLateStep ==
  ASSUME UIInv, NEW g \in Gateways, NEW m \in Messages, ArriveLate(g, m)
  PROVE  UIInv' /\ Promise
<1>1. /\ m \in stale[g] /\ stale' = [stale EXCEPT ![g] = @ \ {m}]
      /\ UNCHANGED <<gatewayVars, link, flushing, awaited, acked, frame, receipt>>
  BY DEF ArriveLate
<1>2. PICK done \in BOOLEAN : Store(m, done)
  BY DEF ArriveLate
<1>3. Founded(m)
  BY <1>1 DEF UIInv, SentOK
<1>4. /\ Lasts /\ Promise /\ DiskOK' /\ RowsOK' /\ LedgerOK' /\ ServerOK'
      /\ base.seen \subseteq base'.seen
  BY <1>1, <1>2, <1>3, StoreKeeps
<1>5. LinkOK'
  BY <1>1, <1>4, FlushUntouched DEF UIInv, LinkOK
<1>6. SentOK'
  <2>1. /\ frame' \in [Gateways -> Messages \cup {NoMessage}]
        /\ stale' \in [Gateways -> SUBSET Messages]
        /\ \A h \in Gateways :
             /\ frame'[h] # NoMessage => Founded(frame'[h])
             /\ \A x \in stale'[h] : Founded(x)
    BY <1>1 DEF UIInv, SentOK
  <2> QED
    BY <1>4, <2>1, SentKept
<1> QED
  BY <1>4, <1>5, <1>6 DEF UIInv

LEMMA EndsTransactionStep ==
  ASSUME UIInv, EndsTransaction
  PROVE  UIInv' /\ Promise
<1>1. /\ \/ base' = view /\ view' = view
         \/ view' = base /\ base' = base
      /\ UNCHANGED <<gatewayVars, linkVars, faults>>
  BY DEF EndsTransaction
<1>2. /\ Consistent(view) /\ Consistent(base) /\ base.seen \subseteq view.seen
      /\ \A x \in view.seen : Founded(x)
  BY DEF UIInv, ServerOK
<1>3. Consistent(view)' /\ Consistent(base)'
  BY <1>1, <1>2 DEF Consistent
<1>4. /\ base.seen \subseteq base'.seen /\ base'.seen \subseteq view'.seen
      /\ \A x \in view'.seen : Founded(x)
  BY <1>1, <1>2
<1>5. Lasts /\ Promise /\ DiskOK' /\ RowsOK' /\ LedgerOK'
  BY <1>1, <1>3, <1>4, ServerCommits
<1>6. ServerOK'
  BY <1>1, <1>3, <1>4, <1>5, ServerTables
<1>7. LinkOK'
  BY <1>1, <1>4, FlushUntouched DEF UIInv, LinkOK, linkVars
<1> QED
  BY <1>1, <1>5, <1>6, <1>7, FramesKept DEF UIInv, linkVars

LEMMA ServerCrashStep ==
  ASSUME UIInv, ServerCrash
  PROVE  UIInv' /\ Promise
<1>1. /\ view' = base
      /\ link' = [g \in Gateways |-> IF link[g] = "UP" THEN "LOST" ELSE link[g]]
      /\ frame' = [g \in Gateways |-> NoMessage] /\ stale' = [g \in Gateways |-> {}]
      /\ UNCHANGED <<gatewayVars, flushing, awaited, acked, receipt, base, faults>>
  BY DEF ServerCrash
<1>2. Lasts /\ Promise /\ DiskOK' /\ RowsOK' /\ LedgerOK'
  BY <1>1, NothingStored
<1>3. LinkOK'
  BY <1>1, FlushUntouched DEF UIInv, LinkOK, LinkStates
<1>4. SentOK'
  BY <1>1, <1>2, SentKept
<1>5. ServerOK'
  <2>1. Consistent(view)' /\ Consistent(base)'
    BY <1>1 DEF UIInv, ServerOK, Consistent
  <2>2. base'.seen \subseteq view'.seen /\ \A x \in view'.seen : Founded(x)
    BY <1>1 DEF UIInv, ServerOK
  <2> QED
    BY <1>1, <1>2, <2>1, <2>2, ServerTables
<1> QED
  BY <1>2, <1>3, <1>4, <1>5 DEF UIInv

-----------------------------------------------------------------------------
(* The invariant. *)

LEMMA UIInvInit == UploadInit => UIInv /\ ServerCustody!Init
<1> SUFFICES ASSUME UploadInit PROVE UIInv /\ ServerCustody!Init
  OBVIOUS
<1>1. /\ Capacity \in Nat /\ Reserve \in Nat /\ Reserve < Capacity /\ MaxFaults \in Nat
  BY UploadAssumption
<1>2. DOMAIN <<>> = {} /\ <<>> \in Seq(Messages) /\ Len(<<>>) = 0
  OBVIOUS
<1>3. IsInjective(<<>>) /\ Bounded(<<>>)
  <2>1. Normal(<<>>) = {}
    BY <1>2 DEF Normal
  <2> QED
    BY <1>1, <1>2, <2>1, FS_EmptySet DEF Bounded, IsInjective
<1>4. DiskOK /\ RowsOK
  BY <1>2, <1>3 DEF UploadInit, DiskOK, RowsOK
<1>5. LedgerOK
  BY DEF UploadInit, LedgerOK
<1>6. LinkOK
  BY DEF UploadInit, LinkOK, FlushOK, LinkStates
<1>7. SentOK
  BY DEF UploadInit, SentOK
<1>8. ServerOK
  BY <1>1 DEF UploadInit, ServerOK, Consistent, Tables
<1>9. ServerCustody!Init
  <2>1. ToSet(<<>>) = {}
    BY <1>2 DEF ToSet
  <2> QED
    BY <2>1 DEF UploadInit, ServerCustody!Init
<1> QED
  BY <1>4, <1>5, <1>6, <1>7, <1>8, <1>9 DEF UIInv

\* Every step keeps the invariant and its promise.
LEMMA UIInvStep == UIInv /\ [UploadNext]_uploadVars => UIInv' /\ Promise
<1> SUFFICES ASSUME UIInv, [UploadNext]_uploadVars PROVE UIInv' /\ Promise
  OBVIOUS
<1>1. ASSUME NEW g \in Gateways, NEW m \in Messages,
             Admit(g, m) \/ Enqueue(g, m) \/ ArriveLate(g, m) \/ LoseLate(g, m)
      PROVE  UIInv' /\ Promise
  BY <1>1, AdmitStep, EnqueueStep, ArriveLateStep, LoseLateStep
<1>2. ASSUME NEW g \in Gateways,
             RollsBack(g) \/ Audit(g) \/ Connect(g) \/ Send(g) \/ BumpFails(g)
             \/ SendRaises(g) \/ EndOfQueue(g)
      PROVE  UIInv' /\ Promise
  BY <1>2, RollsBackStep, AuditStep, ConnectStep, SendStep, BumpFailsStep,
     SendRaisesStep, EndOfQueueStep
<1>3. ASSUME NEW g \in Gateways,
             ReceiveReceipt(g) \/ Delete(g) \/ DeleteFails(g) \/ Timeout(g)
             \/ DropWriter(g) \/ LinkBreaks(g) \/ ReaderEnds(g) \/ GatewayCrash(g)
             \/ Arrive(g)
      PROVE  UIInv' /\ Promise
  BY <1>3, ReceiveReceiptStep, DeleteStep, DeleteFailsStep, TimeoutStep,
     DropWriterStep, LinkBreaksStep, ReaderEndsStep, GatewayCrashStep, ArriveStep
<1>4. CASE UNCHANGED uploadVars
  <2>1. UNCHANGED <<gatewayVars, linkVars, serverVars, faults>>
    BY <1>4 DEF uploadVars
  <2>2. Lasts /\ Promise /\ DiskOK' /\ RowsOK' /\ LedgerOK'
    BY <2>1, NothingStored DEF serverVars
  <2>3. LinkOK'
    BY <2>1, Unnoticed DEF linkVars, serverVars, UIInv, LinkOK
  <2> QED
    BY <2>1, <2>2, <2>3, FramesKept, ServerKept DEF linkVars, UIInv
<1> QED
  BY <1>1, <1>2, <1>3, <1>4, EndsTransactionStep, ServerCrashStep DEF UploadNext

\* The invariant holds for ever.
LEMMA UIInvAlways == UploadSpec => []UIInv
BY UIInvInit, UIInvStep, PTL DEF UploadSpec

-----------------------------------------------------------------------------
(* The theorems. *)

\* Every variable of outboxes, connections and server keeps its type, and a
\* receipt is believed only while its flush awaits it (_flush_offline_queue).
THEOREM UploadTypeCorrect == UploadSpec => []UploadTypeOK
<1>1. UIInv => UploadTypeOK
  BY DEF UIInv, DiskOK, RowsOK, LedgerOK, LinkOK, FlushOK, SentOK, ServerOK,
         Consistent, UploadTypeOK
<1> QED
  BY <1>1, UIInvAlways, PTL

\* What a gateway has acknowledged to a sensor or controller (admit_sensor,
\* admit_result) is in its outbox or in the history of the server.
THEOREM AcknowledgedStaysKept == UploadSpec => []AcknowledgedIsKept
<1>1. UIInv => AcknowledgedIsKept
  <2> SUFFICES ASSUME UIInv, NEW g \in Gateways, NEW m \in ledger[g]
               PROVE  m \in ToSet(disk[g]) \/ base.history[m] = 1
    BY DEF AcknowledgedIsKept
  <2> QED
    BY DEF UIInv, LedgerOK, Kept, ServerOK, Consistent, Tables
<1> QED
  BY <1>1, UIInvAlways, PTL

\* The outbox stays within its limit and NORMAL rows out of the reserve of
\* HIGH ones (_check_capacity), whatever commits fail.
THEOREM ReserveStaysKept == UploadSpec => []ReserveIsKept
<1>1. UIInv => ReserveIsKept
  <2> SUFFICES ASSUME UIInv, NEW g \in Gateways, NEW queue \in {rows[g], disk[g]}
               PROVE  Bounded(queue)
    BY DEF ReserveIsKept, Bounded, Normal
  <2>1. disk[g] \in Seq(Messages) /\ IsInjective(disk[g]) /\ Bounded(disk[g])
    BY DEF UIInv, DiskOK
  <2>2. rows[g] = disk[g] \/ (disk[g] # <<>> /\ rows[g] = Tail(disk[g]))
    BY DEF UIInv, RowsOK, DeletedOpen
  <2> QED
    BY <2>1, <2>2, TailQueue
<1> QED
  BY <1>1, UIInvAlways, PTL

\* Outboxes and server implement Custody: nothing committed at a gateway is
\* released before the server has it, and the history has it once.
THEOREM UploadImplementsCustody == UploadSpec => ImplementsCustody
<1>1. UIInv /\ [UploadNext]_uploadVars => [ServerCustody!Next]_(ServerCustody!custodyVars)
  BY UIInvStep DEF Promise
<1>2. UploadInit => ServerCustody!Init
  BY UIInvInit
<1> QED
  BY <1>1, <1>2, UIInvAlways, PTL DEF UploadSpec, ImplementsCustody, ServerCustody!Spec

\* The server commits the messages of an outbox in the order of its rows (peek).
THEOREM ReplayStaysFifo == UploadSpec => ReplayIsFifo
<1>1. UIInv /\ [UploadNext]_uploadVars => FifoStep
  BY UIInvStep DEF Promise
<1>2. FifoStep =>
        [\A m \in Messages :
           base.history[m] = 0 /\ base'.history[m] = 1 =>
             \E g \in Gateways : m \in ToSet(disk[g]) /\ ~Overtakes(g, m)]_uploadVars
  BY DEF FifoStep
<1> QED
  BY <1>1, <1>2, UIInvAlways, PTL DEF UploadSpec, ReplayIsFifo

-----------------------------------------------------------------------------
(* What one state decides for the whole future. *)

\* A step of Custody takes nothing out of the history, and out of an outbox only
\* what the history has.
LEMMA CustodyKeeps ==
  ASSUME UIInv, UIInv', Promise, NEW m \in Messages
  PROVE  /\ base.history[m] = 1 => base'.history[m] = 1
         /\ \A g \in Gateways :
              m \in ToSet(disk[g]) => m \in ToSet(disk'[g]) \/ base'.history[m] = 1
<1> DEFINE held == [h \in Gateways |-> ToSet(disk[h])]
           stored == [s \in {"SERVER"} |-> base.history]
<1>1. /\ \A g \in Gateways : held[g] = ToSet(disk[g]) /\ held'[g] = ToSet(disk'[g])
      /\ stored["SERVER"] = base.history /\ stored'["SERVER"] = base'.history
      /\ base.history[m] \in {0, 1}
  BY DEF UIInv, ServerOK, Consistent
<1>2. CASE UNCHANGED ServerCustody!custodyVars
  <2>1. held' = held /\ stored' = stored
    BY <1>2 DEF ServerCustody!custodyVars
  <2> QED
    BY <1>1, <2>1
<1>3. ASSUME NEW h \in Gateways, NEW x \in Messages, ServerCustody!Accept(h, x)
      PROVE  (\A g \in Gateways : held[g] \subseteq held'[g]) /\ stored' = stored
  BY <1>3 DEF ServerCustody!Accept
<1>4. ASSUME NEW h \in Gateways, NEW x \in Messages, ServerCustody!Release(h, x)
      PROVE  /\ stored' = stored
             /\ \A g \in Gateways : m \in held[g] => m \in held'[g] \/ stored["SERVER"][m] > 0
  BY <1>4 DEF ServerCustody!Release, ServerCustody!Safe
<1>5. ASSUME NEW s \in {"SERVER"}, ServerCustody!Store(s)
      PROVE  /\ held' = held
             /\ stored["SERVER"][m] = 1 => stored'["SERVER"][m] = 1
  <2>1. stored'["SERVER"][m] # stored["SERVER"][m] => stored["SERVER"][m] = 0
    BY <1>5 DEF ServerCustody!Store
  <2>2. held' = held
    BY <1>5 DEF ServerCustody!Store
  <2> QED
    BY <2>1, <2>2
<1> HIDE DEF held, stored
<1> QED
  BY <1>1, <1>2, <1>3, <1>4, <1>5 DEF Promise, ServerCustody!Next

\* A row that a gateway has committed is never lost, and never recorded twice:
\* at all times it is in that outbox on disk or once in the history, through
\* failing commits, crashes on both sides and receipts of closed connections
\* (offline_queue.py enqueue, delete; database.py _store).
THEOREM CommittedRowsAreNeverLost ==
  ASSUME NEW g \in Gateways, NEW m \in Messages
  PROVE  UploadSpec => [](m \in ToSet(disk[g]) \/ base.history[m] = 1
                            => [](m \in ToSet(disk[g]) \/ base.history[m] = 1))
<1> DEFINE Here == m \in ToSet(disk[g]) \/ base.history[m] = 1
<1>1. UIInv /\ Here /\ [UploadNext]_uploadVars => Here'
  BY UIInvStep, CustodyKeeps
<1> HIDE DEF Here
<1>2. UploadSpec => [](Here => []Here)
  BY <1>1, UIInvAlways, PTL DEF UploadSpec
<1> QED
  BY <1>2 DEF Here

\* The history neither forgets a message nor records a late copy of it, however
\* often and by whomever it is sent again (Deduplicator.is_new).
THEOREM HistoryIsFinal ==
  ASSUME NEW m \in Messages
  PROVE  UploadSpec => [](base.history[m] # 0 => [](base.history[m] = 1))
<1> DEFINE Once == base.history[m] = 1
           Entered == base.history[m] # 0
<1>1. UIInv /\ Entered => Once
  BY DEF UIInv, ServerOK, Consistent
<1>2. UIInv /\ Once /\ [UploadNext]_uploadVars => Once'
  BY UIInvStep, CustodyKeeps
<1> HIDE DEF Once, Entered
<1>3. UploadSpec => [](Entered => []Once)
  BY <1>1, <1>2, UIInvAlways, PTL DEF UploadSpec
<1> QED
  BY <1>3 DEF Entered, Once
=============================================================================
