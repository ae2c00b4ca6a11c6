------------------------------- MODULE Upload -------------------------------
(***************************************************************************)
(* The way of a message from a gateway to the history of the server: the   *)
(* outbox of each gateway, its flush over a connection that breaks, and    *)
(* the server's transaction of dedup table and history.                    *)
(*                                                                         *)
(* Sources: gateway/offline_queue.py, the upload tasks of                  *)
(* gateway/gateway.py, server/server.py, server/dedup.py and the           *)
(* transactions of server/database.py.                                     *)
(*                                                                         *)
(* Both SQLite connections may be left inside a transaction: a statement   *)
(* outside "with" opens one, and a commit that fails may leave it open.    *)
(* What a connection sees then differs from what a crash would leave.      *)
(***************************************************************************)
EXTENDS Naturals, Sequences, FiniteSets, SequencesExt

CONSTANTS
  Gateways,
  Messages,     \* message_ids
  Offered,      \* Offered[g]: the messages that reach gateway g
  Reports,      \* reliable sensor reports: admit_sensor
  Results,      \* reliable control results: admit_result
  High,         \* admission_priority
  Invalid,      \* messages validate_server_upload refuses
  Capacity,     \* max_messages
  Reserve,      \* reserved_messages
  MaxReceipts,  \* max_sensor_receipts, max_result_receipts
  MaxFaults,    \* bound: statements and commits that fail, sends that raise
  NoMessage     \* not a message

Receipted == Reports \cup Results

\* A receipted message is validated before it is admitted.
ASSUME UploadAssumption ==
  /\ Offered \in [Gateways -> SUBSET Messages]
  /\ Reports \subseteq Messages /\ Results \subseteq Messages
  /\ Reports \cap Results = {}
  /\ High \subseteq Messages
  /\ Invalid \subseteq Messages \ Receipted
  /\ Capacity \in Nat \ {0} /\ Reserve \in 0..(Capacity - 1)
  /\ MaxReceipts \in Nat /\ MaxFaults \in Nat
  /\ NoMessage \notin Messages

VARIABLES
  rows,      \* rows[g]: gateway_queue as the connection of g sees it
  disk,      \* disk[g]: gateway_queue as a crash would leave it
  open,      \* open[g]: the connection of g is inside a transaction
  ledger,    \* ledger[g]: sensor_receipts and result_receipts
  link,      \* link[g]: the connection to the server
  flushing,  \* flushing[g]: _cloud_flush runs
  awaited,   \* awaited[g]: the row whose receipt the flush awaits
  acked,     \* acked[g]: the future of that receipt is set
  frame,     \* frame[g]: the upload in flight on the connection of g
  stale,     \* stale[g]: uploads in flight on closed connections of g
  receipt,   \* receipt[g]: PERSISTED_ACK in flight to g
  view,      \* the server's tables as its connection sees them
  base,      \* the server's tables as a crash would leave them
  faults

gatewayVars == <<rows, disk, open, ledger>>
linkVars == <<link, flushing, awaited, acked, frame, stale, receipt>>
serverVars == <<view, base>>
uploadVars == <<gatewayVars, linkVars, serverVars, faults>>

\* UP: server_writer is set.  LOST: it is set, the peer is gone.  CLOSED: it
\* is None, task_server_policy still reads.  DOWN: between two connections.
LinkStates == {"UP", "LOST", "CLOSED", "DOWN"}

\* processed_message and the history tables.
Tables == [seen : SUBSET Messages, history : [Messages -> Nat]]

Fault == faults < MaxFaults /\ faults' = faults + 1

UploadInit ==
  /\ rows = [g \in Gateways |-> <<>>]
  /\ disk = [g \in Gateways |-> <<>>]
  /\ open = [g \in Gateways |-> FALSE]
  /\ ledger = [g \in Gateways |-> {}]
  /\ link = [g \in Gateways |-> "DOWN"]
  /\ flushing = [g \in Gateways |-> FALSE]
  /\ awaited = [g \in Gateways |-> NoMessage]
  /\ acked = [g \in Gateways |-> FALSE]
  /\ frame = [g \in Gateways |-> NoMessage]
  /\ stale = [g \in Gateways |-> {}]
  /\ receipt = [g \in Gateways |-> NoMessage]
  /\ view = [seen |-> {}, history |-> [m \in Messages |-> 0]]
  /\ base = [seen |-> {}, history |-> [m \in Messages |-> 0]]
  /\ faults = 0

-----------------------------------------------------------------------------
(* The outbox. *)

\* A transaction of g commits with the given rows.
Commit(g, queue) ==
  /\ rows' = [rows EXCEPT ![g] = queue]
  /\ disk' = [disk EXCEPT ![g] = queue]
  /\ open' = [open EXCEPT ![g] = FALSE]

Rollback(g) ==
  /\ rows' = [rows EXCEPT ![g] = disk[g]]
  /\ open' = [open EXCEPT ![g] = FALSE]
  /\ UNCHANGED disk

\* A statement outside "with" changes the rows and its commit fails: SQLite
\* rolls back or stays in the transaction.
CommitFails(g, queue) ==
  \/ Rollback(g)
  \/ /\ rows' = [rows EXCEPT ![g] = queue]
     /\ open' = [open EXCEPT ![g] = TRUE]
     /\ UNCHANGED disk

Limit(m) == IF m \in High THEN Capacity ELSE Capacity - Reserve

\* Mutant of HasRoom: off by one.
HasRoomForLast(g, m) == Len(rows[g]) <= Limit(m)

HasRoom(g, m) == Len(rows[g]) < Limit(m)

\* _enqueue: one outstanding row per message_id.
Enqueued(g, m) == IF m \in ToSet(rows[g]) THEN rows[g] ELSE Append(rows[g], m)

\* receipts of the ledger m belongs to
LedgerOf(g, m) == ledger[g] \cap (IF m \in Reports THEN Reports ELSE Results)

\* Mutant of RequestFlush: only a new connection starts a flush.
NoFlushRequested(g) == UNCHANGED flushing

\* _request_flush.
RequestFlush(g) ==
  flushing' = [flushing EXCEPT ![g] = @ \/ link[g] \in {"UP", "LOST"}]

\* admit_sensor, admit_result: row and receipt in one transaction.  The sender
\* repeats a report until it is told so, and a repetition asks for a flush too.
Admit(g, m) ==
  /\ m \in Offered[g] \cap Receipted
  /\ ~open[g]
  /\ \/ m \in ledger[g] /\ UNCHANGED gatewayVars
     \/ /\ m \notin ledger[g]
        /\ Cardinality(LedgerOf(g, m)) < MaxReceipts
        /\ m \in Reports => m \notin ToSet(rows[g])
        /\ m \in ToSet(rows[g]) \/ HasRoom(g, m)
        /\ Commit(g, Enqueued(g, m))
        /\ ledger' = [ledger EXCEPT ![g] = @ \cup {m}]
  /\ RequestFlush(g)
  /\ UNCHANGED <<link, awaited, acked, frame, stale, receipt, serverVars, faults>>

\* enqueue: alerts, command history and results without a contract.
Enqueue(g, m) ==
  /\ m \in Offered[g] \ Receipted
  /\ ~open[g]
  /\ m \in ToSet(rows[g]) \/ HasRoom(g, m)
  /\ Commit(g, Enqueued(g, m))
  /\ RequestFlush(g)
  /\ UNCHANGED <<ledger, link, awaited, acked, frame, stale, receipt, serverVars, faults>>

\* A statement that fails in "with" rolls back what was left open; so does
\* BEGIN IMMEDIATE, which raises inside a transaction.
RollsBack(g) ==
  /\ open[g]
  /\ Rollback(g)
  /\ UNCHANGED <<ledger, linkVars, serverVars, faults>>

\* audit_sensor_control, audit_command_outcome: an UPDATE in "with" commits
\* what was left open.
Audit(g) ==
  /\ open[g]
  /\ Commit(g, rows[g])
  /\ UNCHANGED <<ledger, linkVars, serverVars, faults>>

-----------------------------------------------------------------------------
(* The connection and the flush. *)

\* What is in flight may still reach the server.
Abandon(g, arrives) ==
  /\ stale' = [stale EXCEPT ![g] =
       IF arrives /\ frame[g] # NoMessage THEN @ \cup {frame[g]} ELSE @]
  /\ frame' = [frame EXCEPT ![g] = NoMessage]

\* Mutant of EndFlush: the future of the receipt survives.
EndFlushKeepsFuture(g) ==
  /\ flushing' = [flushing EXCEPT ![g] = FALSE]
  /\ awaited' = [awaited EXCEPT ![g] = NoMessage]
  /\ UNCHANGED acked

EndFlush(g) ==
  /\ flushing' = [flushing EXCEPT ![g] = FALSE]
  /\ awaited' = [awaited EXCEPT ![g] = NoMessage]
  /\ acked' = [acked EXCEPT ![g] = FALSE]

\* server_writer = None and writer.close(), unless that happened before.
CloseLink(g) ==
  /\ link' = [link EXCEPT ![g] = "CLOSED"]
  /\ \E arrives \in BOOLEAN : Abandon(g, arrives)

\* task_server_policy.
Connect(g) ==
  /\ link[g] = "DOWN"
  /\ link' = [link EXCEPT ![g] = "UP"]
  /\ flushing' = [flushing EXCEPT ![g] = TRUE]
  /\ UNCHANGED <<gatewayVars, awaited, acked, frame, stale, receipt, serverVars, faults>>

\* Mutant of Peeked: HIGH rows first.
PeekedByPriority(g) ==
  IF ToSet(rows[g]) \cap High # {}
  THEN CHOOSE m \in ToSet(rows[g]) \cap High : TRUE
  ELSE Head(rows[g])

\* peek: ORDER BY queue_id.
Peeked(g) == Head(rows[g])

\* DELETE ... WHERE queue_id: the row that was peeked.
WithoutAwaited(g) ==
  RemoveAt(rows[g], CHOOSE i \in DOMAIN rows[g] : rows[g][i] = awaited[g])

\* _flush_offline_queue: the oldest row is counted, sent and awaited.
Send(g) ==
  /\ flushing[g] /\ awaited[g] = NoMessage /\ rows[g] # <<>>
  /\ Commit(g, rows[g])
  /\ awaited' = [awaited EXCEPT ![g] = Peeked(g)]
  /\ frame' = [frame EXCEPT ![g] = IF link[g] = "UP" THEN Peeked(g) ELSE @]
  /\ UNCHANGED <<ledger, link, flushing, acked, stale, receipt, serverVars, faults>>

\* bump_retry fails: _flush_finished.
BumpFails(g) ==
  /\ flushing[g] /\ awaited[g] = NoMessage /\ rows[g] # <<>>
  /\ Fault
  /\ CommitFails(g, rows[g])
  /\ EndFlush(g) /\ CloseLink(g)
  /\ UNCHANGED <<ledger, receipt, serverVars>>

\* send_message raises after bump_retry.
SendRaises(g) ==
  /\ flushing[g] /\ awaited[g] = NoMessage /\ rows[g] # <<>>
  /\ link[g] # "UP"
  /\ Commit(g, rows[g])
  /\ EndFlush(g) /\ CloseLink(g)
  /\ UNCHANGED <<ledger, receipt, serverVars, faults>>

\* The queue is empty, or server_writer is another one after a batch.
EndOfQueue(g) ==
  /\ flushing[g] /\ awaited[g] = NoMessage
  /\ rows[g] = <<>> \/ link[g] = "CLOSED"
  /\ EndFlush(g)
  /\ UNCHANGED <<gatewayVars, link, frame, stale, receipt, serverVars, faults>>

\* _handle_persisted_ack: only on the connection the flush awaits it on.
ReceiveReceipt(g) ==
  /\ receipt[g] # NoMessage
  /\ acked' = [acked EXCEPT ![g] =
       @ \/ (link[g] \in {"UP", "LOST"} /\ receipt[g] = awaited[g])]
  /\ receipt' = [receipt EXCEPT ![g] = NoMessage]
  /\ UNCHANGED <<gatewayVars, link, flushing, awaited, frame, stale, serverVars, faults>>

\* Mutant of Delete: a row that was sent is deleted.
DeleteSent(g) ==
  /\ awaited[g] # NoMessage
  /\ Commit(g, WithoutAwaited(g))
  /\ awaited' = [awaited EXCEPT ![g] = NoMessage]
  /\ acked' = [acked EXCEPT ![g] = FALSE]
  /\ UNCHANGED <<ledger, link, flushing, frame, stale, receipt, serverVars, faults>>

\* delete.  The flush goes on with the next row.
Delete(g) ==
  /\ awaited[g] # NoMessage /\ acked[g]
  /\ Commit(g, WithoutAwaited(g))
  /\ awaited' = [awaited EXCEPT ![g] = NoMessage]
  /\ acked' = [acked EXCEPT ![g] = FALSE]
  /\ UNCHANGED <<ledger, link, flushing, frame, stale, receipt, serverVars, faults>>

DeleteFails(g) ==
  /\ awaited[g] # NoMessage /\ acked[g]
  /\ Fault
  /\ CommitFails(g, rows[g]) \/ CommitFails(g, WithoutAwaited(g))
  /\ EndFlush(g) /\ CloseLink(g)
  /\ UNCHANGED <<ledger, receipt, serverVars>>

\* receipt_timeout.
Timeout(g) ==
  /\ awaited[g] # NoMessage /\ ~acked[g]
  /\ EndFlush(g) /\ CloseLink(g)
  /\ UNCHANGED <<gatewayVars, receipt, serverVars, faults>>

\* _deliver of a heartbeat closes the writer under the flush.
DropWriter(g) ==
  /\ link[g] = "LOST"
  /\ CloseLink(g)
  /\ UNCHANGED <<gatewayVars, flushing, awaited, acked, receipt, serverVars, faults>>

LinkBreaks(g) ==
  /\ link[g] = "UP"
  /\ link' = [link EXCEPT ![g] = "LOST"]
  /\ \E arrives \in BOOLEAN : Abandon(g, arrives)
  /\ UNCHANGED <<gatewayVars, flushing, awaited, acked, receipt, serverVars, faults>>

\* The reader ends and cancels the flush.
ReaderEnds(g) ==
  /\ link[g] \in {"LOST", "CLOSED"}
  /\ link' = [link EXCEPT ![g] = "DOWN"]
  /\ EndFlush(g)
  /\ receipt' = [receipt EXCEPT ![g] = NoMessage]
  /\ UNCHANGED <<gatewayVars, frame, stale, serverVars, faults>>

GatewayCrash(g) ==
  /\ Rollback(g)
  /\ link' = [link EXCEPT ![g] = "DOWN"]
  /\ EndFlush(g)
  /\ \E arrives \in BOOLEAN : Abandon(g, arrives)
  /\ receipt' = [receipt EXCEPT ![g] = NoMessage]
  /\ UNCHANGED <<ledger, serverVars, faults>>

-----------------------------------------------------------------------------
(* The server. *)

\* validate_server_upload.
Valid(m) == m \notin Invalid

\* The INSERTs of the history tables; they do not look for a row of m.
Recorded(history, m) == [history EXCEPT ![m] = @ + 1]

\* Deduplicator.is_new: INSERT OR IGNORE, within the transaction.
IsNew(tables, m) == m \notin tables.seen

\* _store_validated: a repetition changes nothing.
Stored(tables, m) ==
  IF IsNew(tables, m)
  THEN [seen |-> tables.seen \cup {m}, history |-> Recorded(tables.history, m)]
  ELSE tables

\* Mutant of Store: the answer does not wait for the commit.
StoreBeforeCommit(m, done) ==
  \/ /\ ~Valid(m) /\ ~done
     /\ UNCHANGED <<serverVars, faults>>
  \/ /\ Valid(m) /\ done
     /\ view' = Stored(view, m)
     /\ \/ base' = view' /\ UNCHANGED faults
        \/ Fault /\ UNCHANGED base

\* _store: "done" is its answer.  A statement that fails is rolled back; a
\* commit that fails is not, and the next transaction that commits includes it.
Store(m, done) ==
  \/ /\ ~Valid(m) /\ ~done
     /\ UNCHANGED <<serverVars, faults>>
  \/ /\ Valid(m) /\ done
     /\ view' = Stored(view, m) /\ base' = view'
     /\ UNCHANGED faults
  \/ /\ Valid(m) /\ ~done /\ Fault
     /\ view' = base \/ view' = Stored(view, m)
     /\ UNCHANGED base

\* _handle_gateway: an upload on the open connection of g, and its receipt.
Arrive(g) ==
  /\ frame[g] # NoMessage
  /\ \E done \in BOOLEAN :
       /\ Store(frame[g], done)
       /\ receipt' = [receipt EXCEPT ![g] = IF done THEN frame[g] ELSE @]
  /\ frame' = [frame EXCEPT ![g] = NoMessage]
  /\ UNCHANGED <<gatewayVars, link, flushing, awaited, acked, stale>>

\* An upload of a closed connection arrives, and its answer is lost.
ArriveLate(g, m) ==
  /\ m \in stale[g]
  /\ \E done \in BOOLEAN : Store(m, done)
  /\ stale' = [stale EXCEPT ![g] = @ \ {m}]
  /\ UNCHANGED <<gatewayVars, link, flushing, awaited, acked, frame, receipt>>

LoseLate(g, m) ==
  /\ m \in stale[g]
  /\ stale' = [stale EXCEPT ![g] = @ \ {m}]
  /\ UNCHANGED <<gatewayVars, link, flushing, awaited, acked, frame, receipt,
                 serverVars, faults>>

\* A heartbeat, or a new policy, ends what a failed commit left open.
EndsTransaction ==
  /\ view # base
  /\ \/ base' = view /\ UNCHANGED view
     \/ view' = base /\ UNCHANGED base
  /\ UNCHANGED <<gatewayVars, linkVars, faults>>

ServerCrash ==
  /\ view' = base
  /\ link' = [g \in Gateways |-> IF link[g] = "UP" THEN "LOST" ELSE link[g]]
  /\ frame' = [g \in Gateways |-> NoMessage]
  /\ stale' = [g \in Gateways |-> {}]
  /\ UNCHANGED <<gatewayVars, flushing, awaited, acked, receipt, base, faults>>

-----------------------------------------------------------------------------
UploadNext ==
  \/ \E g \in Gateways :
       \/ \E m \in Messages : Admit(g, m) \/ Enqueue(g, m) \/ ArriveLate(g, m)
                              \/ LoseLate(g, m)
       \/ RollsBack(g) \/ Audit(g)
       \/ Connect(g) \/ Send(g) \/ BumpFails(g) \/ SendRaises(g) \/ EndOfQueue(g)
       \/ ReceiveReceipt(g) \/ Delete(g) \/ DeleteFails(g) \/ Timeout(g)
       \/ DropWriter(g) \/ LinkBreaks(g) \/ ReaderEnds(g) \/ GatewayCrash(g)
       \/ Arrive(g)
  \/ EndsTransaction \/ ServerCrash

UploadSpec == UploadInit /\ [][UploadNext]_uploadVars

\* The tasks of a gateway go on and a broken connection is reopened.  An
\* exchange that is tried for ever succeeds at some point: breaks, crashes and
\* timeouts do not hit every attempt.
UploadFairness ==
  \A g \in Gateways :
    /\ WF_uploadVars(Connect(g) \/ ReaderEnds(g))
    /\ WF_uploadVars(Timeout(g) \/ EndOfQueue(g))
    /\ SF_uploadVars(link[g] = "UP" /\ Send(g))
    /\ SF_uploadVars(Arrive(g))
    /\ SF_uploadVars(link[g] # "CLOSED" /\ receipt[g] = awaited[g] /\ ReceiveReceipt(g))
    /\ SF_uploadVars(Delete(g))

FairUploadSpec == UploadSpec /\ UploadFairness

-----------------------------------------------------------------------------
(* Properties. *)

\* Type invariant.  A receipt is awaited only by a flush that runs, and a
\* future that is set belongs to the head that is awaited.
UploadTypeOK ==
  /\ rows \in [Gateways -> Seq(Messages)]
  /\ disk \in [Gateways -> Seq(Messages)]
  /\ open \in [Gateways -> BOOLEAN]
  /\ ledger \in [Gateways -> SUBSET Receipted]
  /\ link \in [Gateways -> LinkStates]
  /\ flushing \in [Gateways -> BOOLEAN]
  /\ awaited \in [Gateways -> Messages \cup {NoMessage}]
  /\ acked \in [Gateways -> BOOLEAN]
  /\ frame \in [Gateways -> Messages \cup {NoMessage}]
  /\ stale \in [Gateways -> SUBSET Messages]
  /\ receipt \in [Gateways -> Messages \cup {NoMessage}]
  /\ view \in Tables /\ base \in Tables
  /\ faults \in 0..MaxFaults
  /\ \A g \in Gateways :
       /\ awaited[g] # NoMessage => flushing[g]
       /\ acked[g] => awaited[g] # NoMessage

\* A committed row stays in the outbox until the server has committed the
\* message, whatever fails, crashes or is answered late; and the history
\* records a message once, however often it was sent and by whom.
ServerCustody ==
  INSTANCE Custody WITH
    Holders <- Gateways,
    Stores <- {"SERVER"},
    held <- [g \in Gateways |-> ToSet(disk[g])],
    stored <- [s \in {"SERVER"} |-> base.history]

ImplementsCustody == ServerCustody!Spec

\* PERSISTED_ACK tells the sender to forget: what the ledger of a gateway has
\* acknowledged is in its outbox on disk or in the history of the server.
AcknowledgedIsKept ==
  \A g \in Gateways : \A m \in ledger[g] :
    m \in ToSet(disk[g]) \/ base.history[m] = 1

\* The outbox never exceeds its limit, and NORMAL rows never take the reserve
\* of HIGH ones, also not after a failed commit brings rows back.
ReserveIsKept ==
  \A g \in Gateways : \A queue \in {rows[g], disk[g]} :
    /\ Len(queue) <= Capacity
    /\ Cardinality({i \in DOMAIN queue : queue[i] \notin High}) <= Capacity - Reserve

\* Replay keeps the order of admission: the server commits a message for the
\* first time only when every older row of the outbox it comes from is committed.
Overtakes(g, m) ==
  \E i, j \in DOMAIN disk[g] :
    i < j /\ disk[g][j] = m /\ disk[g][i] # m /\ base'.history[disk[g][i]] = 0

ReplayIsFifo ==
  [][ \A m \in Messages :
        base.history[m] = 0 /\ base'.history[m] = 1 =>
          \E g \in Gateways : m \in ToSet(disk[g]) /\ ~Overtakes(g, m)
    ]_uploadVars

\* Every committed row reaches the history of the server: between messages the
\* outboxes hold again and again nothing that the server lacks, unless the head
\* of an outbox is one the server refuses, which is sent for ever.
Stuck(g) == disk[g] # <<>> /\ Head(disk[g]) \in Invalid

EveryRowIsStored ==
  []<>(\A g \in Gateways :
         Stuck(g) \/ \A m \in ToSet(disk[g]) : base.history[m] = 1)
=============================================================================
