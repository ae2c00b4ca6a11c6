----------------------------- MODULE PolicyStore -----------------------------
(***************************************************************************)
(* The control policy: servers that publish it from one database, gateways *)
(* that keep it in a checkpoint of two slots, and the way in between.      *)
(*                                                                         *)
(* Sources: the policy tasks of server/server.py, load_policy and          *)
(* update_policy of server/database.py, task_server_policy of              *)
(* gateway/gateway.py, gateway/edge_decision.py and common/state_store.py. *)
(*                                                                         *)
(* A server that is replaced may still run: several publishers may have    *)
(* loaded the same head, and a gateway reaches one of them.                *)
(***************************************************************************)
EXTENDS Naturals, Sequences

CONSTANTS
  Publishers, Gateways,
  Contents,    \* thresholds and durations validate_policy accepts
  Default,     \* DEFAULT_POLICY
  NoPolicy, Corrupt, NoPublisher,
  Reaches,     \* bound: the publishers a gateway gets to
  Fragile,     \* bound: the gateways whose checkpoint is damaged
  MaxVersion,  \* bound: versions
  Backlog      \* bound: policies in flight to a gateway

Policies == [version : 0..MaxVersion, content : Contents]

ASSUME PolicyAssumption ==
  /\ Default \in Contents
  /\ NoPolicy \notin Policies /\ Corrupt \notin Policies /\ NoPolicy # Corrupt
  /\ NoPublisher \notin Publishers
  /\ Reaches \in [Gateways -> SUBSET Publishers] /\ Fragile \subseteq Gateways
  /\ MaxVersion \in Nat \ {0} /\ Backlog \in Nat \ {0}

VARIABLES
  table,    \* the table server_policy exists
  head,     \* its row, or NoPolicy
  log,      \* contents of the versions committed so far (history)
  mode,     \* mode[s]: DOWN, CREATING (in load_policy) or UP
  served,   \* served[s]: the policy s publishes, or NoPolicy: disabled
  clients,  \* clients[s]: gateways s pushes policies to
  pushed,   \* pushed[s]: the policy of the broadcast that runs
  targets,  \* targets[s]: the clients it has still to reach
  gone,     \* gone[s]: those of them whose connection it looked up is closed
  link,     \* link[g]: the server g is connected to
  frames,   \* frames[g]: policies on that connection
  up,       \* up[g]: the process runs
  policy,   \* policy[g]: EdgeDecider.policy and policy_version
  slots,    \* slots[g]: slot 0 and slot 1 of the checkpoint
  damaged   \* damaged[g]: a slot was damaged since the last save (history)

headVars == <<table, head, log>>
castVars == <<pushed, targets, gone>>
wireVars == <<link, frames>>
storeVars == <<up, policy, slots, damaged>>
policyVars == <<headVars, mode, served, clients, castVars, wireVars, storeVars>>

Initial == [version |-> 1, content |-> Default]
Compiled == [version |-> 0, content |-> Default]
Slots == [current : Policies \cup {NoPolicy, Corrupt},
          previous : Policies \cup {NoPolicy, Corrupt}]

\* A new database, or one of a release without policy table: a table without
\* a row stands for that and for a first boot that was interrupted.
PInit ==
  /\ table \in BOOLEAN /\ head = NoPolicy /\ log = <<>>
  /\ mode = [s \in Publishers |-> "DOWN"]
  /\ served = [s \in Publishers |-> NoPolicy]
  /\ clients = [s \in Publishers |-> {}]
  /\ pushed = [s \in Publishers |-> NoPolicy]
  /\ targets = [s \in Publishers |-> {}]
  /\ gone = [s \in Publishers |-> {}]
  /\ link = [g \in Gateways |-> NoPublisher]
  /\ frames = [g \in Gateways |-> <<>>]
  /\ up = [g \in Gateways |-> TRUE]
  /\ policy = [g \in Gateways |-> Compiled]
  /\ slots = [g \in Gateways |-> [current |-> NoPolicy, previous |-> NoPolicy]]
  /\ damaged = [g \in Gateways |-> FALSE]

-----------------------------------------------------------------------------
(* Publishers. *)

\* load_policy: creating the table commits by itself.
CreateTable(s) ==
  /\ mode[s] = "DOWN" /\ ~table
  /\ table' = TRUE
  /\ mode' = [mode EXCEPT ![s] = "CREATING"]
  /\ UNCHANGED <<head, log, served, clients, castVars, wireVars, storeVars>>

\* The first version of a new database.
InsertHead(s) ==
  /\ mode[s] = "CREATING"
  /\ mode' = [mode EXCEPT ![s] = "UP"]
  /\ head' = Initial /\ log' = <<Default>>
  /\ served' = [served EXCEPT ![s] = Initial]
  /\ UNCHANGED <<table, clients, castVars, wireVars, storeVars>>

\* start: without a row publication is disabled, history is still accepted.
LoadHead(s) ==
  /\ mode[s] = "DOWN" /\ table
  /\ mode' = [mode EXCEPT ![s] = "UP"]
  /\ served' = [served EXCEPT ![s] = head]
  /\ UNCHANGED <<headVars, clients, castVars, wireVars, storeVars>>

Successor(s, content) == [version |-> served[s].version + 1, content |-> content]

\* Mutant of Swap: the head is not compared.
SwapAnyway(s, content) ==
  /\ head' = Successor(s, content)
  /\ log' = Append(log, content)

\* Mutant of Swap: the commit is lost, the policy is published.
SwapLost(s, content) ==
  /\ head.version = served[s].version
  /\ UNCHANGED <<head, log>>

\* _write_policy: UPDATE ... WHERE version = expected_version.
Swap(s, content) ==
  /\ head.version = served[s].version
  /\ head' = Successor(s, content)
  /\ log' = Append(log, content)

\* update_policy: committed, then published.  A failure changes nothing.
UpdatePolicy(s, content) ==
  /\ served[s] # NoPolicy /\ content # served[s].content
  /\ served[s].version < MaxVersion
  /\ Swap(s, content)
  /\ served' = [served EXCEPT ![s] = Successor(s, content)]
  /\ UNCHANGED <<table, mode, clients, castVars, wireVars, storeVars>>

\* Mutant of Due: a policy is pushed once.
DueOnce(s) == served[s] # NoPolicy /\ pushed[s] # served[s]

\* _policy_loop, periodically.
Due(s) == served[s] # NoPolicy

\* _broadcast_policy looks up its message and its clients, and writes to the
\* first of them.
StartBroadcast(s, g) ==
  /\ Due(s) /\ targets[s] = {}
  /\ g \in clients[s] /\ Len(frames[g]) < Backlog
  /\ pushed' = [pushed EXCEPT ![s] = served[s]]
  /\ frames' = [frames EXCEPT ![g] = Append(@, served[s])]
  /\ targets' = [targets EXCEPT ![s] = clients[s] \ {g}]
  /\ UNCHANGED <<headVars, mode, served, clients, gone, link, storeVars>>

\* It goes on with the next one.
Push(s, g) ==
  /\ g \in targets[s] \ gone[s] /\ Len(frames[g]) < Backlog
  /\ targets' = [targets EXCEPT ![s] = @ \ {g}]
  /\ frames' = [frames EXCEPT ![g] = Append(@, pushed[s])]
  /\ UNCHANGED <<headVars, mode, served, clients, pushed, gone, link, storeVars>>

\* Writing to a connection that is closed raises, and the gateway is dropped:
\* clients.pop(gateway_id), whatever connection it has by now.
PushRaises(s, g) ==
  /\ g \in targets[s] \cap gone[s]
  /\ targets' = [targets EXCEPT ![s] = @ \ {g}]
  /\ gone' = [gone EXCEPT ![s] = @ \ {g}]
  /\ clients' = [clients EXCEPT ![s] = @ \ {g}]
  /\ UNCHANGED <<headVars, mode, served, pushed, wireVars, storeVars>>

\* What a server has sent may still arrive.
PublisherCrash(s) ==
  /\ mode[s] # "DOWN"
  /\ mode' = [mode EXCEPT ![s] = "DOWN"]
  /\ served' = [served EXCEPT ![s] = NoPolicy]
  /\ clients' = [clients EXCEPT ![s] = {}]
  /\ pushed' = [pushed EXCEPT ![s] = NoPolicy]
  /\ targets' = [targets EXCEPT ![s] = {}]
  /\ gone' = [gone EXCEPT ![s] = {}]
  /\ link' = [g \in Gateways |-> IF link[g] = s THEN NoPublisher ELSE link[g]]
  /\ UNCHANGED <<headVars, frames, storeVars>>

-----------------------------------------------------------------------------
(* Connections. *)

\* task_server_policy; the server enters the gateway with its first upload.
Connect(g, s) ==
  /\ s \in Reaches[g] /\ up[g] /\ link[g] = NoPublisher /\ frames[g] = <<>> /\ mode[s] = "UP"
  /\ link' = [link EXCEPT ![g] = s]
  /\ clients' = [clients EXCEPT ![s] = @ \cup {g}]
  /\ UNCHANGED <<headVars, mode, served, castVars, frames, storeVars>>

\* _handle_gateway ends.
Closed(g) ==
  /\ clients' = [s \in Publishers |-> clients[s] \ {g}]
  /\ gone' = [s \in Publishers |-> gone[s] \cup (targets[s] \cap {g})]
  /\ link' = [link EXCEPT ![g] = NoPublisher]

\* The connection breaks; what is in flight may be lost.
Disconnect(g) ==
  /\ link[g] # NoPublisher \/ frames[g] # <<>>
  /\ Closed(g)
  /\ frames' = [frames EXCEPT ![g] = <<>>] \/ UNCHANGED frames
  /\ UNCHANGED <<headVars, mode, served, pushed, targets, storeVars>>

-----------------------------------------------------------------------------
(* Gateways. *)

Good(p) == p \notin {NoPolicy, Corrupt}

\* Mutant of Saved: damaged bytes replace the previous good slot.
SavedOverGood(old, p) == [current |-> p, previous |-> old.current]

\* StateStore.save.
Saved(old, p) ==
  [current |-> p, previous |-> IF Good(old.current) THEN old.current ELSE old.previous]

\* StateStore.load of the policy: the previous slot is allowed.
Restored(saved) ==
  IF Good(saved.current) THEN saved.current
  ELSE IF Good(saved.previous) THEN saved.previous
  ELSE Compiled

\* EdgeDecider.update_policy: not a replay, not out of order.
Newer(g, p) == p.version > policy[g].version

\* _apply_policy: the checkpoint is written, then the policy is active.
Apply(g) ==
  /\ up[g] /\ frames[g] # <<>>
  /\ LET p == Head(frames[g])
     IN IF Newer(g, p)
        THEN /\ slots' = [slots EXCEPT ![g] = Saved(@, p)]
             /\ policy' = [policy EXCEPT ![g] = p]
             /\ damaged' = [damaged EXCEPT ![g] = FALSE]
        ELSE UNCHANGED <<slots, policy, damaged>>
  /\ frames' = [frames EXCEPT ![g] = Tail(@)]
  /\ UNCHANGED <<headVars, mode, served, clients, castVars, link, up>>

\* The checkpoint cannot be written: the policy in force stays.
ApplyFails(g) ==
  /\ up[g] /\ frames[g] # <<>> /\ Newer(g, Head(frames[g]))
  /\ frames' = [frames EXCEPT ![g] = Tail(@)]
  /\ UNCHANGED <<headVars, mode, served, clients, castVars, link, storeVars>>

\* Environment: at most one slot is damaged between two saves.
Damage(g) ==
  /\ g \in Fragile /\ ~damaged[g]
  /\ \E field \in {"current", "previous"} :
       /\ Good(slots[g][field])
       /\ slots' = [slots EXCEPT ![g][field] = Corrupt]
  /\ damaged' = [damaged EXCEPT ![g] = TRUE]
  /\ UNCHANGED <<headVars, mode, served, clients, castVars, wireVars, up, policy>>

GatewayCrash(g) ==
  /\ up[g]
  /\ up' = [up EXCEPT ![g] = FALSE]
  /\ Closed(g)
  /\ frames' = [frames EXCEPT ![g] = <<>>]
  /\ UNCHANGED <<headVars, mode, served, pushed, targets, policy, slots, damaged>>

\* EdgeDecider.__init__.
GatewayStart(g) ==
  /\ ~up[g]
  /\ up' = [up EXCEPT ![g] = TRUE]
  /\ policy' = [policy EXCEPT ![g] = Restored(slots[g])]
  /\ UNCHANGED <<headVars, mode, served, clients, castVars, wireVars, slots, damaged>>

-----------------------------------------------------------------------------
PublisherNext(s) ==
  \/ CreateTable(s) \/ InsertHead(s) \/ LoadHead(s) \/ PublisherCrash(s)
  \/ \E content \in Contents : UpdatePolicy(s, content)
  \/ \E g \in Gateways : StartBroadcast(s, g) \/ Push(s, g) \/ PushRaises(s, g)

GatewayNext(g) ==
  \/ \E s \in Publishers : Connect(g, s)
  \/ Disconnect(g) \/ Apply(g) \/ ApplyFails(g) \/ Damage(g)
  \/ GatewayCrash(g) \/ GatewayStart(g)

PNext ==
  \/ \E s \in Publishers : PublisherNext(s)
  \/ \E g \in Gateways : GatewayNext(g)

PSpec == PInit /\ [][PNext]_policyVars

\* A gateway that is down is started again, and a broadcast, a connection and
\* a checkpoint that are tried for ever succeed at some point.
PolicyFairness ==
  /\ \A s \in Publishers :
       /\ WF_policyVars(\E g \in Gateways : Push(s, g) \/ PushRaises(s, g))
       /\ \A g \in {h \in Gateways : s \in Reaches[h]} :
            SF_policyVars(StartBroadcast(s, g))
  /\ \A g \in Gateways :
       /\ WF_policyVars(GatewayStart(g))
       /\ SF_policyVars(\E s \in Publishers : Connect(g, s))
       /\ SF_policyVars(Apply(g))

FairPSpec == PSpec /\ PolicyFairness

-----------------------------------------------------------------------------
(* Properties. *)

\* Type invariant.  The head is the last version committed.
PTypeOK ==
  /\ table \in BOOLEAN
  /\ log \in Seq(Contents) /\ Len(log) <= MaxVersion
  /\ head = IF log = <<>> THEN NoPolicy
            ELSE [version |-> Len(log), content |-> log[Len(log)]]
  /\ mode \in [Publishers -> {"DOWN", "CREATING", "UP"}]
  /\ served \in [Publishers -> Policies \cup {NoPolicy}]
  /\ clients \in [Publishers -> SUBSET Gateways]
  /\ pushed \in [Publishers -> Policies \cup {NoPolicy}]
  /\ targets \in [Publishers -> SUBSET Gateways]
  /\ gone \in [Publishers -> SUBSET Gateways]
  /\ link \in [Gateways -> Publishers \cup {NoPublisher}]
  /\ frames \in [Gateways -> Seq(Policies)]
  /\ up \in [Gateways -> BOOLEAN]
  /\ policy \in [Gateways -> Policies]
  /\ slots \in [Gateways -> Slots]
  /\ damaged \in [Gateways -> BOOLEAN]

\* A version names one policy whatever crashes, is replayed or is committed by
\* a second publisher; no gateway controls by a policy the database could
\* forget; and no running gateway goes back to an older one, also when it is
\* connected to a server that was overtaken by another.
History ==
  INSTANCE PolicyHistory WITH running <- {g \in Gateways : up[g]}, force <- policy

ImplementsHistory == History!Spec

\* A gateway that has saved two policies comes back with one of them although
\* a slot is damaged between any two saves.
LastKnownGood ==
  \A g \in Gateways :
    slots[g].previous # NoPolicy => Good(slots[g].current) \/ Good(slots[g].previous)

\* While every server publishes the head, the head reaches a gateway again and
\* again, also after a restart from the previous slot.  The exception is a
\* gateway that is connected but that PushRaises has dropped.
AllPublishHead == \A s \in Publishers : served[s] # NoPolicy /\ served[s] = head
Dropped(g) == link[g] # NoPublisher /\ g \notin clients[link[g]]

HeadReachesGateways ==
  \A g \in Gateways :
    []<>(AllPublishHead => (Dropped(g) \/ (up[g] /\ policy[g] = head)))
=============================================================================
