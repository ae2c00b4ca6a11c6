------------------------------- MODULE Custody -------------------------------
(***************************************************************************)
(* What store-and-forward promises.  A holder that has accepted a message  *)
(* keeps it on disk until some store further along has it on disk, and a   *)
(* store records each message once, however often it is sent.  Both hops   *)
(* of the system implement it: the reports of a sensor towards the         *)
(* receipt ledgers of the gateways (SensorReport), and the outboxes of the *)
(* gateways towards the history of the server (Upload).                    *)
(***************************************************************************)
EXTENDS Naturals

CONSTANTS Holders, Stores, Messages

VARIABLES
  held,    \* held[h]: the messages h has on disk and has still to hand over
  stored   \* stored[s][m]: how often m is on the disk of s

custodyVars == <<held, stored>>

Safe(m) == \E s \in Stores : stored[s][m] > 0

TypeOK ==
  /\ held \in [Holders -> SUBSET Messages]
  /\ stored \in [Stores -> [Messages -> 0..1]]

Init ==
  /\ held = [h \in Holders |-> {}]
  /\ stored = [s \in Stores |-> [m \in Messages |-> 0]]

Accept(h, m) ==
  /\ m \notin held[h]
  /\ held' = [held EXCEPT ![h] = @ \cup {m}]
  /\ UNCHANGED stored

\* One commit may put several messages on disk.  A late copy of a message
\* that was handed over may reach another store.
Store(s) ==
  /\ stored' \in [Stores -> [Messages -> 0..1]]
  /\ \A t \in Stores : t # s => stored'[t] = stored[t]
  /\ \A m \in Messages :
       stored'[s][m] # stored[s][m] =>
         stored[s][m] = 0 /\ (Safe(m) \/ \E h \in Holders : m \in held[h])
  /\ UNCHANGED held

Release(h, m) ==
  /\ m \in held[h] /\ Safe(m)
  /\ held' = [held EXCEPT ![h] = @ \ {m}]
  /\ UNCHANGED stored

Next ==
  \/ \E h \in Holders, m \in Messages : Accept(h, m) \/ Release(h, m)
  \/ \E s \in Stores : Store(s)

Spec == Init /\ [][Next]_custodyVars
=============================================================================
