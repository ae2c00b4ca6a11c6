---------------------------- MODULE PolicyHistory ----------------------------
(***************************************************************************)
(* What the distribution of the control policy promises: versions name one *)
(* policy each, for ever; a gateway controls by one that was published, or *)
(* by the compiled default; and while it runs it only moves to newer ones. *)
(***************************************************************************)
EXTENDS Naturals, Sequences

CONSTANTS Gateways, Contents, Default

VARIABLES
  log,      \* log[v]: the policy published as version v
  running,  \* the gateways that run
  force     \* force[g]: the policy g controls by

historyVars == <<log, running, force>>

Compiled == [version |-> 0, content |-> Default]
Published == {[version |-> v, content |-> log[v]] : v \in DOMAIN log} \cup {Compiled}

Init ==
  /\ log = <<>>
  /\ running = Gateways
  /\ force = [g \in Gateways |-> Compiled]

Publish(content) ==
  /\ log' = Append(log, content)
  /\ UNCHANGED <<running, force>>

Adopt(g) ==
  /\ g \in running
  /\ \E p \in Published :
       /\ p.version > force[g].version
       /\ force' = [force EXCEPT ![g] = p]
  /\ UNCHANGED <<log, running>>

Stop(g) ==
  /\ running' = running \ {g}
  /\ UNCHANGED <<log, force>>

\* A restart may find an older checkpoint, or none.
Recover(g) ==
  /\ g \notin running
  /\ running' = running \cup {g}
  /\ \E p \in Published : force' = [force EXCEPT ![g] = p]
  /\ UNCHANGED log

Next ==
  \/ \E content \in Contents : Publish(content)
  \/ \E g \in Gateways : Adopt(g) \/ Stop(g) \/ Recover(g)

Spec == Init /\ [][Next]_historyVars
=============================================================================
