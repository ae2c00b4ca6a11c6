---------------------------- MODULE MCActuation ----------------------------
(* Instances of Actuation for TLC: interchangeable commands. *)
EXTENDS Actuation, TLC

CONSTANTS c1, c2, c3

Permuted == Permutations(Commands)
=============================================================================
