------------------------------ MODULE MCAlert ------------------------------
(* Instance of FaultAlert for TLC. *)
EXTENDS FaultAlert
=============================================================================
