----------------------------- MODULE MCDelivery -----------------------------
(* Instance of CommandDelivery for TLC. *)
EXTENDS CommandDelivery
=============================================================================
