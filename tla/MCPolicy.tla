------------------------------ MODULE MCPolicy ------------------------------
(* Instance of PolicyStore for TLC: gateway A finds either server at the    *)
(* address it is configured with, B finds the first one.                    *)
EXTENDS PolicyStore, TLC

CONSTANTS P1, P2, A, B

MCReaches == A :> {P1, P2} @@ B :> {P1}
=============================================================================
