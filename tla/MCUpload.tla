------------------------------ MODULE MCUpload ------------------------------
(* Instance of Upload for TLC: one sensor report that reaches both gateways  *)
(* across a failover, and messages of the first gateway alone.               *)
EXTENDS Upload, TLC

CONSTANTS A, B, report, sample, partial

OfferedTo == A :> {report, sample, partial} @@ B :> {report}
=============================================================================
