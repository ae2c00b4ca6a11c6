------------------------------ MODULE MCReport ------------------------------
(* Instances of SensorReport for TLC. *)
EXTENDS SensorReport, TLC

CONSTANTS A, B, dry, wet

\* A reading matters only by the side it is on.
SideSymmetry == Permutations({dry, wet})
=============================================================================
