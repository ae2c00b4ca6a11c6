------------------------------ MODULE MCJourney ------------------------------
(* A small instance of Journey for TLC. *)
EXTENDS Journey

CONSTANTS A, dry, note

\* The outboxes behave as Upload says (JourneyIsBoth).
UploadSpec == Outbox!UploadSpec

\* No HIGH report is lost on the way (HighReportsReachTheHistory).
NothingIsLost ==
  \A r \in HighReports : [](r \in flash => [](r \in flash \/ Recorded(r)))
=============================================================================
