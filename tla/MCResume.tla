------------------------------ MODULE MCResume ------------------------------
(* One process that retries a chain of bundles until it dies for good: what *)
(* the theorems about such chains assume holds of the constants.            *)
EXTENDS MCApply

ASSUME ResumeAssumption == QuietChain
=============================================================================
