---------------------------- MODULE MCManualRuns ----------------------------
(* Instances of ManualRuns for TLC. *)
EXTENDS ManualRuns, TLC

CONSTANTS a1

OneRandom == a1 :> None
=============================================================================
