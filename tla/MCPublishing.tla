---------------------------- MODULE MCPublishing ----------------------------
(* Instances of Publishing for TLC. *)
EXTENDS Publishing, TLC

CONSTANTS r1, r2

RunSymmetry == Permutations(Runs)
=============================================================================
