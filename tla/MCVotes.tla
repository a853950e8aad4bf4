------------------------------ MODULE MCVotes ------------------------------
(* Instances of Votes for TLC. *)
EXTENDS Votes, TLC

CONSTANTS u1, i1, i2

OneAuthor == i1 :> u1 @@ i2 :> u1
=============================================================================
