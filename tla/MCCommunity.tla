---------------------------- MODULE MCCommunity ----------------------------
(***************************************************************************)
(* Small instances of the five parts of Community, for TLC.                *)
(*                                                                         *)
(* The parts keep their state apart, so a behaviour belongs to one of      *)
(* them: only the chosen part moves, the others stay as they started.      *)
(***************************************************************************)
EXTENDS Community, TLC

CONSTANTS n1, u1, i1, i2, vw, vp, vq, a, b, p1, p2, c1, c2

VARIABLE part

Parts == {"votes", "simulated", "moderation", "conversations", "seeding"}

-----------------------------------------------------------------------------
(* Instances *)

OneAuthor == i1 :> u1 @@ i2 :> u1

\* A post of vw and a comment of vp on it.
AWriter == 1 :> vw @@ 2 :> vp
AThread == 1 :> 1 @@ 2 :> 1

\* A quick policy that wants a gap, a slow one with a cap of one, and one that
\* does not validate.
Cadences ==
  1 :> [draw |-> 1 :> 1 @@ 2 :> 1, most |-> 2, cap |-> 2, gap |-> 1, window |-> 1,
        grace |-> 0, tail |-> 4]
  @@ 2 :> [draw |-> 1 :> 3 @@ 2 :> 0, most |-> 2, cap |-> 1, gap |-> 0, window |-> 2,
           grace |-> 0, tail |-> 4]
  @@ 3 :> [draw |-> 1 :> 9 @@ 2 :> 9, most |-> 9, cap |-> 9, gap |-> 0, window |-> 0,
           grace |-> 0, tail |-> 4]

\* Two posts, a comment of b on a's post and a's reply to it.
EntryBy == p1 :> a @@ p2 :> b @@ c1 :> b @@ c2 :> a
CommentOn == c1 :> p1 @@ c2 :> p1
Replies == c1 :> c1 @@ c2 :> c1

\* The names of the bank are interchangeable: n1 stands for whoever writes first.
FirstByN1 == seeded # << >> => seeded[1].by = n1

-----------------------------------------------------------------------------

CommunityInit ==
  /\ part \in Parts
  /\ Init /\ score[i2] = 0 /\ (part # "votes" => downvotes /\ score[i1] = 0)
  /\ SimInit /\ ModInit /\ TalkInit /\ SeedInit

CommunityNext ==
  /\ part' = part
  /\ \/ part = "votes" /\ Next /\ UNCHANGED <<simVars, modVars, talkVars, seedVars>>
     \/ part = "simulated" /\ SimNext /\ UNCHANGED <<vars, modVars, talkVars, seedVars>>
     \/ part = "moderation" /\ ModNext /\ UNCHANGED <<vars, simVars, talkVars, seedVars>>
     \/ part = "conversations" /\ TalkNext /\ UNCHANGED <<vars, simVars, modVars, seedVars>>
     \/ part = "seeding" /\ SeedNext /\ UNCHANGED <<vars, simVars, modVars, talkVars>>

communityVars == <<part, vars, simVars, modVars, talkVars, seedVars>>

CommunitySpec == CommunityInit /\ [][CommunityNext]_communityVars
============================================================================
