------------------------------- MODULE Community -------------------------------
(***************************************************************************)
(* What people, personas and the engagement engine do to a community: the  *)
(* vote service and its repair (Votes), simulated voting, the deletes of   *)
(* moderation, conversations with their notifications, and the seeding of  *)
(* a history.  Each has its own view of the tables, and they share none.   *)
(***************************************************************************)
EXTENDS Votes, SimulatedVoting, Moderation, Conversations, HistorySeeding

\* The types of all parts: one vote per voter and item, nothing dated before what it is
\* about, no reply to what is deleted, and counters within their bounds.
CommunityTypeOK == TypeOK /\ SimTypeOK /\ ModTypeOK /\ TalkTypeOK /\ SeedTypeOK
================================================================================
