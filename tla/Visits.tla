-------------------------------- MODULE Visits --------------------------------
(***************************************************************************)
(* A visit: the profile it is drawn from (VisitProfiles), what it plans to *)
(* do (VisitPlan) and its turns (VisitLoop).  They share no state.         *)
(***************************************************************************)
EXTENDS VisitProfiles, VisitPlan, VisitLoop

\* A visit finds the profile it was pinned to, keeps to its plan and its offer, and
\* its turns come to an end without a third try of anything.
VisitsSound == ProfilesSound /\ VisitsKeepToPlan /\ LoopSound
================================================================================
