------------------------------- MODULE Readings -------------------------------
(***************************************************************************)
(* What is shown of what was written: the settings each process has cached *)
(* (SettingsCache), the page of the public ticker (LiveFeed), the log of a *)
(* job (JobLogs) and what a persona remembers (PersonaMemory).  They share *)
(* no state.                                                               *)
(***************************************************************************)
EXTENDS SettingsCache, LiveFeed, JobLogs, PersonaMemory

\* What is told of the past is in order, nothing twice and no gap in it: the list
\* of the live page, the log of a job and what a persona remembers, told once and
\* whole.
ToldFaithfully == NewestFirst /\ Gapless /\ LogsInOrder /\ MemorySound
================================================================================
