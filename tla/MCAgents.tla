------------------------------ MODULE MCAgents ------------------------------
(* Instances of AgentRuns for TLC.  Two questions in one run: every interleaving
   around one agent, the administrator included, and two agents that compete for
   one persona. *)
EXTENDS AgentRuns, TLC

CONSTANTS a1, a2, p1, p2, s1, m1

VARIABLE attended  \* the administrator is at work, on one agent

TwoRandom == a1 :> None @@ a2 :> None

BothInit ==
  /\ attended \in BOOLEAN
  /\ Init
  /\ IF attended THEN ~agent[a2].enabled
     ELSE \A a \in Agents : agent[a].enabled

OneAwake ==
  /\ Next
  /\ agent'[a2] = agent[a2]
  /\ \A t \in Threads : who'[t] # a2

\* Every agent enabled and due, and no request of the administrator.
Unattended ==
  \/ Poller
  \/ \E t \in Threads : Visit(t)
  \/ \E t \in ManualThreads : ManualEnds(t) \/ \E a \in Agents : ManualStart(t, a)
  \/ Time
  \/ \E lanes \in SUBSET ManualThreads : Crash(lanes)
  \/ Restart

BothNext ==
  /\ IF attended THEN OneAwake ELSE Unattended
  /\ UNCHANGED attended

BothSpec == BothInit /\ [][BothNext]_<<vars, attended>>

UnattendedFairSpec == BothSpec /\ ~attended /\ Fairness
=============================================================================
