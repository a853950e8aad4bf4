----------------------------- MODULE ManualRuns -----------------------------
(***************************************************************************)
(* Visits an administrator asks for: the force-run request of the web      *)
(* process (deaddit/admin.py), the job it inserts, the worker that claims  *)
(* and executes the job (JobQueue), and the visit itself beside the        *)
(* scheduled ones (AgentRuns).  The agent's status "queued" and its        *)
(* state.manual_run marker tie the three together.                         *)
(*                                                                         *)
(* The manual threads of AgentRuns are the high-priority lane of the one   *)
(* worker here; the worker's process state `up` is JobQueue's `alive`.     *)
(***************************************************************************)
EXTENDS AgentRuns

CONSTANTS
  Requests,     \* concurrent force-run requests of the web process
  TheWorker, NoWorker, MaxJobs, MaxCrashes

\* The lane has at least one thread, as DEADDIT_WORKER_LANE_SIZE does.
ASSUME ManualAssumption ==
  /\ IsFiniteSet(ManualThreads) /\ ManualThreads # {}
  /\ TheWorker # NoWorker
  /\ MaxJobs \in Nat /\ MaxCrashes \in Nat

VARIABLES
  job, scan, queue, exec, crashes,   \* JobQueue
  jobAgent,   \* per job: parameters.agent_id
  marker,     \* per agent: state.manual_run
  request,    \* per request: the agent it checked, with the status it loaded
  serves,     \* per manual thread: the job it executes, 0 if none
  release     \* per manual thread: its place in _release_manual_run

Q == INSTANCE JobQueue WITH
       Workers <- {TheWorker}, Priorities <- {9},
       LaneSize <- Cardinality(ManualThreads), LongWaits <- TRUE,
       alive <- IF up THEN {TheWorker} ELSE {}

jobTables == <<job, scan, queue, exec, crashes>>
manual == <<jobAgent, marker, request, serves, release>>
mvars == <<vars, jobTables, manual>>

NoMarker == [job |-> 0, previous |-> "idle"]

ManualInit ==
  /\ Init
  /\ Q!JobInit
  /\ jobAgent = <<>>
  /\ marker = [a \in Agents |-> NoMarker]
  /\ request = [q \in Requests |-> None]
  /\ serves = [t \in ManualThreads |-> 0]
  /\ release = [t \in ManualThreads |-> "read"]

Open(j) == job[j].status \in {"pending", "running"}

OpenJobs(a) == {j \in DOMAIN job : jobAgent[j] = a /\ Open(j)}

-----------------------------------------------------------------------------
(* The web process *)

\* api_force_run: load the agent and refuse an active one (_has_active_run).
ForceRunCheck(q, a) ==
  /\ request[q] = None
  /\ agent[a].status \notin {"queued", "running"}
  /\ LiveRuns(a) = {}
  /\ request' = [request EXCEPT ![q] = [agent |-> a, status |-> agent[a].status]]
  /\ UNCHANGED <<vars, jobTables, jobAgent, marker, serves, release>>

\* The conditional UPDATE's WHERE clause.
Claimable(a) == agent[a].status \notin {"queued", "running"}

\* _enqueue_agent_run: job, status and marker in one transaction, behind the
\* conditional UPDATE; the loser rolls its job back.
ForceRunClaim(q) ==
  LET a == request[q].agent
      claimed == Claimable(a)
  IN  /\ request[q] # None
      /\ request' = [request EXCEPT ![q] = None]
      /\ UNCHANGED <<runs, up, poll, local, serves, release>>
      /\ IF claimed
         THEN /\ agent' = [agent EXCEPT ![a].status = "queued"]
              /\ Q!CreateJob(9)
              /\ jobAgent' = Append(jobAgent, a)
              /\ marker' = [marker EXCEPT ![a] =
                   [job |-> Len(job) + 1, previous |-> request[q].status]]
         ELSE UNCHANGED <<agent, jobTables, jobAgent, marker>>

ClearHistory ==
  /\ UNCHANGED <<vars, manual>>
  /\ Q!ClearJobs

-----------------------------------------------------------------------------
(* The worker *)

QueueStep ==
  /\ UNCHANGED <<vars, manual>>
  /\ \/ Q!ScanJobs(TheWorker)
     \/ Q!ClaimJob(TheWorker)
     \/ \E j \in DOMAIN job : Q!Heartbeat(TheWorker, j) \/ Q!BeatAges(j)

\* A lane thread takes the job; a deleted row raises before the visit.
StartAgentJob(t, j) ==
  /\ IF job[j].status = "cleared"
     THEN UNCHANGED <<vars, serves>>
     ELSE /\ Begin(t, jobAgent[j])
          /\ serves' = [serves EXCEPT ![t] = j]
          /\ UNCHANGED <<db, up, poll>>
  /\ pc[t] = "idle"
  /\ Q!StartJob(TheWorker, j)
  /\ UNCHANGED <<jobAgent, marker, request, release>>

\* Mutant: the marker is never recognised.
OwnsNever(t) == FALSE

\* The marker is that of the thread's job, not of a later one.
Owns(t) == marker[who[t]].job = serves[t]

AtOutcome(t) == pc[t] \in {"returned", "raised"}

\* _release_manual_run reads the agent, its marker and its live runs.  If the
\* job row was deleted, reading job.id of a row the session had expired
\* raises, and nothing is released; only a visit that raised before its first
\* commit can have kept the id.
ReleaseRead(t) ==
  LET a == who[t]
      deleted == job[serves[t]].status = "cleared"
      restore == pc[t] = "raised" /\ LiveRuns(a) = {}
      read == IF ~ Owns(t) THEN "close" ELSE IF restore THEN "restore" ELSE "pop"
  IN  /\ AtOutcome(t) /\ release[t] = "read"
      /\ \E next \in (IF deleted THEN {"close"} ELSE {}) \cup
                    (IF ~ deleted \/ pc[t] = "raised" THEN {read} ELSE {}) :
           release' = [release EXCEPT ![t] = next]
      /\ seen' = [seen EXCEPT ![t] = agent[a]]
      /\ UNCHANGED <<db, up, poll, pc, who, persona, mine, tries, jobTables,
                     jobAgent, marker, request, serves>>

\* ... and writes: the marker goes, and the pre-queue status comes back when
\* no run was obtained.
ReleaseWrite(t) ==
  LET a == who[t]
  IN  /\ AtOutcome(t) /\ release[t] \in {"pop", "restore"}
      /\ marker' = [marker EXCEPT ![a] = NoMarker]
      /\ agent' = IF release[t] = "pop" THEN agent
                  ELSE [agent EXCEPT ![a].status =
                          Write(seen[t].status, marker[a].previous, @)]
      /\ release' = [release EXCEPT ![t] = "close"]
      /\ Forget(t)
      /\ UNCHANGED <<runs, up, poll, pc, who, persona, mine, tries, jobTables,
                     jobAgent, request, serves>>

\* Mutant: a visit that was refused still completes its job.
OutcomeAlways(t) == "completed"

\* The job fails when run_once() raised, whatever the run's own outcome.
JobOutcome(t) == IF pc[t] = "returned" THEN "completed" ELSE "failed"

\* execute_job stores the outcome; a deleted row raises again and ends too.
CloseAgentJob(t) ==
  /\ AtOutcome(t) /\ release[t] = "close"
  /\ Quit(t)
  /\ UNCHANGED <<db, up, poll>>
  /\ Q!FinishJob(TheWorker, serves[t], JobOutcome(t))
  /\ serves' = [serves EXCEPT ![t] = 0]
  /\ release' = [release EXCEPT ![t] = "read"]
  /\ UNCHANGED <<jobAgent, marker, request>>

CrashAll ==
  /\ Crash(ManualThreads)
  /\ Q!CrashWorker(TheWorker)
  /\ serves' = [t \in ManualThreads |-> 0]
  /\ release' = [t \in ManualThreads |-> "read"]
  /\ UNCHANGED <<jobAgent, marker, request>>

RestartAll ==
  /\ Restart
  /\ Q!BootWorker(TheWorker)
  /\ UNCHANGED manual

-----------------------------------------------------------------------------

ForceRun ==
  \E q \in Requests : ForceRunClaim(q) \/ \E a \in Agents : ForceRunCheck(q, a)

Lane(t) ==
  \/ \E j \in DOMAIN job : StartAgentJob(t, j)
  \/ ReleaseRead(t)
  \/ ReleaseWrite(t)
  \/ CloseAgentJob(t)

\* The steps of AgentRuns that this composition takes as they are.
Visits ==
  /\ Poller \/ Time \/ \E t \in Threads : Visit(t)
  /\ UNCHANGED <<jobTables, manual>>

Switches == Admin /\ UNCHANGED <<jobTables, manual>>

ManualNext ==
  \/ ForceRun
  \/ ClearHistory
  \/ QueueStep
  \/ \E t \in ManualThreads : Lane(t)
  \/ Visits
  \/ Switches
  \/ CrashAll
  \/ RestartAll

ManualSpec == ManualInit /\ [][ManualNext]_mvars

\* Nobody clears the history or switches agents on and off meanwhile.
CalmNext ==
  \/ ForceRun
  \/ QueueStep
  \/ \E t \in ManualThreads : Lane(t)
  \/ Visits
  \/ CrashAll
  \/ RestartAll

CalmSpec == ManualInit /\ [][CalmNext]_mvars

\* The worker's poller, lanes and visits go on; a claimed request is answered.
ManualFairness ==
  /\ WF_mvars(RestartAll)
  /\ WF_mvars(Poller /\ UNCHANGED <<jobTables, manual>>)
  /\ SF_mvars(SweepStaleRuns /\ UNCHANGED <<jobTables, manual>>)
  /\ \A r \in 1..MaxRuns :
       WF_mvars(r \in RunIds /\ RunFallsOverdue(r) /\ UNCHANGED <<jobTables, manual>>)
  /\ WF_mvars(UNCHANGED <<vars, manual>> /\ Q!ScanJobs(TheWorker))
  /\ WF_mvars(UNCHANGED <<vars, manual>> /\ Q!ClaimJob(TheWorker))
  /\ \A t \in ManualThreads : WF_mvars(Lane(t))
  /\ \A t \in Threads : WF_mvars(Visit(t) /\ UNCHANGED <<jobTables, manual>>)

CalmFairSpec == CalmSpec /\ ManualFairness

-----------------------------------------------------------------------------
(* Properties *)

ManualTypeOK ==
  /\ TypeOK
  /\ Q!JobTypeOK
  /\ jobAgent \in Seq(Agents) /\ Len(jobAgent) = Len(job)
  /\ marker \in [Agents -> [job: Nat, previous: Status]]
  /\ request \in [Requests -> [agent: Agents, status: Status] \cup {None}]
  /\ serves \in [ManualThreads -> Nat]
  /\ release \in [ManualThreads -> {"read", "pop", "restore", "close"}]

\* The model's bound on runs did not stop a visit that the code would start.
Unbounded == \A t \in Threads : pc[t] = "insert" => Len(runs) < MaxRuns

\* No force-run commits between the two halves of _release_manual_run of its
\* agent (the race QueuedAgentHasJob is about).
NoRequestInside ==
  \A t \in ManualThreads :
    release[t] \in {"pop", "restore"} => marker[who[t]].job = serves[t]

\* wakes.py:224: a "queued" agent has an admin-requested job pending on the
\* worker, so something will take it out of that status.
QueuedAgentHasJob ==
  \A a \in Agents : agent[a].status = "queued" => OpenJobs(a) # {}

\* The manual_run marker never outlives its job: it is released before the
\* job's outcome is stored and never goes back to an older job, whatever
\* requests, switches and clearings happen in between.
MarkerNamesOpenJob ==
  \A a \in Agents : marker[a].job # 0 =>
    /\ jobAgent[marker[a].job] = a
    /\ job[marker[a].job].status \notin {"completed", "failed"}

\* A job is COMPLETED only when the run it reports has reached an outcome.
CompletedJobHasOutcome ==
  [][\A t \in ManualThreads :
       serves[t] # 0 /\ job'[serves[t]].status = "completed"
       /\ job[serves[t]].status # "completed"
       => mine[t] # 0 /\ ~ Live(mine[t])]_mvars

\* jobs.py:216-223: a queued agent is released: its job is claimed, started
\* and brought to an outcome beside the scheduled visits, and its release
\* gives the agent its status back when the visit was refused.
QueuedAgentReleased ==
  [](Unbounded /\ NoRequestInside) =>
    \A a \in Agents : agent[a].status = "queued" ~> agent[a].status # "queued"
=============================================================================
