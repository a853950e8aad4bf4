------------------------------ MODULE JobQueue ------------------------------
(***************************************************************************)
(* The background job queue: rows of the job table created by the web      *)
(* process (deaddit/jobs.py, deaddit/admin.py), claimed by the poller of a *)
(* worker process, queued in one of its three priority lanes, executed     *)
(* under a heartbeat, and returned to the queue by the sweep a worker runs *)
(* when it boots (deaddit/runtime/claim.py, runner.py, scheduler.py).      *)
(*                                                                         *)
(* One action is one transaction.  What a job does is abstract: it creates *)
(* further jobs (a batch operation) and ends completed or failed.          *)
(* ManualRuns puts the agent visits in the place of that.                  *)
(***************************************************************************)
EXTENDS Naturals, FiniteSets, SequencesExt

CONSTANTS
  Workers,      \* worker processes; docker-compose.yml runs one
  Priorities,   \* priorities in use, 1..10
  LaneSize,     \* threads per lane, DEADDIT_WORKER_LANE_SIZE
  LongWaits,    \* may a claimed job wait in its lane past the stale limit?
  MaxJobs,      \* bound of the model: rows ever inserted
  MaxCrashes,   \* bound of the model: crashes of workers
  NoWorker

ASSUME QueueAssumption ==
  /\ Priorities \subseteq Nat
  /\ LaneSize \in Nat \ {0}
  /\ LongWaits \in BOOLEAN
  /\ MaxJobs \in Nat
  /\ MaxCrashes \in Nat
  /\ NoWorker \notin Workers

JobStatus == {"pending", "running", "completed", "failed", "cleared"}

\* beat is heartbeat_at: absent, within HEARTBEAT_STALE_MINUTES, or older.
JobRow == [status: JobStatus, priority: Priorities,
           worker: Workers \cup {NoWorker}, beat: {"none", "fresh", "stale"}]

VARIABLES
  job,      \* the job table, by id; "cleared" is a deleted row
  alive,    \* the worker processes that run
  scan,     \* per worker: the pending ids its tick read and has not tried
  queue,    \* per worker: jobs it claimed and submitted, not yet started
  exec,     \* per worker: jobs its lanes execute
  crashes

jvars == <<job, alive, scan, queue, exec, crashes>>

Ids == DOMAIN job

\* runner.py:_lane_for
Lane(p) == IF p >= 8 THEN "high_priority"
           ELSE IF p <= 3 THEN "low_priority" ELSE "default"

LaneOf(j) == Lane(job[j].priority)

Queued(w) == {queue[w][i] : i \in DOMAIN queue[w]}

\* ORDER BY priority DESC, id ASC
First(S) ==
  CHOOSE j \in S : \A k \in S :
    \/ job[j].priority > job[k].priority
    \/ job[j].priority = job[k].priority /\ j <= k

NewJob(p) ==
  [status |-> "pending", priority |-> p, worker |-> NoWorker, beat |-> "none"]

JobInit ==
  /\ job = <<>>
  /\ alive = Workers
  /\ scan = [w \in Workers |-> {}]
  /\ queue = [w \in Workers |-> <<>>]
  /\ exec = [w \in Workers |-> {}]
  /\ crashes = 0

-----------------------------------------------------------------------------

CreateJob(p) ==
  /\ Len(job) < MaxJobs
  /\ job' = Append(job, NewJob(p))
  /\ UNCHANGED <<alive, scan, queue, exec, crashes>>

\* A batch operation inserts its sub-jobs one commit at a time.
CreateSubJob(w, j) ==
  /\ j \in exec[w]
  /\ CreateJob(job[j].priority)

\* POST /api/clear-jobs deletes every row, whatever its status.
ClearJobs ==
  /\ Ids # {}
  /\ job' = [j \in Ids |-> [job[j] EXCEPT !.status = "cleared"]]
  /\ UNCHANGED <<alive, scan, queue, exec, crashes>>

\* A poll tick reads the pending rows ...
ScanJobs(w) ==
  /\ w \in alive
  /\ scan[w] = {}
  /\ scan' = [scan EXCEPT ![w] = {j \in Ids : job[j].status = "pending"}]
  /\ scan[w] # scan'[w]
  /\ UNCHANGED <<job, alive, queue, exec, crashes>>

\* Mutant: the claim leaves RUNNING to execute_job.
ClaimedEarly(row, w) == [row EXCEPT !.worker = w, !.beat = "fresh"]

Claimed(row, w) ==
  [row EXCEPT !.status = "running", !.worker = w, !.beat = "fresh"]

\* Mutant: the claim's UPDATE without its WHERE status = PENDING.
ClaimBlind(w) ==
  /\ scan[w] # {}
  /\ LET j == First(scan[w])
     IN  /\ scan' = [scan EXCEPT ![w] = @ \ {j}]
         /\ job' = [job EXCEPT ![j] = Claimed(@, w)]
         /\ queue' = [queue EXCEPT ![w] = Append(@, j)]
  /\ UNCHANGED <<alive, exec, crashes>>

\* ... and claims them one by one; the winner submits the job to its lane.
ClaimJob(w) ==
  /\ scan[w] # {}
  /\ LET j == First(scan[w])
     IN  /\ scan' = [scan EXCEPT ![w] = @ \ {j}]
         /\ IF job[j].status = "pending"
            THEN /\ job' = [job EXCEPT ![j] = Claimed(@, w)]
                 /\ queue' = [queue EXCEPT ![w] = Append(@, j)]
            ELSE UNCHANGED <<job, queue>>
  /\ UNCHANGED <<alive, exec, crashes>>

\* Mutant: one pool for all priorities.
StartableOnePool(w) ==
  IF queue[w] # <<>> /\ Cardinality(exec[w]) < LaneSize THEN {1} ELSE {}

\* The lanes are FIFO, each with LaneSize threads: the places of the queue a lane
\* may take next.
Startable(w) ==
  {i \in DOMAIN queue[w] :
     LET lane == LaneOf(queue[w][i])
     IN /\ Cardinality({k \in exec[w] : LaneOf(k) = lane}) < LaneSize
        /\ \A h \in 1..(i - 1) : LaneOf(queue[w][h]) # lane}

\* execute_job: a deleted row raises; any other becomes RUNNING unconditionally.
StartJob(w, j) ==
  /\ \E i \in Startable(w) :
       queue[w][i] = j /\ queue' = [queue EXCEPT ![w] = RemoveAt(@, i)]
  /\ IF job[j].status = "cleared"
     THEN UNCHANGED <<job, exec>>
     ELSE /\ job' = [job EXCEPT ![j].status = "running"]
          /\ exec' = [exec EXCEPT ![w] = @ \cup {j}]
  /\ UNCHANGED <<alive, scan, crashes>>

\* The outcome is stored unless the row was deleted meanwhile.
FinishJob(w, j, outcome) ==
  /\ j \in exec[w]
  /\ exec' = [exec EXCEPT ![w] = @ \ {j}]
  /\ job' = IF job[j].status = "cleared" THEN job
            ELSE [job EXCEPT ![j].status = outcome]
  /\ UNCHANGED <<alive, scan, queue, crashes>>

Heartbeat(w, j) ==
  /\ j \in exec[w]
  /\ job[j].status # "cleared"
  /\ job[j].beat # "fresh"
  /\ job' = [job EXCEPT ![j].beat = "fresh"]
  /\ UNCHANGED <<alive, scan, queue, exec, crashes>>

\* Five minutes pass without a heartbeat: no live thread executes the job, and
\* it has left the lane unless lanes are that slow.
BeatAges(j) ==
  /\ job[j].beat = "fresh"
  /\ \A w \in Workers : j \notin exec[w] /\ (LongWaits \/ j \notin Queued(w))
  /\ job' = [job EXCEPT ![j].beat = "stale"]
  /\ UNCHANGED <<alive, scan, queue, exec, crashes>>

CrashWorker(w) ==
  /\ w \in alive
  /\ crashes < MaxCrashes
  /\ crashes' = crashes + 1
  /\ alive' = alive \ {w}
  /\ scan' = [scan EXCEPT ![w] = {}]
  /\ queue' = [queue EXCEPT ![w] = <<>>]
  /\ exec' = [exec EXCEPT ![w] = {}]
  /\ UNCHANGED job

\* Mutants: the sweep without its heartbeat test, or without its status test.
SweptAlive(row) ==
  IF row.status = "running" THEN [row EXCEPT !.status = "pending"] ELSE row
SweptDone(row) ==
  IF row.beat # "fresh" THEN [row EXCEPT !.status = "pending"] ELSE row

Swept(row) ==
  IF row.status = "running" /\ row.beat # "fresh"
  THEN [row EXCEPT !.status = "pending", !.worker = NoWorker, !.beat = "none"]
  ELSE row

\* A worker boots: sweep_stale_jobs, once, then the poller starts.
BootWorker(w) ==
  /\ w \notin alive
  /\ alive' = alive \cup {w}
  /\ job' = [j \in Ids |-> Swept(job[j])]
  /\ UNCHANGED <<scan, queue, exec, crashes>>

-----------------------------------------------------------------------------

WorkerStep(w) ==
  \/ ScanJobs(w)
  \/ ClaimJob(w)
  \/ \E j \in Queued(w) : StartJob(w, j)
  \/ \E j \in exec[w] :
       \/ CreateSubJob(w, j)
       \/ Heartbeat(w, j)
       \/ \E o \in {"completed", "failed"} : FinishJob(w, j, o)

JobNext ==
  \/ \E p \in Priorities : CreateJob(p)
  \/ ClearJobs
  \/ \E w \in Workers : WorkerStep(w) \/ CrashWorker(w) \/ BootWorker(w)
  \/ \E j \in Ids : BeatAges(j)

JobSpec == JobInit /\ [][JobNext]_jvars

\* The poller ticks, lanes start what fits, supervised workers are restarted,
\* time passes.  Nothing is assumed of how long a job runs.
JobFairness ==
  /\ \A w \in Workers :
       /\ WF_jvars(ScanJobs(w))
       /\ WF_jvars(ClaimJob(w))
       /\ WF_jvars(BootWorker(w))
       /\ \A j \in 1..MaxJobs : WF_jvars(j \in Queued(w) /\ StartJob(w, j))
  /\ \A j \in 1..MaxJobs : WF_jvars(j \in Ids /\ BeatAges(j))

\* Jobs of the high-priority lane end; those of the other lanes may hang.
HighJobsEnd ==
  \A w \in Workers : \A j \in 1..MaxJobs :
    WF_jvars(/\ j \in exec[w] /\ LaneOf(j) = "high_priority"
             /\ \E o \in {"completed", "failed"} : FinishJob(w, j, o))

JobFairSpec == JobSpec /\ JobFairness /\ HighJobsEnd

-----------------------------------------------------------------------------
(* Properties *)

JobTypeOK ==
  /\ job \in Seq(JobRow)
  /\ alive \subseteq Workers
  /\ scan \in [Workers -> SUBSET Ids]
  /\ queue \in [Workers -> Seq(Ids)]
  /\ exec \in [Workers -> SUBSET Ids]
  /\ crashes \in Nat

\* claim.py:26-29 and the boot sweep together: however claims, crashes and sweeps
\* interleave, a job is in the hands of one worker, and once, and while it is, nobody
\* else may claim it: its row says running under that worker's name, or is deleted.
OneOwner ==
  \A j \in Ids :
    /\ \A v, w \in Workers :
         j \in (exec[v] \cup Queued(v)) \cap (exec[w] \cup Queued(w)) => v = w
    /\ \A w \in Workers :
         /\ ~ (j \in exec[w] /\ j \in Queued(w))
         /\ Cardinality({i \in DOMAIN queue[w] : queue[w][i] = j}) <= 1
         /\ j \in exec[w] \cup Queued(w) =>
              \/ job[j].status = "cleared"
              \/ job[j].status = "running" /\ job[j].worker = w

\* An outcome is final: no claim, start or sweep reopens a finished job.
OutcomeStays ==
  [][\A j \in Ids : job[j].status \in {"completed", "failed"}
       => job'[j].status \in {job[j].status, "cleared"}]_jvars

\* Jobs of the low lane that never end do not keep one of the high lane
\* waiting: as long as no worker crashes, an admin's agent run is served.
HighLaneServed ==
  [](crashes = 0) => \A j \in 1..MaxJobs :
    (j \in Ids /\ job[j].status = "pending" /\ LaneOf(j) = "high_priority")
      ~> (j \in Ids /\ job[j].status \in {"completed", "failed", "cleared"})
=============================================================================
