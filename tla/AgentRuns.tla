----------------------------- MODULE AgentRuns -----------------------------
(***************************************************************************)
(* The life of autonomous-agent visits: the agent rows, the agent_run      *)
(* rows, the wake poller with its slots, and the threads that execute      *)
(* run_once() (deaddit/agents/loop.py, deaddit/runtime/wakes.py), together *)
(* with the admin requests that flip an agent on and off                   *)
(* (deaddit/admin.py).                                                     *)
(*                                                                         *)
(* One action is one database transaction, or one read whose result the    *)
(* thread keeps and uses later.  SQLite serialises writers and the SELECTs *)
(* of a session hold no snapshot, so a read and the commit that uses it    *)
(* are two steps with every other process in between.  An ORM row that a   *)
(* session has loaded is `seen`; the unit of work writes only the columns  *)
(* whose value differs from what was loaded.                               *)
(*                                                                         *)
(* Abstractions: next_run_at is "none", "later" or "due"; a run's age is   *)
(* the Boolean `overdue` (started_at before now - budget - grace); the     *)
(* LLM dialogue of a visit is one state, left with any outcome; the daily  *)
(* request ceiling may or may not be reached at any wake.                  *)
(***************************************************************************)
EXTENDS Naturals, Sequences, FiniteSets

CONSTANTS
  Agents,         \* agent ids
  Personas,       \* bot users (password_hash IS NULL)
  WakeSlots,      \* the wake pool: AGENT_MAX_CONCURRENT_RUNS slots
  ManualThreads,  \* job lanes and CLI processes: run_once(trigger="manual")
  Lurkers,        \* agents of the lurker tier
  FixedPersona,   \* agent -> its user, None for persona_mode "random"
  Attempts,       \* RESERVATION_ATTEMPTS
  StrikeLimit,    \* CONSECUTIVE_FAILURE_DISABLE_THRESHOLD
  LruWindow,      \* size of the least-recently-used window, at least 1
  MaxRuns,        \* bound of the model: agent_run rows ever inserted
  None

ASSUME AgentsAssumption ==
  /\ None \notin Agents \cup Personas
  /\ Lurkers \subseteq Agents
  /\ FixedPersona \in [Agents -> Personas \cup {None}]
  /\ WakeSlots \cap ManualThreads = {}

ASSUME BoundsAssumption ==
  /\ Attempts \in Nat \ {0}
  /\ StrikeLimit \in Nat \ {0}
  /\ LruWindow \in Nat \ {0}
  /\ MaxRuns \in Nat

Threads == WakeSlots \cup ManualThreads

Status == {"idle", "queued", "running", "error", "disabled"}

RunStatus == {"running", "completed", "failed", "interrupted"}

AgentRow == [status: Status, enabled: BOOLEAN, failures: Nat,
             next: {"none", "later", "due"}]

Run == [agent: Agents, persona: Personas, status: RunStatus, overdue: BOOLEAN]

\* Where a thread stands in run_once(), and in the caller that awaits it.
PC == {"idle", "load", "recover", "select", "insert", "refused", "exhausted",
       "visit", "finish", "complete", "fail", "strike", "returned", "raised"}

VARIABLES
  agent,    \* the agent table
  runs,     \* the agent_run table, in insertion order
  up,       \* the worker process is alive
  poll,     \* candidates of the current wake tick, with the status it loaded
  pc,       \* per thread: its place in run_once()
  who,      \* per thread: the agent it was started for
  persona,  \* per thread: the persona it selected and has not yet reserved
  mine,     \* per thread: the run it owns or owned, 0 before
  seen,     \* per thread: the agent row its session holds
  tries     \* per thread: reservation attempts that lost to an index

db == <<agent, runs>>
local == <<pc, who, persona, mine, seen, tries>>
vars == <<agent, runs, up, poll, pc, who, persona, mine, seen, tries>>

Row0 == [status |-> "idle", enabled |-> FALSE, failures |-> 0, next |-> "none"]

Init ==
  /\ agent \in [Agents -> {Row0, [Row0 EXCEPT !.enabled = TRUE, !.next = "due"]}]
  /\ runs = <<>>
  /\ up = TRUE
  /\ poll = {}
  /\ pc = [t \in Threads |-> "idle"]
  /\ who = [t \in Threads |-> None]
  /\ persona = [t \in Threads |-> None]
  /\ mine = [t \in Threads |-> 0]
  /\ seen = [t \in Threads |-> Row0]
  /\ tries = [t \in Threads |-> 0]

-----------------------------------------------------------------------------
(* Helpers *)

RunIds == DOMAIN runs

Live(r) == runs[r].status = "running"

LiveRuns(a) == {r \in RunIds : runs[r].agent = a /\ Live(r)}

\* Mutant: the migration without the indexes.
NoIndex(a, p) == FALSE

\* The two partial unique indexes: agent_id and persona_username of running rows.
IndexConflict(a, p) ==
  \E r \in RunIds : Live(r) /\ (runs[r].agent = a \/ runs[r].persona = p)

\* Close the runs of R with status s (the conditional UPDATE ... WHERE running).
Closed(R, s) ==
  [r \in RunIds |-> IF r \in R THEN [runs[r] EXCEPT !.status = s, !.overdue = FALSE]
                               ELSE runs[r]]

\* Mutants: the sweep leaves the agent alone, or gives it the run's status.
FreedNone(A) == agent
FreedAsRun(A) ==
  [a \in Agents |-> IF a \in A THEN [agent[a] EXCEPT !.status = "interrupted"]
                    ELSE agent[a]]

Freed(A) ==
  [a \in Agents |-> IF a \in A /\ agent[a].status = "running"
                    THEN [agent[a] EXCEPT !.status = "idle"] ELSE agent[a]]

\* Interrupt the overdue runs of R and free their agents, in one transaction.
Interrupt(R) ==
  /\ runs' = Closed(R, "interrupted")
  /\ agent' = Freed({runs[r].agent : r \in R})

OverdueRuns == {r \in RunIds : Live(r) /\ runs[r].overdue}

\* The persona of the agent's latest run, if it has one.
Previous(a) ==
  LET own == {r \in RunIds : runs[r].agent = a}
  IN  {runs[r].persona : r \in {q \in own : \A o \in own : o <= q}}

FixedPersonas == {FixedPersona[a] : a \in Agents} \ {None}

Eligible(a) ==
  LET pool == {p \in Personas \ FixedPersonas :
                 \A r \in RunIds : Live(r) => runs[r].persona # p}
  IN  IF Cardinality(pool) > 1 THEN pool \ Previous(a) ELSE pool

Used(p) == {r \in RunIds : runs[r].persona = p}

\* p's last run started before q's.
UsedBefore(p, q) == \E r \in Used(q) : \A o \in Used(p) : o < r

\* _pick_lru_persona: a never-used persona, else one of the LRU window.
LruPicks(pool) ==
  LET fresh == {p \in pool : Used(p) = {}}
  IN  IF fresh # {} THEN fresh
      ELSE {p \in pool : Cardinality({q \in pool : UsedBefore(q, p)}) < LruWindow}

Picks(a) ==
  IF FixedPersona[a] # None THEN {FixedPersona[a]} ELSE LruPicks(Eligible(a))

\* The write of a column through the ORM: kept when equal to what was loaded.
Write(loaded, new, stored) == IF loaded = new THEN stored ELSE new

Goto(t, p) == pc' = [pc EXCEPT ![t] = p]

\* A loaded row that no later step of the thread uses is not kept.
Forget(t) == seen' = [seen EXCEPT ![t] = Row0]

\* The thread leaves run_once() and its caller: its session is gone.
Quit(t) ==
  /\ Goto(t, "idle")
  /\ who' = [who EXCEPT ![t] = None]
  /\ persona' = [persona EXCEPT ![t] = None]
  /\ mine' = [mine EXCEPT ![t] = 0]
  /\ seen' = [seen EXCEPT ![t] = Row0]
  /\ tries' = [tries EXCEPT ![t] = 0]

Begin(t, a) ==
  /\ pc[t] = "idle"
  /\ Goto(t, "load")
  /\ who' = [who EXCEPT ![t] = a]
  /\ UNCHANGED <<persona, mine, seen, tries>>

-----------------------------------------------------------------------------
(* The wake poller *)

\* _interrupt_stale_runs, at the head of every tick whatever the runtime flag.
SweepStaleRuns ==
  /\ up
  /\ poll = {}
  /\ OverdueRuns # {}
  /\ Interrupt(OverdueRuns)
  /\ UNCHANGED <<up, poll, local>>

Candidates ==
  {a \in Agents : /\ agent[a].enabled
                  /\ agent[a].status \notin {"queued", "running"}
                  /\ agent[a].next = "due"}

\* The tick loads its candidates; it serves them one by one below.
PollScan ==
  /\ up
  /\ poll = {}
  /\ Candidates # {}
  /\ poll' = {<<a, agent[a].status>> : a \in Candidates}
  /\ UNCHANGED <<db, up, local>>

\* A commit in the loop expires the rows the tick loaded for the others.
Expired(rest) == {<<c[1], "expired">> : c \in rest}

PollLurker(c) ==
  /\ up /\ c \in poll /\ c[1] \in Lurkers
  /\ agent' = [agent EXCEPT ![c[1]].next = "later",
                            ![c[1]].status = Write(c[2], "idle", @)]
  /\ poll' = Expired(poll \ {c})
  /\ UNCHANGED <<runs, up, local>>

\* The daily request ceiling is reached: the wake is deferred.
PollDefer(c) ==
  /\ up /\ c \in poll /\ c[1] \notin Lurkers
  /\ agent' = [agent EXCEPT ![c[1]].next = "later"]
  /\ poll' = Expired(poll \ {c})
  /\ UNCHANGED <<runs, up, local>>

PollDispatch(c, t) ==
  /\ up /\ c \in poll /\ c[1] \notin Lurkers
  /\ t \in WakeSlots
  /\ Begin(t, c[1])
  /\ poll' = poll \ {c}
  /\ UNCHANGED <<db, up>>

\* No slot is free: the remaining candidates wait for the next tick.
PollFull(c) ==
  /\ up /\ c \in poll /\ c[1] \notin Lurkers
  /\ \A t \in WakeSlots : pc[t] # "idle"
  /\ poll' = {}
  /\ UNCHANGED <<db, up, local>>

-----------------------------------------------------------------------------
(* run_once(): reservation *)

\* An operator's CLI visit; the job queue's visits are composed in ManualRuns.
ManualStart(t, a) ==
  /\ t \in ManualThreads
  /\ Begin(t, a)
  /\ UNCHANGED <<db, up, poll>>

Load(t) ==
  /\ pc[t] = "load"
  /\ seen' = [seen EXCEPT ![t] = agent[who[t]]]
  /\ Goto(t, "recover")
  /\ UNCHANGED <<db, up, poll, who, persona, mine, tries>>

\* _recover_stale_runs: interrupt this agent's overdue runs; the commit
\* expires the session's row.  A live run, or an unusable LLM configuration,
\* raises ValueError.
Recover(t) ==
  LET mineStale == OverdueRuns \cap LiveRuns(who[t])
      live == LiveRuns(who[t]) \ mineStale
  IN  /\ pc[t] = "recover"
      /\ Interrupt(mineStale)
      /\ \/ Goto(t, "raised") /\ Forget(t)
         \/ /\ live = {}
            /\ Goto(t, "select")
            /\ seen' = IF mineStale = {} THEN seen
                       ELSE [seen EXCEPT ![t] = agent'[who[t]]]
      /\ UNCHANGED <<up, poll, who, persona, mine, tries>>

\* reserve_persona_run: the live-run check and the persona selection.
Select(t) ==
  /\ pc[t] = "select"
  /\ IF LiveRuns(who[t]) # {} \/ Picks(who[t]) = {}
     THEN Goto(t, "refused") /\ UNCHANGED persona
     ELSE \E p \in Picks(who[t]) :
            persona' = [persona EXCEPT ![t] = p] /\ Goto(t, "insert")
  /\ UNCHANGED <<db, up, poll, who, mine, seen, tries>>

\* The INSERT commits with the agent's status, or an index refuses it.
Insert(t) ==
  LET a == who[t]  p == persona[t]
  IN  /\ pc[t] = "insert"
      /\ Len(runs) < MaxRuns
      /\ ~ IndexConflict(a, p)
      /\ runs' = Append(runs, [agent |-> a, persona |-> p,
                               status |-> "running", overdue |-> FALSE])
      /\ agent' = [agent EXCEPT ![a].status = Write(seen[t].status, "running", @)]
      /\ mine' = [mine EXCEPT ![t] = Len(runs) + 1]
      /\ persona' = [persona EXCEPT ![t] = None]
      /\ tries' = [tries EXCEPT ![t] = 0]
      /\ Goto(t, "visit")
      /\ Forget(t)
      /\ UNCHANGED <<up, poll, who>>

\* IntegrityError: roll back (the row is read afresh), re-check, try again.
InsertRefused(t) ==
  LET a == who[t]
  IN  /\ pc[t] = "insert"
      /\ IndexConflict(a, persona[t])
      /\ seen' = [seen EXCEPT ![t] = agent[a]]
      /\ persona' = [persona EXCEPT ![t] = None]
      /\ tries' = [tries EXCEPT ![t] = @ + 1]
      /\ Goto(t, IF LiveRuns(a) # {} \/ tries[t] + 1 = Attempts
                 THEN "refused" ELSE "select")
      /\ UNCHANGED <<db, up, poll, who, mine>>

\* run_once's handler: only a scheduled wake with no run in progress backs off.
Refused(t) ==
  /\ pc[t] = "refused"
  /\ IF t \in WakeSlots /\ LiveRuns(who[t]) = {}
     THEN Goto(t, "exhausted") /\ UNCHANGED seen
     ELSE Goto(t, "raised") /\ Forget(t)
  /\ tries' = [tries EXCEPT ![t] = 0]
  /\ UNCHANGED <<db, up, poll, who, persona, mine>>

\* _backoff_without_strike, on the row loaded earlier.
BackOffExhausted(t) ==
  /\ pc[t] = "exhausted"
  /\ agent' = [agent EXCEPT
       ![who[t]].status = Write(seen[t].status, "error", @),
       ![who[t]].next = IF seen[t].enabled THEN "later" ELSE @]
  /\ Goto(t, "raised")
  /\ Forget(t)
  /\ UNCHANGED <<runs, up, poll, who, persona, mine, tries>>

-----------------------------------------------------------------------------
(* run_once(): the visit and its end *)

\* The loop ends: the model finished, a budget ran out, or an exception.
VisitEnds(t) ==
  /\ pc[t] = "visit"
  /\ \E next \in {"finish", "fail", "strike"} : Goto(t, next)
  /\ UNCHANGED <<db, up, poll, who, persona, mine, seen, tries>>

\* _run_is_active is false: the worker lost the run and returns it.
VisitAbandoned(t) ==
  /\ pc[t] = "visit"
  /\ ~ Live(mine[t])
  /\ Goto(t, "returned")
  /\ UNCHANGED <<db, up, poll, who, persona, mine, seen, tries>>

\* The end of run_once: read the run and the agent afresh.
FinishRead(t) ==
  /\ pc[t] = "finish"
  /\ IF Live(mine[t])
     THEN /\ seen' = [seen EXCEPT ![t] = agent[who[t]]]
          /\ Goto(t, "complete")
     ELSE Goto(t, "returned") /\ UNCHANGED seen
  /\ UNCHANGED <<db, up, poll, who, persona, mine, tries>>

\* The agent row a completed visit writes, from the row `s` it read before.
AfterVisit(s, row) ==
  IF s.status # "running" THEN row
  ELSE [status   |-> "idle",
        enabled  |-> row.enabled,
        failures |-> Write(s.failures, 0, row.failures),
        next     |-> IF s.enabled THEN "later" ELSE Write(s.next, "none", row.next)]

\* Mutants: the completion without its WHERE status = "running"; the agent's
\* row written whatever the rowcount of the completion.
FinishBlind(t) ==
  /\ pc[t] = "complete"
  /\ runs' = Closed({mine[t]}, "completed")
  /\ agent' = [agent EXCEPT ![who[t]] = AfterVisit(seen[t], @)]
  /\ Goto(t, "returned") /\ Forget(t)
  /\ UNCHANGED <<up, poll, who, persona, mine, tries>>
FinishAgentBlind(t) ==
  /\ pc[t] = "complete"
  /\ runs' = IF Live(mine[t]) THEN Closed({mine[t]}, "completed") ELSE runs
  /\ agent' = [agent EXCEPT ![who[t]] = AfterVisit(seen[t], @)]
  /\ Goto(t, "returned") /\ Forget(t)
  /\ UNCHANGED <<up, poll, who, persona, mine, tries>>

\* ... then the conditional completion, with the agent's row in the same commit.
FinishWrite(t) ==
  /\ pc[t] = "complete"
  /\ IF Live(mine[t])
     THEN /\ runs' = Closed({mine[t]}, "completed")
          /\ agent' = [agent EXCEPT ![who[t]] = AfterVisit(seen[t], @)]
     ELSE UNCHANGED db
  /\ Goto(t, "returned")
  /\ Forget(t)
  /\ UNCHANGED <<up, poll, who, persona, mine, tries>>

\* Mutant: one strike too many.
AfterFailureLate(row, strike) ==
  LET count == IF strike THEN row.failures + 1 ELSE row.failures
  IN  IF row.status # "running" THEN row
      ELSE IF strike /\ count > StrikeLimit
      THEN [row EXCEPT !.status = "disabled", !.enabled = FALSE, !.failures = count]
      ELSE [row EXCEPT !.status = "error", !.failures = count]

\* The agent row after a failed visit; `strike` for a permanent LLM error.
AfterFailure(row, strike) ==
  LET count == IF strike THEN row.failures + 1 ELSE row.failures
  IN  IF row.status # "running" THEN row
      ELSE IF strike /\ count >= StrikeLimit
      THEN [status |-> "disabled", enabled |-> FALSE, failures |-> count,
            next |-> "none"]
      ELSE [status |-> "error", enabled |-> row.enabled, failures |-> count,
            next |-> IF row.enabled THEN "later" ELSE row.next]

\* _fail: one write transaction, opened by the conditional UPDATE of the run.
Fail(t) ==
  /\ pc[t] \in {"fail", "strike"}
  /\ IF Live(mine[t])
     THEN /\ runs' = Closed({mine[t]}, "failed")
          /\ agent' = [agent EXCEPT ![who[t]] = AfterFailure(@, pc[t] = "strike")]
     ELSE UNCHANGED db
  /\ Goto(t, "returned")
  /\ UNCHANGED <<up, poll, who, persona, mine, seen, tries>>

\* _run_agent: the slot is released, after a back-off when run_once raised.
WakeEnds(t) ==
  /\ t \in WakeSlots
  /\ pc[t] \in {"returned", "raised"}
  /\ agent' = IF pc[t] = "raised" THEN [agent EXCEPT ![who[t]].next = "later"]
              ELSE agent
  /\ Quit(t)
  /\ UNCHANGED <<runs, up, poll>>

ManualEnds(t) ==
  /\ t \in ManualThreads
  /\ pc[t] \in {"returned", "raised"}
  /\ Quit(t)
  /\ UNCHANGED <<db, up, poll>>

-----------------------------------------------------------------------------
(* The administrator *)

Disabled(row) == [row EXCEPT !.enabled = FALSE, !.next = "none", !.status = "idle"]

Enabled(row) == [row EXCEPT !.enabled = TRUE, !.next = "due", !.failures = 0]

AdminToggle(a) ==
  /\ agent' = [agent EXCEPT ![a] = IF @.enabled THEN Disabled(@) ELSE Enabled(@)]
  /\ UNCHANGED <<runs, up, poll, local>>

AdminPauseAll ==
  /\ agent' = [a \in Agents |-> IF agent[a].enabled THEN Disabled(agent[a])
                                ELSE agent[a]]
  /\ UNCHANGED <<runs, up, poll, local>>

AdminStartAll ==
  /\ agent' = [a \in Agents |-> IF agent[a].enabled THEN agent[a]
                                ELSE Enabled(agent[a])]
  /\ UNCHANGED <<runs, up, poll, local>>

\* The edit form's is_enabled: a running status survives the switch off.
AdminSwitchOff(a) ==
  /\ agent[a].enabled
  /\ agent' = [agent EXCEPT ![a] = [Disabled(@) EXCEPT
       !.status = IF agent[a].status = "running" THEN "running" ELSE "idle"]]
  /\ UNCHANGED <<runs, up, poll, local>>

AdminResetStatus(a) ==
  /\ agent' = [agent EXCEPT
       ![a].failures = 0,
       ![a].status = IF @ = "running" THEN @ ELSE "idle",
       ![a].next = IF agent[a].enabled THEN "due" ELSE @]
  /\ UNCHANGED <<runs, up, poll, local>>

-----------------------------------------------------------------------------
(* Time, and the worker process *)

WakeFallsDue(a) ==
  /\ agent[a].next = "later"
  /\ agent' = [agent EXCEPT ![a].next = "due"]
  /\ UNCHANGED <<runs, up, poll, local>>

\* A run outlives max_run_seconds plus the grace, its thread alive or not.
RunFallsOverdue(r) ==
  /\ Live(r) /\ ~ runs[r].overdue
  /\ runs' = [runs EXCEPT ![r].overdue = TRUE]
  /\ UNCHANGED <<agent, up, poll, local>>

\* The worker dies with its poller, its slots and the job lanes among `lanes`;
\* a CLI process survives.  Nothing is written.
Crash(lanes) ==
  LET dead == WakeSlots \cup lanes
      Without(f, empty) == [t \in Threads |-> IF t \in dead THEN empty ELSE f[t]]
  IN  /\ up
      /\ up' = FALSE
      /\ poll' = {}
      /\ pc' = Without(pc, "idle")
      /\ who' = Without(who, None)
      /\ persona' = Without(persona, None)
      /\ mine' = Without(mine, 0)
      /\ seen' = Without(seen, Row0)
      /\ tries' = Without(tries, 0)
      /\ UNCHANGED db

\* WakeScheduler.recover: stale runs first, then arm agents if the flag is on.
Restart ==
  /\ ~ up
  /\ up' = TRUE
  /\ runs' = Closed(OverdueRuns, "interrupted")
  /\ LET freed == Freed({runs[r].agent : r \in OverdueRuns})
     IN  \/ agent' = freed
         \/ agent' = [a \in Agents |->
                        IF freed[a].enabled /\ freed[a].next = "none"
                        THEN [freed[a] EXCEPT !.next = "due"] ELSE freed[a]]
  /\ UNCHANGED <<poll, local>>

-----------------------------------------------------------------------------

Poller ==
  \/ SweepStaleRuns
  \/ PollScan
  \/ \E c \in poll :
       \/ PollLurker(c)
       \/ PollDefer(c)
       \/ PollFull(c)
       \/ \E t \in WakeSlots : PollDispatch(c, t)

Visit(t) ==
  \/ Load(t)
  \/ Recover(t)
  \/ Select(t)
  \/ Insert(t)
  \/ InsertRefused(t)
  \/ Refused(t)
  \/ BackOffExhausted(t)
  \/ VisitEnds(t)
  \/ VisitAbandoned(t)
  \/ FinishRead(t)
  \/ FinishWrite(t)
  \/ Fail(t)
  \/ WakeEnds(t)

Admin ==
  \/ AdminPauseAll
  \/ AdminStartAll
  \/ \E a \in Agents : AdminToggle(a) \/ AdminSwitchOff(a) \/ AdminResetStatus(a)

Time ==
  \/ \E a \in Agents : WakeFallsDue(a)
  \/ \E r \in RunIds : RunFallsOverdue(r)

Next ==
  \/ Poller
  \/ \E t \in Threads : Visit(t)
  \/ \E t \in ManualThreads : ManualEnds(t) \/ \E a \in Agents : ManualStart(t, a)
  \/ Admin
  \/ Time
  \/ \E lanes \in SUBSET ManualThreads : Crash(lanes)
  \/ Restart

Spec == Init /\ [][Next]_vars

\* Justified by the code: the worker is restarted, its poller ticks every
\* POLL_SECONDS and finishes each tick, and time passes for every run.
Fairness ==
  /\ WF_vars(Restart)
  /\ WF_vars(Poller)
  /\ SF_vars(SweepStaleRuns)
  /\ \A r \in 1..MaxRuns : WF_vars(r \in RunIds /\ RunFallsOverdue(r))

FairSpec == Spec /\ Fairness

-----------------------------------------------------------------------------
(* Properties *)

TypeOK ==
  /\ agent \in [Agents -> AgentRow]
  /\ runs \in Seq(Run)
  /\ up \in BOOLEAN
  /\ poll \subseteq Agents \X (Status \cup {"expired"})
  /\ pc \in [Threads -> PC]
  /\ who \in [Threads -> Agents \cup {None}]
  /\ persona \in [Threads -> Personas \cup {None}]
  /\ mine \in [Threads -> Nat]
  /\ seen \in [Threads -> AgentRow]
  /\ tries \in [Threads -> Nat]

\* No agent and no persona is ever in two visits at once, whatever checks
\* each thread made before it inserted its run.
ExclusiveRuns ==
  \A q, r \in RunIds :
    Live(q) /\ Live(r) /\ (runs[q].agent = runs[r].agent
                           \/ runs[q].persona = runs[r].persona) => q = r

\* An agent parked in status "running" has a live run to free it: the poller
\* skips such an agent and only the end of one of its runs, or the sweep of
\* one, takes it out of that status.
ParkedAgentHasRun ==
  \A a \in Agents : agent[a].status = "running" => LiveRuns(a) # {}

\* An agent that collected StrikeLimit strikes is never enabled, in whatever
\* order strikes, completions on stale rows and admin requests commit.
StrikesDisable ==
  \A a \in Agents : agent[a].failures >= StrikeLimit => ~ agent[a].enabled

\* A run that reached an outcome keeps it: a worker that lost its run to the
\* sweep can neither complete nor fail it.
OutcomeIsFinal ==
  [][\A r \in RunIds : ~ Live(r) => runs'[r] = runs[r]]_vars

\* A worker whose run was taken over leaves both tables alone until it is
\* gone: the agent belongs to the replacement.
LateWorkerHarmless ==
  [][\A t \in Threads :
       /\ pc[t] \in {"visit", "finish", "complete", "fail", "strike"}
       /\ ~ Live(mine[t])
       /\ pc'[t] # pc[t]
       => UNCHANGED db]_vars

\* Only the end of its own live run takes an agent out of "running", unless
\* an administrator switches the agent off.  Two steps that write a status
\* read earlier are set apart, because they do break it: the back-off of a
\* reservation's loser (WinnerKeepsStatus) and the wake of a lurker.
StatusFollowsRun ==
  [][\A a \in Agents \ Lurkers :
       /\ agent[a].status = "running"
       /\ agent'[a].status # "running"
       /\ agent'[a].enabled \/ ~ agent[a].enabled
       /\ \A t \in Threads : pc[t] = "exhausted" => pc'[t] = pc[t]
       => \E r \in LiveRuns(a) : runs'[r].status # "running"]_vars

\* loop.py:417-419: the loser of a reservation never overwrites the winner's
\* status or cadence.
WinnerKeepsStatus ==
  [][\A t \in Threads :
       pc[t] = "exhausted" /\ pc'[t] = "raised" /\ LiveRuns(who[t]) # {}
       => agent'[who[t]] = agent[who[t]]]_vars

\* An agent left in "running" by a killed worker is freed: the sweep of every
\* tick heals it without a restart by hand.
ParkedAgentFreed ==
  \A a \in Agents :
    agent[a].status = "running" ~> agent[a].status # "running"
=============================================================================
