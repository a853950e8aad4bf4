----------------------------- MODULE Runs_proofs -----------------------------
(***************************************************************************)
(* Agent visits and their runs (AgentRuns), for any number of agents,      *)
(* personas, wake slots, manual threads and runs; then forced visits       *)
(* (ManualRuns), for any number of requests and jobs too: the composition  *)
(* of visits and queue behaves as the job queue promises, and what the     *)
(* queue's own invariant says of jobs in hand then carries over to the     *)
(* threads that execute them.                                              *)
(***************************************************************************)
EXTENDS ManualRuns, SequenceTheorems, FiniteSetTheorems, TLAPS

-----------------------------------------------------------------------------
(* Visits: the invariant of types *)

\* The places of a thread that has reserved a run.
Owning == {"visit", "finish", "complete", "fail", "strike"}

\* What the fields of a thread hold while it is busy.
ThreadsOK ==
  \A t \in Threads :
    /\ pc[t] # "idle" => who[t] \in Agents
    /\ pc[t] = "insert" => persona[t] \in Personas
    /\ pc[t] \in Owning => mine[t] \in RunIds /\ runs[mine[t]].agent = who[t]

TypeInv == TypeOK /\ ThreadsOK

-----------------------------------------------------------------------------
(* Lemmas about the tables *)

\* The agent_run table as a function.
LEMMA RunsAreRows ==
  ASSUME runs \in Seq(Run)
  PROVE  /\ Len(runs) \in Nat
         /\ RunIds = 1..Len(runs)
         /\ \A r \in RunIds : runs[r] \in Run
BY LenProperties, ElementOfSeq DEF RunIds

\* Closing runs changes no run's agent or persona, and revives none.
LEMMA ClosedRuns ==
  ASSUME runs \in Seq(Run), NEW R, NEW s \in RunStatus
  PROVE  /\ Closed(R, s) \in Seq(Run)
         /\ DOMAIN Closed(R, s) = RunIds
         /\ \A r \in RunIds :
              /\ Closed(R, s)[r].agent = runs[r].agent
              /\ Closed(R, s)[r].persona = runs[r].persona
              /\ r \notin R => Closed(R, s)[r] = runs[r]
              /\ r \in R => Closed(R, s)[r].status = s
<1>1. /\ Len(runs) \in Nat
      /\ RunIds = 1..Len(runs)
      /\ \A r \in RunIds : runs[r] \in Run
  BY RunsAreRows
<1>2. \A r \in RunIds : Closed(R, s)[r] \in Run
  BY <1>1 DEF Closed, Run
<1>3. Closed(R, s) \in [1..Len(runs) -> Run]
  BY <1>1, <1>2 DEF Closed
<1>4. Closed(R, s) \in Seq(Run)
  BY <1>1, <1>3, SeqDef
<1> QED
  BY <1>1, <1>4 DEF Closed, Run

\* Freeing agents leaves nothing but idle agents among those it names.
LEMMA FreedAgents ==
  ASSUME agent \in [Agents -> AgentRow], NEW A
  PROVE  /\ Freed(A) \in [Agents -> AgentRow]
         /\ \A a \in Agents :
              /\ a \notin A => Freed(A)[a] = agent[a]
              /\ a \in A => Freed(A)[a].status # "running"
              /\ agent[a].status # "running" => Freed(A)[a] = agent[a]
              /\ Freed(A)[a].enabled = agent[a].enabled
              /\ Freed(A)[a].failures = agent[a].failures
BY DEF Freed, AgentRow, Status

\* Whatever persona a selection may return is one of the Personas.
LEMMA PicksArePersonas ==
  ASSUME NEW a \in Agents, NEW p \in Picks(a)
  PROVE  p \in Personas
<1>1. Eligible(a) \subseteq Personas
  BY DEF Eligible
<1>2. LruPicks(Eligible(a)) \subseteq Personas
  BY <1>1 DEF LruPicks
<1>3. FixedPersona[a] # None => FixedPersona[a] \in Personas
  BY AgentsAssumption
<1> QED
  BY <1>2, <1>3 DEF Picks

\* The rows a completion and a failure write are agent rows.
LEMMA RowsAfterVisits ==
  ASSUME NEW row \in AgentRow, NEW s \in AgentRow, NEW strike \in BOOLEAN
  PROVE  /\ AfterVisit(s, row) \in AgentRow
         /\ AfterFailure(row, strike) \in AgentRow
         /\ AfterFailure(row, strike).status # "running"
         /\ s.status = "running" => AfterVisit(s, row).status # "running"
         /\ s.status # "running" => AfterVisit(s, row) = row
BY DEF AfterVisit, AfterFailure, AgentRow, Status, Write

-----------------------------------------------------------------------------
(* Type correctness *)

\* A step of a thread t keeps the invariant if it types what it writes.
LEMMA ThreadStep ==
  ASSUME TypeInv, NEW t \in Threads,
         agent' \in [Agents -> AgentRow],
         runs' \in Seq(Run), RunIds \subseteq RunIds',
         \A r \in RunIds : runs'[r].agent = runs[r].agent,
         up' = up, poll' \subseteq poll,
         pc' \in [Threads -> PC],
         who' \in [Threads -> Agents \cup {None}],
         persona' \in [Threads -> Personas \cup {None}],
         mine' \in [Threads -> Nat],
         seen' \in [Threads -> AgentRow],
         tries' \in [Threads -> Nat],
         \A o \in Threads \ {t} :
           pc'[o] = pc[o] /\ who'[o] = who[o] /\ persona'[o] = persona[o]
           /\ mine'[o] = mine[o],
         pc'[t] # "idle" => who'[t] \in Agents,
         pc'[t] = "insert" => persona'[t] \in Personas,
         pc'[t] \in Owning => mine'[t] \in RunIds' /\ runs'[mine'[t]].agent = who'[t]
  PROVE  TypeInv'
<1>1. TypeOK'
  BY DEF TypeInv, TypeOK
<1>2. ThreadsOK'
  <2> SUFFICES ASSUME NEW o \in Threads
               PROVE  /\ pc'[o] # "idle" => who'[o] \in Agents
                      /\ pc'[o] = "insert" => persona'[o] \in Personas
                      /\ pc'[o] \in Owning => mine'[o] \in RunIds' /\ runs'[mine'[o]].agent = who'[o]
    BY DEF ThreadsOK
  <2>1. CASE o = t
    BY <2>1
  <2>2. CASE o # t
    BY <2>2 DEF TypeInv, ThreadsOK
  <2> QED
    BY <2>1, <2>2
<1> QED
  BY <1>1, <1>2 DEF TypeInv

\* A step that touches no thread keeps the invariant if it types the tables.
LEMMA TableStep ==
  ASSUME TypeInv,
         agent' \in [Agents -> AgentRow],
         runs' \in Seq(Run), RunIds' = RunIds,
         \A r \in RunIds : runs'[r].agent = runs[r].agent,
         up' \in BOOLEAN,
         poll' \subseteq Agents \X (Status \cup {"expired"}),
         UNCHANGED local
  PROVE  TypeInv'
<1>1. TypeOK'
  BY DEF TypeInv, TypeOK, local
<1>2. ThreadsOK'
  BY DEF TypeInv, ThreadsOK, local
<1> QED
  BY <1>1, <1>2 DEF TypeInv

\* Closing runs and freeing agents in one transaction types both tables.
LEMMA InterruptTypes ==
  ASSUME TypeOK, NEW R, Interrupt(R)
  PROVE  /\ agent' \in [Agents -> AgentRow]
         /\ runs' \in Seq(Run)
         /\ RunIds' = RunIds
         /\ \A r \in RunIds : runs'[r].agent = runs[r].agent
<1>1. "interrupted" \in RunStatus
  BY DEF RunStatus
<1> QED
  BY <1>1, ClosedRuns, FreedAgents DEF TypeOK, Interrupt, RunIds

\* The wake poller keeps the type invariant.
LEMMA PollerKeepsTypes ==
  ASSUME TypeInv, Poller
  PROVE  TypeInv'
<1> USE DEF TypeInv, TypeOK, db, local
<1>1. ASSUME SweepStaleRuns PROVE TypeInv'
  BY <1>1, InterruptTypes, TableStep DEF SweepStaleRuns
<1>2. ASSUME PollScan PROVE TypeInv'
  <2>1. poll' \subseteq Agents \X (Status \cup {"expired"})
    BY <1>2 DEF PollScan, Candidates, AgentRow
  <2> QED
    BY <1>2, <2>1, TableStep DEF PollScan, RunIds
<1>3. ASSUME NEW c \in poll, PollLurker(c) PROVE TypeInv'
  <2>1. agent' \in [Agents -> AgentRow]
    <3> DEFINE a == c[1]
               s == Write(c[2], "idle", agent[a].status)
    <3>1. a \in Agents /\ agent[a] \in AgentRow /\ s \in Status
      BY DEF Write, AgentRow, Status
    <3>2. agent' = [agent EXCEPT ![a].next = "later", ![a].status = s]
      BY <1>3, <3>1 DEF PollLurker, AgentRow
    <3> HIDE DEF a, s
    <3> DEFINE row == [agent[a] EXCEPT !.next = "later", !.status = s]
    <3>3. row \in AgentRow
      BY <3>1 DEF AgentRow
    <3>4. agent' = [agent EXCEPT ![a] = row]
      BY <3>1, <3>2
    <3> HIDE DEF row
    <3> QED
      BY <3>1, <3>3, <3>4
  <2>2. poll' \subseteq Agents \X (Status \cup {"expired"})
    BY <1>3 DEF PollLurker, Expired
  <2> QED
    BY <1>3, <2>1, <2>2, TableStep DEF PollLurker, RunIds
<1>4. ASSUME NEW c \in poll, PollDefer(c) PROVE TypeInv'
  <2>1. agent' \in [Agents -> AgentRow]
    <3> DEFINE a == c[1]
    <3>1. a \in Agents
      OBVIOUS
    <3>2. agent' = [agent EXCEPT ![a].next = "later"]
      BY <1>4 DEF PollDefer
    <3> HIDE DEF a
    <3> QED
      BY <3>1, <3>2 DEF AgentRow
  <2>2. poll' \subseteq Agents \X (Status \cup {"expired"})
    BY <1>4 DEF PollDefer, Expired
  <2> QED
    BY <1>4, <2>1, <2>2, TableStep DEF PollDefer, RunIds
<1>5. ASSUME NEW c \in poll, PollFull(c) PROVE TypeInv'
  BY <1>5, TableStep DEF PollFull, RunIds
<1>6. ASSUME NEW c \in poll, NEW t \in WakeSlots, PollDispatch(c, t) PROVE TypeInv'
  BY <1>6, ThreadStep DEF PollDispatch, Begin, Goto, RunIds, PC, Owning, Threads
<1> QED
  BY <1>1, <1>2, <1>3, <1>4, <1>5, <1>6 DEF Poller

\* A step of a thread t that writes neither table keeps the invariant if it
\* types the local state it writes.
LEMMA LocalStep ==
  ASSUME TypeInv, NEW t \in Threads, NEW q \in PC,
         UNCHANGED <<agent, runs, up, poll, who, persona, mine, tries>>,
         pc' = [pc EXCEPT ![t] = q],
         q # "insert",
         who[t] \in Agents,
         q \in Owning => mine[t] \in RunIds /\ runs[mine[t]].agent = who[t],
         seen' \in [Threads -> AgentRow]
  PROVE  TypeInv'
<1>1. RunIds' = RunIds
  BY DEF RunIds
<1>2. TypeOK'
  BY DEF TypeInv, TypeOK
<1>3. ThreadsOK'
  <2>1. pc \in [Threads -> PC]
    BY DEF TypeInv, TypeOK
  <2>2. \A o \in Threads \ {t} : pc'[o] = pc[o]
    BY <2>1
  <2>3. pc'[t] = q
    BY <2>1
  <2> QED
    BY <1>1, <2>2, <2>3 DEF TypeInv, ThreadsOK
<1> QED
  BY <1>2, <1>3 DEF TypeInv

\* Every step of a thread in run_once() keeps the type invariant.
LEMMA VisitKeepsTypes ==
  ASSUME TypeInv, NEW t \in Threads, Visit(t)
  PROVE  TypeInv'
<1> USE DEF TypeInv, TypeOK, db, RunIds
<1>a. pc[t] # "idle" => who[t] \in Agents
  BY DEF ThreadsOK
<1>b. pc[t] \in Owning => mine[t] \in RunIds /\ runs[mine[t]].agent = who[t]
  BY DEF ThreadsOK
<1>c. Row0 \in AgentRow
  BY DEF Row0, AgentRow, Status
<1>1. ASSUME Load(t) PROVE TypeInv'
  BY <1>1, <1>a, ThreadStep DEF Load, Goto, PC, Owning
<1>2. ASSUME Recover(t) PROVE TypeInv'
  <2>1. Interrupt(OverdueRuns \cap LiveRuns(who[t]))
    BY <1>2 DEF Recover
  <2>2. /\ agent' \in [Agents -> AgentRow]
        /\ runs' \in Seq(Run)
        /\ RunIds' = RunIds
        /\ \A r \in RunIds : runs'[r].agent = runs[r].agent
    BY <2>1, InterruptTypes
  <2>3. seen' \in [Threads -> AgentRow]
    BY <1>2, <1>a, <1>c, <2>2 DEF Recover, Forget
  <2>4. CASE Goto(t, "raised")
    BY <1>2, <1>a, <2>2, <2>3, <2>4, ThreadStep DEF Recover, Goto, PC, Owning
  <2>5. CASE Goto(t, "select")
    BY <1>2, <1>a, <2>2, <2>3, <2>5, ThreadStep DEF Recover, Goto, PC, Owning
  <2> QED
    BY <1>2, <2>4, <2>5 DEF Recover
<1>3. ASSUME Select(t) PROVE TypeInv'
  <2>1. \A p \in Picks(who[t]) : p \in Personas
    BY <1>3, <1>a, PicksArePersonas DEF Select
  <2>2. CASE Goto(t, "refused") /\ UNCHANGED persona
    BY <1>3, <1>a, <2>2, ThreadStep DEF Select, Goto, PC, Owning
  <2>3. ASSUME NEW p \in Picks(who[t]), Goto(t, "insert"),
               persona' = [persona EXCEPT ![t] = p]
        PROVE  TypeInv'
    BY <1>3, <1>a, <2>1, <2>3, ThreadStep DEF Select, Goto, PC, Owning
  <2> QED
    BY <1>3, <2>2, <2>3 DEF Select
<1>4. ASSUME Insert(t) PROVE TypeInv'
  <2> DEFINE a == who[t]
             s == Write(seen[t].status, "running", agent[a].status)
             row == [agent |-> a, persona |-> persona[t],
                     status |-> "running", overdue |-> FALSE]
  <2>1. a \in Agents /\ persona[t] \in Personas /\ s \in Status
    BY <1>4, <1>a DEF Insert, ThreadsOK, Write, AgentRow, Status
  <2>2. agent' \in [Agents -> AgentRow]
    <3>1. agent' = [agent EXCEPT ![a].status = s]
      BY <1>4 DEF Insert
    <3> HIDE DEF a, s
    <3> QED
      BY <2>1, <3>1 DEF AgentRow
  <2>3. row \in Run /\ row.agent = a
    BY <2>1 DEF Run, RunStatus
  <2>4. runs' = Append(runs, row) /\ Len(runs) \in Nat
    BY <1>4, RunsAreRows DEF Insert
  <2>5. /\ runs' \in Seq(Run)
        /\ RunIds' = 1..(Len(runs) + 1)
        /\ RunIds \subseteq RunIds'
        /\ \A r \in RunIds : runs'[r].agent = runs[r].agent
        /\ runs'[Len(runs) + 1].agent = a
    <3> HIDE DEF a, row
    <3> QED
      BY <2>3, <2>4
  <2>6. /\ pc' = [pc EXCEPT ![t] = "visit"]
        /\ mine' = [mine EXCEPT ![t] = Len(runs) + 1]
        /\ persona' = [persona EXCEPT ![t] = None]
        /\ tries' = [tries EXCEPT ![t] = 0]
        /\ seen' = [seen EXCEPT ![t] = Row0]
        /\ UNCHANGED <<up, poll, who>>
    BY <1>4 DEF Insert, Goto, Forget
  <2>7. mine'[t] \in RunIds' /\ runs'[mine'[t]].agent = a /\ mine'[t] \in Nat
    BY <2>4, <2>5, <2>6
  <2> HIDE DEF s, row
  <2> QED
    BY <1>c, <2>1, <2>2, <2>5, <2>6, <2>7, ThreadStep DEF PC, Owning
<1>5. ASSUME InsertRefused(t) PROVE TypeInv'
  <2> DEFINE next == IF LiveRuns(who[t]) # {} \/ tries[t] + 1 = Attempts
                     THEN "refused" ELSE "select"
  <2>1. next \in {"refused", "select"} /\ Goto(t, next)
    BY <1>5 DEF InsertRefused
  <2>2. who[t] \in Agents /\ agent[who[t]] \in AgentRow /\ tries[t] + 1 \in Nat
    BY <1>5, <1>a DEF InsertRefused
  <2>3. /\ seen' = [seen EXCEPT ![t] = agent[who[t]]]
        /\ persona' = [persona EXCEPT ![t] = None]
        /\ tries' = [tries EXCEPT ![t] = tries[t] + 1]
        /\ UNCHANGED <<agent, runs, up, poll, who, mine>>
    BY <1>5 DEF InsertRefused
  <2> HIDE DEF next
  <2> QED
    BY <2>1, <2>2, <2>3, ThreadStep DEF Goto, PC, Owning
<1>6. ASSUME Refused(t) PROVE TypeInv'
  <2>1. seen' \in [Threads -> AgentRow]
    BY <1>6, <1>c DEF Refused, Forget
  <2>2. CASE Goto(t, "exhausted")
    BY <1>6, <1>a, <2>1, <2>2, ThreadStep DEF Refused, Goto, PC, Owning
  <2>3. CASE Goto(t, "raised")
    BY <1>6, <1>a, <2>1, <2>3, ThreadStep DEF Refused, Goto, PC, Owning
  <2> QED
    BY <1>6, <2>2, <2>3 DEF Refused
<1>7. ASSUME BackOffExhausted(t) PROVE TypeInv'
  <2>1. agent' \in [Agents -> AgentRow]
    <3> DEFINE a == who[t]
               s == Write(seen[t].status, "error", agent[a].status)
               n == IF seen[t].enabled THEN "later" ELSE agent[a].next
    <3>1. /\ a \in Agents /\ agent[a] \in AgentRow
          /\ s \in Status /\ n \in {"none", "later", "due"}
      BY <1>7, <1>a DEF BackOffExhausted, Write, AgentRow, Status
    <3>2. agent' = [agent EXCEPT ![a].status = s, ![a].next = n]
      BY <1>7, <3>1 DEF BackOffExhausted, AgentRow
    <3> HIDE DEF a, s, n
    <3> DEFINE row == [agent[a] EXCEPT !.status = s, !.next = n]
    <3>3. row \in AgentRow
      BY <3>1 DEF AgentRow
    <3>4. agent' = [agent EXCEPT ![a] = row]
      BY <3>1, <3>2
    <3> HIDE DEF row
    <3> QED
      BY <3>1, <3>3, <3>4
  <2> QED
    BY <1>7, <1>a, <1>c, <2>1, ThreadStep DEF BackOffExhausted, Goto, Forget, PC, Owning
<1>8. ASSUME VisitEnds(t) PROVE TypeInv'
  <2>1. PICK next \in {"finish", "fail", "strike"} : pc' = [pc EXCEPT ![t] = next]
    BY <1>8 DEF VisitEnds, Goto
  <2>2. UNCHANGED <<agent, runs, up, poll, who, persona, mine, seen, tries>>
    BY <1>8 DEF VisitEnds
  <2>3. /\ who[t] \in Agents
        /\ mine[t] \in RunIds /\ runs[mine[t]].agent = who[t]
    BY <1>8, <1>a, <1>b DEF VisitEnds, Owning
  <2>4. next \in PC /\ next # "insert"
    BY DEF PC
  <2> QED
    BY <2>1, <2>2, <2>3, <2>4, LocalStep
<1>9. ASSUME VisitAbandoned(t) PROVE TypeInv'
  BY <1>9, <1>a, ThreadStep DEF VisitAbandoned, Goto, PC, Owning
<1>10. ASSUME FinishRead(t) PROVE TypeInv'
  <2>1. who[t] \in Agents /\ agent[who[t]] \in AgentRow
    BY <1>10, <1>a DEF FinishRead
  <2>2. UNCHANGED <<agent, runs, up, poll, who, persona, mine, tries>>
    BY <1>10 DEF FinishRead
  <2>3. CASE Live(mine[t])
    <3>1. /\ pc' = [pc EXCEPT ![t] = "complete"]
          /\ seen' = [seen EXCEPT ![t] = agent[who[t]]]
      BY <1>10, <2>3 DEF FinishRead, Goto
    <3>2. mine[t] \in RunIds /\ runs[mine[t]].agent = who[t]
      BY <1>10, <1>b DEF FinishRead, Owning
    <3>3. seen' \in [Threads -> AgentRow]
      BY <2>1, <3>1
    <3>4. "complete" \in PC
      BY DEF PC
    <3> QED
      BY <2>1, <2>2, <3>1, <3>2, <3>3, <3>4, LocalStep
  <2>4. CASE ~ Live(mine[t])
    <3>1. pc' = [pc EXCEPT ![t] = "returned"] /\ UNCHANGED seen
      BY <1>10, <2>4 DEF FinishRead, Goto
    <3>2. "returned" \in PC \ Owning
      BY DEF PC, Owning
    <3> QED
      BY <2>1, <2>2, <3>1, <3>2, LocalStep
  <2> QED
    BY <2>3, <2>4
<1>11. ASSUME FinishWrite(t) PROVE TypeInv'
  <2>1. who[t] \in Agents /\ agent[who[t]] \in AgentRow /\ seen[t] \in AgentRow
    BY <1>11, <1>a DEF FinishWrite
  <2>2. AfterVisit(seen[t], agent[who[t]]) \in AgentRow
    BY <2>1, RowsAfterVisits
  <2>3. /\ agent' \in [Agents -> AgentRow]
        /\ runs' \in Seq(Run)
        /\ RunIds' = RunIds
        /\ \A r \in RunIds : runs'[r].agent = runs[r].agent
    <3> "completed" \in RunStatus
      BY DEF RunStatus
    <3>1. CASE Live(mine[t])
      <4>1. /\ runs' = Closed({mine[t]}, "completed")
            /\ agent' = [agent EXCEPT ![who[t]] = AfterVisit(seen[t], agent[who[t]])]
        BY <1>11, <3>1 DEF FinishWrite
      <4>2. agent' \in [Agents -> AgentRow]
        BY <2>1, <2>2, <4>1
      <4> QED
        BY <4>1, <4>2, ClosedRuns
    <3>2. CASE ~ Live(mine[t])
      BY <1>11, <3>2 DEF FinishWrite
    <3> QED
      BY <3>1, <3>2
  <2>4. /\ pc' = [pc EXCEPT ![t] = "returned"]
        /\ seen' = [seen EXCEPT ![t] = Row0]
        /\ UNCHANGED <<up, poll, who, persona, mine, tries>>
    BY <1>11 DEF FinishWrite, Goto, Forget
  <2> QED
    BY <1>c, <2>1, <2>3, <2>4, ThreadStep DEF PC, Owning
<1>12. ASSUME Fail(t) PROVE TypeInv'
  <2>1. who[t] \in Agents /\ agent[who[t]] \in AgentRow
    BY <1>12, <1>a DEF Fail
  <2>2. AfterFailure(agent[who[t]], pc[t] = "strike") \in AgentRow
    BY <2>1, RowsAfterVisits
  <2>3. /\ agent' \in [Agents -> AgentRow]
        /\ runs' \in Seq(Run)
        /\ RunIds' = RunIds
        /\ \A r \in RunIds : runs'[r].agent = runs[r].agent
    <3> "failed" \in RunStatus
      BY DEF RunStatus
    <3>1. CASE Live(mine[t])
      <4>1. /\ runs' = Closed({mine[t]}, "failed")
            /\ agent' = [agent EXCEPT ![who[t]] = AfterFailure(agent[who[t]], pc[t] = "strike")]
        BY <1>12, <3>1 DEF Fail
      <4>2. agent' \in [Agents -> AgentRow]
        BY <2>1, <2>2, <4>1
      <4> QED
        BY <4>1, <4>2, ClosedRuns
    <3>2. CASE ~ Live(mine[t])
      BY <1>12, <3>2 DEF Fail
    <3> QED
      BY <3>1, <3>2
  <2>4. /\ pc' = [pc EXCEPT ![t] = "returned"]
        /\ UNCHANGED <<up, poll, who, persona, mine, seen, tries>>
    BY <1>12 DEF Fail, Goto
  <2> QED
    BY <2>1, <2>3, <2>4, ThreadStep DEF PC, Owning
<1>13. ASSUME WakeEnds(t) PROVE TypeInv'
  <2>1. agent' \in [Agents -> AgentRow]
    <3>1. who[t] \in Agents /\ agent[who[t]] \in AgentRow
      BY <1>13, <1>a DEF WakeEnds
    <3>2. [agent[who[t]] EXCEPT !.next = "later"] \in AgentRow
      BY <3>1 DEF AgentRow
    <3>3. CASE pc[t] = "raised"
      BY <1>13, <3>1, <3>2, <3>3 DEF WakeEnds
    <3>4. CASE pc[t] # "raised"
      BY <1>13, <3>4 DEF WakeEnds
    <3> QED
      BY <3>3, <3>4
  <2> QED
    BY <1>13, <1>c, <2>1, ThreadStep DEF WakeEnds, Quit, Goto, PC, Owning
<1> QED
  BY <1>1, <1>2, <1>3, <1>4, <1>5, <1>6, <1>7, <1>8, <1>9, <1>10, <1>11,
     <1>12, <1>13 DEF Visit

\* The start and the end of a manual visit keep the type invariant.
LEMMA ManualKeepsTypes ==
  ASSUME TypeInv, NEW t \in ManualThreads,
         ManualEnds(t) \/ \E a \in Agents : ManualStart(t, a)
  PROVE  TypeInv'
<1> USE DEF TypeInv, TypeOK, db, RunIds, Threads
<1>1. Row0 \in AgentRow
  BY DEF Row0, AgentRow, Status
<1>2. CASE ManualEnds(t)
  BY <1>1, <1>2, ThreadStep DEF ManualEnds, Quit, Goto, PC, Owning
<1>3. ASSUME NEW a \in Agents, ManualStart(t, a) PROVE TypeInv'
  BY <1>3, ThreadStep DEF ManualStart, Begin, Goto, PC, Owning
<1> QED
  BY <1>2, <1>3

\* The rows the administrator's switches write are agent rows.
LEMMA AdminRows ==
  ASSUME NEW row \in AgentRow
  PROVE  /\ Disabled(row) \in AgentRow /\ ~ Disabled(row).enabled
         /\ Disabled(row).status = "idle" /\ Disabled(row).failures = row.failures
         /\ Enabled(row) \in AgentRow /\ Enabled(row).failures = 0
         /\ Enabled(row).status = row.status /\ Enabled(row).enabled
BY DEF Disabled, Enabled, AgentRow, Status

\* What a request of the administrator may write.
LEMMA AdminWrites ==
  ASSUME TypeOK, Admin
  PROVE  /\ UNCHANGED <<runs, up, poll, local>>
         /\ agent' \in [Agents -> AgentRow]
         /\ \A a \in Agents :
              /\ agent'[a].status = "running" => agent[a].status = "running"
              /\ agent'[a].status # agent[a].status /\ agent[a].status = "running"
                   => agent[a].enabled /\ ~ agent'[a].enabled
              /\ \/ ~ agent'[a].enabled
                 \/ agent'[a].failures = 0
                 \/ agent'[a].failures = agent[a].failures /\ agent'[a].enabled = agent[a].enabled
<1> USE DEF TypeOK
<1>1. CASE AdminPauseAll
  BY <1>1, AdminRows DEF AdminPauseAll
<1>2. CASE AdminStartAll
  BY <1>2, AdminRows DEF AdminStartAll
<1>3. ASSUME NEW b \in Agents, AdminToggle(b)
      PROVE  agent' = [agent EXCEPT ![b] = agent'[b]] /\ UNCHANGED <<runs, up, poll, local>>
             /\ agent'[b] = IF agent[b].enabled THEN Disabled(agent[b]) ELSE Enabled(agent[b])
  BY <1>3 DEF AdminToggle
<1>4. ASSUME NEW b \in Agents, AdminSwitchOff(b)
      PROVE  /\ UNCHANGED <<runs, up, poll, local>>
             /\ agent' = [agent EXCEPT ![b] = agent'[b]]
             /\ agent'[b] \in AgentRow /\ ~ agent'[b].enabled
             /\ agent'[b].status = IF agent[b].status = "running" THEN "running" ELSE "idle"
  <2> DEFINE st == IF agent[b].status = "running" THEN "running" ELSE "idle"
             d == Disabled(agent[b])
  <2>1. d \in AgentRow /\ ~ d.enabled /\ st \in Status
    BY AdminRows DEF Status
  <2>2. /\ agent' = [agent EXCEPT ![b] = [d EXCEPT !.status = st]]
        /\ UNCHANGED <<runs, up, poll, local>>
    BY <1>4 DEF AdminSwitchOff
  <2> HIDE DEF d
  <2> QED
    BY <2>1, <2>2 DEF AgentRow
<1>5. ASSUME NEW b \in Agents, AdminResetStatus(b)
      PROVE  /\ UNCHANGED <<runs, up, poll, local>>
             /\ agent' = [agent EXCEPT ![b] = agent'[b]]
             /\ agent'[b] \in AgentRow /\ agent'[b].failures = 0
             /\ agent'[b].status = IF agent[b].status = "running" THEN "running" ELSE "idle"
  <2> DEFINE st == IF agent[b].status = "running" THEN "running" ELSE "idle"
             n == IF agent[b].enabled THEN "due" ELSE agent[b].next
             row == [agent[b] EXCEPT !.failures = 0, !.status = st, !.next = n]
  <2>1. st \in Status /\ n \in {"none", "later", "due"} /\ agent[b] \in AgentRow
    BY DEF AgentRow, Status
  <2>2. /\ agent' = [agent EXCEPT ![b].failures = 0, ![b].status = st, ![b].next = n]
        /\ UNCHANGED <<runs, up, poll, local>>
    BY <1>5, <2>1 DEF AdminResetStatus, AgentRow
  <2>3. row \in AgentRow /\ row.failures = 0 /\ row.status = st
    <3> HIDE DEF st, n
    <3> QED
      BY <2>1 DEF AgentRow
  <2>4. agent' = [agent EXCEPT ![b] = row]
    BY <2>1, <2>2
  <2> HIDE DEF n, row
  <2> QED
    BY <2>2, <2>3, <2>4
<1>6. CASE \E b \in Agents : AdminToggle(b)
  <2>1. PICK b \in Agents : AdminToggle(b)
    BY <1>6
  <2>2. agent[b] \in AgentRow
    OBVIOUS
  <2>3. /\ Disabled(agent[b]) \in AgentRow /\ ~ Disabled(agent[b]).enabled
        /\ Disabled(agent[b]).status = "idle"
        /\ Enabled(agent[b]) \in AgentRow /\ Enabled(agent[b]).failures = 0
        /\ Enabled(agent[b]).status = agent[b].status
    BY <2>2, AdminRows
  <2>4. UNCHANGED <<runs, up, poll, local>>
    BY <1>3, <2>1
  <2> DEFINE off == Disabled(agent[b])
             on == Enabled(agent[b])
  <2>5. \/ agent[b].enabled /\ agent' = [agent EXCEPT ![b] = off]
        \/ agent' = [agent EXCEPT ![b] = on]
    BY <1>3, <2>1
  <2>6. /\ off \in AgentRow /\ ~ off.enabled /\ off.status = "idle"
        /\ on \in AgentRow /\ on.failures = 0 /\ on.status = agent[b].status
    BY <2>3
  <2> HIDE DEF off, on
  <2>7. CASE agent[b].enabled /\ agent' = [agent EXCEPT ![b] = off]
    BY <2>4, <2>6, <2>7
  <2>8. CASE agent' = [agent EXCEPT ![b] = on]
    BY <2>4, <2>6, <2>8
  <2> QED
    BY <2>5, <2>7, <2>8
<1>7. CASE \E b \in Agents : AdminSwitchOff(b)
  BY <1>4, <1>7
<1>8. CASE \E b \in Agents : AdminResetStatus(b)
  BY <1>5, <1>8
<1> QED
  BY <1>1, <1>2, <1>6, <1>7, <1>8 DEF Admin

\* What time and the worker process may do.
LEMMA TimeKeepsTypes ==
  ASSUME TypeInv, Time
  PROVE  TypeInv'
<1> USE DEF TypeInv, TypeOK
<1>1. ASSUME NEW a \in Agents, WakeFallsDue(a) PROVE TypeInv'
  <2>1. agent' \in [Agents -> AgentRow]
    BY <1>1 DEF WakeFallsDue, AgentRow
  <2> QED
    BY <1>1, <2>1, TableStep DEF WakeFallsDue, RunIds
<1>2. ASSUME NEW r \in RunIds, RunFallsOverdue(r) PROVE TypeInv'
  <2>1. runs[r] \in Run /\ r \in 1..Len(runs)
    BY RunsAreRows
  <2>2. [runs[r] EXCEPT !.overdue = TRUE] \in Run
    BY <2>1 DEF Run
  <2>3. runs' = [runs EXCEPT ![r] = [runs[r] EXCEPT !.overdue = TRUE]]
    BY <1>2 DEF RunFallsOverdue
  <2>4. /\ runs' \in Seq(Run) /\ RunIds' = RunIds
        /\ \A q \in RunIds : runs'[q].agent = runs[q].agent
    BY <2>1, <2>2, <2>3, ExceptSeq DEF RunIds, Run
  <2> QED
    BY <1>2, <2>4, TableStep DEF RunFallsOverdue
<1> QED
  BY <1>1, <1>2 DEF Time

\* A crash of the worker keeps the type invariant.
LEMMA CrashKeepsTypes ==
  ASSUME TypeInv, NEW lanes \in SUBSET ManualThreads, Crash(lanes)
  PROVE  TypeInv'
<1> USE DEF TypeInv, TypeOK
<1>1. Row0 \in AgentRow
  BY DEF Row0, AgentRow, Status
<1>2. TypeOK'
  BY <1>1 DEF Crash, db, PC
<1>3. ThreadsOK'
  BY DEF Crash, db, ThreadsOK, Owning, RunIds
<1> QED
  BY <1>2, <1>3

\* A restart interrupts overdue runs, frees their agents, and may arm agents.
LEMMA RestartWrites ==
  ASSUME TypeOK, Restart
  PROVE  /\ runs' = Closed(OverdueRuns, "interrupted")
         /\ agent' \in [Agents -> AgentRow]
         /\ UNCHANGED <<poll, local>> /\ up' = TRUE
         /\ \A a \in Agents :
              LET freed == Freed({runs[r].agent : r \in OverdueRuns})[a]
              IN  /\ agent'[a].status = freed.status
                  /\ agent'[a].enabled = freed.enabled
                  /\ agent'[a].failures = freed.failures
<1> DEFINE freed == Freed({runs[r].agent : r \in OverdueRuns})
<1>1. freed \in [Agents -> AgentRow]
  BY FreedAgents DEF TypeOK
<1>2. /\ runs' = Closed(OverdueRuns, "interrupted")
      /\ UNCHANGED <<poll, local>> /\ up' = TRUE
      /\ \/ agent' = freed
         \/ agent' = [a \in Agents |->
                        IF freed[a].enabled /\ freed[a].next = "none"
                        THEN [freed[a] EXCEPT !.next = "due"] ELSE freed[a]]
  BY DEF Restart
<1> HIDE DEF freed
<1>3. /\ agent' \in [Agents -> AgentRow]
      /\ \A a \in Agents : /\ agent'[a].status = freed[a].status
                           /\ agent'[a].enabled = freed[a].enabled
                           /\ agent'[a].failures = freed[a].failures
  BY <1>1, <1>2 DEF AgentRow
<1> QED
  BY <1>2, <1>3 DEF freed

\* The type invariant holds of an empty agent_run table.
LEMMA TypeInit == Init => TypeInv
<1> SUFFICES ASSUME Init PROVE TypeInv
  OBVIOUS
<1>1. Row0 \in AgentRow /\ [Row0 EXCEPT !.enabled = TRUE, !.next = "due"] \in AgentRow
  BY DEF Row0, AgentRow, Status
<1>2. runs \in Seq(Run)
  BY EmptySeq DEF Init
<1>3. TypeOK
  BY <1>1, <1>2 DEF Init, TypeOK, PC
<1>4. ThreadsOK
  BY DEF Init, ThreadsOK, Owning
<1> QED
  BY <1>3, <1>4 DEF TypeInv

\* The type invariant is inductive.
LEMMA TypeStep == TypeInv /\ [Next]_vars => TypeInv'
<1> SUFFICES ASSUME TypeInv, [Next]_vars PROVE TypeInv'
  OBVIOUS
<1> USE DEF TypeInv
<1>1. CASE Poller
  BY <1>1, PollerKeepsTypes
<1>2. CASE \E t \in Threads : Visit(t)
  BY <1>2, VisitKeepsTypes
<1>3. CASE \E t \in ManualThreads : ManualEnds(t) \/ \E a \in Agents : ManualStart(t, a)
  BY <1>3, ManualKeepsTypes
<1>4. CASE Admin
  BY <1>4, AdminWrites, TableStep DEF TypeOK, RunIds
<1>5. CASE Time
  BY <1>5, TimeKeepsTypes
<1>6. CASE \E lanes \in SUBSET ManualThreads : Crash(lanes)
  BY <1>6, CrashKeepsTypes
<1>7. CASE Restart
  <2>1. "interrupted" \in RunStatus
    BY DEF RunStatus
  <2>2. /\ runs' = Closed(OverdueRuns, "interrupted")
        /\ agent' \in [Agents -> AgentRow]
        /\ UNCHANGED <<poll, local>> /\ up' = TRUE
    BY <1>7, RestartWrites
  <2>3. /\ runs' \in Seq(Run) /\ RunIds' = RunIds
        /\ \A r \in RunIds : runs'[r].agent = runs[r].agent
    BY <2>1, <2>2, ClosedRuns DEF TypeOK, RunIds
  <2> QED
    BY <2>2, <2>3, TableStep DEF TypeOK
<1>8. CASE UNCHANGED vars
  BY <1>8, TableStep DEF vars, local, TypeOK, RunIds
<1> QED
  BY <1>1, <1>2, <1>3, <1>4, <1>5, <1>6, <1>7, <1>8 DEF Next

\* Every column and every thread's variable stays in its domain: in particular
\* no step indexes the agent table with a thread that serves nobody.
THEOREM TypeCorrect == Spec => []TypeOK
<1>1. Spec => []TypeInv
  BY TypeInit, TypeStep, PTL DEF Spec
<1>2. TypeInv => TypeOK
  BY DEF TypeInv
<1> QED
  BY <1>1, <1>2, PTL

-----------------------------------------------------------------------------
(* The kinds of steps, by what they do to the two tables *)

SameStanding(a) ==
  /\ agent'[a].status = agent[a].status
  /\ agent'[a].enabled = agent[a].enabled
  /\ agent'[a].failures = agent[a].failures

\* Threads, the poller's reads and the cadence: no run, no status.
QuietStep == runs' = runs /\ \A a \in Agents : SameStanding(a)

\* A run falls overdue.
AgeStep ==
  /\ agent' = agent
  /\ RunIds' = RunIds
  /\ \A r \in RunIds :
       /\ runs'[r].agent = runs[r].agent
       /\ runs'[r].persona = runs[r].persona
       /\ runs'[r].status = runs[r].status
       /\ ~ Live(r) => runs'[r] = runs[r]

\* The sweep of the tick, of a reservation or of a restart.
SweepStep ==
  \E R \in SUBSET OverdueRuns :
    /\ runs' = Closed(R, "interrupted")
    /\ \A a \in Agents :
         LET freed == Freed({runs[r].agent : r \in R})[a]
         IN  /\ agent'[a].status = freed.status
             /\ agent'[a].enabled = freed.enabled
             /\ agent'[a].failures = freed.failures

\* A status written from a row that was read earlier; never "running".
StaleStep ==
  /\ runs' = runs
  /\ \A a \in Agents :
       /\ agent'[a].enabled = agent[a].enabled
       /\ agent'[a].failures = agent[a].failures
       /\ agent'[a].status # agent[a].status =>
            /\ agent'[a].status # "running"
            /\ \/ a \in Lurkers
               \/ \E t \in Threads : pc[t] = "exhausted" /\ pc'[t] # pc[t]

\* A visit ends with its run still its own.
EndStep(t) ==
  /\ pc[t] \in {"complete", "fail", "strike"}
  /\ Live(mine[t])
  /\ \E s \in RunStatus \ {"running"} : runs' = Closed({mine[t]}, s)
  /\ agent' = [agent EXCEPT ![who[t]] =
                 IF pc[t] = "complete" THEN AfterVisit(seen[t], agent[who[t]])
                 ELSE AfterFailure(agent[who[t]], pc[t] = "strike")]

StepKind ==
  \/ QuietStep
  \/ AgeStep
  \/ SweepStep
  \/ StaleStep
  \/ Admin
  \/ \E t \in Threads : Insert(t)
  \/ \E t \in Threads : EndStep(t)

\* Interrupting overdue runs is a step of kind SweepStep.
LEMMA InterruptIsSweep ==
  ASSUME TypeOK, NEW R \in SUBSET OverdueRuns, Interrupt(R)
  PROVE  SweepStep
BY DEF SweepStep, Interrupt

\* The poller sweeps, writes a lurker's status it read earlier, moves a cadence,
\* or starts a thread.
LEMMA PollerKinds ==
  ASSUME TypeInv, Poller
  PROVE  StepKind
<1> USE DEF TypeInv, TypeOK, db
<1>1. CASE SweepStaleRuns
  BY <1>1, InterruptIsSweep DEF SweepStaleRuns, StepKind
<1>2. CASE PollScan
  BY <1>2 DEF PollScan, StepKind, QuietStep, SameStanding
<1>3. ASSUME NEW c \in poll, PollLurker(c) PROVE StepKind
  <2> DEFINE b == c[1]
             s == Write(c[2], "idle", agent[b].status)
  <2>1. b \in Agents /\ b \in Lurkers /\ s \in {"idle", agent[b].status}
    BY <1>3 DEF PollLurker, Write
  <2>2. agent' = [agent EXCEPT ![b].next = "later", ![b].status = s] /\ runs' = runs
    BY <1>3, <2>1 DEF PollLurker, AgentRow
  <2> HIDE DEF b, s
  <2>3. StaleStep
    BY <2>1, <2>2 DEF StaleStep, AgentRow
  <2> QED
    BY <2>3 DEF StepKind
<1>4. ASSUME NEW c \in poll, PollDefer(c) PROVE StepKind
  <2>1. QuietStep
    BY <1>4 DEF PollDefer, QuietStep, SameStanding, AgentRow
  <2> QED
    BY <2>1 DEF StepKind
<1>5. ASSUME NEW c \in poll, PollFull(c) PROVE StepKind
  BY <1>5 DEF PollFull, StepKind, QuietStep, SameStanding
<1>6. ASSUME NEW c \in poll, NEW t \in WakeSlots, PollDispatch(c, t) PROVE StepKind
  BY <1>6 DEF PollDispatch, StepKind, QuietStep, SameStanding
<1> QED
  BY <1>1, <1>2, <1>3, <1>4, <1>5, <1>6 DEF Poller

\* The steps of a thread, sorted by what they do to the two tables.
LEMMA VisitKinds ==
  ASSUME TypeInv, NEW t \in Threads, Visit(t)
  PROVE  StepKind
<1> USE DEF TypeInv, TypeOK, db
<1>a. pc[t] # "idle" => who[t] \in Agents
  BY DEF ThreadsOK
<1>1. CASE UNCHANGED db
  BY <1>1 DEF StepKind, QuietStep, SameStanding
<1>2. CASE Load(t) \/ Select(t) \/ InsertRefused(t) \/ Refused(t) \/ VisitEnds(t)
           \/ VisitAbandoned(t) \/ FinishRead(t)
  BY <1>1, <1>2 DEF Load, Select, InsertRefused, Refused, VisitEnds, VisitAbandoned, FinishRead
<1>3. CASE Recover(t)
  <2>1. /\ Interrupt(OverdueRuns \cap LiveRuns(who[t]))
        /\ OverdueRuns \cap LiveRuns(who[t]) \in SUBSET OverdueRuns
    BY <1>3 DEF Recover
  <2> QED
    BY <2>1, InterruptIsSweep DEF StepKind
<1>4. CASE Insert(t)
  BY <1>4 DEF StepKind
<1>5. CASE BackOffExhausted(t)
  <2> DEFINE a == who[t]
             s == Write(seen[t].status, "error", agent[a].status)
             n == IF seen[t].enabled THEN "later" ELSE agent[a].next
  <2>1. a \in Agents /\ s \in {"error", agent[a].status}
    BY <1>5, <1>a DEF BackOffExhausted, Write
  <2>2. agent' = [agent EXCEPT ![a].status = s, ![a].next = n] /\ runs' = runs
    BY <1>5, <2>1 DEF BackOffExhausted, AgentRow
  <2>3. pc[t] = "exhausted" /\ pc'[t] # pc[t]
    BY <1>5 DEF BackOffExhausted, Goto
  <2> HIDE DEF a, s, n
  <2>4. StaleStep
    BY <2>1, <2>2, <2>3 DEF StaleStep, AgentRow
  <2> QED
    BY <2>4 DEF StepKind
<1>6. CASE FinishWrite(t)
  <2>1. CASE Live(mine[t])
    <3>1. EndStep(t)
      BY <1>6, <2>1 DEF FinishWrite, EndStep, RunStatus
    <3> QED
      BY <3>1 DEF StepKind
  <2> QED
    BY <1>1, <1>6, <2>1 DEF FinishWrite
<1>7. CASE Fail(t)
  <2>1. CASE Live(mine[t])
    <3>1. EndStep(t)
      BY <1>7, <2>1 DEF Fail, EndStep, RunStatus
    <3> QED
      BY <3>1 DEF StepKind
  <2> QED
    BY <1>1, <1>7, <2>1 DEF Fail
<1>8. CASE WakeEnds(t)
  <2>1. QuietStep
    BY <1>8 DEF WakeEnds, QuietStep, SameStanding, AgentRow
  <2> QED
    BY <2>1 DEF StepKind
<1> QED
  BY <1>2, <1>3, <1>4, <1>5, <1>6, <1>7, <1>8 DEF Visit

\* Every step of the specification is of one of the kinds.
LEMMA Kinds ==
  ASSUME TypeInv, [Next]_vars
  PROVE  StepKind
<1> USE DEF TypeInv, TypeOK, db
<1>1. CASE UNCHANGED db
  BY <1>1 DEF StepKind, QuietStep, SameStanding
<1>2. CASE Poller
  BY <1>2, PollerKinds
<1>3. CASE \E t \in Threads : Visit(t)
  BY <1>3, VisitKinds
<1>4. CASE \E t \in ManualThreads : ManualEnds(t) \/ \E a \in Agents : ManualStart(t, a)
  BY <1>1, <1>4 DEF ManualEnds, ManualStart
<1>5. CASE Admin
  BY <1>5 DEF StepKind
<1>6. ASSUME NEW a \in Agents, WakeFallsDue(a) PROVE StepKind
  <2>1. QuietStep
    BY <1>6 DEF WakeFallsDue, QuietStep, SameStanding, AgentRow
  <2> QED
    BY <2>1 DEF StepKind
<1>7. ASSUME NEW r \in RunIds, RunFallsOverdue(r) PROVE StepKind
  <2>1. AgeStep
    BY <1>7, RunsAreRows DEF RunFallsOverdue, AgeStep, RunIds, Run
  <2> QED
    BY <2>1 DEF StepKind
<1>8. CASE \E lanes \in SUBSET ManualThreads : Crash(lanes)
  BY <1>1, <1>8 DEF Crash
<1>9. CASE Restart
  <2>1. SweepStep
    BY <1>9, RestartWrites DEF SweepStep
  <2> QED
    BY <2>1 DEF StepKind
<1>10. CASE UNCHANGED vars
  BY <1>1, <1>10 DEF vars
<1> QED
  BY <1>2, <1>3, <1>4, <1>5, <1>6, <1>7, <1>8, <1>9, <1>10 DEF Next, Time

-----------------------------------------------------------------------------
(* Runs *)

\* A step either inserts a run or leaves every row in place, and never changes
\* a row that has an outcome.
LEMMA RunsStep ==
  ASSUME TypeInv, StepKind
  PROVE  /\ RunIds \subseteq RunIds'
         /\ \A r \in RunIds :
              /\ runs'[r].agent = runs[r].agent
              /\ runs'[r].persona = runs[r].persona
              /\ ~ Live(r) => runs'[r] = runs[r]
         /\ \/ RunIds' = RunIds
            \/ \E t \in Threads : Insert(t)
<1> USE DEF TypeInv, TypeOK
<1>1. CASE QuietStep \/ AgeStep
  BY <1>1 DEF QuietStep, AgeStep, RunIds
<1>2. CASE StaleStep \/ Admin
  BY <1>2, AdminWrites DEF StaleStep, RunIds
<1>3. CASE SweepStep
  <2>1. PICK R \in SUBSET OverdueRuns : runs' = Closed(R, "interrupted")
    BY <1>3 DEF SweepStep
  <2>2. \A r \in RunIds : ~ Live(r) => r \notin R
    BY <2>1 DEF OverdueRuns
  <2>3. "interrupted" \in RunStatus
    BY DEF RunStatus
  <2> QED
    BY <2>1, <2>2, <2>3, ClosedRuns DEF RunIds
<1>4. ASSUME NEW t \in Threads, EndStep(t)
      PROVE  /\ RunIds' = RunIds
             /\ \A r \in RunIds :
                  /\ runs'[r].agent = runs[r].agent
                  /\ runs'[r].persona = runs[r].persona
                  /\ ~ Live(r) => runs'[r] = runs[r]
  <2>1. PICK s \in RunStatus : runs' = Closed({mine[t]}, s)
    BY <1>4 DEF EndStep
  <2>2. \A r \in RunIds : ~ Live(r) => r \notin {mine[t]}
    BY <1>4 DEF EndStep
  <2> QED
    BY <2>1, <2>2, ClosedRuns DEF RunIds
<1>5. ASSUME NEW t \in Threads, Insert(t)
      PROVE  /\ RunIds \subseteq RunIds'
             /\ \A r \in RunIds : runs'[r] = runs[r]
  <2>1. PICK row : runs' = Append(runs, row)
    BY <1>5 DEF Insert
  <2>2. Len(runs) \in Nat /\ RunIds = 1..Len(runs)
    BY RunsAreRows
  <2> QED
    BY <2>1, <2>2 DEF RunIds
<1> QED
  BY <1>1, <1>2, <1>3, <1>4, <1>5 DEF StepKind

\* What a reservation commits.
LEMMA InsertedRun ==
  ASSUME TypeInv, NEW t \in Threads, Insert(t)
  PROVE  /\ RunIds' = RunIds \cup {Len(runs) + 1}
         /\ Len(runs) + 1 \notin RunIds
         /\ runs'[Len(runs) + 1] = [agent |-> who[t], persona |-> persona[t],
                                    status |-> "running", overdue |-> FALSE]
         /\ \A r \in RunIds : runs'[r] = runs[r]
         /\ ~ IndexConflict(who[t], persona[t])
<1> USE DEF TypeInv, TypeOK
<1> DEFINE row == [agent |-> who[t], persona |-> persona[t],
                   status |-> "running", overdue |-> FALSE]
<1>1. runs' = Append(runs, row) /\ ~ IndexConflict(who[t], persona[t])
  BY DEF Insert
<1>2. Len(runs) \in Nat /\ RunIds = 1..Len(runs)
  BY RunsAreRows
<1> HIDE DEF row
<1>3. /\ RunIds' = RunIds \cup {Len(runs) + 1}
      /\ Len(runs) + 1 \notin RunIds
      /\ runs'[Len(runs) + 1] = row
      /\ \A r \in RunIds : runs'[r] = runs[r]
  BY <1>1, <1>2 DEF RunIds
<1> QED
  BY <1>1, <1>3 DEF row

\* The partial unique indexes keep agents and personas out of two visits, for
\* any number of threads, agents and personas.
THEOREM RunsAreExclusive == Spec => []ExclusiveRuns
<1>1. Init => ExclusiveRuns
  BY DEF Init, ExclusiveRuns, RunIds
<1>2. TypeInv /\ ExclusiveRuns /\ [Next]_vars => ExclusiveRuns'
  <2> SUFFICES ASSUME TypeInv, ExclusiveRuns, [Next]_vars,
                      NEW q \in RunIds', NEW r \in RunIds',
                      Live(q)', Live(r)',
                      runs'[q].agent = runs'[r].agent \/ runs'[q].persona = runs'[r].persona
               PROVE  q = r
    BY DEF ExclusiveRuns
  <2>1. StepKind
    BY Kinds
  <2>2. \A o \in RunIds : Live(o)' => Live(o)
    BY <2>1, RunsStep DEF Live
  <2>3. CASE q \in RunIds /\ r \in RunIds
    BY <2>1, <2>2, <2>3, RunsStep DEF ExclusiveRuns
  <2>4. CASE ~ (q \in RunIds /\ r \in RunIds)
    <3>1. PICK t \in Threads : Insert(t)
      BY <2>1, <2>4, RunsStep
    <3>2. \A o \in RunIds : Live(o) => runs[o].agent # who[t] /\ runs[o].persona # persona[t]
      BY <3>1, InsertedRun DEF IndexConflict
    <3> DEFINE new == Len(runs) + 1
    <3>3. /\ RunIds' = RunIds \cup {new}
          /\ runs'[new].agent = who[t] /\ runs'[new].persona = persona[t]
          /\ \A o \in RunIds : runs'[o] = runs[o]
      <4>1. runs'[new] = [agent |-> who[t], persona |-> persona[t],
                          status |-> "running", overdue |-> FALSE]
        BY <3>1, InsertedRun
      <4>2. RunIds' = RunIds \cup {new} /\ \A o \in RunIds : runs'[o] = runs[o]
        BY <3>1, InsertedRun
      <4> QED
        BY <4>1, <4>2
    <3> HIDE DEF new
    <3>4. CASE q = new /\ r \in RunIds
      BY <2>2, <3>2, <3>3, <3>4
    <3>5. CASE r = new /\ q \in RunIds
      BY <2>2, <3>2, <3>3, <3>5
    <3> QED
      BY <2>4, <3>3, <3>4, <3>5
  <2> QED
    BY <2>3, <2>4
<1>3. Spec => []TypeInv
  BY TypeInit, TypeStep, PTL DEF Spec
<1> QED
  BY <1>1, <1>2, <1>3, PTL DEF Spec

\* No sweep, completion or failure rewrites a run that has its outcome.
THEOREM OutcomesAreFinal == Spec => OutcomeIsFinal
<1>1. TypeInv /\ [Next]_vars => [\A r \in RunIds : ~ Live(r) => runs'[r] = runs[r]]_vars
  BY Kinds, RunsStep
<1>2. Spec => []TypeInv
  BY TypeInit, TypeStep, PTL DEF Spec
<1> QED
  BY <1>1, <1>2, PTL DEF Spec, OutcomeIsFinal

-----------------------------------------------------------------------------
(* The status of agents *)

\* The rows a completion and a failure write respect the strike limit.
LEMMA StrikeRows ==
  ASSUME NEW row \in AgentRow, NEW s \in AgentRow, NEW strike \in BOOLEAN,
         row.failures >= StrikeLimit => ~ row.enabled
  PROVE  /\ AfterVisit(s, row).failures >= StrikeLimit => ~ AfterVisit(s, row).enabled
         /\ AfterFailure(row, strike).failures >= StrikeLimit
              => ~ AfterFailure(row, strike).enabled
BY BoundsAssumption DEF AfterVisit, AfterFailure, AgentRow, Write

\* An agent with StrikeLimit strikes stays disabled until it is reset.
THEOREM StrikesDisableAgents == Spec => []StrikesDisable
<1>1. Init => StrikesDisable
  <2>1. Init => \A a \in Agents : agent[a].failures = 0
    <3>1. Row0.failures = 0 /\ [Row0 EXCEPT !.enabled = TRUE, !.next = "due"].failures = 0
      BY DEF Row0
    <3> QED
      BY <3>1 DEF Init
  <2> QED
    BY <2>1, BoundsAssumption DEF StrikesDisable
<1>2. TypeInv /\ StrikesDisable /\ [Next]_vars => StrikesDisable'
  <2> SUFFICES ASSUME TypeInv, StrikesDisable, [Next]_vars
               PROVE  StrikesDisable'
    OBVIOUS
  <2> USE DEF TypeInv, TypeOK
  <2>1. StepKind
    BY Kinds
  <2>2. CASE QuietStep \/ AgeStep \/ StaleStep
    BY <2>2 DEF QuietStep, SameStanding, AgeStep, StaleStep, StrikesDisable
  <2>3. CASE SweepStep
    <3> SUFFICES ASSUME NEW a \in Agents
                 PROVE  agent'[a].failures >= StrikeLimit => ~ agent'[a].enabled
      BY DEF StrikesDisable
    <3>1. agent'[a].failures = agent[a].failures /\ agent'[a].enabled = agent[a].enabled
      BY <2>3, FreedAgents DEF SweepStep
    <3> QED
      BY <3>1 DEF StrikesDisable
  <2>4. CASE Admin
    <3> SUFFICES ASSUME NEW a \in Agents, agent'[a].failures >= StrikeLimit
                 PROVE  ~ agent'[a].enabled
      BY DEF StrikesDisable
    <3>1. agent'[a].failures # 0
      BY BoundsAssumption
    <3>2. \/ ~ agent'[a].enabled
          \/ agent'[a].failures = agent[a].failures /\ agent'[a].enabled = agent[a].enabled
      BY <2>4, <3>1, AdminWrites
    <3> QED
      BY <3>2 DEF StrikesDisable
  <2>5. ASSUME NEW t \in Threads, Insert(t) PROVE StrikesDisable'
    BY <2>5 DEF Insert, StrikesDisable, AgentRow
  <2>6. ASSUME NEW t \in Threads, EndStep(t) PROVE StrikesDisable'
    <3>1. who[t] \in Agents /\ agent[who[t]] \in AgentRow /\ seen[t] \in AgentRow
      BY <2>6 DEF EndStep, ThreadsOK
    <3> QED
      BY <2>6, <3>1, StrikeRows DEF EndStep, StrikesDisable
  <2> QED
    BY <2>1, <2>2, <2>3, <2>4, <2>5, <2>6 DEF StepKind
<1>3. Spec => []TypeInv
  BY TypeInit, TypeStep, PTL DEF Spec
<1> QED
  BY <1>1, <1>2, <1>3, PTL DEF Spec

\* What a completion read before its commit still tells: while its run lives,
\* an agent it saw out of "running" has not gone back, because only a
\* reservation sets "running" and the index refuses one beside a live run.
SeenHolds ==
  \A t \in Threads :
    /\ pc[t] = "complete" /\ Live(mine[t]) /\ seen[t].status # "running"
    => agent[who[t]].status # "running"

\* Only a reservation brings an agent to "running".
LEMMA StatusRises ==
  ASSUME TypeInv, StepKind, NEW a \in Agents,
         agent'[a].status = "running", agent[a].status # "running"
  PROVE  \E t \in Threads : Insert(t) /\ who[t] = a
<1> USE DEF TypeInv, TypeOK
<1>1. ~ QuietStep /\ ~ AgeStep /\ ~ StaleStep
  BY DEF QuietStep, SameStanding, AgeStep, StaleStep
<1>2. ~ SweepStep
  BY FreedAgents DEF SweepStep
<1>3. ~ Admin
  BY AdminWrites
<1>4. ASSUME NEW t \in Threads, EndStep(t) PROVE FALSE
  <2>1. who[t] \in Agents /\ agent[who[t]] \in AgentRow /\ seen[t] \in AgentRow
    BY <1>4 DEF EndStep, ThreadsOK
  <2>2. CASE a = who[t]
    BY <1>4, <2>1, <2>2, RowsAfterVisits DEF EndStep
  <2>3. CASE a # who[t]
    BY <1>4, <2>3 DEF EndStep
  <2> QED
    BY <2>2, <2>3
<1>5. ASSUME NEW t \in Threads, Insert(t) PROVE who[t] = a
  BY <1>5 DEF Insert
<1> QED
  BY <1>1, <1>2, <1>3, <1>4, <1>5 DEF StepKind

\* A step moves one thread, except for a crash.
LEMMA Frame ==
  ASSUME TypeInv, [Next]_vars, NEW t \in Threads
  PROVE  \/ pc'[t] = pc[t] /\ who'[t] = who[t] /\ mine'[t] = mine[t] /\ seen'[t] = seen[t]
         \/ Visit(t)
         \/ pc[t] = "idle" /\ pc'[t] = "load"
         \/ pc[t] \in {"returned", "raised"} /\ pc'[t] = "idle"
         \/ pc'[t] = "idle" /\ UNCHANGED db
<1> DEFINE Still == /\ pc'[t] = pc[t] /\ who'[t] = who[t]
                    /\ mine'[t] = mine[t] /\ seen'[t] = seen[t]
<1> USE DEF TypeInv, TypeOK
<1>1. CASE UNCHANGED local
  BY <1>1 DEF local
<1>2. ASSUME NEW o \in Threads, Visit(o), o # t PROVE Still
  BY <1>2 DEF Visit, Load, Recover, Select, Insert, InsertRefused, Refused,
       BackOffExhausted, VisitEnds, VisitAbandoned, FinishRead, FinishWrite, Fail,
       WakeEnds, Quit, Goto, Forget
<1>3. ASSUME NEW o \in Threads, NEW a \in Agents, Begin(o, a)
      PROVE  Still \/ (pc[t] = "idle" /\ pc'[t] = "load")
  BY <1>3 DEF Begin, Goto
<1>4. ASSUME NEW o \in ManualThreads, ManualEnds(o)
      PROVE  Still \/ (pc[t] \in {"returned", "raised"} /\ pc'[t] = "idle")
  BY <1>4 DEF ManualEnds, Quit, Goto, Threads
<1>5. ASSUME NEW lanes \in SUBSET ManualThreads, Crash(lanes)
      PROVE  Still \/ (pc'[t] = "idle" /\ UNCHANGED db)
  BY <1>5 DEF Crash
<1>6. CASE Poller
  <2>1. CASE \E c \in poll, o \in WakeSlots : PollDispatch(c, o)
    BY <1>3, <2>1 DEF PollDispatch, Threads
  <2> QED
    BY <1>1, <1>6, <2>1 DEF Poller, SweepStaleRuns, PollScan, PollLurker, PollDefer, PollFull
<1>7. CASE Admin
  BY <1>1, <1>7, AdminWrites
<1>8. CASE Time
  BY <1>1, <1>8 DEF Time, WakeFallsDue, RunFallsOverdue
<1>9. CASE Restart
  BY <1>1, <1>9 DEF Restart
<1>10. CASE \E o \in ManualThreads : ManualEnds(o) \/ \E a \in Agents : ManualStart(o, a)
  BY <1>3, <1>4, <1>10 DEF ManualStart, Threads
<1>11. CASE UNCHANGED vars
  BY <1>1, <1>11 DEF vars, local
<1> QED
  BY <1>2, <1>5, <1>6, <1>7, <1>8, <1>9, <1>10, <1>11 DEF Next

\* A completion that read its agent outside "running" stays right about it.
LEMMA SeenStep == TypeInv /\ SeenHolds /\ [Next]_vars => SeenHolds'
<1> SUFFICES ASSUME TypeInv, SeenHolds, [Next]_vars, NEW t \in Threads,
                    pc'[t] = "complete", Live(mine[t])', seen'[t].status # "running"
             PROVE  agent'[who'[t]].status # "running"
  BY DEF SeenHolds
<1> USE DEF TypeInv, TypeOK
<1>1. StepKind
  BY Kinds
<1>2. CASE /\ pc[t] = "complete" /\ who'[t] = who[t]
           /\ mine'[t] = mine[t] /\ seen'[t] = seen[t]
  <2>1. mine[t] \in RunIds /\ runs[mine[t]].agent = who[t] /\ who[t] \in Agents
    BY <1>2 DEF ThreadsOK, Owning
  <2>2. Live(mine[t])
    BY <1>1, <1>2, <2>1, RunsStep DEF Live
  <2>3. agent[who[t]].status # "running"
    BY <1>2, <2>2 DEF SeenHolds
  <2>4. \A o \in Threads : ~ (Insert(o) /\ who[o] = who[t])
    BY <2>1, <2>2 DEF Insert, IndexConflict
  <2> QED
    BY <1>1, <1>2, <2>1, <2>3, <2>4, StatusRises
<1>3. CASE Visit(t) /\ pc[t] # "complete"
  <2>1. FinishRead(t)
    BY <1>3 DEF Visit, Load, Recover, Select, Insert, InsertRefused, Refused,
         BackOffExhausted, VisitEnds, VisitAbandoned, FinishWrite, Fail, WakeEnds,
         Quit, Goto
  <2> QED
    BY <2>1 DEF FinishRead, db, Goto
<1>4. CASE Visit(t) /\ pc[t] = "complete"
  BY <1>4 DEF Visit, Load, Recover, Select, Insert, InsertRefused, Refused,
       BackOffExhausted, VisitEnds, VisitAbandoned, FinishRead, FinishWrite, Fail,
       WakeEnds, Goto
<1> QED
  BY <1>2, <1>3, <1>4, Frame

\* Whatever ends a run takes its agent out of "running".
LEMMA RunEnds ==
  ASSUME TypeInv, SeenHolds, StepKind, NEW a \in Agents,
         NEW r \in LiveRuns(a), ~ Live(r)'
  PROVE  agent'[a].status # "running"
<1> USE DEF TypeInv, TypeOK
<1>1. r \in RunIds /\ Live(r) /\ runs[r].agent = a
  BY DEF LiveRuns
<1>2. ~ QuietStep /\ ~ AgeStep /\ ~ StaleStep
  BY <1>1 DEF QuietStep, AgeStep, StaleStep, Live
<1>3. ~ Admin
  BY <1>1, AdminWrites DEF Live
<1>4. ASSUME NEW t \in Threads, Insert(t) PROVE FALSE
  BY <1>1, <1>4, InsertedRun DEF Live
<1>5. CASE SweepStep
  <2>1. PICK R \in SUBSET OverdueRuns :
          /\ runs' = Closed(R, "interrupted")
          /\ agent'[a].status = Freed({runs[o].agent : o \in R})[a].status
    BY <1>5 DEF SweepStep
  <2>2. r \in R
    BY <1>1, <2>1, ClosedRuns DEF Live, RunStatus
  <2> QED
    BY <1>1, <2>1, <2>2, FreedAgents
<1>6. ASSUME NEW t \in Threads, EndStep(t) PROVE agent'[a].status # "running"
  <2>1. /\ who[t] \in Agents /\ agent[who[t]] \in AgentRow /\ seen[t] \in AgentRow
        /\ runs[mine[t]].agent = who[t]
    BY <1>6 DEF EndStep, ThreadsOK, Owning
  <2>2. r = mine[t]
    <3>1. PICK s \in RunStatus : runs' = Closed({mine[t]}, s)
      BY <1>6 DEF EndStep
    <3>2. r \notin {mine[t]} => runs'[r] = runs[r]
      BY <1>1, <3>1, ClosedRuns
    <3> QED
      BY <1>1, <3>2 DEF Live
  <2>3. a = who[t]
    BY <1>1, <2>1, <2>2
  <2>4. CASE pc[t] = "complete" /\ seen[t].status # "running"
    BY <1>6, <2>1, <2>3, <2>4, RowsAfterVisits DEF EndStep, SeenHolds
  <2>5. CASE pc[t] = "complete" /\ seen[t].status = "running"
    BY <1>6, <2>1, <2>3, <2>5, RowsAfterVisits DEF EndStep
  <2>6. CASE pc[t] # "complete"
    BY <1>6, <2>1, <2>3, <2>6, RowsAfterVisits DEF EndStep
  <2> QED
    BY <2>4, <2>5, <2>6
<1> QED
  BY <1>2, <1>3, <1>4, <1>5, <1>6 DEF StepKind

\* An agent in status "running" always has a live run: what ends the run frees
\* the agent in the same transaction, and a completion that read the agent
\* earlier cannot have missed a later reservation.
THEOREM ParkedAgentsHaveRuns == Spec => []ParkedAgentHasRun
<1>1. Init => ParkedAgentHasRun /\ SeenHolds
  <2>1. Init => \A a \in Agents : agent[a].status # "running"
    <3>1. Row0.status # "running"
          /\ [Row0 EXCEPT !.enabled = TRUE, !.next = "due"].status # "running"
      BY DEF Row0
    <3> QED
      BY <3>1 DEF Init
  <2> QED
    BY <2>1 DEF Init, ParkedAgentHasRun, SeenHolds
<1>2. TypeInv /\ SeenHolds /\ ParkedAgentHasRun /\ [Next]_vars => ParkedAgentHasRun'
  <2> SUFFICES ASSUME TypeInv, SeenHolds, ParkedAgentHasRun, [Next]_vars,
                      NEW a \in Agents, agent'[a].status = "running"
               PROVE  LiveRuns(a)' # {}
    BY DEF ParkedAgentHasRun
  <2>1. StepKind
    BY Kinds
  <2>2. CASE agent[a].status = "running"
    <3>1. PICK r \in LiveRuns(a) : TRUE
      BY <2>2 DEF ParkedAgentHasRun
    <3>2. Live(r)'
      BY <2>1, RunEnds
    <3> QED
      BY <2>1, <3>1, <3>2, RunsStep DEF LiveRuns
  <2>3. CASE agent[a].status # "running"
    <3>1. PICK t \in Threads : Insert(t) /\ who[t] = a
      BY <2>1, <2>3, StatusRises
    <3> QED
      <4>1. /\ Len(runs) + 1 \in RunIds'
            /\ runs'[Len(runs) + 1] = [agent |-> who[t], persona |-> persona[t],
                                       status |-> "running", overdue |-> FALSE]
        BY <3>1, InsertedRun
      <4> QED
        BY <3>1, <4>1 DEF LiveRuns, Live
  <2> QED
    BY <2>2, <2>3
<1>3. Spec => []TypeInv
  BY TypeInit, TypeStep, PTL DEF Spec
<1> QED
  BY <1>1, <1>2, <1>3, SeenStep, PTL DEF Spec

\* A worker that lost its run to a sweep changes nothing any more.
THEOREM LateWorkersAreHarmless == Spec => LateWorkerHarmless
<1>1. TypeInv /\ [Next]_vars =>
        [\A t \in Threads :
           /\ pc[t] \in {"visit", "finish", "complete", "fail", "strike"}
           /\ ~ Live(mine[t])
           /\ pc'[t] # pc[t]
           => UNCHANGED db]_vars
  <2> SUFFICES ASSUME TypeInv, [Next]_vars, NEW t \in Threads,
                      pc[t] \in Owning, ~ Live(mine[t]), pc'[t] # pc[t]
               PROVE  UNCHANGED db
    BY DEF Owning
  <2>1. CASE Visit(t)
    BY <2>1 DEF Visit, Load, Recover, Select, Insert, InsertRefused, Refused,
         BackOffExhausted, VisitEnds, VisitAbandoned, FinishRead, FinishWrite, Fail,
         WakeEnds, Owning
  <2> QED
    BY <2>1, Frame DEF Owning
<1>2. Spec => []TypeInv
  BY TypeInit, TypeStep, PTL DEF Spec
<1> QED
  BY <1>1, <1>2, PTL DEF Spec, LateWorkerHarmless

\* An agent leaves "running" with one of its runs, by an administrator's
\* switch, or by one of the two stale writes the property names.
THEOREM StatusesFollowRuns == Spec => StatusFollowsRun
<1>1. TypeInv /\ [Next]_vars =>
        [\A a \in Agents \ Lurkers :
           /\ agent[a].status = "running"
           /\ agent'[a].status # "running"
           /\ agent'[a].enabled \/ ~ agent[a].enabled
           /\ \A t \in Threads : pc[t] = "exhausted" => pc'[t] = pc[t]
           => \E r \in LiveRuns(a) : runs'[r].status # "running"]_vars
  <2> SUFFICES ASSUME TypeInv, [Next]_vars, NEW a \in Agents \ Lurkers,
                      agent[a].status = "running", agent'[a].status # "running",
                      agent'[a].enabled \/ ~ agent[a].enabled,
                      \A t \in Threads : pc[t] = "exhausted" => pc'[t] = pc[t]
               PROVE  \E r \in LiveRuns(a) : runs'[r].status # "running"
    OBVIOUS
  <2> USE DEF TypeInv, TypeOK
  <2>1. StepKind
    BY Kinds
  <2>2. ~ QuietStep /\ ~ AgeStep /\ ~ StaleStep
    BY DEF QuietStep, SameStanding, AgeStep, StaleStep
  <2>3. ~ Admin
    BY AdminWrites
  <2>4. ASSUME NEW t \in Threads, Insert(t) PROVE FALSE
    BY <2>4 DEF Insert, Write, AgentRow
  <2>5. CASE SweepStep
    <3>1. PICK R \in SUBSET OverdueRuns :
            /\ runs' = Closed(R, "interrupted")
            /\ agent'[a].status = Freed({runs[o].agent : o \in R})[a].status
      BY <2>5 DEF SweepStep
    <3>2. PICK r \in R : runs[r].agent = a
      <4> DEFINE A == {runs[o].agent : o \in R}
      <4>1. a \notin A => Freed(A)[a] = agent[a]
        BY FreedAgents
      <4>2. agent'[a].status = Freed(A)[a].status
        BY <3>1
      <4>3. a \in A
        BY <4>1, <4>2
      <4> QED
        BY <4>3
    <3>3. r \in LiveRuns(a)
      BY <3>1, <3>2 DEF LiveRuns, OverdueRuns
    <3>4. "interrupted" \in RunStatus
      BY DEF RunStatus
    <3>5. runs'[r].status = "interrupted"
      BY <3>1, <3>2, <3>3, <3>4, ClosedRuns DEF LiveRuns
    <3> QED
      BY <3>3, <3>5
  <2>6. ASSUME NEW t \in Threads, EndStep(t)
        PROVE  \E r \in LiveRuns(a) : runs'[r].status # "running"
    <3>1. mine[t] \in RunIds /\ runs[mine[t]].agent = who[t]
      BY <2>6 DEF EndStep, ThreadsOK, Owning
    <3>2. a = who[t]
      BY <2>6 DEF EndStep
    <3> QED
      BY <2>6, <3>1, <3>2, ClosedRuns DEF EndStep, LiveRuns
  <2> QED
    BY <2>1, <2>2, <2>3, <2>4, <2>5, <2>6 DEF StepKind
<1>2. Spec => []TypeInv
  BY TypeInit, TypeStep, PTL DEF Spec
<1> QED
  BY <1>1, <1>2, PTL DEF Spec, StatusFollowsRun

-----------------------------------------------------------------------------
(* Forced visits *)

\* The queue of ManualRuns, with what is proved about it.  One worker, so its
\* lanes may be slow.
QP == INSTANCE JobQueue_proofs WITH
        Workers <- {TheWorker}, Priorities <- {9},
        LaneSize <- Cardinality(ManualThreads), LongWaits <- TRUE,
        alive <- IF up THEN {TheWorker} ELSE {}

-----------------------------------------------------------------------------
(* The composition implements the queue *)

\* The queue's assumptions are those of this module.
LEMMA QueueAssumed == QP!QueueAssumption /\ QP!LanesKeepUp
<1>1. Cardinality(ManualThreads) \in Nat \ {0}
  BY ManualAssumption, FS_CardinalityType, FS_EmptySet
<1>2. QP!QueueAssumption
  BY <1>1, ManualAssumption DEF QP!QueueAssumption
<1>3. QP!LanesKeepUp
  BY DEF QP!LanesKeepUp
<1> QED
  BY <1>2, <1>3

\* A step of the poller, of a visit, of time or of the administrator leaves the
\* worker alive or dead as it was.
LEMMA SameProcess ==
  ASSUME \/ Poller
         \/ \E t \in Threads : Visit(t)
         \/ Time
         \/ Admin
  PROVE  up' = up
<1>1. CASE Poller
  BY <1>1 DEF Poller, SweepStaleRuns, PollScan, PollLurker, PollDefer, PollFull,
              PollDispatch
<1>2. ASSUME NEW t \in Threads, Visit(t) PROVE up' = up
  BY <1>2 DEF Visit, Load, Recover, Select, Insert, InsertRefused, Refused,
              BackOffExhausted, VisitEnds, VisitAbandoned, FinishRead, FinishWrite,
              Fail, WakeEnds
<1>3. CASE Time
  BY <1>3 DEF Time, WakeFallsDue, RunFallsOverdue
<1>4. CASE Admin
  BY <1>4 DEF Admin, AdminPauseAll, AdminStartAll, AdminToggle, AdminSwitchOff,
              AdminResetStatus
<1> QED
  BY <1>1, <1>2, <1>3, <1>4

\* Requests, releases, visits and switches are stutters of the queue, or the
\* insertion of a job; the lanes start and finish jobs as the queue lets them.
LEMMA QueueSteps == [ManualNext]_mvars => [QP!JobNext]_(QP!jvars)
<1> SUFFICES ASSUME [ManualNext]_mvars
             PROVE  QP!JobNext \/ UNCHANGED QP!jvars
  OBVIOUS
<1> USE DEF vars, jobTables
<1>1. ASSUME NEW q \in Requests, NEW a \in Agents, ForceRunCheck(q, a)
      PROVE  UNCHANGED QP!jvars
  BY <1>1 DEF ForceRunCheck, QP!jvars
<1>2. ASSUME NEW q \in Requests, ForceRunClaim(q)
      PROVE  QP!CreateJob(9) \/ UNCHANGED QP!jvars
  BY <1>2 DEF ForceRunClaim, QP!jvars, Q!CreateJob, QP!CreateJob, Q!NewJob, QP!NewJob
<1>3. CASE ClearHistory
  <2>1. QP!ClearJobs
    BY <1>3 DEF ClearHistory, Q!ClearJobs, QP!ClearJobs, Q!Ids, QP!Ids
  <2> QED
    BY <2>1 DEF QP!JobNext
<1>4. CASE QueueStep
  <2>1. CASE Q!ScanJobs(TheWorker)
    BY <2>1 DEF QP!JobNext, QP!WorkerStep, Q!ScanJobs, QP!ScanJobs, Q!Ids, QP!Ids
  <2>2. CASE Q!ClaimJob(TheWorker)
    BY <2>2 DEF QP!JobNext, QP!WorkerStep, Q!ClaimJob, QP!ClaimJob, Q!First, QP!First,
                Q!Claimed, QP!Claimed
  <2>3. ASSUME NEW j \in DOMAIN job, Q!Heartbeat(TheWorker, j) PROVE QP!JobNext
    BY <2>3 DEF QP!JobNext, QP!WorkerStep, Q!Heartbeat, QP!Heartbeat
  <2>4. ASSUME NEW j \in DOMAIN job, Q!BeatAges(j) PROVE QP!JobNext
    BY <2>4 DEF QP!JobNext, Q!BeatAges, QP!BeatAges, QP!Ids, Q!Queued, QP!Queued
  <2> QED
    BY <1>4, <2>1, <2>2, <2>3, <2>4 DEF QueueStep
<1>5. ASSUME NEW t \in ManualThreads, NEW j \in DOMAIN job, StartAgentJob(t, j)
      PROVE  QP!JobNext
  <2>1. QP!StartJob(TheWorker, j)
    <3>1. Q!Startable(TheWorker) = QP!Startable(TheWorker)
      <4>1. \A k : Q!LaneOf(k) = QP!LaneOf(k)
        BY DEF Q!LaneOf, QP!LaneOf, Q!Lane, QP!Lane
      <4>2. \A S : Q!Cardinality(S) = QP!Cardinality(S)
        BY Zenon DEF Q!Cardinality, QP!Cardinality
      <4> QED
        BY <4>1, <4>2, Zenon DEF Q!Startable, QP!Startable
    <3>2. \A s, i : Q!RemoveAt(s, i) = QP!RemoveAt(s, i)
      BY DEF Q!RemoveAt, QP!RemoveAt
    <3>3. Q!StartJob(TheWorker, j)
      BY <1>5 DEF StartAgentJob
    <3> QED
      BY <3>1, <3>2, <3>3 DEF Q!StartJob, QP!StartJob
  <2>2. j \in QP!Queued(TheWorker)
    BY <2>1 DEF QP!StartJob, QP!Startable, QP!Queued
  <2> QED
    BY <2>1, <2>2 DEF QP!JobNext, QP!WorkerStep
<1>6. ASSUME NEW t \in ManualThreads, ReleaseRead(t) \/ ReleaseWrite(t)
      PROVE  UNCHANGED QP!jvars
  BY <1>6 DEF ReleaseRead, ReleaseWrite, QP!jvars
<1>7. ASSUME NEW t \in ManualThreads, CloseAgentJob(t)
      PROVE  QP!JobNext
  <2> DEFINE j == serves[t]
             o == JobOutcome(t)
  <2>1. QP!FinishJob(TheWorker, j, o) /\ j \in exec[TheWorker]
    BY <1>7 DEF CloseAgentJob, Q!FinishJob, QP!FinishJob
  <2>2. o \in {"completed", "failed"}
    BY DEF JobOutcome
  <2> HIDE DEF j, o
  <2> QED
    BY <2>1, <2>2 DEF QP!JobNext, QP!WorkerStep
<1>8. CASE Visits \/ Switches
  BY <1>8, SameProcess DEF Visits, Switches, QP!jvars
<1>9. CASE CrashAll
  <2>1. QP!CrashWorker(TheWorker)
    BY <1>9 DEF CrashAll, Q!CrashWorker, QP!CrashWorker
  <2> QED
    BY <2>1 DEF QP!JobNext
<1>10. CASE RestartAll
  <2>1. QP!BootWorker(TheWorker)
    BY <1>10 DEF RestartAll, Q!BootWorker, QP!BootWorker, Q!Ids, QP!Ids, Q!Swept, QP!Swept
  <2> QED
    BY <2>1 DEF QP!JobNext
<1>11. CASE UNCHANGED mvars
  BY <1>11 DEF mvars, QP!jvars
<1>12. QP!CreateJob(9) => QP!JobNext
  BY DEF QP!JobNext
<1> QED
  BY <1>1, <1>2, <1>3, <1>4, <1>5, <1>6, <1>7, <1>8, <1>9, <1>10, <1>11, <1>12
     DEF ManualNext, ForceRun, Lane

\* The web process, the poller, the lanes and the visits together are a job queue
\* (JobQueue): whatever the visits do, a job is claimed, started and ended as the
\* queue says.
THEOREM ManualRunsAreJobs == ManualSpec => QP!JobSpec
<1>1. ManualInit => QP!JobInit
  BY DEF ManualInit, Q!JobInit, QP!JobInit, Init
<1>2. ManualSpec => QP!JobInit /\ [][QP!JobNext]_(QP!jvars)
  BY <1>1, QueueSteps, PTL DEF ManualSpec
<1>3. QP!JobInit /\ [][QP!JobNext]_(QP!jvars) => QP!JobSpec
  BY DEF QP!JobSpec
<1> QED
  BY <1>2, <1>3, PTL

\* ... so what is proved of the queue holds of its jobs in hand.
LEMMA QueueHolds == ManualSpec => []QP!JobInv
<1>1. QP!JobSpec => []QP!JobInv
  BY QueueAssumed, QP!QueueInvariance
<1> QED
  BY <1>1, ManualRunsAreJobs, PTL

-----------------------------------------------------------------------------
(* The inductive invariant *)

\* Every job has its agent; markers name rows that were inserted.
ManualTypes ==
  /\ jobAgent \in Seq(Agents) /\ Len(jobAgent) = Len(job)
  /\ marker \in [Agents -> [job: 0..Len(job), previous: Status]]
  /\ request \in [Requests -> [agent: Agents, status: Status] \cup {None}]
  /\ serves \in [ManualThreads -> Nat]
  /\ release \in [ManualThreads -> {"read", "pop", "restore", "close"}]

\* A busy lane thread executes one job, its own, for the agent the job names.
LanesHold ==
  \A t \in ManualThreads :
    /\ serves[t] = 0 <=> pc[t] = "idle"
    /\ serves[t] # 0 => /\ serves[t] \in exec[TheWorker]
                        /\ who[t] = jobAgent[serves[t]]
    /\ \A u \in ManualThreads : serves[t] # 0 /\ serves[u] = serves[t] => u = t

\* A release begins at the outcome; once it is over the marker is not this job's,
\* unless the history was cleared under it.
ReleasesHold ==
  \A t \in ManualThreads :
    /\ release[t] # "read" => AtOutcome(t)
    /\ release[t] = "close" => ~ Owns(t) \/ job[serves[t]].status = "cleared"

\* run_once() returns a run that has its outcome.
ReturnedRuns ==
  \A t \in ManualThreads :
    pc[t] = "returned" => mine[t] \in RunIds /\ ~ Live(mine[t])

ManualInv ==
  /\ TypeInv
  /\ ManualTypes
  /\ LanesHold
  /\ ReleasesHold
  /\ ReturnedRuns
  /\ MarkerNamesOpenJob

-----------------------------------------------------------------------------
(* Steps, as AgentRuns sees them *)

\* The threads of run_once(): all but three of the steps are steps of AgentRuns.
LEMMA AgentSteps ==
  ASSUME ManualTypes, [ManualNext]_mvars
  PROVE  \/ [Next]_vars
         \/ \E q \in Requests : ForceRunClaim(q)
         \/ \E t \in ManualThreads : ReleaseRead(t) \/ ReleaseWrite(t)
<1>1. ASSUME NEW t \in ManualThreads, NEW j \in DOMAIN job, StartAgentJob(t, j)
      PROVE  [Next]_vars
  <2>1. jobAgent[j] \in Agents
    BY ElementOfSeq, LenProperties DEF ManualTypes
  <2>2. ManualStart(t, jobAgent[j]) \/ UNCHANGED vars
    BY <1>1 DEF StartAgentJob, ManualStart
  <2> QED
    BY <2>1, <2>2 DEF Next
<1>2. ASSUME NEW t \in ManualThreads, CloseAgentJob(t) PROVE Next
  <2>1. ManualEnds(t)
    BY <1>2 DEF CloseAgentJob, ManualEnds, AtOutcome
  <2> QED
    BY <2>1 DEF Next
<1>3. CASE Visits \/ Switches
  BY <1>3 DEF Visits, Switches, Next
<1>4. CASE CrashAll \/ RestartAll
  <2>1. CASE CrashAll
    <3>1. Crash(ManualThreads) /\ ManualThreads \in SUBSET ManualThreads
      BY <2>1 DEF CrashAll
    <3> QED
      BY <3>1 DEF Next
  <2>2. CASE RestartAll
    BY <2>2 DEF RestartAll, Next
  <2> QED
    BY <1>4, <2>1, <2>2
<1>5. CASE QueueStep \/ ClearHistory
  BY <1>5 DEF QueueStep, ClearHistory
<1>6. ASSUME NEW q \in Requests, NEW a \in Agents, ForceRunCheck(q, a)
      PROVE  UNCHANGED vars
  BY <1>6 DEF ForceRunCheck
<1>7. CASE UNCHANGED mvars
  BY <1>7 DEF mvars
<1> QED
  BY <1>1, <1>2, <1>3, <1>4, <1>5, <1>6, <1>7 DEF ManualNext, ForceRun, Lane

\* What those three write of an agent's row.
LEMMA QueuedRows ==
  ASSUME TypeInv, ManualTypes,
         \/ \E q \in Requests : ForceRunClaim(q)
         \/ \E t \in ManualThreads : ReleaseRead(t) \/ ReleaseWrite(t)
  PROVE  /\ agent' \in [Agents -> AgentRow] /\ seen' \in [Threads -> AgentRow]
         /\ UNCHANGED <<runs, up, poll, pc, who, persona, mine, tries>>
<1> USE DEF TypeInv, TypeOK
<1>1. ASSUME NEW q \in Requests, ForceRunClaim(q)
      PROVE  /\ agent' \in [Agents -> AgentRow] /\ seen' \in [Threads -> AgentRow]
             /\ UNCHANGED <<runs, up, poll, pc, who, persona, mine, tries>>
  <2> DEFINE a == request[q].agent
  <2>1. a \in Agents
    BY <1>1 DEF ForceRunClaim, ManualTypes
  <2>2. /\ agent' = agent \/ agent' = [agent EXCEPT ![a].status = "queued"]
        /\ UNCHANGED <<runs, up, poll, local>>
    BY <1>1 DEF ForceRunClaim
  <2> HIDE DEF a
  <2>3. agent' \in [Agents -> AgentRow]
    <3> DEFINE row == [agent[a] EXCEPT !.status = "queued"]
    <3>1. row \in AgentRow
      <4>1. agent[a] \in AgentRow /\ "queued" \in Status
        BY <2>1 DEF Status
      <4> QED
        BY ONLY <4>1 DEF AgentRow
    <3>2. agent' = agent \/ agent' = [agent EXCEPT ![a] = row]
      BY <2>1, <2>2
    <3> HIDE DEF row
    <3> QED
      BY <2>1, <3>1, <3>2
  <2> QED
    BY <2>2, <2>3 DEF local
<1>2. ASSUME NEW t \in ManualThreads, ReleaseRead(t) \/ ReleaseWrite(t)
      PROVE  /\ agent' \in [Agents -> AgentRow] /\ seen' \in [Threads -> AgentRow]
             /\ UNCHANGED <<runs, up, poll, pc, who, persona, mine, tries>>
  <2> DEFINE a == who[t]
             s == Write(seen[t].status, marker[a].previous, agent[a].status)
  <2>1. t \in Threads /\ a \in Agents /\ Row0 \in AgentRow
    BY <1>2 DEF ReleaseRead, ReleaseWrite, AtOutcome, ThreadsOK, Threads, Row0,
                AgentRow, Status
  <2>2. s \in Status
    BY <2>1 DEF Write, ManualTypes, AgentRow
  <2>3. /\ agent' = agent \/ agent' = [agent EXCEPT ![a].status = s]
        /\ seen' = [seen EXCEPT ![t] = agent[a]] \/ seen' = [seen EXCEPT ![t] = Row0]
        /\ UNCHANGED <<runs, up, poll, pc, who, persona, mine, tries>>
    BY <1>2, <2>1 DEF ReleaseRead, ReleaseWrite, Forget, db
  <2> HIDE DEF a, s
  <2>4. agent' \in [Agents -> AgentRow]
    <3> DEFINE row == [agent[a] EXCEPT !.status = s]
    <3>1. row \in AgentRow
      BY <2>1, <2>2 DEF AgentRow
    <3>2. agent' = agent \/ agent' = [agent EXCEPT ![a] = row]
      BY <2>1, <2>3
    <3> HIDE DEF row
    <3> QED
      BY <2>1, <3>1, <3>2
  <2>5. seen' \in [Threads -> AgentRow]
    BY <2>1, <2>3
  <2> QED
    BY <2>3, <2>4, <2>5
<1> QED
  BY <1>1, <1>2

\* Forced visits keep the types of AgentRuns.
LEMMA AgentTypesStep ==
  ASSUME TypeInv, ManualTypes, [ManualNext]_mvars
  PROVE  TypeInv'
<1>1. CASE [Next]_vars
  BY <1>1, TypeStep
<1>2. CASE \/ \E q \in Requests : ForceRunClaim(q)
           \/ \E t \in ManualThreads : ReleaseRead(t) \/ ReleaseWrite(t)
  <2>1. TypeOK'
    BY <1>2, QueuedRows DEF TypeInv, TypeOK
  <2>2. ThreadsOK'
    BY <1>2, QueuedRows DEF TypeInv, ThreadsOK, RunIds
  <2> QED
    BY <2>1, <2>2 DEF TypeInv
<1> QED
  BY <1>1, <1>2, AgentSteps

\* Runs stay where they are, and keep their outcome.
LEMMA ManualRunsStep ==
  ASSUME TypeInv, ManualTypes, [ManualNext]_mvars
  PROVE  \A r \in RunIds :
           r \in RunIds' /\ (~ Live(r) => runs'[r].status # "running")
<1>1. CASE [Next]_vars
  BY <1>1, Kinds, RunsStep DEF Live
<1>2. CASE runs' = runs
  BY <1>2 DEF RunIds, Live
<1> QED
  BY <1>1, <1>2, AgentSteps, QueuedRows

-----------------------------------------------------------------------------
(* Steps, as the job table sees them *)

\* Jobs are inserted by a request that finds its agent claimable; deleted rows stay
\* deleted, and only the thread that executes a job gives it an outcome.
LEMMA JobsStep ==
  ASSUME QP!JobTypeOK, ManualTypes, [ManualNext]_mvars
  PROVE  /\ \/ Len(job') = Len(job) /\ jobAgent' = jobAgent
            \/ \E q \in Requests : ForceRunClaim(q) /\ Claimable(request[q].agent)
         /\ \A j \in 1..Len(job) :
              /\ job[j].status = "cleared" => job'[j].status = "cleared"
              /\ \/ job'[j].status \notin {"completed", "failed"}
                 \/ job'[j].status = job[j].status
                 \/ \E t \in ManualThreads :
                      /\ CloseAgentJob(t) /\ serves[t] = j
                      /\ job'[j].status = JobOutcome(t)
<1> DEFINE n == Len(job)
           Kept(j) == /\ job[j].status = "cleared" => job'[j].status = "cleared"
                      /\ \/ job'[j].status \notin {"completed", "failed"}
                         \/ job'[j].status = job[j].status
           Same == Len(job') = n /\ \A j \in 1..n : Kept(j)
<1>0. n \in Nat /\ DOMAIN job = 1..n /\ job = [j \in 1..n |-> job[j]]
  BY LenProperties DEF QP!JobTypeOK
<1>a. ASSUME NEW j \in 1..n
      PROVE  job[j] \in [status: {"pending", "running", "completed", "failed", "cleared"},
                         priority: {9}, worker: {TheWorker} \cup {NoWorker},
                         beat: {"none", "fresh", "stale"}]
  <2>1. j \in QP!Ids
    BY <1>0 DEF QP!Ids
  <2>2. job[j] \in QP!JobRow
    BY <2>1, QueueAssumed, QP!RowsAreRows DEF QP!QueueAssumption
  <2> QED
    BY <2>2 DEF QP!JobRow, QP!JobStatus
<1> HIDE DEF n
<1>1. ASSUME job' = job PROVE Same
  BY <1>1 DEF n
<1>2. ASSUME NEW j \in 1..n, NEW row,
             job' = [job EXCEPT ![j] = row],
             row.status \notin {"completed", "failed"} \/ row.status = job[j].status,
             job[j].status = "cleared" => row.status = "cleared"
      PROVE  Same
  <2>1. Len(job') = n
    BY <1>0, <1>2 DEF n
  <2>2. ASSUME NEW k \in 1..n PROVE Kept(k)
    <3>1. job'[k] = IF k = j THEN row ELSE job[k]
      BY <1>0, <1>2
    <3> QED
      BY <1>2, <3>1
  <2> QED
    BY <2>1, <2>2
<1>3. ASSUME NEW q \in Requests, ForceRunClaim(q)
      PROVE  \/ job' = job /\ jobAgent' = jobAgent
             \/ /\ Claimable(request[q].agent)
                /\ \A j \in 1..n : Kept(j)
  <2>1. CASE Claimable(request[q].agent)
    <3>1. PICK row : job' = Append(job, row)
      BY <1>3, <2>1 DEF ForceRunClaim, Q!CreateJob
    <3>2. \A j \in 1..n : job'[j] = job[j]
      BY <1>0, <3>1 DEF n
    <3> QED
      BY <2>1, <3>2
  <2>2. CASE ~ Claimable(request[q].agent)
    BY <1>3, <2>2 DEF ForceRunClaim, jobTables
  <2> QED
    BY <2>1, <2>2
<1>4. ASSUME ClearHistory PROVE Same
  <2>1. job' = [j \in 1..n |-> [job[j] EXCEPT !.status = "cleared"]]
    BY <1>0, <1>4 DEF ClearHistory, Q!ClearJobs, Q!Ids
  <2>2. \A j \in 1..n : job'[j].status = "cleared"
    BY <1>a, <2>1
  <2>3. Len(job') = n
    BY <1>0, <2>1
  <2> QED
    BY <2>2, <2>3
<1>5. ASSUME QueueStep PROVE Same
  <2>1. ASSUME Q!ClaimJob(TheWorker) PROVE Same
    <3> DEFINE j == Q!First(scan[TheWorker])
    <3>1. \/ job' = job
          \/ /\ job[j].status = "pending"
             /\ job' = [job EXCEPT ![j] = Q!Claimed(job[j], TheWorker)]
      BY <2>1 DEF Q!ClaimJob
    <3> HIDE DEF j
    <3>2. CASE j \in 1..n
      <4> DEFINE row == Q!Claimed(job[j], TheWorker)
      <4>1. row.status = "running"
        BY <1>a, <3>2 DEF Q!Claimed
      <4>2. job' = job \/ (job[j].status = "pending" /\ job' = [job EXCEPT ![j] = row])
        BY <3>1
      <4> HIDE DEF row
      <4> QED
        BY <1>1, <1>2, <3>2, <4>1, <4>2
    <3>3. CASE j \notin 1..n
      BY <1>0, <1>1, <3>1, <3>3
    <3> QED
      BY <3>2, <3>3
  <2>2. ASSUME NEW j \in DOMAIN job, Q!Heartbeat(TheWorker, j) \/ Q!BeatAges(j) PROVE Same
    <3>1. PICK b \in {"fresh", "stale"} : job' = [job EXCEPT ![j].beat = b]
      BY <2>2 DEF Q!Heartbeat, Q!BeatAges
    <3> DEFINE row == [job[j] EXCEPT !.beat = b]
    <3>2. j \in 1..n /\ row.status = job[j].status
      BY <1>0, <1>a
    <3>3. job' = [job EXCEPT ![j] = row]
      BY <3>1
    <3> HIDE DEF row
    <3> QED
      BY <1>2, <3>2, <3>3
  <2> QED
    BY <1>1, <1>5, <2>1, <2>2 DEF QueueStep, Q!ScanJobs
<1>6. ASSUME NEW t \in ManualThreads, NEW j \in DOMAIN job, StartAgentJob(t, j)
      PROVE  Same
  <2>1. \/ job' = job
        \/ job[j].status # "cleared" /\ job' = [job EXCEPT ![j].status = "running"]
    BY <1>6 DEF StartAgentJob, Q!StartJob
  <2> DEFINE row == [job[j] EXCEPT !.status = "running"]
  <2>2. j \in 1..n /\ row.status = "running"
    BY <1>0, <1>a
  <2>3. job' = job \/ (job[j].status # "cleared" /\ job' = [job EXCEPT ![j] = row])
    BY <2>1
  <2> HIDE DEF row
  <2> QED
    BY <1>1, <1>2, <2>2, <2>3
<1>7. ASSUME NEW t \in ManualThreads, ReleaseRead(t) \/ ReleaseWrite(t) PROVE job' = job
  BY <1>7 DEF ReleaseRead, ReleaseWrite, jobTables
<1>8. ASSUME NEW t \in ManualThreads, CloseAgentJob(t)
      PROVE  /\ Len(job') = n
             /\ \A j \in 1..n :
                  \/ Kept(j)
                  \/ /\ job[j].status # "cleared" /\ serves[t] = j
                     /\ job'[j].status = JobOutcome(t)
  <2> DEFINE k == serves[t]
             o == JobOutcome(t)
  <2>1. \/ job' = job
        \/ job[k].status # "cleared" /\ job' = [job EXCEPT ![k].status = o]
    BY <1>8 DEF CloseAgentJob, Q!FinishJob
  <2> HIDE DEF k, o
  <2>2. Len(job') = n
    BY <1>0, <2>1 DEF n
  <2>3. ASSUME NEW j \in 1..n, j # k PROVE job'[j] = job[j]
    BY <1>0, <2>1, <2>3
  <2>4. ASSUME k \in 1..n, job'[k] # job[k]
        PROVE  job[k].status # "cleared" /\ job'[k].status = o
    BY <1>0, <1>a, <2>1, <2>4
  <2>5. ASSUME NEW j \in 1..n
        PROVE  Kept(j) \/ (job[j].status # "cleared" /\ k = j /\ job'[j].status = o)
    <3>1. CASE job'[j] = job[j]
      BY <3>1
    <3>2. CASE job'[j] # job[j]
      BY <2>3, <2>4, <3>2
    <3> QED
      BY <3>1, <3>2
  <2> HIDE DEF Kept
  <2> QED
    BY <2>2, <2>5 DEF k, o
<1>9. ASSUME Visits \/ Switches \/ CrashAll PROVE job' = job
  BY <1>9 DEF Visits, Switches, CrashAll, Q!CrashWorker, jobTables
<1>10. ASSUME RestartAll PROVE Same
  <2>1. job' = [j \in 1..n |-> Q!Swept(job[j])]
    BY <1>0, <1>10 DEF RestartAll, Q!BootWorker, Q!Ids
  <2>2. Len(job') = n
    BY <1>0, <2>1
  <2>3. ASSUME NEW j \in 1..n PROVE Kept(j)
    <3>1. job'[j] = Q!Swept(job[j])
      BY <2>1
    <3> QED
      BY <1>a, <3>1 DEF Q!Swept
  <2> QED
    BY <2>2, <2>3
<1>11. ASSUME NEW q \in Requests, NEW a \in Agents, ForceRunCheck(q, a)
       PROVE  job' = job
  BY <1>11 DEF ForceRunCheck, jobTables
<1>12. jobAgent' = jobAgent \/ \E q \in Requests : ForceRunClaim(q)
  BY DEF ManualNext, ForceRun, ForceRunCheck, ClearHistory, QueueStep, Lane,
         StartAgentJob, ReleaseRead, ReleaseWrite, CloseAgentJob, Visits, Switches,
         CrashAll, RestartAll, manual, mvars
<1>13. UNCHANGED mvars => job' = job
  BY DEF mvars, jobTables
<1>14. \/ Same
       \/ \E q \in Requests : ForceRunClaim(q)
       \/ \E t \in ManualThreads : CloseAgentJob(t)
  <2> HIDE DEF Same
  <2> QED
    BY <1>1, <1>4, <1>5, <1>6, <1>7, <1>9, <1>10, <1>11, <1>13
       DEF ManualNext, ForceRun, Lane
<1>15. CASE \E q \in Requests : ForceRunClaim(q)
  BY <1>1, <1>3, <1>15 DEF n
<1>16. ASSUME ~ \E q \in Requests : ForceRunClaim(q)
       PROVE  /\ Len(job') = n
              /\ \A j \in 1..n : \/ Kept(j)
                                 \/ \E t \in ManualThreads :
                                      /\ CloseAgentJob(t) /\ serves[t] = j
                                      /\ job[j].status # "cleared"
                                      /\ job'[j].status = JobOutcome(t)
  <2> HIDE DEF Kept
  <2> QED
    BY <1>8, <1>14, <1>16
<1>17. CASE ~ \E q \in Requests : ForceRunClaim(q)
  BY <1>12, <1>16, <1>17 DEF n
<1> QED
  BY <1>15, <1>17

-----------------------------------------------------------------------------
(* Steps, as a lane thread sees them *)

\* A thread keeps its job, and when it has an outcome keeps that too.
GoesOn(t) ==
  /\ pc'[t] = "idle" <=> pc[t] = "idle"
  /\ who'[t] = who[t] /\ serves'[t] = serves[t]
  /\ AtOutcome(t) => pc'[t] = pc[t] /\ mine'[t] = mine[t]
  /\ pc'[t] = "returned" => pc[t] = "returned" \/ Visit(t)
  /\ release'[t] = release[t] \/ ReleaseRead(t) \/ ReleaseWrite(t)

\* The visits of other threads do not move it; its own never leave the lane's hands.
LEMMA VisitsGoOn ==
  ASSUME TypeInv, NEW t \in ManualThreads, Visits
  PROVE  GoesOn(t)
<1> USE DEF TypeInv, TypeOK, AtOutcome
<1>1. t \in Threads /\ t \notin WakeSlots
  BY AgentsAssumption DEF Threads
<1>2. serves' = serves /\ release' = release
  BY DEF Visits, manual
<1>3. CASE UNCHANGED <<pc, who, mine>>
  BY <1>2, <1>3 DEF GoesOn
<1>4. CASE Time
  BY <1>3, <1>4 DEF Time, WakeFallsDue, RunFallsOverdue, local
<1>5. CASE Poller
  <2>1. ASSUME NEW c \in poll, NEW o \in WakeSlots, PollDispatch(c, o)
        PROVE  GoesOn(t)
    BY <1>1, <1>2, <2>1 DEF PollDispatch, Begin, Goto, GoesOn
  <2> QED
    BY <1>3, <1>5, <2>1
       DEF Poller, SweepStaleRuns, PollScan, PollLurker, PollDefer, PollFull, local
<1>6. ASSUME NEW o \in Threads, o # t, Visit(o) PROVE GoesOn(t)
  <2>1. pc'[t] = pc[t] /\ who'[t] = who[t] /\ mine'[t] = mine[t]
    BY <1>1, <1>6 DEF Visit, Load, Recover, Select, Insert, InsertRefused, Refused,
         BackOffExhausted, VisitEnds, VisitAbandoned, FinishRead, FinishWrite, Fail,
         WakeEnds, Quit, Goto, Forget
  <2> QED
    BY <1>2, <2>1 DEF GoesOn
<1>7. CASE Visit(t)
  <2>1. /\ pc[t] \notin {"idle", "returned", "raised"} /\ pc'[t] # "idle"
        /\ who'[t] = who[t]
    BY <1>1, <1>7 DEF Visit, Load, Recover, Select, Insert, InsertRefused, Refused,
         BackOffExhausted, VisitEnds, VisitAbandoned, FinishRead, FinishWrite, Fail,
         WakeEnds, Goto, Forget
  <2> QED
    BY <1>2, <1>7, <2>1 DEF GoesOn
<1> QED
  BY <1>4, <1>5, <1>6, <1>7 DEF Visits

\* A lane thread goes on, takes a job, closes its own, or dies with the worker.
LEMMA LaneSteps ==
  ASSUME TypeInv, ManualTypes, [ManualNext]_mvars, NEW t \in ManualThreads
  PROVE  \/ GoesOn(t)
         \/ \E j \in DOMAIN job : StartAgentJob(t, j) /\ job[j].status # "cleared"
         \/ CloseAgentJob(t)
         \/ CrashAll
<1> USE DEF TypeInv, TypeOK, ManualTypes
<1>0. t \in Threads
  BY DEF Threads
<1>1. ASSUME UNCHANGED <<pc, who, mine, serves, release>> PROVE GoesOn(t)
  BY <1>1 DEF GoesOn
<1>2. CASE \E q \in Requests : ForceRunClaim(q) \/ \E a \in Agents : ForceRunCheck(q, a)
  BY <1>1, <1>2 DEF ForceRunClaim, ForceRunCheck, vars, local
<1>3. CASE ClearHistory \/ QueueStep \/ UNCHANGED mvars \/ RestartAll
  BY <1>1, <1>3 DEF ClearHistory, QueueStep, RestartAll, Restart, mvars, vars, manual, local
<1>4. CASE Switches
  <2>1. UNCHANGED <<local, manual>>
    BY <1>4, AdminWrites DEF Switches
  <2> QED
    BY <1>1, <2>1 DEF local, manual
<1>5. CASE Visits
  BY <1>5, VisitsGoOn
<1>6. ASSUME NEW u \in ManualThreads, NEW j \in DOMAIN job, StartAgentJob(u, j)
      PROVE  GoesOn(t) \/ (u = t /\ job[j].status # "cleared")
  <2>1. CASE job[j].status = "cleared"
    BY <1>1, <1>6, <2>1 DEF StartAgentJob, vars
  <2>2. CASE job[j].status # "cleared" /\ u # t
    <3>1. /\ pc'[t] = pc[t] /\ who'[t] = who[t] /\ mine'[t] = mine[t]
          /\ serves'[t] = serves[t] /\ release'[t] = release[t]
      BY <1>0, <1>6, <2>2 DEF StartAgentJob, Begin, Goto
    <3> QED
      BY <3>1 DEF GoesOn
  <2> QED
    BY <2>1, <2>2
<1>7. ASSUME NEW u \in ManualThreads, ReleaseRead(u) \/ ReleaseWrite(u) PROVE GoesOn(t)
  <2>1. UNCHANGED <<pc, who, mine, serves>>
    BY <1>7 DEF ReleaseRead, ReleaseWrite
  <2>2. u = t \/ release'[t] = release[t]
    BY <1>7 DEF ReleaseRead, ReleaseWrite
  <2> QED
    BY <1>7, <2>1, <2>2 DEF GoesOn
<1>8. ASSUME NEW u \in ManualThreads, CloseAgentJob(u), u # t PROVE GoesOn(t)
  <2>1. /\ pc'[t] = pc[t] /\ who'[t] = who[t] /\ mine'[t] = mine[t]
        /\ serves'[t] = serves[t] /\ release'[t] = release[t]
    BY <1>0, <1>8 DEF CloseAgentJob, Quit, Goto
  <2> QED
    BY <2>1 DEF GoesOn
<1> QED
  BY <1>2, <1>3, <1>4, <1>5, <1>6, <1>7, <1>8 DEF ManualNext, ForceRun, Lane

-----------------------------------------------------------------------------
(* Steps, as markers and jobs in hand see them *)

\* A granted request inserts one job, for its agent, and marks the agent with it.
LEMMA GrantedRequest ==
  ASSUME QP!JobTypeOK, ManualTypes, NEW q \in Requests, ForceRunClaim(q),
         Claimable(request[q].agent)
  PROVE  LET a == request[q].agent
         IN  /\ a \in Agents
             /\ Len(job') = Len(job) + 1 /\ job'[Len(job) + 1].status = "pending"
             /\ jobAgent' = Append(jobAgent, a)
             /\ \E s \in Status :
                  marker' = [marker EXCEPT ![a] = [job |-> Len(job) + 1, previous |-> s]]
<1> DEFINE a == request[q].agent
           s == request[q].status
<1>1. a \in Agents /\ s \in Status
  BY DEF ForceRunClaim, ManualTypes
<1>2. /\ job' = Append(job, Q!NewJob(9))
      /\ jobAgent' = Append(jobAgent, a)
      /\ marker' = [marker EXCEPT ![a] = [job |-> Len(job) + 1, previous |-> s]]
  BY DEF ForceRunClaim, Q!CreateJob
<1> HIDE DEF s
<1>3. Len(job') = Len(job) + 1 /\ job'[Len(job) + 1] = Q!NewJob(9)
  BY <1>2, LenProperties DEF QP!JobTypeOK
<1>4. Q!NewJob(9).status = "pending"
  BY DEF Q!NewJob
<1> QED
  BY <1>1, <1>2, <1>3, <1>4

\* Otherwise markers are only taken away.
LEMMA MarkersStep ==
  ASSUME TypeInv, ManualTypes, [ManualNext]_mvars,
         ~ \E q \in Requests : ForceRunClaim(q) /\ Claimable(request[q].agent)
  PROVE  marker' = marker \/ \E t \in ManualThreads : /\ ReleaseWrite(t)
                                                      /\ who[t] \in Agents
                                                      /\ marker' = [marker EXCEPT ![who[t]] = NoMarker]
<1>1. CASE \E q \in Requests : ForceRunClaim(q)
  BY <1>1 DEF ForceRunClaim
<1>2. ASSUME NEW t \in ManualThreads, ReleaseWrite(t)
      PROVE  who[t] \in Agents /\ marker' = [marker EXCEPT ![who[t]] = NoMarker]
  BY <1>2 DEF ReleaseWrite, AtOutcome, TypeInv, ThreadsOK, Threads
<1> QED
  BY <1>1, <1>2 DEF ManualNext, ForceRun, ForceRunCheck, ClearHistory, QueueStep, Lane,
       StartAgentJob, ReleaseRead, CloseAgentJob, Visits, Switches, CrashAll, RestartAll,
       manual, mvars

\* What the worker has in hand: a job joins when a thread takes it from the lane, where
\* it was not in hand yet, and leaves when that thread closes it.
LEMMA HandsStep ==
  ASSUME QP!JobInv, [ManualNext]_mvars
  PROVE  /\ \/ exec[TheWorker] \subseteq exec'[TheWorker]
            \/ \E t \in ManualThreads :
                 CloseAgentJob(t) /\ exec'[TheWorker] = exec[TheWorker] \ {serves[t]}
            \/ CrashAll
         /\ exec[TheWorker] \subseteq 1..Len(job)
         /\ \A t \in ManualThreads, j \in DOMAIN job :
              StartAgentJob(t, j) /\ job[j].status # "cleared" =>
                j \in exec'[TheWorker] /\ j \notin exec[TheWorker]
<1>0. exec \in [{TheWorker} -> SUBSET (1..Len(job))]
  <2>1. QP!Ids = 1..Len(job)
    BY LenProperties DEF QP!JobInv, QP!JobTypeOK, QP!Ids
  <2> QED
    BY <2>1 DEF QP!JobInv, QP!JobTypeOK
<1>1. ASSUME NEW t \in ManualThreads, NEW j \in DOMAIN job, StartAgentJob(t, j)
      PROVE  /\ exec[TheWorker] \subseteq exec'[TheWorker]
             /\ job[j].status # "cleared" =>
                  j \in exec'[TheWorker] /\ j \notin exec[TheWorker]
  <2>1. j \in QP!Queued(TheWorker)
    BY <1>1 DEF StartAgentJob, Q!StartJob, Q!Startable, QP!Queued
  <2>2. j \notin exec[TheWorker]
    BY <2>1 DEF QP!JobInv, QP!HeldOnce
  <2>3. IF job[j].status = "cleared" THEN exec' = exec
        ELSE exec' = [exec EXCEPT ![TheWorker] = exec[TheWorker] \cup {j}]
    BY <1>1 DEF StartAgentJob, Q!StartJob
  <2> QED
    BY <1>0, <2>2, <2>3
<1>2. ASSUME NEW t \in ManualThreads, CloseAgentJob(t)
      PROVE  exec'[TheWorker] = exec[TheWorker] \ {serves[t]}
  BY <1>0, <1>2 DEF CloseAgentJob, Q!FinishJob
<1>3. CASE exec' = exec
  BY <1>0, <1>1, <1>3
<1>4. CASE \E t \in ManualThreads, j \in DOMAIN job : StartAgentJob(t, j)
  BY <1>0, <1>1, <1>4
<1>5. CASE \E t \in ManualThreads : CloseAgentJob(t)
  BY <1>0, <1>1, <1>2, <1>5
<1>6. CASE CrashAll
  BY <1>0, <1>1, <1>6
<1>7. CASE \E q \in Requests : ForceRunClaim(q)
  BY <1>3, <1>7 DEF ForceRunClaim, Q!CreateJob, jobTables
<1>8. CASE ClearHistory \/ QueueStep \/ RestartAll
  BY <1>3, <1>8 DEF ClearHistory, QueueStep, RestartAll, Q!ClearJobs, Q!ScanJobs,
       Q!ClaimJob, Q!Heartbeat, Q!BeatAges, Q!BootWorker
<1> QED
  BY <1>3, <1>4, <1>5, <1>6, <1>7, <1>8
     DEF ManualNext, ForceRun, ForceRunCheck, Lane, ReleaseRead, ReleaseWrite, Visits,
         Switches, jobTables, mvars

-----------------------------------------------------------------------------
(* The invariant holds step by step *)

\* The tables of requests, markers and lanes keep their types.
LEMMA ManualTypesStep ==
  ASSUME QP!JobTypeOK, TypeInv, ManualTypes, [ManualNext]_mvars
  PROVE  ManualTypes'
<1>0. Len(job) \in Nat
  BY LenProperties DEF QP!JobTypeOK
<1>1. /\ jobAgent' \in Seq(Agents) /\ Len(jobAgent') = Len(job')
      /\ marker' \in [Agents -> [job: 0..Len(job'), previous: Status]]
  <2>1. ASSUME NEW q \in Requests, ForceRunClaim(q), Claimable(request[q].agent)
        PROVE  /\ jobAgent' \in Seq(Agents) /\ Len(jobAgent') = Len(job')
               /\ marker' \in [Agents -> [job: 0..Len(job'), previous: Status]]
    <3> DEFINE a == request[q].agent
    <3>1. /\ a \in Agents /\ Len(job') = Len(job) + 1
          /\ jobAgent' = Append(jobAgent, a)
      BY <2>1, GrantedRequest
    <3>2. PICK s \in Status :
            marker' = [marker EXCEPT ![a] = [job |-> Len(job) + 1, previous |-> s]]
      BY <2>1, GrantedRequest
    <3> HIDE DEF a
    <3>3. jobAgent' \in Seq(Agents) /\ Len(jobAgent') = Len(job')
      BY <3>1, AppendProperties DEF ManualTypes
    <3>4. marker' \in [Agents -> [job: 0..Len(job'), previous: Status]]
      BY <1>0, <3>1, <3>2 DEF ManualTypes
    <3> QED
      BY <3>3, <3>4
  <2>2. CASE ~ \E q \in Requests : ForceRunClaim(q) /\ Claimable(request[q].agent)
    <3>1. Len(job') = Len(job) /\ jobAgent' = jobAgent
      BY <2>2, JobsStep
    <3>2. NoMarker \in [job: 0..Len(job), previous: Status]
      BY <1>0 DEF NoMarker, Status
    <3>3. marker' \in [Agents -> [job: 0..Len(job), previous: Status]]
      BY <2>2, <3>2, MarkersStep DEF ManualTypes
    <3> QED
      BY <3>1, <3>3 DEF ManualTypes
  <2> QED
    BY <2>1, <2>2
<1>2. request' \in [Requests -> [agent: Agents, status: Status] \cup {None}]
  <2>1. CASE request' = request
    BY <2>1 DEF ManualTypes
  <2>2. ASSUME NEW q \in Requests, NEW a \in Agents, ForceRunCheck(q, a)
        PROVE  request' \in [Requests -> [agent: Agents, status: Status] \cup {None}]
    BY <2>2 DEF ForceRunCheck, ManualTypes, TypeInv, TypeOK, AgentRow
  <2>3. ASSUME NEW q \in Requests, ForceRunClaim(q)
        PROVE  request' \in [Requests -> [agent: Agents, status: Status] \cup {None}]
    BY <2>3 DEF ForceRunClaim, ManualTypes
  <2> QED
    BY <2>1, <2>2, <2>3
       DEF ManualNext, ForceRun, ClearHistory, QueueStep, Lane, StartAgentJob,
           ReleaseRead, ReleaseWrite, CloseAgentJob, Visits, Switches, CrashAll,
           RestartAll, manual, mvars
<1>3. /\ serves' \in [ManualThreads -> Nat]
      /\ release' \in [ManualThreads -> {"read", "pop", "restore", "close"}]
  <2> DEFINE Kept == /\ serves' \in [ManualThreads -> Nat]
                     /\ release' \in [ManualThreads -> {"read", "pop", "restore", "close"}]
  <2>1. ASSUME UNCHANGED <<serves, release>> PROVE Kept
    BY <2>1 DEF ManualTypes
  <2>2. ASSUME NEW t \in ManualThreads, NEW j \in DOMAIN job, StartAgentJob(t, j) PROVE Kept
    <3>1. j \in Nat
      BY LenProperties DEF QP!JobTypeOK
    <3>2. serves' = serves \/ serves' = [serves EXCEPT ![t] = j]
      BY <2>2 DEF StartAgentJob
    <3>3. release' = release
      BY <2>2 DEF StartAgentJob
    <3> QED
      BY <3>1, <3>2, <3>3 DEF ManualTypes
  <2>3. ASSUME NEW t \in ManualThreads, ReleaseRead(t) PROVE Kept
    <3>1. PICK next : /\ release' = [release EXCEPT ![t] = next]
                      /\ next \in {"close", "restore", "pop"}
      BY <2>3 DEF ReleaseRead
    <3> QED
      BY <2>3, <3>1 DEF ReleaseRead, ManualTypes
  <2>4. ASSUME NEW t \in ManualThreads, ReleaseWrite(t) \/ CloseAgentJob(t) PROVE Kept
    <3>1. /\ release' \in {[release EXCEPT ![t] = "close"], [release EXCEPT ![t] = "read"]}
          /\ serves' \in {serves, [serves EXCEPT ![t] = 0]}
      BY <2>4 DEF ReleaseWrite, CloseAgentJob
    <3>2. serves' \in [ManualThreads -> Nat]
      BY <3>1 DEF ManualTypes
    <3>3. release' \in [ManualThreads -> {"read", "pop", "restore", "close"}]
      BY <3>1 DEF ManualTypes
    <3> QED
      BY <3>2, <3>3
  <2>5. ASSUME CrashAll PROVE Kept
    BY <2>5 DEF CrashAll
  <2> HIDE DEF Kept
  <2>6. Kept
    BY <2>1, <2>2, <2>3, <2>4, <2>5
       DEF ManualNext, ForceRun, ForceRunCheck, ForceRunClaim, ClearHistory, QueueStep,
           Lane, Visits, Switches, RestartAll, manual, mvars
  <2> QED
    BY <2>6 DEF Kept
<1> QED
  BY <1>1, <1>2, <1>3 DEF ManualTypes

\* A lane thread keeps to its own job.
LEMMA LanesStep ==
  ASSUME ManualInv, QP!JobInv, [ManualNext]_mvars
  PROVE  LanesHold'
<1> DEFINE n == Len(job)
           W == TheWorker
<1>0. /\ TypeInv /\ ManualTypes /\ LanesHold /\ QP!JobTypeOK
      /\ n \in Nat /\ DOMAIN job = 1..n
  BY LenProperties DEF ManualInv, QP!JobInv, QP!JobTypeOK
<1>1. exec[W] \subseteq 1..n
  BY HandsStep
<1>2. \A j \in 1..n : jobAgent'[j] = jobAgent[j]
  <2>1. CASE \E q \in Requests : ForceRunClaim(q) /\ Claimable(request[q].agent)
    <3>1. PICK a \in Agents : jobAgent' = Append(jobAgent, a)
      BY <1>0, <2>1, GrantedRequest
    <3> QED
      BY <1>0, <3>1, AppendProperties DEF ManualTypes
  <2>2. CASE ~ \E q \in Requests : ForceRunClaim(q) /\ Claimable(request[q].agent)
    BY <1>0, <2>2, JobsStep
  <2> QED
    BY <2>1, <2>2
\* What a thread serves after the step, it served before, or has just taken.
<1>3. ASSUME NEW t \in ManualThreads, serves'[t] # 0
      PROVE  \/ /\ GoesOn(t) /\ serves'[t] = serves[t] /\ serves[t] \in exec[W]
                /\ serves[t] \in exec'[W]
             \/ /\ StartAgentJob(t, serves'[t]) /\ serves'[t] \in 1..n
                /\ serves'[t] \in exec'[W] /\ serves'[t] \notin exec[W]
  <2>1. CASE GoesOn(t)
    <3>1. serves'[t] = serves[t] /\ serves[t] \in exec[W]
      BY <1>0, <1>3, <2>1 DEF GoesOn, LanesHold
    <3>2. ~ CrashAll
      BY <1>3 DEF CrashAll
    <3>3. ASSUME NEW u \in ManualThreads, CloseAgentJob(u), serves[u] = serves[t]
          PROVE  FALSE
      <4>1. u = t
        BY <1>0, <1>3, <3>1, <3>3 DEF LanesHold
      <4> QED
        BY <1>0, <1>3, <3>3, <4>1 DEF CloseAgentJob, ManualTypes
    <3>4. serves[t] \in exec'[W]
      BY <3>1, <3>2, <3>3, HandsStep
    <3> QED
      BY <2>1, <3>1, <3>4
  <2>2. ASSUME NEW j \in DOMAIN job, StartAgentJob(t, j), job[j].status # "cleared"
        PROVE  /\ StartAgentJob(t, serves'[t]) /\ serves'[t] \in 1..n
               /\ serves'[t] \in exec'[W] /\ serves'[t] \notin exec[W]
    <3>1. serves'[t] = j
      BY <1>0, <2>2 DEF StartAgentJob, ManualTypes
    <3> QED
      BY <1>0, <2>2, <3>1, HandsStep
  <2>3. ~ CloseAgentJob(t) /\ ~ CrashAll
    BY <1>0, <1>3 DEF CloseAgentJob, CrashAll, ManualTypes
  <2> QED
    BY <1>0, <2>1, <2>2, <2>3, LaneSteps
<1>4. ASSUME NEW t \in ManualThreads
      PROVE  serves'[t] = 0 <=> pc'[t] = "idle"
  <2>1. CASE GoesOn(t)
    BY <1>0, <2>1 DEF GoesOn, LanesHold
  <2>2. ASSUME NEW j \in DOMAIN job, StartAgentJob(t, j), job[j].status # "cleared"
        PROVE  serves'[t] # 0 /\ pc'[t] = "load"
    BY <1>0, <2>2 DEF StartAgentJob, ManualTypes, Begin, Goto, TypeInv, TypeOK, Threads
  <2>3. ASSUME CloseAgentJob(t) \/ CrashAll PROVE serves'[t] = 0 /\ pc'[t] = "idle"
    BY <1>0, <2>3 DEF CloseAgentJob, CrashAll, Crash, Quit, Goto, ManualTypes, TypeInv,
                      TypeOK, Threads
  <2> QED
    BY <1>0, <2>1, <2>2, <2>3, LaneSteps
<1>5. ASSUME NEW t \in ManualThreads, serves'[t] # 0
      PROVE  serves'[t] \in exec'[W] /\ who'[t] = jobAgent'[serves'[t]]
  <2>1. CASE GoesOn(t) /\ serves[t] \in exec[W] /\ serves[t] \in exec'[W]
    BY <1>0, <1>1, <1>2, <1>5, <2>1 DEF GoesOn, LanesHold
  <2>2. CASE /\ StartAgentJob(t, serves'[t]) /\ serves'[t] \in 1..n
             /\ serves'[t] \in exec'[W] /\ serves'[t] \notin exec[W]
    <3>1. who'[t] = jobAgent[serves'[t]]
      <4> DEFINE j == serves'[t]
      <4>1. StartAgentJob(t, j) /\ t \in Threads /\ who \in [Threads -> Agents \cup {None}]
        BY <1>0, <2>2 DEF Threads, TypeInv, TypeOK
      <4>2. job[j].status # "cleared"
        <5>1. CASE job[j].status = "cleared"
          <6>1. serves' = serves
            BY <4>1, <5>1 DEF StartAgentJob
          <6>2. serves[t] # 0
            BY <1>5, <6>1
          <6> QED
            BY <1>0, <2>2, <6>1, <6>2 DEF LanesHold
        <5> QED
          BY <5>1
      <4> HIDE DEF j
      <4>3. who' = [who EXCEPT ![t] = jobAgent[j]]
        BY <4>1, <4>2 DEF StartAgentJob, Begin
      <4> QED
        BY <4>1, <4>3 DEF j
    <3> QED
      BY <1>2, <2>2, <3>1
  <2> QED
    BY <1>3, <1>5, <2>1, <2>2
<1>6. ASSUME NEW t \in ManualThreads, NEW u \in ManualThreads,
             serves'[t] # 0, serves'[u] = serves'[t]
      PROVE  u = t
  <2>1. CASE serves'[t] \in exec[W]
    <3>1. serves[t] = serves'[t] /\ serves[u] = serves'[u]
      BY <1>3, <1>6, <2>1
    <3> QED
      BY <1>0, <1>6, <3>1 DEF LanesHold
  <2>2. CASE serves'[t] \notin exec[W]
    <3>1. StartAgentJob(t, serves'[t])
      BY <1>3, <1>6, <2>2
    <3>2. u = t \/ serves'[u] = serves[u]
      BY <1>0, <3>1 DEF StartAgentJob, ManualTypes
    <3>3. serves'[u] # serves[u]
      BY <1>0, <1>6, <2>2 DEF LanesHold
    <3> QED
      BY <3>2, <3>3
  <2> QED
    BY <2>1, <2>2
<1> QED
  BY <1>4, <1>5, <1>6 DEF LanesHold

\* No marker is given to a thread's job again once its release is over.
LEMMA ReleasesStep ==
  ASSUME ManualInv, QP!JobInv, [ManualNext]_mvars
  PROVE  ReleasesHold'
<1> DEFINE n == Len(job)
<1>0. /\ TypeInv /\ ManualTypes /\ LanesHold /\ ReleasesHold /\ QP!JobTypeOK
      /\ n \in Nat /\ DOMAIN job = 1..n
  BY LenProperties DEF ManualInv, QP!JobInv, QP!JobTypeOK
\* A marker that does not name the row of an old job does not come to name it.
<1>1. ASSUME NEW a \in Agents, NEW j \in 1..n, marker'[a].job = j
      PROVE  marker[a].job = j
  <2>1. CASE \E q \in Requests : ForceRunClaim(q) /\ Claimable(request[q].agent)
    <3>1. PICK b \in Agents, s \in Status :
            marker' = [marker EXCEPT ![b] = [job |-> n + 1, previous |-> s]]
      BY <1>0, <2>1, GrantedRequest
    <3>2. marker'[a] = marker[a] \/ marker'[a].job = n + 1
      BY <1>0, <3>1 DEF ManualTypes
    <3> QED
      BY <1>0, <1>1, <3>2
  <2>2. CASE ~ \E q \in Requests : ForceRunClaim(q) /\ Claimable(request[q].agent)
    <3>1. marker'[a] = marker[a] \/ marker'[a].job = 0
      BY <1>0, <2>2, MarkersStep DEF ManualTypes, NoMarker
    <3> QED
      BY <1>1, <3>1
  <2> QED
    BY <2>1, <2>2
<1>2. ASSUME NEW t \in ManualThreads, serves[t] # 0
      PROVE  /\ who[t] \in Agents /\ serves[t] \in 1..n
             /\ job[serves[t]].status = "cleared" => job'[serves[t]].status = "cleared"
  <2>1. serves[t] \in 1..n
    BY <1>0, <1>2, HandsStep DEF LanesHold
  <2>2. pc[t] # "idle" /\ t \in Threads
    BY <1>0, <1>2 DEF LanesHold, Threads
  <2> QED
    BY <1>0, <2>1, <2>2, JobsStep DEF TypeInv, ThreadsOK
<1>3. ASSUME NEW t \in ManualThreads
      PROVE  /\ release'[t] # "read" => AtOutcome(t)'
             /\ release'[t] = "close" => ~ Owns(t)' \/ job'[serves'[t]].status = "cleared"
  <2>1. CASE release'[t] = "read"
    BY <2>1
  <2>2. CASE release'[t] # "read" /\ GoesOn(t)
    <3>1. AtOutcome(t)
      BY <1>0, <2>2 DEF GoesOn, ReleaseRead, ReleaseWrite, ReleasesHold
    <3>2. AtOutcome(t)' /\ serves'[t] = serves[t] /\ who'[t] = who[t]
      BY <2>2, <3>1 DEF AtOutcome, GoesOn
    <3>3. serves[t] # 0
      BY <1>0, <3>1 DEF AtOutcome, LanesHold
    <3>4. ~ Owns(t) \/ job[serves[t]].status = "cleared" =>
            ~ Owns(t)' \/ job'[serves'[t]].status = "cleared"
      BY <1>1, <1>2, <3>2, <3>3 DEF Owns
    <3>5. ASSUME ReleaseRead(t), release'[t] = "close"
          PROVE  ~ Owns(t) \/ job[serves[t]].status = "cleared"
      <4>1. PICK next : /\ release' = [release EXCEPT ![t] = next]
                        /\ next = "close" => ~ Owns(t) \/ job[serves[t]].status = "cleared"
        BY <3>5 DEF ReleaseRead
      <4> QED
        BY <1>0, <3>5, <4>1 DEF ManualTypes
    <3>6. ASSUME ReleaseWrite(t) PROVE ~ Owns(t)'
      <4>1. marker' = [marker EXCEPT ![who[t]] = NoMarker]
        BY <3>6 DEF ReleaseWrite
      <4>2. marker'[who[t]].job = 0
        BY <1>0, <1>2, <3>3, <4>1 DEF ManualTypes, NoMarker
      <4> QED
        BY <3>2, <3>3, <4>2 DEF Owns
    <3>7. release'[t] = "close" => ~ Owns(t)' \/ job'[serves'[t]].status = "cleared"
      BY <1>0, <2>2, <3>4, <3>5, <3>6 DEF GoesOn, ReleasesHold
    <3> QED
      BY <3>2, <3>7
  <2>3. ASSUME NEW j \in DOMAIN job, StartAgentJob(t, j) PROVE release'[t] = "read"
    <3>1. pc[t] = "idle" /\ release' = release
      BY <2>3 DEF StartAgentJob
    <3> QED
      BY <1>0, <3>1 DEF ReleasesHold, AtOutcome
  <2>4. ASSUME CloseAgentJob(t) \/ CrashAll PROVE release'[t] = "read"
    BY <1>0, <2>4 DEF CloseAgentJob, CrashAll, ManualTypes
  <2> QED
    BY <1>0, <2>1, <2>2, <2>3, <2>4, LaneSteps
<1> QED
  BY <1>3 DEF ReleasesHold

\* run_once() returns once its run has an outcome, and outcomes stay.
LEMMA ReturnedStep ==
  ASSUME ManualInv, QP!JobInv, [ManualNext]_mvars
  PROVE  ReturnedRuns'
<1>0. TypeInv /\ ManualTypes /\ LanesHold /\ ReturnedRuns
  BY DEF ManualInv
<1> SUFFICES ASSUME NEW t \in ManualThreads, pc'[t] = "returned"
             PROVE  mine'[t] \in RunIds' /\ runs'[mine'[t]].status # "running"
  BY DEF ReturnedRuns, Live
<1>1. t \in Threads /\ t \notin WakeSlots
  BY AgentsAssumption DEF Threads
<1>2. CASE GoesOn(t) /\ pc[t] = "returned"
  <2>1. mine'[t] = mine[t] /\ mine[t] \in RunIds /\ ~ Live(mine[t])
    BY <1>0, <1>2 DEF GoesOn, AtOutcome, ReturnedRuns
  <2>2. mine[t] \in RunIds' /\ runs'[mine[t]].status # "running"
    BY <1>0, <2>1, ManualRunsStep
  <2> QED
    BY <2>1, <2>2 DEF Live
<1>3. CASE Visit(t) /\ pc[t] # "returned"
  <2>1. VisitAbandoned(t) \/ FinishRead(t) \/ FinishWrite(t) \/ Fail(t)
    BY <1>0, <1>1, <1>3 DEF TypeInv, TypeOK, Visit, Load, Recover, Select, Insert,
         InsertRefused, Refused, BackOffExhausted, VisitEnds, WakeEnds, Goto, Forget
  <2>2. /\ mine' = mine /\ pc[t] \in Owning
    BY <2>1 DEF VisitAbandoned, FinishRead, FinishWrite, Fail, Owning
  <2>3. mine[t] \in RunIds
    BY <1>0, <1>1, <2>2 DEF TypeInv, ThreadsOK
  <2>4. CASE ~ Live(mine[t])
    BY <1>0, <2>2, <2>3, <2>4, ManualRunsStep DEF Live
  <2>5. CASE Live(mine[t])
    <3>1. PICK s \in {"completed", "failed"} : runs' = Closed({mine[t]}, s)
      <4>1. ~ VisitAbandoned(t)
        BY <2>5 DEF VisitAbandoned
      <4>2. ~ FinishRead(t)
        <5>1. FinishRead(t) => pc'[t] = "complete"
          BY <1>0, <1>1, <2>5 DEF FinishRead, Goto, TypeInv, TypeOK
        <5> QED
          BY <5>1
      <4> QED
        BY <2>1, <2>5, <4>1, <4>2 DEF FinishWrite, Fail
    <3>2. s \in RunStatus /\ runs \in Seq(Run)
      BY <1>0 DEF RunStatus, TypeInv, TypeOK
    <3>3. DOMAIN runs' = RunIds /\ runs'[mine[t]].status = s
      BY <2>3, <3>1, <3>2, ClosedRuns
    <3> QED
      BY <2>2, <2>3, <3>3 DEF Live, RunIds
  <2> QED
    BY <2>4, <2>5
<1>4. ~ (\E j \in DOMAIN job : StartAgentJob(t, j) /\ job[j].status # "cleared")
  BY <1>0, <1>1 DEF StartAgentJob, Begin, Goto, TypeInv, TypeOK
<1>5. ~ CloseAgentJob(t) /\ ~ CrashAll
  BY <1>0, <1>1 DEF CloseAgentJob, CrashAll, Crash, Quit, Goto, TypeInv, TypeOK
<1> QED
  BY <1>0, <1>2, <1>3, <1>4, <1>5, LaneSteps DEF GoesOn

\* A marked job stays open: the thread that ends it has released the marker first.
LEMMA MarkedStep ==
  ASSUME ManualInv, QP!JobInv, [ManualNext]_mvars
  PROVE  MarkerNamesOpenJob'
<1> DEFINE n == Len(job)
<1>0. /\ ManualTypes /\ LanesHold /\ ReleasesHold /\ MarkerNamesOpenJob /\ TypeInv
      /\ QP!JobTypeOK /\ n \in Nat
  BY LenProperties DEF ManualInv, QP!JobInv, QP!JobTypeOK
<1> SUFFICES ASSUME NEW a \in Agents, marker'[a].job # 0
             PROVE  /\ jobAgent'[marker'[a].job] = a
                    /\ job'[marker'[a].job].status \notin {"completed", "failed"}
  BY DEF MarkerNamesOpenJob
<1>1. ASSUME marker'[a] = marker[a]
      PROVE  /\ jobAgent[marker[a].job] = a /\ marker[a].job \in 1..n
             /\ job'[marker[a].job].status \notin {"completed", "failed"}
  <2> DEFINE m == marker[a].job
  <2>1. m \in 1..n /\ jobAgent[m] = a /\ job[m].status \notin {"completed", "failed"}
    BY <1>0, <1>1 DEF ManualTypes, MarkerNamesOpenJob
  <2>2. ASSUME NEW t \in ManualThreads, CloseAgentJob(t), serves[t] = m
        PROVE  job'[m].status = job[m].status
    <3>1. release[t] = "close" /\ serves[t] # 0 /\ who[t] = a
      BY <1>0, <2>1, <2>2 DEF CloseAgentJob, LanesHold
    <3>2. job[m].status = "cleared"
      BY <1>0, <2>2, <3>1 DEF ReleasesHold, Owns
    <3> QED
      BY <1>0, <2>1, <3>2, JobsStep
  <2> HIDE DEF m
  <2>3. job'[m].status \notin {"completed", "failed"}
    BY <1>0, <2>1, <2>2, JobsStep
  <2> QED
    BY <2>1, <2>3 DEF m
<1>2. CASE \E q \in Requests : ForceRunClaim(q) /\ Claimable(request[q].agent)
  <2>1. PICK b \in Agents : /\ Len(job') = n + 1 /\ job'[n + 1].status = "pending"
                            /\ jobAgent' = Append(jobAgent, b)
                            /\ \E s \in Status : marker' =
                                 [marker EXCEPT ![b] = [job |-> n + 1, previous |-> s]]
    BY <1>0, <1>2, GrantedRequest
  <2>2. jobAgent'[n + 1] = b /\ \A j \in 1..n : jobAgent'[j] = jobAgent[j]
    BY <1>0, <2>1, AppendProperties DEF ManualTypes
  <2>3. CASE a = b
    BY <1>0, <2>1, <2>2, <2>3 DEF ManualTypes
  <2>4. CASE a # b
    <3>1. marker'[a] = marker[a]
      BY <1>0, <2>1, <2>4 DEF ManualTypes
    <3> QED
      BY <1>1, <2>2, <3>1
  <2> QED
    BY <2>3, <2>4
<1>3. CASE ~ \E q \in Requests : ForceRunClaim(q) /\ Claimable(request[q].agent)
  <2>1. marker'[a] = marker[a]
    BY <1>0, <1>3, MarkersStep DEF ManualTypes, NoMarker
  <2>2. jobAgent' = jobAgent
    BY <1>0, <1>3, JobsStep
  <2> QED
    BY <1>1, <2>1, <2>2
<1> QED
  BY <1>2, <1>3

LEMMA ManualStarts == ManualInit => ManualInv
<1> SUFFICES ASSUME ManualInit PROVE ManualInv
  OBVIOUS
<1>1. TypeInv
  BY TypeInit DEF ManualInit
<1>2. Len(job) = 0 /\ jobAgent \in Seq(Agents) /\ Len(jobAgent) = 0
  BY EmptySeq DEF ManualInit, Q!JobInit
<1>3. NoMarker \in [job: 0..Len(job), previous: Status] /\ NoMarker.job = 0
  BY <1>2 DEF NoMarker, Status
<1>4. ManualTypes
  BY <1>2, <1>3 DEF ManualInit, ManualTypes
<1>5. LanesHold /\ ReleasesHold /\ ReturnedRuns
  BY DEF ManualInit, Init, LanesHold, ReleasesHold, ReturnedRuns, Threads
<1>6. MarkerNamesOpenJob
  BY <1>3 DEF ManualInit, MarkerNamesOpenJob
<1> QED
  BY <1>1, <1>4, <1>5, <1>6 DEF ManualInv

LEMMA ManualInvariance == ManualSpec => [](ManualInv /\ QP!JobInv)
<1>1. ManualInv /\ QP!JobInv /\ [ManualNext]_mvars => ManualInv'
  <2> SUFFICES ASSUME ManualInv, QP!JobInv, [ManualNext]_mvars PROVE ManualInv'
    OBVIOUS
  <2>1. TypeInv'
    BY AgentTypesStep DEF ManualInv
  <2>2. ManualTypes'
    BY ManualTypesStep DEF ManualInv, QP!JobInv
  <2> QED
    BY <2>1, <2>2, LanesStep, ReleasesStep, ReturnedStep, MarkedStep DEF ManualInv
<1> QED
  BY <1>1, ManualStarts, QueueHolds, PTL DEF ManualSpec

-----------------------------------------------------------------------------
(* Theorems *)

\* Agents, runs, jobs, requests, markers and releases keep their domains while web
\* process, lanes and visits work on them together (admin.py, jobs.py, loop.py).
THEOREM ManualTypesHold == ManualSpec => []ManualTypeOK
<1>1. ASSUME ManualInv, QP!JobInv PROVE ManualTypeOK
  <2>1. Q!JobTypeOK
    BY <1>1 DEF QP!JobInv, QP!JobTypeOK, Q!JobTypeOK, QP!JobRow, Q!JobRow,
                QP!JobStatus, Q!JobStatus, QP!Ids, Q!Ids
  <2>2. marker \in [Agents -> [job: Nat, previous: Status]]
    BY <1>1 DEF ManualInv, ManualTypes
  <2> QED
    BY <1>1, <2>1, <2>2 DEF ManualInv, TypeInv, ManualTypes, ManualTypeOK
<1> QED
  BY <1>1, ManualInvariance, PTL

\* state.manual_run names a job of its agent that has no outcome yet, whatever
\* requests, clearings, switches and crashes fall between the release and the
\* outcome (jobs.py:216-243).
THEOREM MarkersNameOpenJobs == ManualSpec => []MarkerNamesOpenJob
<1>1. ManualInv => MarkerNamesOpenJob
  BY DEF ManualInv
<1> QED
  BY <1>1, ManualInvariance, PTL

\* A job is completed by the thread that executed it, and when its run has an
\* outcome (jobs.py:81): a visit that raised, or is still open, completes no job.
THEOREM CompletedJobsHaveOutcomes == ManualSpec => CompletedJobHasOutcome
<1> DEFINE A == \A t \in ManualThreads :
                  serves[t] # 0 /\ job'[serves[t]].status = "completed"
                  /\ job[serves[t]].status # "completed"
                  => mine[t] # 0 /\ ~ Live(mine[t])
<1>1. ASSUME ManualInv, QP!JobInv, [ManualNext]_mvars PROVE A
  <2> SUFFICES ASSUME NEW t \in ManualThreads, serves[t] # 0,
                      job'[serves[t]].status = "completed",
                      job[serves[t]].status # "completed"
               PROVE  mine[t] # 0 /\ ~ Live(mine[t])
    OBVIOUS
  <2>1. serves[t] \in 1..Len(job)
    BY <1>1, HandsStep DEF ManualInv, LanesHold
  <2>2. PICK u \in ManualThreads :
          /\ CloseAgentJob(u) /\ serves[u] = serves[t] /\ JobOutcome(u) = "completed"
    BY <1>1, <2>1, JobsStep DEF ManualInv, QP!JobInv
  <2>3. u = t
    BY <1>1, <2>2 DEF ManualInv, LanesHold
  <2>4. pc[t] = "returned"
    BY <2>2, <2>3 DEF JobOutcome
  <2>5. mine[t] \in RunIds /\ ~ Live(mine[t]) /\ runs \in Seq(Run)
    BY <1>1, <2>4 DEF ManualInv, ReturnedRuns, TypeInv, TypeOK
  <2> QED
    BY <2>5, RunsAreRows
<1> QED
  BY <1>1, ManualInvariance, PTL DEF ManualSpec, CompletedJobHasOutcome
=============================================================================
