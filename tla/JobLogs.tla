------------------------------- MODULE JobLogs --------------------------------
(***************************************************************************)
(* The captured log of a background job (runtime/joblog.py): while a job   *)
(* runs, a handler of its own hangs on the logger of the whole process,    *)
(* buffers every record that any thread logs, and writes batches of them,  *)
(* numbered on from the highest number there is, in transactions of its    *)
(* own.  The jobs of the two lanes run at once (JobQueue), so each log     *)
(* holds the records of both.                                              *)
(*                                                                         *)
(* A record is passed to the handlers one after another; the logging       *)
(* module holds a handler's lock while it does, the flush of a detach      *)
(* holds none.  The list of handlers may change while it is walked.        *)
(***************************************************************************)
EXTENDS Integers, FiniteSets, SequencesExt

CONSTANTS
  LogJobs,       \* jobs, each on a thread of its own
  BatchLines,    \* FLUSH_BATCH_LINES
  MaxLines,      \* MAX_JOB_LOG_LINES
  MaxRecords     \* bound of the model

ASSUME JobLogsAssumption ==
  LogJobs \subseteq Nat \ {0} /\ BatchLines \in Nat \ {0} /\ MaxLines \in Nat /\ MaxRecords \in Nat

VARIABLES
  attached,      \* handlers on the logger, by job
  running,       \* job -> where it stands
  handler,       \* job -> its handler: buffer, _in_flush, and who holds its lock
  caller,        \* thread -> the record it is passing on, or the batch it writes
  logged,        \* job -> its job_log rows, numbered
  records,
  offered,       \* history: job -> what was put into its buffer
  unwritten,     \* history: job -> records of batches that could not be written
  twoFlushes        \* history: jobs with two flushes at once

logVars == <<attached, running, handler, caller, logged, records, offered, unwritten, twoFlushes>>

NotLogging == [step |-> "idle", record |-> 0, at |-> 0, job |-> 0, batch |-> << >>, top |-> 0]
WalksOn(record, at) == [NotLogging EXCEPT !.step = "walking", !.record = record, !.at = at]

LogInit ==
  /\ attached = << >>
  /\ running = [j \in LogJobs |-> "new"]
  /\ handler = [j \in LogJobs |-> [buffer |-> << >>, flushing |-> FALSE, lock |-> 0]]
  /\ caller = [t \in LogJobs |-> NotLogging]
  /\ logged = [j \in LogJobs |-> {}]
  /\ records = 0
  /\ offered = [j \in LogJobs |-> << >>]
  /\ unwritten = [j \in LogJobs |-> {}]
  /\ twoFlushes = {}

-----------------------------------------------------------------------------
(* A record *)

Attach(j) ==
  /\ running[j] = "new"
  /\ running' = [running EXCEPT ![j] = "running"]
  /\ attached' = Append(attached, j)
  /\ UNCHANGED <<handler, caller, logged, records, offered, unwritten, twoFlushes>>

Log(t) ==
  /\ caller[t] = NotLogging /\ running[t] = "running" /\ records < MaxRecords
  /\ records' = records + 1
  /\ caller' = [caller EXCEPT ![t] = WalksOn(records + 1, 1)]
  /\ UNCHANGED <<attached, running, handler, logged, offered, unwritten, twoFlushes>>

\* The next handler of the list as it stands, under its lock.
Busy(j) == handler[j].flushing

Reach(t) ==
  LET c == caller[t] IN
  /\ c.step = "walking"
  /\ IF c.at > Len(attached)
     THEN caller' = [caller EXCEPT ![t] = NotLogging] /\ UNCHANGED handler
     ELSE LET j == attached[c.at] IN
          /\ handler[j].lock = 0
          /\ IF Busy(j)
             THEN caller' = [caller EXCEPT ![t].at = @ + 1] /\ UNCHANGED handler
             ELSE /\ caller' = [caller EXCEPT ![t].step = "emitting", ![t].job = j]
                  /\ handler' = [handler EXCEPT ![j].lock = t]
  /\ UNCHANGED <<attached, running, logged, records, offered, unwritten, twoFlushes>>

\* What a flush takes, and the handler it leaves.
\* Mutant: what is taken stays in the buffer.
EmptiedNever(h) == [h EXCEPT !.flushing = TRUE]
Emptied(h) == [h EXCEPT !.buffer = << >>, !.flushing = TRUE]

Writing(j) == {t \in LogJobs : caller[t].step \in {"numbering", "writing"} /\ caller[t].job = j}

StartFlush(t, j, buffer, lock) ==
  /\ handler' = [handler EXCEPT ![j] = [Emptied([@ EXCEPT !.buffer = buffer]) EXCEPT !.lock = lock]]
  /\ caller' = [caller EXCEPT ![t] = [@ EXCEPT !.step = "numbering", !.job = j, !.batch = buffer]]
  /\ twoFlushes' = IF Writing(j) = {} THEN twoFlushes ELSE twoFlushes \cup {j}

\* emit: a full buffer is flushed, and so is one that has waited a second.
Emit(t, waited) ==
  LET c == caller[t]
      j == c.job
      buffer == Append(handler[j].buffer, c.record)
  IN /\ c.step = "emitting"
     /\ offered' = [offered EXCEPT ![j] = Append(@, c.record)]
     /\ IF waited \/ Len(buffer) >= BatchLines
        THEN StartFlush(t, j, buffer, t)
        ELSE /\ handler' = [handler EXCEPT ![j].buffer = buffer, ![j].lock = 0]
             /\ caller' = [caller EXCEPT ![t] = WalksOn(c.record, c.at + 1)]
             /\ UNCHANGED twoFlushes
     /\ UNCHANGED <<attached, running, logged, records, unwritten>>

-----------------------------------------------------------------------------
(* _write_batch *)

Highest(j) == IF logged[j] = {} THEN 0 ELSE Max({r.seq : r \in logged[j]})

\* Mutant: the numbers go on from how many rows there are.
TopByCount(j) == Cardinality(logged[j])
TopNumber(j) == Highest(j)

Number(t) ==
  LET c == caller[t] IN
  /\ c.step = "numbering"
  /\ caller' = [caller EXCEPT ![t] = [c EXCEPT !.step = "writing", !.top = TopNumber(c.job)]]
  /\ UNCHANGED <<attached, running, handler, logged, records, offered, unwritten, twoFlushes>>

\* The oldest beyond the cap go, by number.
Capped(all, last) == {r \in all : r.seq > last - MaxLines}

\* A batch that cannot be written is lost.
Write(t, ok) ==
  LET c == caller[t]
      new == {[seq |-> c.top + i, record |-> c.batch[i]] : i \in DOMAIN c.batch}
  IN /\ c.step = "writing"
     /\ ok \/ \A j \in LogJobs : unwritten[j] = {}   \* bound of the model
     /\ IF ok
        THEN /\ logged' = [logged EXCEPT ![c.job] = Capped(@ \cup new, c.top + Len(c.batch))]
             /\ UNCHANGED unwritten
        ELSE /\ unwritten' = [unwritten EXCEPT ![c.job] = @ \cup ToSet(c.batch)]
             /\ UNCHANGED logged
     /\ handler' = [handler EXCEPT ![c.job].flushing = FALSE,
                                   ![c.job].lock = IF @ = t THEN 0 ELSE @]
     /\ IF c.record = 0
        THEN /\ caller' = [caller EXCEPT ![t] = NotLogging]
             /\ running' = [running EXCEPT ![t] = "over"]
        ELSE /\ caller' = [caller EXCEPT ![t] = WalksOn(c.record, c.at + 1)]
             /\ UNCHANGED running
     /\ UNCHANGED <<attached, records, offered, twoFlushes>>

\* The job is over: its handler leaves the list, then flushes without the lock.
Detach(j) ==
  /\ running[j] = "running" /\ caller[j] = NotLogging
  /\ running' = [running EXCEPT ![j] = "detached"]
  /\ \E i \in DOMAIN attached : attached[i] = j /\ attached' = RemoveAt(attached, i)
  /\ UNCHANGED <<handler, caller, logged, records, offered, unwritten, twoFlushes>>

LastFlush(j) ==
  /\ running[j] = "detached" /\ caller[j] = NotLogging
  /\ IF handler[j].buffer = << >>
     THEN running' = [running EXCEPT ![j] = "over"] /\ UNCHANGED <<handler, caller, twoFlushes>>
     ELSE StartFlush(j, j, handler[j].buffer, handler[j].lock) /\ UNCHANGED running
  /\ UNCHANGED <<attached, logged, records, offered, unwritten>>

LogNext ==
  \E t \in LogJobs :
    \/ Attach(t) \/ Log(t) \/ Reach(t) \/ Number(t) \/ Detach(t) \/ LastFlush(t)
    \/ \E waited \in BOOLEAN : Emit(t, waited)
    \/ \E ok \in BOOLEAN : Write(t, ok)

LogSpec == LogInit /\ [][LogNext]_logVars

-----------------------------------------------------------------------------
(* Properties *)

\* The rows of a log are the latest of the first n that were put into its buffer, but
\* for what could not be written, numbered up to the highest.
ToldUpTo(j, n) ==
  LET due == {p \in 1..n : offered[j][p] \notin unwritten[j]}
      FromEnd(p) == Cardinality({q \in due : p <= q})
  IN logged[j] = {[seq |-> Highest(j) + 1 - FromEnd(p), record |-> offered[j][p]] :
                    p \in {q \in due : FromEnd(q) <= MaxLines}}

LogTypeOK ==
  /\ attached \in Seq(LogJobs)
  /\ \A j \in LogJobs :
       /\ running[j] \in {"new", "running", "detached", "over"}
       /\ handler[j].lock \in LogJobs \cup {0}
       /\ caller[j].step \in {"idle", "walking", "emitting", "numbering", "writing"}

\* A job's log has no number twice and none is missing, and tells in order what was
\* put into its buffer: all of it but what could not be written, what a record that
\* came behind the last flush left in the buffer, and what the cap has cut off.  Not
\* so if a record slipped in between the check and the flush of a detach.
LogsInOrder ==
  \A j \in LogJobs \ twoFlushes :
    Writing(j) = {} => ToldUpTo(j, Len(offered[j]) - Len(handler[j].buffer))

=============================================================================
