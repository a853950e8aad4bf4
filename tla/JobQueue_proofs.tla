---------------------------- MODULE JobQueue_proofs ----------------------------
(***************************************************************************)
(* Proofs about JobQueue, for any number of workers, jobs and crashes:     *)
(* JobInv says who may hold a job - wait with it in a lane or execute it - *)
(* and what the row of a held job looks like.                              *)
(*                                                                         *)
(* The stale limit is a promise of the lanes: either no claimed job waits  *)
(* past it, or there is one worker, as docker-compose.yml has it, which    *)
(* holds nothing when it boots.                                            *)
(***************************************************************************)
EXTENDS JobQueue, FiniteSetTheorems, SequenceTheorems, WellFoundedInduction, TLAPS

LanesKeepUp == ~ LongWaits \/ \A v, w \in Workers : v = w

Held(w) == exec[w] \cup Queued(w)

\* A process that does not run has nothing in hand.
DeadHoldNothing ==
  \A w \in Workers \ alive : scan[w] = {} /\ queue[w] = <<>> /\ exec[w] = {}

OneHolder == \A v, w \in Workers : v # w => Held(v) \cap Held(w) = {}

HeldOnce ==
  \A w \in Workers :
    /\ exec[w] \cap Queued(w) = {}
    /\ \A h, i \in DOMAIN queue[w] : queue[w][h] = queue[w][i] => h = i

\* The row of a held job is deleted, or says who runs it.
HeldRows ==
  \A w \in Workers : \A j \in Held(w) :
    \/ job[j].status = "cleared"
    \/ job[j].status = "running" /\ job[j].worker = w

HeldBeats ==
  LongWaits \/ \A w \in Workers : \A j \in Held(w) :
    job[j].status = "cleared" \/ job[j].beat = "fresh"

JobInv ==
  JobTypeOK /\ DeadHoldNothing /\ OneHolder /\ HeldOnce /\ HeldRows /\ HeldBeats

-----------------------------------------------------------------------------
(* Rows in the order of a tick *)

\* A set of numbers has a least one.
LEMMA LeastOf ==
  ASSUME NEW T \in SUBSET Nat, T # {}
  PROVE  \E x \in T : \A y \in T : x <= y
<1> DEFINE R == {ss \in Nat \X Nat : ss[1] < ss[2]}
<1>1. IsWellFoundedOn(R, Nat)
  BY NatLessThanWellFounded DEF OpToRel
<1> HIDE DEF R
<1>2. PICK x \in T : \A y \in T : ~ (<<y, x>> \in R)
  BY <1>1, WFMin
<1>3. \A y \in T : ~ (y < x)
  BY <1>2 DEF R
<1> QED
  BY <1>3

\* The ids are those of rows.
LEMMA RowsAreRows ==
  ASSUME JobTypeOK
  PROVE  /\ Len(job) \in Nat /\ Ids = 1..Len(job)
         /\ \A j \in Ids : job[j] \in JobRow
BY LenProperties, ElementOfSeq DEF JobTypeOK, Ids

\* Of the rows a tick has read there is one to try first.
LEMMA FirstOf ==
  ASSUME JobTypeOK, NEW S \in SUBSET Ids, S # {}
  PROVE  First(S) \in S
<1> DEFINE Above(j) == {k \in Ids : job[k].priority > job[j].priority}
           Sizes == {Cardinality(Above(j)) : j \in S}
<1>1. IsFiniteSet(Ids) /\ Ids \subseteq Nat
  BY FS_Interval DEF JobTypeOK, Ids
<1>2. \A j \in Ids : job[j].priority \in Nat
  BY RowsAreRows, QueueAssumption DEF JobRow
<1>3. \A j \in Ids : IsFiniteSet(Above(j)) /\ Cardinality(Above(j)) \in Nat
  BY <1>1, FS_Subset, FS_CardinalityType
<1>4. PICK j \in S : \A k \in S : Cardinality(Above(j)) <= Cardinality(Above(k))
  <2>1. Sizes \in SUBSET Nat /\ Sizes # {}
    BY <1>3
  <2> HIDE DEF Sizes
  <2>2. PICK x \in Sizes : \A y \in Sizes : x <= y
    BY <2>1, LeastOf
  <2>3. PICK j \in S : x = Cardinality(Above(j))
    BY DEF Sizes
  <2>4. \A k \in S : Cardinality(Above(k)) \in Sizes
    BY DEF Sizes
  <2> HIDE DEF Above
  <2> QED
    BY <2>2, <2>3, <2>4
<1>5. \A k \in S : job[k].priority <= job[j].priority
  <2> SUFFICES ASSUME NEW k \in S, job[k].priority > job[j].priority PROVE FALSE
    BY <1>2
  <2>0. k \in Ids /\ j \in Ids
    OBVIOUS
  <2>1. Above(k) \subseteq Above(j) /\ k \in Above(j) /\ k \notin Above(k)
    BY <1>2
  <2> HIDE DEF Above
  <2>2. Cardinality(Above(k)) # Cardinality(Above(j))
    BY <1>3, <2>0, <2>1, FS_Subset
  <2>3. Cardinality(Above(k)) <= Cardinality(Above(j))
    BY <1>3, <2>0, <2>1, FS_Subset
  <2>4. Cardinality(Above(j)) <= Cardinality(Above(k))
    BY <1>4
  <2> QED
    BY <1>3, <2>0, <2>2, <2>3, <2>4
<1> DEFINE Best == {k \in S : job[k].priority = job[j].priority}
<1>6. PICK i \in Best : \A k \in Best : i <= k
  <2>1. Best \in SUBSET Nat /\ Best # {}
    BY <1>1
  <2> QED
    BY <2>1, LeastOf
<1>7. \A k \in S : \/ job[i].priority > job[k].priority
                   \/ job[i].priority = job[k].priority /\ i <= k
  BY <1>2, <1>5, <1>6
<1> QED
  BY <1>6, <1>7 DEF First

-----------------------------------------------------------------------------
(* Lanes *)

\* What is left of a lane when one place is taken.
LEMMA Removed ==
  ASSUME NEW S, NEW q \in Seq(S), NEW i \in 1..Len(q)
  PROVE  /\ RemoveAt(q, i) \in Seq(S)
         /\ Len(RemoveAt(q, i)) = Len(q) - 1
         /\ \A k \in 1..(Len(q) - 1) :
              RemoveAt(q, i)[k] = IF k < i THEN q[k] ELSE q[k + 1]
<1> DEFINE s == SubSeq(q, 1, i - 1)
           t == SubSeq(q, i + 1, Len(q))
<1>0. Len(q) \in Nat /\ \A k \in 1..Len(q) : q[k] \in S
  BY ElementOfSeq
<1>1. s \in Seq(S) /\ Len(s) = i - 1 /\ \A k \in 1..(i - 1) : s[k] = q[k]
  BY <1>0, SubSeqProperties
<1>2. /\ t \in Seq(S) /\ Len(t) = Len(q) - i
      /\ \A k \in 1..(Len(q) - i) : t[k] = q[k + i]
  <2>1. \A k \in (i + 1)..Len(q) : q[k] \in S
    BY <1>0
  <2> QED
    BY <1>0, <2>1, SubSeqProperties
<1> HIDE DEF s, t
<1>3. /\ s \o t \in Seq(S) /\ Len(s \o t) = Len(q) - 1
      /\ \A k \in 1..(Len(q) - 1) :
           (s \o t)[k] = IF k <= i - 1 THEN s[k] ELSE t[k - (i - 1)]
  <2>1. /\ s \o t \in Seq(S) /\ Len(s \o t) = Len(s) + Len(t)
        /\ \A k \in 1..(Len(s) + Len(t)) :
             (s \o t)[k] = IF k <= Len(s) THEN s[k] ELSE t[k - Len(s)]
    BY <1>1, <1>2, ConcatProperties
  <2>2. Len(s) + Len(t) = Len(q) - 1 /\ Len(s) = i - 1
    BY <1>0, <1>1, <1>2
  <2> QED
    BY <2>1, <2>2
<1>4. ASSUME NEW k \in 1..(Len(q) - 1)
      PROVE  (s \o t)[k] = IF k < i THEN q[k] ELSE q[k + 1]
  <2>1. CASE k < i
    BY <1>1, <1>3, <2>1
  <2>2. CASE ~ (k < i)
    BY <1>0, <1>2, <1>3, <2>2
  <2> QED
    BY <2>1, <2>2
<1> QED
  BY <1>3, <1>4 DEF RemoveAt, s, t
-----------------------------------------------------------------------------
(* Types *)

LEMMA QueueTypes ==
  ASSUME JobTypeOK, NEW w \in Workers
  PROVE  /\ queue[w] \in Seq(Ids) /\ Len(queue[w]) \in Nat
         /\ DOMAIN queue[w] = 1..Len(queue[w])
         /\ \A i \in DOMAIN queue[w] : queue[w][i] \in Ids
BY LenProperties, ElementOfSeq DEF JobTypeOK

\* A write to one row keeps the table.
LEMMA RowWritten ==
  ASSUME JobTypeOK, NEW j \in Ids, NEW row \in JobRow
  PROVE  /\ [job EXCEPT ![j] = row] \in Seq(JobRow)
         /\ DOMAIN [job EXCEPT ![j] = row] = Ids
         /\ \A k \in Ids : [job EXCEPT ![j] = row][k] = IF k = j THEN row ELSE job[k]
BY RowsAreRows, ExceptSeq DEF JobTypeOK, Ids

\* A write to all rows.
LEMMA RowsWritten ==
  ASSUME JobTypeOK, NEW rows, DOMAIN rows = Ids, rows = [j \in Ids |-> rows[j]],
         \A j \in Ids : rows[j] \in JobRow
  PROVE  rows \in Seq(JobRow)
<1>1. Len(job) \in Nat /\ Ids = 1..Len(job)
  BY RowsAreRows
<1> QED
  BY <1>1, SeqDef

\* What waits in a lane, and each of it once, when a job is put at its end.
LEMMA Submitted ==
  ASSUME JobTypeOK, NEW w \in Workers, NEW j \in Ids
  PROVE  /\ Append(queue[w], j) \in Seq(Ids)
         /\ DOMAIN Append(queue[w], j) = 1..(Len(queue[w]) + 1)
         /\ \A i \in 1..(Len(queue[w]) + 1) :
              Append(queue[w], j)[i] = IF i <= Len(queue[w]) THEN queue[w][i] ELSE j
BY QueueTypes, AppendProperties
-----------------------------------------------------------------------------
(* Steps *)

\* Steps that only write rows: those in hand stay as they are, are deleted, or
\* beat.
RowKept(j) ==
  \/ job'[j].status = "cleared"
  \/ /\ job'[j].status = job[j].status /\ job'[j].worker = job[j].worker
     /\ \/ LongWaits
        \/ job'[j].beat \in {job[j].beat, "fresh"}
  \/ \A w \in Workers : j \notin Held(w)

LEMMA RowStep ==
  ASSUME JobInv, job' \in Seq(JobRow), Ids' = Ids,
         alive \subseteq alive', alive' \subseteq Workers,
         UNCHANGED <<scan, queue, exec, crashes>>,
         \A j \in Ids : RowKept(j)
  PROVE  JobInv'
<1> USE DEF JobInv
<1>1. JobTypeOK'
  BY DEF JobTypeOK
<1>2. \A w \in Workers : Held(w)' = Held(w) /\ Queued(w)' = Queued(w)
  BY DEF Held, Queued
<1>3. DeadHoldNothing' /\ OneHolder' /\ HeldOnce'
  BY <1>2 DEF DeadHoldNothing, OneHolder, HeldOnce
<1>4. \A w \in Workers : Held(w) \subseteq Ids
  BY QueueTypes DEF Held, Queued, JobTypeOK
<1>5. HeldRows'
  BY <1>2, <1>4 DEF HeldRows, RowKept
<1>6. HeldBeats'
  BY <1>2, <1>4 DEF HeldBeats, RowKept
<1> QED
  BY <1>1, <1>3, <1>5, <1>6

\* A new row is in nobody's hands.
LEMMA CreateStep ==
  ASSUME JobInv, NEW p \in Priorities, CreateJob(p)
  PROVE  JobInv'
<1> USE DEF JobInv, CreateJob
<1>1. NewJob(p) \in JobRow
  BY DEF NewJob, JobRow, JobStatus
<1>2. /\ job' \in Seq(JobRow) /\ Ids' = 1..(Len(job) + 1)
      /\ \A j \in Ids : job'[j] = job[j]
  BY <1>1, RowsAreRows, AppendProperties, LenProperties DEF JobTypeOK, Ids
<1>3. Ids \subseteq Ids'
  BY <1>2, RowsAreRows
<1>4. \A w \in Workers : queue[w] \in Seq(Ids')
  BY <1>3, QueueTypes, SeqMonotonic
<1>5. JobTypeOK'
  BY <1>2, <1>3, <1>4 DEF JobTypeOK
<1>6. \A w \in Workers : Held(w)' = Held(w) /\ Queued(w)' = Queued(w)
  BY DEF Held, Queued
<1>7. \A w \in Workers : Held(w) \subseteq Ids
  BY QueueTypes DEF Held, Queued, JobTypeOK
<1>8. DeadHoldNothing' /\ OneHolder' /\ HeldOnce'
  BY <1>6 DEF DeadHoldNothing, OneHolder, HeldOnce
<1> HIDE DEF CreateJob
<1>9. HeldRows'
  BY <1>2, <1>6, <1>7 DEF HeldRows
<1>10. HeldBeats'
  BY <1>2, <1>6, <1>7 DEF HeldBeats
<1> QED
  BY <1>5, <1>8, <1>9, <1>10

LEMMA ClearStep ==
  ASSUME JobInv, ClearJobs
  PROVE  JobInv'
<1>1. JobTypeOK
  BY DEF JobInv
<1>2. \A j \in Ids : job'[j] \in JobRow /\ job'[j].status = "cleared"
  BY <1>1, RowsAreRows DEF ClearJobs, JobRow, JobStatus
<1>3. job' \in Seq(JobRow) /\ Ids' = Ids
  BY <1>1, <1>2, RowsWritten DEF ClearJobs, Ids
<1> QED
  BY <1>1, <1>2, <1>3, RowStep DEF ClearJobs, RowKept, JobTypeOK

LEMMA ScanStep ==
  ASSUME JobInv, NEW w \in Workers, ScanJobs(w)
  PROVE  JobInv'
<1> USE DEF JobInv, ScanJobs
<1>1. JobTypeOK'
  BY DEF JobTypeOK, Ids
<1>2. \A v \in Workers : Held(v)' = Held(v) /\ Queued(v)' = Queued(v)
  BY DEF Held, Queued
<1>3. DeadHoldNothing'
  BY DEF DeadHoldNothing, JobTypeOK
<1>4. OneHolder' /\ HeldOnce' /\ HeldRows' /\ HeldBeats'
  BY <1>2 DEF OneHolder, HeldOnce, HeldRows, HeldBeats
<1> QED
  BY <1>1, <1>3, <1>4

\* A heartbeat, and the passing of its limit.
LEMMA BeatStep ==
  ASSUME JobInv, NEW j \in Ids,
         (\E w \in Workers : Heartbeat(w, j)) \/ BeatAges(j)
  PROVE  JobInv'
<1>1. JobTypeOK
  BY DEF JobInv
<1>2. ASSUME NEW b \in {"fresh", "stale"}, job' = [job EXCEPT ![j].beat = b]
      PROVE  /\ job' \in Seq(JobRow) /\ Ids' = Ids
             /\ \A k \in Ids : /\ job'[k].status = job[k].status
                              /\ job'[k].worker = job[k].worker
                              /\ job'[k].beat = IF k = j THEN b ELSE job[k].beat
  <2> DEFINE row == [job[j] EXCEPT !.beat = b]
  <2>1. row \in JobRow /\ job' = [job EXCEPT ![j] = row]
    BY <1>1, <1>2, RowsAreRows DEF JobRow
  <2>2. row.status = job[j].status /\ row.worker = job[j].worker /\ row.beat = b
    BY <1>1, RowsAreRows DEF JobRow
  <2> HIDE DEF row
  <2> QED
    BY <1>1, <2>1, <2>2, RowWritten DEF Ids
<1>3. ASSUME NEW w \in Workers, Heartbeat(w, j) PROVE JobInv'
  BY <1>1, <1>2, <1>3, RowStep DEF Heartbeat, RowKept, JobTypeOK
<1>4. CASE BeatAges(j)
  <2>1. LongWaits \/ \A w \in Workers : j \notin Held(w)
    BY <1>4 DEF BeatAges, Held
  <2>2. \A k \in Ids : RowKept(k)
    BY <1>2, <1>4, <2>1 DEF BeatAges, RowKept
  <2> QED
    BY <1>1, <1>2, <1>4, <2>2, RowStep DEF BeatAges, JobTypeOK
<1> QED
  BY <1>3, <1>4

\* A claim: what it wins was in nobody's hands, for it was pending.
LEMMA ClaimStep ==
  ASSUME JobInv, NEW w \in Workers, ClaimJob(w)
  PROVE  JobInv'
<1> DEFINE j == First(scan[w])
<1> USE DEF JobInv
<1>1. j \in Ids /\ scan[w] # {} /\ w \in alive
  BY FirstOf DEF ClaimJob, JobTypeOK, DeadHoldNothing
<1> HIDE DEF j
<1>2. scan' \in [Workers -> SUBSET Ids] /\ \A v \in Workers : scan'[v] \subseteq scan[v]
  BY DEF ClaimJob, JobTypeOK
<1>3. CASE job[j].status # "pending"
  <2>1. UNCHANGED <<job, queue, alive, exec, crashes>>
    BY <1>3 DEF ClaimJob, j
  <2>2. JobTypeOK'
    BY <1>2, <2>1 DEF JobTypeOK, Ids
  <2>3. \A v \in Workers : Held(v)' = Held(v) /\ Queued(v)' = Queued(v)
    BY <2>1 DEF Held, Queued
  <2> QED
    BY <1>2, <2>1, <2>2, <2>3
       DEF DeadHoldNothing, OneHolder, HeldOnce, HeldRows, HeldBeats
<1>4. CASE job[j].status = "pending"
  <2> DEFINE row == Claimed(job[j], w)
             q == Append(queue[w], j)
  <2>1. /\ job' = [job EXCEPT ![j] = row] /\ queue' = [queue EXCEPT ![w] = q]
        /\ UNCHANGED <<alive, exec, crashes>>
    BY <1>4 DEF ClaimJob, j
  <2>2. /\ row \in JobRow /\ row.status = "running" /\ row.worker = w
        /\ row.beat = "fresh"
    BY <1>1, RowsAreRows DEF Claimed, JobRow, JobStatus
  <2>3. /\ q \in Seq(Ids) /\ DOMAIN q = 1..(Len(queue[w]) + 1)
        /\ \A i \in 1..(Len(queue[w]) + 1) :
             q[i] = IF i <= Len(queue[w]) THEN queue[w][i] ELSE j
    BY <1>1, Submitted
  <2> HIDE DEF row, q
  <2>4. /\ job' \in Seq(JobRow) /\ Ids' = Ids
        /\ \A k \in Ids : job'[k] = IF k = j THEN row ELSE job[k]
    BY <1>1, <2>1, <2>2, RowWritten DEF Ids
  <2>5. JobTypeOK'
    BY <1>2, <2>1, <2>3, <2>4 DEF JobTypeOK
  <2>6. \A v \in Workers : queue'[v] = IF v = w THEN q ELSE queue[v]
    BY <2>1 DEF JobTypeOK
  <2>7. \A v \in Workers : j \notin Held(v)
    BY <1>4 DEF HeldRows
  <2>8. Queued(w)' = Queued(w) \cup {j}
    <3>1. Len(queue[w]) \in Nat /\ DOMAIN queue[w] = 1..Len(queue[w]) /\ queue'[w] = q
      BY <2>6, QueueTypes
    <3>2. {q[i] : i \in DOMAIN q} = {queue[w][i] : i \in DOMAIN queue[w]} \cup {j}
      BY <2>3, <3>1
    <3> QED
      BY <3>1, <3>2 DEF Queued
  <2>9. \A v \in Workers \ {w} : Queued(v)' = Queued(v)
    BY <2>6 DEF Queued
  <2>10. \A v \in Workers : Held(v)' = IF v = w THEN Held(v) \cup {j} ELSE Held(v)
    BY <2>1, <2>8, <2>9 DEF Held
  <2>11. DeadHoldNothing'
    BY <1>1, <1>2, <2>1, <2>6 DEF DeadHoldNothing
  <2>12. OneHolder'
    BY <2>7, <2>10 DEF OneHolder
  <2>13. HeldOnce'
    <3>1. ASSUME NEW v \in Workers PROVE exec'[v] \cap Queued(v)' = {}
      BY <2>1, <2>7, <2>8, <2>9 DEF HeldOnce, Held
    <3>2. ASSUME NEW v \in Workers, NEW h \in DOMAIN queue'[v], NEW i \in DOMAIN queue'[v],
                 queue'[v][h] = queue'[v][i]
          PROVE  h = i
      <4>1. CASE v # w
        BY <2>6, <3>2, <4>1 DEF HeldOnce
      <4>2. CASE v = w
        <5>1. \A k \in DOMAIN queue[w] : queue[w][k] # j
          BY <2>7 DEF Held, Queued
        <5>2. DOMAIN queue[w] = 1..Len(queue[w]) /\ Len(queue[w]) \in Nat
          BY QueueTypes
        <5>3. /\ h \in 1..(Len(queue[w]) + 1) /\ i \in 1..(Len(queue[w]) + 1)
              /\ q[h] = q[i]
          BY <2>3, <2>6, <3>2, <4>2
        <5> QED
          BY <2>3, <4>2, <5>1, <5>2, <5>3 DEF HeldOnce
      <4> QED
        BY <4>1, <4>2
    <3> QED
      BY <3>1, <3>2 DEF HeldOnce
  <2>14. \A v \in Workers : Held(v) \subseteq Ids
    BY QueueTypes DEF Held, Queued, JobTypeOK
  <2>15. ASSUME NEW v \in Workers, NEW k \in Held(v)'
         PROVE  \/ k = j /\ v = w /\ job'[k] = row
                \/ k \in Held(v) /\ job'[k] = job[k]
    BY <1>1, <2>4, <2>7, <2>10, <2>14
  <2>16. HeldRows'
    BY <2>2, <2>15 DEF HeldRows
  <2>17. HeldBeats'
    BY <2>2, <2>15 DEF HeldBeats
  <2> QED
    BY <2>5, <2>11, <2>12, <2>13, <2>16, <2>17
<1> QED
  BY <1>3, <1>4

\* What waits in a lane when a thread has taken one job from it.
LEMMA Taken ==
  ASSUME JobTypeOK, HeldOnce, NEW w \in Workers, NEW i \in DOMAIN queue[w],
         queue' = [queue EXCEPT ![w] = RemoveAt(queue[w], i)]
  PROVE  /\ queue' \in [Workers -> Seq(Ids)]
         /\ \A v \in Workers \ {w} : queue'[v] = queue[v]
         /\ Queued(w)' = Queued(w) \ {queue[w][i]}
         /\ \A h, k \in DOMAIN queue'[w] : queue'[w][h] = queue'[w][k] => h = k
<1> DEFINE q == RemoveAt(queue[w], i)
           n == Len(queue[w])
<1>1. queue[w] \in Seq(Ids) /\ n \in Nat /\ DOMAIN queue[w] = 1..n
  BY QueueTypes
<1>2. /\ q \in Seq(Ids) /\ Len(q) = n - 1
      /\ \A k \in 1..(n - 1) : q[k] = IF k < i THEN queue[w][k] ELSE queue[w][k + 1]
  BY <1>1, Removed
<1>3. DOMAIN q = 1..(n - 1)
  BY <1>2, LenProperties
<1>4. queue' \in [Workers -> Seq(Ids)] /\ queue'[w] = q
      /\ \A v \in Workers \ {w} : queue'[v] = queue[v]
  BY <1>2 DEF JobTypeOK
<1> HIDE DEF q, n
<1>5. \A h, k \in 1..n : queue[w][h] = queue[w][k] => h = k
  BY <1>1 DEF HeldOnce
<1> DEFINE place(k) == IF k < i THEN k ELSE k + 1
<1>6. ASSUME NEW k \in 1..(n - 1)
      PROVE  place(k) \in (1..n) \ {i} /\ q[k] = queue[w][place(k)]
  BY <1>1, <1>2
<1>7. ASSUME NEW h \in 1..(n - 1), NEW k \in 1..(n - 1), q[h] = q[k] PROVE h = k
  <2>1. queue[w][place(h)] = queue[w][place(k)]
    BY <1>6, <1>7
  <2>2. place(h) \in 1..n /\ place(k) \in 1..n
    BY <1>6
  <2>3. place(h) = place(k)
    BY <1>5, <2>1, <2>2
  <2> QED
    BY <1>1, <2>3
<1>8. ASSUME NEW k \in 1..(n - 1)
      PROVE  q[k] \in {queue[w][h] : h \in 1..n} \ {queue[w][i]}
  BY <1>1, <1>5, <1>6
<1>9. ASSUME NEW k \in (1..n) \ {i} PROVE \E h \in 1..(n - 1) : q[h] = queue[w][k]
  <2>1. CASE k < i
    BY <1>1, <1>2, <2>1
  <2>2. CASE k > i
    <3>1. k - 1 \in 1..(n - 1) /\ ~ (k - 1 < i) /\ (k - 1) + 1 = k
      BY <1>1, <2>2
    <3> QED
      BY <1>2, <3>1
  <2> QED
    BY <1>1, <2>1, <2>2
<1>10. {q[k] : k \in 1..(n - 1)} = {queue[w][k] : k \in 1..n} \ {queue[w][i]}
  BY <1>8, <1>9
<1>11. Queued(w)' = Queued(w) \ {queue[w][i]}
  <2>1. Queued(w) = {queue[w][k] : k \in 1..n}
    BY <1>1 DEF Queued
  <2>2. Queued(w)' = {q[k] : k \in 1..(n - 1)}
    BY <1>3, <1>4 DEF Queued
  <2> QED
    BY <1>10, <2>1, <2>2
<1>12. \A h, k \in DOMAIN queue'[w] : queue'[w][h] = queue'[w][k] => h = k
  BY <1>3, <1>4, <1>7
<1> QED
  BY <1>4, <1>11, <1>12

\* A lane's thread starts what waited first, a deleted row goes unexecuted.
LEMMA StartStep ==
  ASSUME JobInv, NEW w \in Workers, NEW j \in Queued(w), StartJob(w, j)
  PROVE  JobInv'
<1> USE DEF JobInv
<1>1. PICK i \in DOMAIN queue[w] :
        queue[w][i] = j /\ queue' = [queue EXCEPT ![w] = RemoveAt(queue[w], i)]
  BY DEF StartJob, Startable
<1>2. /\ queue' \in [Workers -> Seq(Ids)]
      /\ \A v \in Workers \ {w} : queue'[v] = queue[v]
      /\ Queued(w)' = Queued(w) \ {j}
      /\ \A h, k \in DOMAIN queue'[w] : queue'[w][h] = queue'[w][k] => h = k
  BY <1>1, Taken
<1>3. j \in Ids /\ queue[w] # <<>> /\ w \in alive
  BY QueueTypes DEF Queued, DeadHoldNothing
<1>4. ASSUME NEW v \in Workers \ {w} PROVE Queued(v)' = Queued(v) /\ j \notin Held(v)
  <2>1. Queued(v)' = Queued(v)
    BY <1>2 DEF Queued
  <2> QED
    BY <2>1 DEF OneHolder, Held
<1>5. j \notin exec[w] /\ \A v \in Workers : Held(v) \subseteq Ids
  BY QueueTypes DEF HeldOnce, Held, Queued, JobTypeOK
<1>6. \/ exec' = exec
      \/ exec' = [exec EXCEPT ![w] = exec[w] \cup {j}]
  BY DEF StartJob
<1>7. /\ job' \in Seq(JobRow) /\ Ids' = Ids
      /\ \A k \in Ids : \/ job'[k] = job[k]
                        \/ /\ k = j /\ job'[k].status = "running"
                           /\ job[k].status # "cleared"
                           /\ job'[k].worker = job[k].worker /\ job'[k].beat = job[k].beat
  <2>1. CASE job' = job
    BY <2>1 DEF JobTypeOK, Ids
  <2>2. CASE job' # job
    <3> DEFINE row == [job[j] EXCEPT !.status = "running"]
    <3>1. job' = [job EXCEPT ![j] = row] /\ job[j].status # "cleared"
      BY <2>2 DEF StartJob
    <3>2. /\ row \in JobRow /\ row.status = "running"
          /\ row.worker = job[j].worker /\ row.beat = job[j].beat
      BY <1>3, RowsAreRows DEF JobRow, JobStatus
    <3> HIDE DEF row
    <3> QED
      BY <1>3, <3>1, <3>2, RowWritten DEF Ids
  <2> QED
    BY <2>1, <2>2
<1>8. UNCHANGED <<alive, scan, crashes>>
  BY DEF StartJob
<1> DEFINE started == exec[w] \cup {j}
<1>8b. /\ exec' \in [Workers -> SUBSET Ids]
       /\ \A v \in Workers \ {w} : exec'[v] = exec[v]
       /\ exec'[w] \subseteq started
  BY <1>3, <1>6 DEF JobTypeOK
<1>9. JobTypeOK'
  BY <1>2, <1>7, <1>8, <1>8b DEF JobTypeOK
<1>10. ASSUME NEW v \in Workers
       PROVE  Held(v)' \subseteq Held(v) /\ exec'[v] \cap Queued(v)' = {}
  <2>1. CASE v = w
    BY <1>2, <1>5, <1>8b, <2>1 DEF Held, HeldOnce
  <2>2. CASE v # w
    BY <1>4, <1>8b, <2>2 DEF Held, HeldOnce
  <2> QED
    BY <2>1, <2>2
<1>11. DeadHoldNothing'
  BY <1>2, <1>3, <1>6, <1>8 DEF DeadHoldNothing, JobTypeOK
<1>12. OneHolder'
  BY <1>10 DEF OneHolder
<1>13. HeldOnce'
  BY <1>2, <1>10 DEF HeldOnce
<1>14. HeldRows'
  BY <1>5, <1>7, <1>10 DEF HeldRows
<1>15. HeldBeats'
  BY <1>5, <1>7, <1>10 DEF HeldBeats
<1> QED
  BY <1>9, <1>11, <1>12, <1>13, <1>14, <1>15

\* A job that ends leaves its worker's hands before anybody sees its outcome.
LEMMA FinishStep ==
  ASSUME JobInv, NEW w \in Workers, NEW j \in exec[w],
         NEW outcome \in {"completed", "failed"}, FinishJob(w, j, outcome)
  PROVE  JobInv'
<1> USE DEF JobInv
<1>1. /\ exec' \in [Workers -> SUBSET Ids]
      /\ \A v \in Workers : exec'[v] = IF v = w THEN exec[w] \ {j} ELSE exec[v]
      /\ UNCHANGED <<alive, scan, queue, crashes>>
      /\ j \in Ids
  BY DEF FinishJob, JobTypeOK
<1>2. /\ job' \in Seq(JobRow) /\ Ids' = Ids
      /\ \A k \in Ids \ {j} : job'[k] = job[k]
  <2> DEFINE row == [job[j] EXCEPT !.status = outcome]
  <2>1. row \in JobRow
    BY <1>1, RowsAreRows DEF JobRow, JobStatus
  <2>2. job' = job \/ job' = [job EXCEPT ![j] = row]
    BY DEF FinishJob
  <2> HIDE DEF row
  <2>3. CASE job' = job
    BY <2>3 DEF JobTypeOK, Ids
  <2>4. CASE job' = [job EXCEPT ![j] = row]
    BY <1>1, <2>1, <2>4, RowWritten DEF Ids
  <2> QED
    BY <2>2, <2>3, <2>4
<1>3. JobTypeOK'
  BY <1>1, <1>2 DEF JobTypeOK
<1>4. \A v \in Workers : Queued(v)' = Queued(v)
  BY <1>1 DEF Queued
<1>5. \A v \in Workers : Held(v)' \subseteq Held(v) /\ j \notin Held(v)' /\ Held(v) \subseteq Ids
  <2> SUFFICES ASSUME NEW v \in Workers
               PROVE  Held(v)' \subseteq Held(v) /\ j \notin Held(v)' /\ Held(v) \subseteq Ids
    OBVIOUS
  <2>1. Held(v) \subseteq Ids
    BY QueueTypes DEF Held, JobTypeOK, Queued
  <2>2. Held(v)' = exec'[v] \cup Queued(v) /\ Held(v) = exec[v] \cup Queued(v)
    BY <1>4 DEF Held
  <2>3. j \in exec[w] /\ j \in Held(w)
    BY DEF FinishJob, Held
  <2>4. j \notin Queued(v) /\ (v # w => j \notin exec[v])
    BY <2>2, <2>3 DEF HeldOnce, OneHolder
  <2> QED
    BY <1>1, <2>1, <2>2, <2>4
<1>6. DeadHoldNothing'
  BY <1>1 DEF DeadHoldNothing
<1>7. OneHolder' /\ HeldOnce'
  BY <1>1, <1>4, <1>5 DEF OneHolder, HeldOnce
<1>8. HeldRows'
  BY <1>2, <1>5 DEF HeldRows
<1>9. HeldBeats'
  BY <1>2, <1>5 DEF HeldBeats
<1> QED
  BY <1>3, <1>6, <1>7, <1>8, <1>9

\* A process that dies drops all it had in hand.
LEMMA CrashStep ==
  ASSUME JobInv, NEW w \in Workers, CrashWorker(w)
  PROVE  JobInv'
<1> USE DEF JobInv
<1>1. /\ scan' \in [Workers -> SUBSET Ids] /\ queue' \in [Workers -> Seq(Ids)]
      /\ exec' \in [Workers -> SUBSET Ids]
      /\ \A v \in Workers : IF v = w THEN scan'[v] = {} /\ queue'[v] = <<>> /\ exec'[v] = {}
           ELSE scan'[v] = scan[v] /\ queue'[v] = queue[v] /\ exec'[v] = exec[v]
      /\ alive' = alive \ {w} /\ job' = job /\ crashes' = crashes + 1
  BY EmptySeq DEF CrashWorker, JobTypeOK
<1>2. JobTypeOK'
  BY <1>1 DEF JobTypeOK, Ids
<1>3. \A v \in Workers : Held(v)' = IF v = w THEN {} ELSE Held(v)
  BY <1>1 DEF Held, Queued
<1>4. DeadHoldNothing'
  BY <1>1 DEF DeadHoldNothing
<1>5. OneHolder'
  BY <1>3 DEF OneHolder
<1>6. HeldOnce'
  <2>1. \A v \in Workers \ {w} : Queued(v)' = Queued(v)
    BY <1>1 DEF Queued
  <2>2. Queued(w)' = {} /\ DOMAIN queue'[w] = {}
    BY <1>1 DEF Queued
  <2> QED
    BY <1>1, <2>1, <2>2 DEF HeldOnce
<1>7. HeldRows' /\ HeldBeats'
  BY <1>1, <1>3 DEF HeldRows, HeldBeats
<1> QED
  BY <1>2, <1>4, <1>5, <1>6, <1>7

\* The sweep of a boot returns what nobody holds: what is held beats, or its only
\* worker is the one that was down.
LEMMA BootStep ==
  ASSUME LanesKeepUp, JobInv, NEW w \in Workers, BootWorker(w)
  PROVE  JobInv'
<1> USE DEF JobInv
<1>1. \A j \in Ids : /\ job'[j] \in JobRow
                    /\ \/ job'[j] = job[j]
                       \/ job[j].status = "running" /\ job[j].beat # "fresh"
  BY RowsAreRows DEF BootWorker, Swept, JobRow, JobStatus
<1>2. job' \in Seq(JobRow) /\ Ids' = Ids
  BY <1>1, RowsWritten DEF BootWorker, Ids
<1>3. ASSUME NEW j \in Ids PROVE RowKept(j)
  <2>1. CASE job'[j] = job[j]
    BY <2>1 DEF RowKept
  <2>2. CASE job[j].status = "running" /\ job[j].beat # "fresh"
    <3>1. CASE ~ LongWaits
      BY <2>2, <3>1 DEF HeldBeats, RowKept
    <3>2. CASE \A u, v \in Workers : u = v
      BY <3>2 DEF BootWorker, DeadHoldNothing, Held, Queued, RowKept
    <3> QED
      BY <3>1, <3>2 DEF LanesKeepUp
  <2> QED
    BY <1>1, <2>1, <2>2
<1> QED
  BY <1>2, <1>3, RowStep DEF BootWorker, JobTypeOK

-----------------------------------------------------------------------------

LEMMA QueueStarts == JobInit => JobInv
<1> SUFFICES ASSUME JobInit PROVE JobInv
  OBVIOUS
<1> USE DEF JobInit
<1>1. JobTypeOK
  BY EmptySeq DEF JobTypeOK, Ids
<1>2. \A w \in Workers : Held(w) = {} /\ DOMAIN queue[w] = {}
  BY DEF Held, Queued
<1> QED
  BY <1>1, <1>2
     DEF JobInv, DeadHoldNothing, OneHolder, HeldOnce, HeldRows, HeldBeats, Queued

LEMMA QueueInvariance ==
  ASSUME LanesKeepUp PROVE JobSpec => []JobInv
<1>1. ASSUME JobInv, [JobNext]_jvars PROVE JobInv'
  <2>1. CASE UNCHANGED jvars
    <3>1. \A w \in Workers : Held(w)' = Held(w) /\ Queued(w)' = Queued(w)
      BY <2>1 DEF jvars, Held, Queued
    <3> QED
      BY <1>1, <2>1, <3>1 DEF jvars, JobInv, JobTypeOK, Ids, DeadHoldNothing, OneHolder,
                              HeldOnce, HeldRows, HeldBeats
  <2>2. ASSUME NEW w \in Workers, WorkerStep(w) PROVE JobInv'
    <3>1. ASSUME NEW j \in exec[w], CreateSubJob(w, j) PROVE JobInv'
      <4>1. job[j].priority \in Priorities
        BY <1>1, RowsAreRows DEF JobInv, JobTypeOK, JobRow
      <4> QED
        BY <1>1, <3>1, <4>1, CreateStep DEF CreateSubJob
    <3>2. ASSUME NEW j \in exec[w], Heartbeat(w, j) PROVE JobInv'
      BY <1>1, <3>2, BeatStep DEF JobInv, JobTypeOK
    <3> QED
      BY <1>1, <2>2, <3>1, <3>2, ScanStep, ClaimStep, StartStep, FinishStep DEF WorkerStep
  <2> QED
    BY <1>1, <2>1, <2>2, CreateStep, ClearStep, CrashStep, BootStep, BeatStep DEF JobNext
<1> QED
  BY <1>1, QueueStarts, PTL DEF JobSpec

\* Rows, lanes and workers keep their domains (models.py, runtime/runner.py).
THEOREM QueueTypesHold == ASSUME LanesKeepUp PROVE JobSpec => []JobTypeOK
<1>1. JobInv => JobTypeOK
  BY DEF JobInv
<1> QED
  BY <1>1, QueueInvariance, PTL

\* A job is in the hands of one worker, and once, under its name (claim.py:26-29),
\* however many workers, jobs, crashes and sweeps there are.
THEOREM JobsHaveOneOwner == ASSUME LanesKeepUp PROVE JobSpec => []OneOwner
<1>1. ASSUME JobInv PROVE OneOwner
  <2> SUFFICES ASSUME NEW j \in Ids, NEW w \in Workers
               PROVE  /\ \A v \in Workers : j \in Held(v) \cap Held(w) => v = w
                      /\ ~ (j \in exec[w] /\ j \in Queued(w))
                      /\ Cardinality({i \in DOMAIN queue[w] : queue[w][i] = j}) <= 1
                      /\ j \in Held(w) => \/ job[j].status = "cleared"
                                          \/ job[j].status = "running" /\ job[j].worker = w
    BY DEF OneOwner, Held
  <2> DEFINE S == {i \in DOMAIN queue[w] : queue[w][i] = j}
  <2>1. \A h, i \in S : h = i
    BY <1>1 DEF JobInv, HeldOnce
  <2>2. Cardinality(S) <= 1
    <3>1. CASE S = {}
      BY <3>1, FS_EmptySet
    <3>2. ASSUME NEW i \in S PROVE Cardinality(S) <= 1
      <4>1. S = {i}
        BY <2>1, <3>2
      <4>2. Cardinality({i}) = 1
        BY FS_Singleton
      <4> QED
        BY <4>1, <4>2
    <3> QED
      BY <3>1, <3>2
  <2> QED
    BY <1>1, <2>2 DEF JobInv, OneHolder, HeldOnce, HeldRows
<1> QED
  BY <1>1, QueueInvariance, PTL

\* An outcome is final: what a lane starts, or a worker ends, has no outcome yet, and
\* a sweep takes running jobs only (runner.py, claim.py).
THEOREM OutcomesStay == ASSUME LanesKeepUp PROVE JobSpec => OutcomeStays
<1> DEFINE Stays == \A j \in Ids : job[j].status \in {"completed", "failed"}
                      => job'[j].status \in {job[j].status, "cleared"}
<1>1. ASSUME JobInv, [JobNext]_jvars PROVE Stays
  <2> SUFFICES ASSUME NEW j \in Ids, job[j].status \in {"completed", "failed"}
               PROVE  job'[j].status \in {job[j].status, "cleared"}
    OBVIOUS
  <2>0. /\ JobTypeOK /\ \A w \in Workers : j \notin Held(w)
        /\ job \in [Ids -> JobRow] /\ Ids = 1..Len(job) /\ Len(job) \in Nat
    BY <1>1, RowsAreRows, LenProperties DEF JobInv, HeldRows, JobTypeOK, Ids
  <2>1. ASSUME NEW p \in Priorities, CreateJob(p) PROVE job'[j] = job[j]
    BY <2>0, <2>1, AppendProperties DEF CreateJob, NewJob, JobTypeOK, JobRow, JobStatus
  <2>2. ASSUME NEW w \in Workers, NEW k \in exec[w], CreateSubJob(w, k)
        PROVE  job'[j] = job[j]
    <3>1. job[k].priority \in Priorities
      BY <2>0, RowsAreRows DEF JobTypeOK, JobRow
    <3> QED
      BY <2>1, <2>2, <3>1 DEF CreateSubJob
  <2>3. CASE ClearJobs
    BY <2>0, <2>3 DEF ClearJobs, JobRow
  <2>4. ASSUME NEW w \in Workers, ClaimJob(w) PROVE job'[j] = job[j]
    BY <2>0, <2>4 DEF ClaimJob, JobTypeOK
  <2>5. ASSUME NEW w \in Workers, NEW k \in Queued(w), StartJob(w, k)
        PROVE  job'[j] = job[j]
    BY <2>0, <2>5 DEF StartJob, Held
  <2>6. ASSUME NEW w \in Workers, NEW k \in exec[w], NEW o \in {"completed", "failed"},
               FinishJob(w, k, o)
        PROVE  job'[j] = job[j]
    BY <2>0, <2>6 DEF FinishJob, Held
  <2>7. ASSUME NEW w \in Workers, NEW k \in exec[w], Heartbeat(w, k) PROVE job'[j] = job[j]
    BY <2>0, <2>7 DEF Heartbeat, Held
  <2>8. ASSUME NEW k \in Ids, BeatAges(k) PROVE job'[j].status = job[j].status
    BY <2>0, <2>8 DEF BeatAges, JobRow
  <2>9. ASSUME NEW w \in Workers, BootWorker(w) PROVE job'[j] = job[j]
    BY <2>0, <2>9 DEF BootWorker, Swept
  <2> QED
    BY <1>1, <2>1, <2>2, <2>3, <2>4, <2>5, <2>6, <2>7, <2>8, <2>9
       DEF JobNext, WorkerStep, ScanJobs, CrashWorker, jvars
<1> QED
  BY <1>1, QueueInvariance, PTL DEF JobSpec, OutcomeStays
=============================================================================
