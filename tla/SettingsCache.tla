---------------------------- MODULE SettingsCache ----------------------------
(***************************************************************************)
(* One setting and the process-local TTL caches in front of it             *)
(* (deaddit/settings/service.py, Config.get and Config.set of              *)
(* deaddit/config.py).  Every process, web or worker, has a cache of its   *)
(* own; its threads fill it with a look-up, a read outside the lock and a  *)
(* store.  Writers drop the entry when they flush, when their transaction  *)
(* ends, and once more when Config.set returns.                            *)
(*                                                                         *)
(* Every write is a new number, so a value tells which write it is from.   *)
(***************************************************************************)
EXTENDS Integers, FiniteSets

CONSTANTS
  Processes,    \* processes that hold a cache
  Threads,      \* their threads
  ProcessOf,    \* Threads -> Processes
  Ttl,          \* DEADDIT_SETTINGS_TTL_SECONDS
  FillTime,     \* bound of the model: a resolver takes at most this long
  MaxWrites,    \* bound of the model: flushes of the setting
  MaxNow        \* bound of the model: time

ASSUME SettingsAssumption ==
  /\ ProcessOf \in [Threads -> Processes]
  /\ Ttl \in Nat \ {0} /\ FillTime \in Nat
  /\ MaxWrites \in Nat /\ MaxNow \in Nat

Nothing == -1

Writes == 0..MaxWrites          \* 0: the row of before

VARIABLES
  stored,     \* the committed write
  writes,     \* flushes so far
  now,        \* time.monotonic, the same for all processes
  entry,      \* process -> its cached write, when it expires and whether its
              \* read began before a commit of that process
  fill,       \* thread -> what its resolver read, and when
  txn,        \* thread -> its transaction on the row
  left,       \* write -> when another commit replaced it
  undone,     \* writes that were rolled back, their transaction over
  committer   \* process of the last commit

settingsVars == <<stored, writes, now, entry, fill, txn, left, undone, committer>>

NoEntry == [value |-> Nothing, until |-> 0, raced |-> FALSE]
NoFill == [value |-> Nothing, since |-> 0, raced |-> FALSE]
NoTxn == [phase |-> "none", outer |-> Nothing, inner |-> Nothing, lost |-> {}, pending |-> FALSE]

SettingsInit ==
  /\ stored = 0 /\ writes = 0 /\ now = 0
  /\ entry = [p \in Processes |-> NoEntry]
  /\ fill = [t \in Threads |-> NoFill]
  /\ txn = [t \in Threads |-> NoTxn]
  /\ left = [v \in Writes |-> Nothing]
  /\ undone = {}
  /\ committer \in Processes

Fresh(p) == entry[p].value # Nothing /\ entry[p].until > now

Dropped(t) == [entry EXCEPT ![ProcessOf[t]] = NoEntry]

-----------------------------------------------------------------------------
(* cached: look up, resolve, store *)

\* A session sees what it flushed itself, everybody else the committed row.
Reads(t) ==
  CASE txn[t].phase = "open" /\ txn[t].inner # Nothing -> txn[t].inner
    [] txn[t].phase = "open" /\ txn[t].inner = Nothing -> txn[t].outer
    [] OTHER -> stored

Resolve(t) ==
  /\ fill[t] = NoFill /\ ~ Fresh(ProcessOf[t])
  /\ txn[t].phase \in {"none", "open"}
  /\ fill' = [fill EXCEPT ![t] = [value |-> Reads(t), since |-> now, raced |-> FALSE]]
  /\ UNCHANGED <<stored, writes, now, entry, txn, left, undone, committer>>

\* Mutant: the time to live is twice too long.
ExpiryLate == now + 2 * Ttl

Expiry == now + Ttl

Store(t) ==
  /\ fill[t] # NoFill
  /\ entry' = [entry EXCEPT ![ProcessOf[t]] =
       [value |-> fill[t].value, until |-> Expiry, raced |-> fill[t].raced]]
  /\ fill' = [fill EXCEPT ![t] = NoFill]
  /\ UNCHANGED <<stored, writes, now, txn, left, undone, committer>>

-----------------------------------------------------------------------------
(* Writers: flush, savepoint, commit, rollback *)

Unlocked == \A t \in Threads : txn[t].phase \in {"none", "saved", "undoing"}

\* after_flush: the touched key is dropped and noted as pending.
Flush(t, nested) ==
  LET v == writes + 1
      x == txn[t]
  IN  /\ v \in Writes /\ fill[t] = NoFill
      /\ IF nested THEN x.phase = "open" /\ x.inner = Nothing
                   ELSE x.phase = "none" /\ Unlocked
      /\ writes' = v
      /\ entry' = Dropped(t)
      /\ txn' = [txn EXCEPT ![t] =
           IF nested THEN [x EXCEPT !.inner = v, !.pending = TRUE]
           ELSE [NoTxn EXCEPT !.phase = "open", !.outer = v, !.pending = TRUE]]
      /\ UNCHANGED <<stored, now, fill, left, undone, committer>>

\* Mutant: any rollback forgets the pending keys.
PendingForgotten(x) == FALSE

PendingAfterSavepoint(x) == x.pending

\* after_soft_rollback of a savepoint: drop, but keep the key pending.
RollbackSavepoint(t) ==
  LET x == txn[t]
  IN  /\ x.phase = "open" /\ x.inner # Nothing /\ fill[t] = NoFill
      /\ txn' = [txn EXCEPT ![t] =
           [x EXCEPT !.inner = Nothing, !.lost = @ \cup {x.inner},
                     !.pending = PendingAfterSavepoint(x)]]
      /\ entry' = Dropped(t)
      /\ UNCHANGED <<stored, writes, now, fill, left, undone, committer>>

LastWritten(x) == IF x.inner # Nothing THEN x.inner ELSE x.outer

\* The database commit.  What a read in flight in that process holds is one
\* that began before it.
Commit(t) ==
  LET x == txn[t]
      p == ProcessOf[t]
  IN  /\ x.phase = "open" /\ fill[t] = NoFill
      /\ stored' = LastWritten(x)
      /\ left' = [left EXCEPT ![stored] = now]
      /\ committer' = p
      /\ undone' = undone \cup x.lost \cup ({x.outer} \ {LastWritten(x)})
      /\ fill' = [r \in Threads |->
           IF ProcessOf[r] = p /\ fill[r] # NoFill THEN [fill[r] EXCEPT !.raced = TRUE]
           ELSE fill[r]]
      /\ txn' = [txn EXCEPT ![t].phase = "saved"]
      /\ UNCHANGED <<writes, now, entry>>

Rollback(t) ==
  /\ txn[t].phase = "open" /\ fill[t] = NoFill
  /\ txn' = [txn EXCEPT ![t].phase = "undoing"]
  /\ UNCHANGED <<stored, writes, now, entry, fill, left, undone, committer>>

\* Mutant: only a flush drops the cached value.
EndDropsNothing(t) == entry

EndDrops(t) == IF txn[t].pending THEN Dropped(t) ELSE entry

\* after_commit and after_soft_rollback of the outer transaction.
EndTransaction(t) ==
  /\ txn[t].phase \in {"saved", "undoing"}
  /\ entry' = EndDrops(t)
  /\ undone' = IF txn[t].phase = "saved" THEN undone
               ELSE undone \cup txn[t].lost \cup ({txn[t].outer, txn[t].inner} \ {Nothing})
  /\ txn' = [txn EXCEPT ![t] = NoTxn]
  /\ UNCHANGED <<stored, writes, now, fill, left, committer>>

\* invalidate of Config.set and Config.set_many, once more.
Invalidate(t) ==
  /\ txn[t].phase = "none"
  /\ Fresh(ProcessOf[t])
  /\ committer = ProcessOf[t]
  /\ entry' = Dropped(t)
  /\ UNCHANGED <<stored, writes, now, fill, txn, left, undone, committer>>

Elapse ==
  /\ now < MaxNow
  /\ \A t \in Threads : fill[t] # NoFill => now < fill[t].since + FillTime
  /\ now' = now + 1
  /\ UNCHANGED <<stored, writes, entry, fill, txn, left, undone, committer>>

SettingsNext ==
  \/ \E t \in Threads :
       \/ Resolve(t) \/ Store(t)
       \/ \E nested \in BOOLEAN : Flush(t, nested)
       \/ RollbackSavepoint(t) \/ Commit(t) \/ Rollback(t)
       \/ EndTransaction(t) \/ Invalidate(t)
  \/ Elapse

SettingsSpec == SettingsInit /\ [][SettingsNext]_settingsVars

-----------------------------------------------------------------------------
(* Properties *)

Entries == [value : Writes \cup {Nothing}, until : Nat, raced : BOOLEAN]
Fills == [value : Writes \cup {Nothing}, since : Nat, raced : BOOLEAN]
Txns == [phase : {"none", "open", "saved", "undoing"},
         outer : Writes \cup {Nothing}, inner : Writes \cup {Nothing},
         lost : SUBSET Writes, pending : BOOLEAN]

SettingsTypeOK ==
  /\ stored \in Writes /\ writes \in Writes /\ now \in Nat
  /\ entry \in [Processes -> Entries]
  /\ fill \in [Threads -> Fills]
  /\ txn \in [Threads -> Txns]
  /\ left \in [Writes -> Nat \cup {Nothing}]
  /\ undone \subseteq Writes /\ committer \in Processes

\* service.py:3-7: "the short TTL bounds cross-process staleness".  Whatever
\* read a commit overtakes, no process serves a value that was replaced more
\* than one TTL and one resolver's time ago.
StaleIsBounded ==
  \A p \in Processes :
    Fresh(p) /\ left[entry[p].value] # Nothing =>
      now < left[entry[p].value] + Ttl + FillTime

\* service.py:10-14: once a transaction that was rolled back is over, also by
\* way of a savepoint, no cache serves a value it flushed.
NothingUndoneIsServed ==
  \A p \in Processes : Fresh(p) => entry[p].value \notin undone

\* service.py:10-14: a process whose commit is the last one serves that commit,
\* unless a thread of its own was reading while it committed.
WritersSeeTheirWrite ==
  \A p \in Processes :
    (/\ Fresh(p) /\ ~ entry[p].raced /\ committer = p /\ writes > 0
     /\ left[0] # Nothing
     /\ \A t \in Threads : ProcessOf[t] = p => txn[t].phase = "none")
    => entry[p].value = stored

\* The three together: what a process serves is stale for a bounded time only, was
\* never undone, and is its own last write.
CacheHonest == StaleIsBounded /\ NothingUndoneIsServed /\ WritersSeeTheirWrite
=============================================================================
