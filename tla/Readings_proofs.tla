------------------------- MODULE Readings_proofs -------------------------
(***************************************************************************)
(* Proofs about what is shown of what was written (Readings).              *)
(*                                                                         *)
(* The settings' caches, for any number of processes, threads and writes,  *)
(* and any times to live and to read.  CacheInv says where a value may be: *)
(* Numbered orders the writes by the commits that replaced them, Confined  *)
(* keeps what a transaction has written and may still undo to its own      *)
(* process, Timed bounds how old a cached value is, and Recent says what a *)
(* process that committed last may have in its cache.                      *)
(*                                                                         *)
(* The live page, for any pages, sources, events and ties of timestamps.   *)
(* FeedInv says where the requests in flight stand to the two ends of the  *)
(* list (FeedPlaces) and that what a request has not collected from the    *)
(* sources it has asked is behind a full page of what it has (Collected).  *)
(*                                                                         *)
(* A persona's memory, for any number of visits, chunks and deaths.        *)
(* MemoryInv says where each telling of the history stands (TellingsSound, *)
(* Begun), that the episodes are those of visits that were completed, in   *)
(* their order or late (EpisodesOrdered), and what a prompt was given of   *)
(* both (BeginningGiven, EpisodesGiven).                                   *)
(*                                                                         *)
(* A job's log, for any jobs, records and bounds. LogInv says that what a  *)
(* handler has been given is behind the walk that gave it (Walking), so    *)
(* that no record is put into a buffer twice (RecordsDistinct), and that   *)
(* what was put into a buffer is told, or in the batch under way, or still *)
(* in the buffer, in this order (ToldInTurn).                                  *)
(***************************************************************************)
EXTENDS Readings, WellFoundedInduction, NaturalsInduction, FiniteSetTheorems, SequenceTheorems, TLAPS

Active(t) == txn[t].phase \in {"open", "undoing"}
Own(t) == ({txn[t].outer, txn[t].inner} \ {Nothing}) \cup txn[t].lost
Cur(t) == LastWritten(txn[t])

Typed ==
  /\ SettingsTypeOK
  /\ \A t \in Threads : fill[t] = NoFill \/ fill[t].value \in Writes
  /\ \A p \in Processes : entry[p] = NoEntry \/ entry[p].value \in Writes

\* One transaction at a time holds the row.
OneOpen ==
  \A t, u \in Threads : txn[t].phase = "open" /\ txn[u].phase = "open" => t = u

\* A transaction's writes: its own, none of them replaced, stored or undone yet.
Numbers(t) ==
  /\ txn[t].pending /\ txn[t].outer \in Writes
  /\ txn[t].inner # txn[t].outer
  /\ {txn[t].outer, txn[t].inner} \cap txn[t].lost = {}
  /\ \A v \in Own(t) : v <= writes /\ v # stored /\ v \notin undone
  /\ txn[t].phase = "open" => Cur(t) > stored /\ txn[t].outer > stored

Numbered ==
  /\ stored <= writes /\ stored \notin undone
  /\ \A v \in undone : v <= writes
  /\ \A v \in Writes : left[v] # Nothing => v < stored /\ left[v] <= now
  /\ \A t \in Threads : Active(t) => Numbers(t)
  /\ \A t \in Threads : txn[t].phase = "saved" => txn[t].pending
  /\ \A t, u \in Threads : Active(t) /\ Active(u) /\ t # u => Own(t) \cap Own(u) = {}

\* What a transaction has written is seen by itself and its process, and nothing of
\* it that it has taken back.
Confined ==
  /\ \A t \in Threads : fill[t].value <= writes /\ fill[t].value \notin undone
  /\ \A p \in Processes : entry[p].value <= writes /\ entry[p].value \notin undone
  /\ \A t, u \in Threads : Active(u) /\ fill[t].value \in Own(u) =>
       t = u /\ txn[u].phase = "open" /\ fill[t].value = Cur(u)
  /\ \A p \in Processes, u \in Threads : Active(u) /\ entry[p].value \in Own(u) =>
       p = ProcessOf[u] /\ entry[p].value = Cur(u)

Timed ==
  /\ \A t \in Threads : fill[t] # NoFill =>
       /\ fill[t].since <= now /\ now <= fill[t].since + FillTime
       /\ left[fill[t].value] # Nothing => fill[t].since <= left[fill[t].value]
  /\ \A p \in Processes : entry[p] # NoEntry =>
       /\ entry[p].until <= now + Ttl
       /\ left[entry[p].value] # Nothing =>
            entry[p].until <= left[entry[p].value] + FillTime + Ttl

\* The process of the last commit caches that commit, or what one of its threads has
\* written since, or what a thread was reading meanwhile; or it is about to drop it.
Recent ==
  left[0] # Nothing =>
    /\ \A t \in Threads : ProcessOf[t] = committer =>
         \/ fill[t] = NoFill \/ fill[t].raced \/ fill[t].value = stored
         \/ txn[t].phase = "open" /\ fill[t].value = Cur(t)
    /\ \/ entry[committer] = NoEntry \/ entry[committer].raced
       \/ entry[committer].value = stored
       \/ \E t \in Threads : /\ ProcessOf[t] = committer
                             /\ \/ txn[t].phase = "saved"
                                \/ Active(t) /\ entry[committer].value = Cur(t)

CacheInv == Typed /\ OneOpen /\ Numbered /\ Confined /\ Timed /\ Recent

-----------------------------------------------------------------------------
(* What the types give *)

LEMMA Fields ==
  ASSUME Typed
  PROVE  /\ \A t \in Threads :
              /\ txn[t].phase \in {"none", "open", "saved", "undoing"}
              /\ txn[t].outer \in Writes \cup {Nothing}
              /\ txn[t].inner \in Writes \cup {Nothing}
              /\ txn[t].lost \subseteq Writes
              /\ txn[t].pending \in BOOLEAN
              /\ fill[t] \in Fills /\ entry[ProcessOf[t]] \in Entries
              /\ ProcessOf[t] \in Processes
         /\ Writes \subseteq Nat /\ Nothing \notin Nat
         /\ NoTxn \in Txns /\ NoFill \in Fills /\ NoEntry \in Entries
BY SettingsAssumption
   DEF Typed, SettingsTypeOK, Txns, Fills, Entries, Writes, Nothing, NoTxn, NoFill, NoEntry

\* What a thread with the row open is at, and what everybody reads.
LEMMA CurIsOwn ==
  ASSUME Typed, Numbered, NEW t \in Threads, Active(t)
  PROVE  /\ Cur(t) \in Own(t) /\ Cur(t) \notin txn[t].lost
         /\ Own(t) \subseteq Writes
         /\ txn[t].inner = Nothing => Cur(t) = txn[t].outer
         /\ txn[t].inner # Nothing => Cur(t) = txn[t].inner
BY Fields DEF Numbered, Numbers, Cur, Own, LastWritten

LEMMA ReadsAre ==
  ASSUME Typed, Numbered, NEW t \in Threads
  PROVE  /\ Reads(t) \in Writes
         /\ txn[t].phase = "open" => Reads(t) = Cur(t)
         /\ txn[t].phase # "open" => Reads(t) = stored
<1>1. stored \in Writes
  BY DEF Typed, SettingsTypeOK
<1>2. CASE txn[t].phase # "open"
  BY <1>1, <1>2 DEF Reads
<1>3. CASE txn[t].phase = "open"
  BY <1>3, CurIsOwn, Fields DEF Reads, Active
<1> QED
  BY <1>2, <1>3

-----------------------------------------------------------------------------
(* Readers *)

LEMMA ResolveStep ==
  ASSUME CacheInv, NEW t \in Threads, Resolve(t)
  PROVE  CacheInv'
<1> USE DEF CacheInv
<1> DEFINE v == Reads(t)
<1>1. v \in Writes
  BY ReadsAre
<1>2. /\ UNCHANGED <<stored, writes, now, entry, txn, left, undone, committer>>
      /\ fill' \in [Threads -> Fills]
      /\ fill'[t] # NoFill /\ fill'[t].value = v /\ fill'[t].since = now
      /\ \A u \in Threads \ {t} : fill'[u] = fill[u]
  BY <1>1, Fields DEF Resolve, Typed, SettingsTypeOK, Fills, NoFill
<1>3. txn[t].phase = "open" => v = Cur(t) /\ Active(t)
  BY ReadsAre DEF Active
<1>4. txn[t].phase # "open" => v = stored
  BY ReadsAre
<1> HIDE DEF v
<1>5. /\ \A u \in Threads : Active(u)' = Active(u) /\ Own(u)' = Own(u) /\ Cur(u)' = Cur(u)
                           /\ Numbers(u)' = Numbers(u)
  BY <1>2 DEF Active, Own, Cur, Numbers, LastWritten
<1>6. Typed'
  BY <1>1, <1>2 DEF Typed, SettingsTypeOK
<1>7. OneOpen' /\ Numbered'
  BY <1>2, <1>5 DEF OneOpen, Numbered
<1>8. v <= writes /\ v \notin undone /\ left[v] = Nothing
  <2>1. CASE txn[t].phase = "open"
    <3>1. v \in Own(t) /\ Numbers(t) /\ v > stored
      BY <1>3, <2>1, CurIsOwn DEF Numbered, Numbers
    <3> QED
      BY <1>1, <3>1, Fields DEF Numbered, Numbers, Typed, SettingsTypeOK
  <2>2. CASE txn[t].phase # "open"
    BY <1>1, <1>4, <2>2, Fields DEF Numbered
  <2> QED
    BY <2>1, <2>2
<1>9. ASSUME NEW u \in Threads, Active(u), v \in Own(u)
      PROVE  t = u /\ txn[u].phase = "open" /\ v = Cur(u)
  <2>1. txn[t].phase = "open"
    BY <1>4, <1>9 DEF Numbered, Numbers
  <2> QED
    BY <1>3, <1>9, <2>1, CurIsOwn DEF Numbered
<1>10. Confined'
  BY <1>2, <1>5, <1>8, <1>9 DEF Confined
<1>11. Timed'
  BY <1>2, <1>8, SettingsAssumption DEF Timed, Typed, SettingsTypeOK
<1>12. Recent'
  BY <1>2, <1>3, <1>4, <1>5 DEF Recent
<1> QED
  BY <1>6, <1>7, <1>10, <1>11, <1>12

LEMMA StoreStep ==
  ASSUME CacheInv, NEW t \in Threads, Store(t)
  PROVE  CacheInv'
<1> USE DEF CacheInv
<1> DEFINE p == ProcessOf[t]
<1>1. /\ UNCHANGED <<stored, writes, now, txn, left, undone, committer>>
      /\ fill[t] # NoFill /\ fill[t].value \in Writes /\ fill[t] \in Fills
      /\ fill' \in [Threads -> Fills] /\ fill'[t] = NoFill
      /\ \A u \in Threads \ {t} : fill'[u] = fill[u]
  BY Fields DEF Store, Typed, SettingsTypeOK
<1>2. /\ entry' \in [Processes -> Entries] /\ p \in Processes
      /\ entry'[p].value = fill[t].value /\ entry'[p].until = now + Ttl
      /\ entry'[p].raced = fill[t].raced
      /\ \A q \in Processes \ {p} : entry'[q] = entry[q]
  BY <1>1, Fields, SettingsAssumption
     DEF Store, Typed, SettingsTypeOK, Entries, Fills, Expiry
<1> HIDE DEF p
<1>3. \A u \in Threads : Active(u)' = Active(u) /\ Own(u)' = Own(u) /\ Cur(u)' = Cur(u)
                         /\ Numbers(u)' = Numbers(u)
  BY <1>1 DEF Active, Own, Cur, Numbers, LastWritten
<1>4. Typed'
  BY <1>1, <1>2 DEF Typed, SettingsTypeOK
<1>5. OneOpen' /\ Numbered'
  BY <1>1, <1>3 DEF OneOpen, Numbered
<1>6. Confined'
  <2>1. NoFill.value = Nothing /\ \A u \in Threads : Active(u) => Nothing \notin Own(u)
    BY Fields DEF NoFill, Own
  <2>2. Nothing <= writes /\ Nothing \notin undone
    BY Fields DEF Typed, SettingsTypeOK, Nothing
  <2> QED
    BY <1>1, <1>2, <1>3, <2>1, <2>2 DEF Confined, p
<1>7. Timed'
  <2>1. fill[t].since \in Nat /\ now \in Nat /\ Ttl \in Nat /\ FillTime \in Nat
        /\ left[fill[t].value] \in Nat \cup {Nothing}
    BY <1>1, SettingsAssumption DEF Fills, Typed, SettingsTypeOK
  <2>2. left[fill[t].value] # Nothing =>
          now + Ttl <= left[fill[t].value] + FillTime + Ttl
    BY <1>1, <2>1 DEF Timed
  <2> QED
    BY <1>1, <1>2, <2>1, <2>2 DEF Timed
<1>8. Recent'
  <2> SUFFICES ASSUME left[0] # Nothing PROVE Recent'
    BY <1>1 DEF Recent
  <2>1. \A u \in Threads : ProcessOf[u] = committer =>
          \/ fill'[u] = NoFill \/ fill'[u].raced \/ fill'[u].value = stored
          \/ txn[u].phase = "open" /\ fill'[u].value = Cur(u)
    BY <1>1 DEF Recent
  <2>2. CASE committer # p
    <3>1. entry'[committer] = entry[committer]
      BY <1>2, <2>2 DEF Typed, SettingsTypeOK
    <3> QED
      BY <1>1, <1>3, <2>1, <3>1 DEF Recent
  <2>3. CASE committer = p
    <3>1. \/ entry'[p].raced \/ entry'[p].value = stored
          \/ txn[t].phase = "open" /\ entry'[p].value = Cur(t)
      BY <1>1, <1>2, <2>3 DEF Recent, p
    <3>2. txn[t].phase = "open" => Active(t)
      BY DEF Active
    <3> QED
      BY <1>1, <1>3, <2>1, <2>3, <3>1, <3>2 DEF Recent, p
  <2> QED
    BY <2>2, <2>3
<1> QED
  BY <1>4, <1>5, <1>6, <1>7, <1>8

-----------------------------------------------------------------------------
(* A step that drops the entry of a process and leaves the others *)

LEMMA DroppedIs ==
  ASSUME Typed, NEW t \in Threads
  PROVE  /\ Dropped(t) \in [Processes -> Entries]
         /\ Dropped(t)[ProcessOf[t]] = NoEntry
         /\ \A q \in Processes \ {ProcessOf[t]} : Dropped(t)[q] = entry[q]
BY Fields DEF Dropped, Typed, SettingsTypeOK

\* What is in no cache and no reader's hands.
LEMMA NothingIsHarmless ==
  ASSUME Typed
  PROVE  /\ NoFill.value = Nothing /\ NoEntry.value = Nothing
         /\ Nothing <= writes /\ Nothing \notin undone
         /\ \A u \in Threads : Nothing \notin Own(u)
BY Fields DEF NoFill, NoEntry, Own, Typed, SettingsTypeOK, Nothing

-----------------------------------------------------------------------------
(* Writers *)

LEMMA FlushStep ==
  ASSUME CacheInv, NEW t \in Threads, NEW nested \in BOOLEAN, Flush(t, nested)
  PROVE  CacheInv'
<1> USE DEF CacheInv
<1> DEFINE v == writes + 1
           p == ProcessOf[t]
<1>1. /\ UNCHANGED <<stored, now, fill, left, undone, committer>>
      /\ v \in Writes /\ writes' = v /\ fill[t] = NoFill
      /\ entry' = Dropped(t) /\ writes \in Nat
  BY Fields DEF Flush, Typed, SettingsTypeOK
<1>2. /\ txn' \in [Threads -> Txns]
      /\ \A u \in Threads \ {t} : txn'[u] = txn[u]
      /\ txn'[t].phase = "open" /\ txn'[t].pending
      /\ nested => /\ txn[t].phase = "open" /\ txn[t].inner = Nothing
                   /\ txn'[t].outer = txn[t].outer /\ txn'[t].inner = v
                   /\ txn'[t].lost = txn[t].lost
      /\ ~ nested => /\ txn[t].phase = "none" /\ Unlocked
                     /\ txn'[t].outer = v /\ txn'[t].inner = Nothing
                     /\ txn'[t].lost = {}
  BY <1>1, Fields DEF Flush, Typed, SettingsTypeOK, Txns, NoTxn
<1>3. /\ entry' \in [Processes -> Entries] /\ entry'[p] = NoEntry
      /\ \A q \in Processes \ {p} : entry'[q] = entry[q]
  BY <1>1, DroppedIs
<1> HIDE DEF v, p
<1>4. ASSUME NEW u \in Threads \ {t}
      PROVE  /\ Active(u)' = Active(u) /\ Own(u)' = Own(u) /\ Cur(u)' = Cur(u)
             /\ txn'[u] = txn[u]
  BY <1>2 DEF Active, Own, Cur, LastWritten
<1>5. /\ Active(t)' /\ Cur(t)' = v
      /\ Own(t)' = (IF nested THEN Own(t) ELSE {}) \cup {v}
      /\ nested => Active(t)
  BY <1>1, <1>2, Fields DEF Active, Own, Cur, LastWritten
<1>6. v > writes /\ v > stored /\ stored \in Nat /\ \A u \in undone : u \in Nat
  BY <1>1, Fields DEF v, Numbered, Typed, SettingsTypeOK
<1>7. Typed'
  BY <1>1, <1>2, <1>3 DEF Typed, SettingsTypeOK
<1>8. OneOpen'
  BY <1>2 DEF OneOpen, Unlocked
<1>9. Numbers(t)'
  <2>1. /\ v \notin undone /\ v \notin txn'[t].lost
        /\ txn'[t].outer \in Writes /\ txn'[t].inner # txn'[t].outer
        /\ txn'[t].outer \notin txn'[t].lost
    BY <1>1, <1>2, <1>5, <1>6, Fields DEF Numbered, Numbers, Own
  <2>2. txn'[t].outer > stored
    BY <1>1, <1>2, <1>5, <1>6 DEF Numbered, Numbers
  <2>3. \A w \in Own(t)' : w <= v /\ w # stored /\ w \notin undone
    BY <1>1, <1>5, <1>6, <2>1, CurIsOwn, Fields DEF Numbered, Numbers
  <2>4. txn'[t].inner \notin txn'[t].lost
    BY <1>2, <2>1, Fields
  <2> QED
    BY <1>1, <1>2, <1>5, <1>6, <2>1, <2>2, <2>3, <2>4 DEF Numbers
<1>10. ASSUME NEW u \in Threads \ {t}, Active(u) PROVE Numbers(u)'
  BY <1>1, <1>4, <1>6, <1>10, CurIsOwn, Fields DEF Numbered, Numbers
<1>11. ASSUME NEW u \in Threads \ {t}, Active(u) PROVE Own(u) \cap Own(t)' = {}
  BY <1>1, <1>5, <1>6, <1>11, CurIsOwn, Fields DEF Numbered, Numbers
<1>12. Numbered'
  BY <1>1, <1>2, <1>4, <1>5, <1>6, <1>9, <1>10, <1>11 DEF Numbered, Typed, SettingsTypeOK
<1>13. Confined'
  <2>1. \A u \in Threads : fill[u].value <= v /\ fill[u].value # v
    BY <1>6, Fields, <1>1 DEF Confined, Fills, Nothing
  <2>2. \A q \in Processes : entry'[q].value <= v /\ entry'[q].value # v
    <3>1. ASSUME NEW q \in Processes PROVE entry'[q].value <= writes
      BY <1>3, NothingIsHarmless DEF Confined
    <3>2. ASSUME NEW q \in Processes PROVE entry'[q].value \in Int
      BY <1>3, Fields DEF Entries, Nothing
    <3> QED
      BY <1>1, <1>6, <3>1, <3>2, Fields
  <2>3. \A u \in Threads : Active(t) => fill[u].value \notin Own(t)
    BY <1>1, NothingIsHarmless DEF Confined
  <2>4. \A q \in Processes : Active(t) => entry'[q].value \notin Own(t)
    BY <1>3, NothingIsHarmless DEF Confined, p
  <2>5. \A q \in Processes : entry'[q].value \notin undone
    BY <1>3, NothingIsHarmless DEF Confined
  <2>6. ASSUME NEW u \in Threads, NEW w \in Threads, Active(w)', fill[u].value \in Own(w)'
        PROVE  u = w /\ txn'[w].phase = "open" /\ fill[u].value = Cur(w)'
    BY <1>4, <1>5, <2>1, <2>3, <2>6 DEF Confined
  <2>7. ASSUME NEW q \in Processes, NEW w \in Threads, Active(w)', entry'[q].value \in Own(w)'
        PROVE  q = ProcessOf[w] /\ entry'[q].value = Cur(w)'
    BY <1>3, <1>4, <1>5, <2>2, <2>4, <2>7, NothingIsHarmless DEF Confined
  <2> QED
    BY <1>1, <2>1, <2>2, <2>5, <2>6, <2>7 DEF Confined
<1>14. Timed'
  BY <1>1, <1>3 DEF Timed
<1>15. Recent'
  <2>1. fill[t] = NoFill /\ committer \in Processes
    BY <1>1 DEF Typed, SettingsTypeOK
  <2> QED
    BY <1>1, <1>3, <1>4, <2>1 DEF Recent, p
<1> QED
  BY <1>7, <1>8, <1>12, <1>13, <1>14, <1>15

\* The transaction steps that end no write of the others: what they say of them.
LEMMA OthersStay ==
  ASSUME NEW t \in Threads, \A u \in Threads \ {t} : txn'[u] = txn[u]
  PROVE  \A u \in Threads \ {t} :
           Active(u)' = Active(u) /\ Own(u)' = Own(u) /\ Cur(u)' = Cur(u)
BY DEF Active, Own, Cur, LastWritten

LEMMA SavepointStep ==
  ASSUME CacheInv, NEW t \in Threads, RollbackSavepoint(t)
  PROVE  CacheInv'
<1> USE DEF CacheInv
<1> DEFINE p == ProcessOf[t]
<1>1. /\ UNCHANGED <<stored, writes, now, fill, left, undone, committer>>
      /\ txn[t].phase = "open" /\ txn[t].inner # Nothing /\ fill[t] = NoFill
      /\ entry' = Dropped(t)
  BY DEF RollbackSavepoint
<1>2. Active(t) /\ Numbers(t)
  BY <1>1 DEF Active, Numbered
<1>3. /\ txn' \in [Threads -> Txns]
      /\ \A u \in Threads \ {t} : txn'[u] = txn[u]
      /\ txn'[t].phase = "open" /\ txn'[t].pending
      /\ txn'[t].outer = txn[t].outer /\ txn'[t].inner = Nothing
      /\ txn'[t].lost = txn[t].lost \cup {txn[t].inner}
  <2> DEFINE row == [txn[t] EXCEPT !.inner = Nothing,
                                   !.lost = txn[t].lost \cup {txn[t].inner},
                                   !.pending = PendingAfterSavepoint(txn[t])]
  <2>1. txn' = [txn EXCEPT ![t] = row]
    BY DEF RollbackSavepoint
  <2>2. txn[t] \in Txns
    BY DEF Typed, SettingsTypeOK
  <2>3. /\ row \in Txns /\ row.phase = "open"
        /\ row.outer = txn[t].outer /\ row.inner = Nothing
        /\ row.lost = txn[t].lost \cup {txn[t].inner}
        /\ row.pending = txn[t].pending
    BY <1>1, <2>2, Fields DEF Txns, PendingAfterSavepoint
  <2> HIDE DEF row
  <2>4. txn'[t] = row /\ \A u \in Threads \ {t} : txn'[u] = txn[u]
    BY <2>1 DEF Typed, SettingsTypeOK
  <2>5. txn[t].pending
    BY <1>2 DEF Numbers
  <2>6. txn' \in [Threads -> Txns]
    BY <2>1, <2>3 DEF Typed, SettingsTypeOK
  <2> QED
    BY <2>3, <2>4, <2>5, <2>6
<1>4. /\ entry' \in [Processes -> Entries] /\ entry'[p] = NoEntry
      /\ \A q \in Processes \ {p} : entry'[q] = entry[q]
  BY <1>1, DroppedIs
<1> HIDE DEF p
<1>5. \A u \in Threads \ {t} :
        Active(u)' = Active(u) /\ Own(u)' = Own(u) /\ Cur(u)' = Cur(u)
  BY <1>3, OthersStay
<1>6. Active(t)' /\ Own(t)' = Own(t) /\ Cur(t)' = txn[t].outer
  BY <1>1, <1>2, <1>3, Fields DEF Active, Own, Cur, LastWritten, Numbers
<1>7. Typed'
  BY <1>1, <1>3, <1>4 DEF Typed, SettingsTypeOK
<1>8. OneOpen'
  BY <1>1, <1>3 DEF OneOpen
<1>9. Numbered'
  <2>1. Numbers(t)'
    BY <1>1, <1>2, <1>3, <1>6, Fields DEF Numbers
  <2>2. ASSUME NEW u \in Threads \ {t}, Active(u) PROVE Numbers(u)'
    BY <1>1, <1>3, <1>5, <2>2 DEF Numbered, Numbers
  <2> QED
    BY <1>1, <1>2, <1>3, <1>5, <1>6, <2>1, <2>2 DEF Numbered
<1>10. Confined'
  <2>1. \A q \in Processes : entry'[q].value \notin Own(t)
    BY <1>2, <1>4, NothingIsHarmless DEF Confined, p
  <2>2. \A u \in Threads : fill[u].value \notin Own(t)
    BY <1>1, <1>2, NothingIsHarmless DEF Confined
  <2> QED
    BY <1>1, <1>3, <1>4, <1>5, <1>6, <2>1, <2>2, NothingIsHarmless DEF Confined
<1>11. Timed'
  BY <1>1, <1>4 DEF Timed
<1>12. Recent'
  BY <1>1, <1>3, <1>4, <1>5 DEF Recent, p, Typed, SettingsTypeOK
<1> QED
  BY <1>7, <1>8, <1>9, <1>10, <1>11, <1>12

LEMMA RollbackStep ==
  ASSUME CacheInv, NEW t \in Threads, Rollback(t)
  PROVE  CacheInv'
<1> USE DEF CacheInv
<1>1. /\ UNCHANGED <<stored, writes, now, entry, fill, left, undone, committer>>
      /\ txn[t].phase = "open" /\ fill[t] = NoFill
  BY DEF Rollback
<1>2. /\ txn' \in [Threads -> Txns]
      /\ \A u \in Threads \ {t} : txn'[u] = txn[u]
      /\ txn'[t].phase = "undoing" /\ txn'[t].pending = txn[t].pending
      /\ txn'[t].outer = txn[t].outer /\ txn'[t].inner = txn[t].inner
      /\ txn'[t].lost = txn[t].lost
  BY Fields DEF Rollback, Typed, SettingsTypeOK, Txns
<1>3. \A u \in Threads :
        Active(u)' = Active(u) /\ Own(u)' = Own(u) /\ Cur(u)' = Cur(u)
  BY <1>1, <1>2, OthersStay DEF Active, Own, Cur, LastWritten
<1>4. Typed'
  BY <1>1, <1>2 DEF Typed, SettingsTypeOK
<1>5. OneOpen'
  BY <1>1, <1>2 DEF OneOpen
<1>6. Numbered'
  <2>1. ASSUME NEW u \in Threads, Active(u) PROVE Numbers(u)'
    BY <1>1, <1>2, <1>3, <2>1 DEF Numbered, Numbers
  <2> QED
    BY <1>1, <1>2, <1>3, <2>1 DEF Numbered
<1>7. Confined'
  <2>1. Active(t) => \A u \in Threads : fill[u].value \notin Own(t)
    BY <1>1, NothingIsHarmless DEF Confined
  <2> QED
    BY <1>1, <1>2, <1>3, <2>1 DEF Confined
<1>8. Timed'
  BY <1>1 DEF Timed
<1>9. Recent'
  BY <1>1, <1>2, <1>3 DEF Recent
<1> QED
  BY <1>4, <1>5, <1>6, <1>7, <1>8, <1>9

LEMMA CacheCommitStep ==
  ASSUME CacheInv, NEW t \in Threads, Commit(t)
  PROVE  CacheInv'
<1> USE DEF CacheInv
<1> DEFINE p == ProcessOf[t]
           v == Cur(t)
           gone == txn[t].lost \cup ({txn[t].outer} \ {v})
<1>1. /\ UNCHANGED <<writes, now, entry>>
      /\ txn[t].phase = "open" /\ fill[t] = NoFill
      /\ stored' = v /\ left' = [left EXCEPT ![stored] = now] /\ committer' = p
      /\ undone' = undone \cup gone
  BY DEF Commit, Cur
<1>2. /\ fill' \in [Threads -> Fills]
      /\ \A u \in Threads :
           /\ fill'[u].value = fill[u].value /\ fill'[u].since = fill[u].since
           /\ (fill'[u] = NoFill) <=> (fill[u] = NoFill)
           /\ (ProcessOf[u] = p /\ fill[u] # NoFill) => fill'[u].raced
  <2>1. \A u \in Threads : fill'[u] = IF ProcessOf[u] = p /\ fill[u] # NoFill
                                     THEN [fill[u] EXCEPT !.raced = TRUE] ELSE fill[u]
    BY DEF Commit
  <2>2. \A u \in Threads : [fill[u] EXCEPT !.raced = TRUE] \in Fills
    BY Fields DEF Fills
  <2>3. \A u \in Threads : [fill[u] EXCEPT !.raced = TRUE] # NoFill
    BY Fields DEF Fills, NoFill
  <2>4. fill' = [u \in Threads |-> fill'[u]]
    BY DEF Commit
  <2> QED
    BY <2>1, <2>2, <2>3, <2>4, Fields DEF Fills
<1>3. /\ txn' \in [Threads -> Txns]
      /\ \A u \in Threads \ {t} : txn'[u] = txn[u]
      /\ txn'[t].phase = "saved" /\ txn'[t].pending = txn[t].pending
  BY Fields DEF Commit, Typed, SettingsTypeOK, Txns
<1>4. /\ Active(t) /\ Numbers(t) /\ ~ Active(t)'
      /\ v \in Own(t) /\ v \in Writes /\ v > stored /\ gone \subseteq Own(t) /\ v \notin gone
      /\ Own(t) \subseteq Writes
  BY <1>1, <1>3, CurIsOwn, Fields DEF Active, Numbered, Numbers, Own
<1> HIDE DEF p, v, gone
<1>5. \A u \in Threads \ {t} :
        Active(u)' = Active(u) /\ Own(u)' = Own(u) /\ Cur(u)' = Cur(u)
  BY <1>3, OthersStay
<1>6. /\ stored \in Writes /\ now \in Nat /\ left' \in [Writes -> Nat \cup {Nothing}]
      /\ \A w \in Writes : left'[w] = IF w = stored THEN now ELSE left[w]
      /\ left[stored] = Nothing
  BY <1>1, Fields DEF Typed, SettingsTypeOK, Numbered
<1>7. Typed'
  BY <1>1, <1>2, <1>3, <1>4, <1>6, Fields DEF Typed, SettingsTypeOK, p
<1>8. OneOpen'
  BY <1>1, <1>3 DEF OneOpen
<1>9. Numbered'
  <2>1. ASSUME NEW u \in Threads \ {t}, Active(u) PROVE Numbers(u)'
    <3>1. Own(u) \cap Own(t) = {} /\ txn[u].phase # "open"
      BY <1>1, <1>4, <2>1 DEF Numbered, OneOpen
    <3> QED
      BY <1>1, <1>3, <1>4, <1>5, <2>1, <3>1 DEF Numbered, Numbers
  <2>2. v <= writes /\ v \notin undone' /\ \A w \in undone' : w <= writes
    BY <1>1, <1>4 DEF Numbered, Numbers
  <2>3. ASSUME NEW w \in Writes, left'[w] # Nothing PROVE w < v /\ left'[w] <= now
    BY <1>4, <1>6, <2>3, Fields DEF Numbered
  <2>4. txn'[t].pending
    BY <1>3, <1>4 DEF Numbers
  <2> QED
    BY <1>1, <1>3, <1>4, <1>5, <2>1, <2>2, <2>3, <2>4 DEF Numbered
<1>10. Confined'
  <2>1. \A u \in Threads : fill[u].value \notin Own(t)
    BY <1>1, <1>4, NothingIsHarmless DEF Confined
  <2>2. \A q \in Processes : entry[q].value \in Own(t) => entry[q].value = v
    BY <1>4 DEF Confined, v
  <2>3. \A u \in Threads : fill'[u].value <= writes /\ fill'[u].value \notin undone'
    BY <1>1, <1>2, <1>4, <2>1 DEF Confined
  <2>4. \A q \in Processes : entry[q].value <= writes /\ entry[q].value \notin undone'
    BY <1>1, <1>4, <2>2 DEF Confined
  <2>5. ASSUME NEW u \in Threads, NEW w \in Threads, Active(w)', fill'[u].value \in Own(w)'
        PROVE  u = w /\ txn'[w].phase = "open" /\ fill'[u].value = Cur(w)'
    BY <1>2, <1>3, <1>4, <1>5, <2>5 DEF Confined
  <2>6. ASSUME NEW q \in Processes, NEW w \in Threads, Active(w)', entry[q].value \in Own(w)'
        PROVE  q = ProcessOf[w] /\ entry[q].value = Cur(w)'
    BY <1>4, <1>5, <2>6 DEF Confined
  <2> QED
    BY <1>1, <2>3, <2>4, <2>5, <2>6 DEF Confined
<1>11. Timed'
  <2>1. ASSUME NEW u \in Threads, fill[u] # NoFill
        PROVE  left'[fill[u].value] # Nothing => fill[u].since <= left'[fill[u].value]
    BY <1>6, <2>1 DEF Timed, Typed
  <2>2. ASSUME NEW q \in Processes, entry[q] # NoEntry
        PROVE  left'[entry[q].value] # Nothing =>
                 entry[q].until <= left'[entry[q].value] + FillTime + Ttl
    <3>1. entry[q].value \in Writes /\ entry[q].until <= now + Ttl
          /\ entry[q].until \in Nat /\ FillTime \in Nat /\ Ttl \in Nat
      BY <2>2, SettingsAssumption DEF Timed, Typed, SettingsTypeOK, Entries
    <3> QED
      BY <1>6, <2>2, <3>1 DEF Timed
  <2> QED
    BY <1>1, <1>2, <2>1, <2>2 DEF Timed
<1>12. Recent'
  <2>1. \A u \in Threads : ProcessOf[u] = p => fill'[u] = NoFill \/ fill'[u].raced
    BY <1>2
  <2> QED
    BY <1>1, <1>3, <2>1 DEF Recent, p
<1> QED
  BY <1>7, <1>8, <1>9, <1>10, <1>11, <1>12

LEMMA EndStep ==
  ASSUME CacheInv, NEW t \in Threads, EndTransaction(t)
  PROVE  CacheInv'
<1> USE DEF CacheInv
<1> DEFINE p == ProcessOf[t]
<1>1. /\ UNCHANGED <<stored, writes, now, fill, left, committer>>
      /\ txn[t].phase \in {"saved", "undoing"}
      /\ undone' = IF txn[t].phase = "saved" THEN undone ELSE undone \cup Own(t)
  <2>1. txn[t].lost \cup ({txn[t].outer, txn[t].inner} \ {Nothing}) = Own(t)
    BY DEF Own
  <2> QED
    BY <2>1 DEF EndTransaction
<1>2. txn[t].pending
  BY <1>1 DEF Numbered, Numbers, Active
<1>3. /\ entry' \in [Processes -> Entries] /\ entry'[p] = NoEntry
      /\ \A q \in Processes \ {p} : entry'[q] = entry[q]
  BY <1>2, DroppedIs DEF EndTransaction, EndDrops
<1>4. /\ txn' \in [Threads -> Txns]
      /\ \A u \in Threads \ {t} : txn'[u] = txn[u]
      /\ txn'[t].phase = "none"
  BY Fields DEF EndTransaction, Typed, SettingsTypeOK, NoTxn
<1> HIDE DEF p
<1>5. /\ ~ Active(t)' /\ Own(t) \subseteq Writes
      /\ txn[t].phase = "undoing" => Active(t) /\ Numbers(t)
  BY <1>4, Fields DEF Active, Numbered, Own
<1>6. \A u \in Threads \ {t} :
        Active(u)' = Active(u) /\ Own(u)' = Own(u) /\ Cur(u)' = Cur(u)
  BY <1>4, OthersStay
<1>7. Typed'
  BY <1>1, <1>3, <1>4, <1>5 DEF Typed, SettingsTypeOK
<1>8. OneOpen'
  BY <1>1, <1>4 DEF OneOpen
<1>9. Numbered'
  <2>1. ASSUME NEW u \in Threads \ {t}, Active(u) PROVE Numbers(u)'
    <3>1. \A w \in Own(u) : w \notin undone'
      BY <1>1, <1>5, <2>1 DEF Numbered, Numbers
    <3> QED
      BY <1>1, <1>4, <1>6, <2>1, <3>1 DEF Numbered, Numbers
  <2>2. stored \notin undone' /\ \A w \in undone' : w <= writes
    BY <1>1, <1>5 DEF Numbered, Numbers
  <2> QED
    BY <1>1, <1>4, <1>5, <1>6, <2>1, <2>2 DEF Numbered
<1>10. Confined'
  <2>1. \A u \in Threads : fill[u].value \notin undone'
    BY <1>1, <1>5 DEF Confined
  <2>2. \A q \in Processes : entry'[q].value <= writes /\ entry'[q].value \notin undone'
    BY <1>1, <1>3, <1>5, NothingIsHarmless DEF Confined, p
  <2>3. ASSUME NEW q \in Processes, NEW w \in Threads, Active(w)', entry'[q].value \in Own(w)'
        PROVE  q = ProcessOf[w] /\ entry'[q].value = Cur(w)'
    BY <1>3, <1>5, <1>6, <2>3, NothingIsHarmless DEF Confined
  <2> QED
    BY <1>1, <1>4, <1>5, <1>6, <2>1, <2>2, <2>3 DEF Confined
<1>11. Timed'
  BY <1>1, <1>3 DEF Timed
<1>12. Recent'
  <2>1. \A u \in Threads : fill[u] # NoFill /\ txn[u].phase = "open" => u # t
    BY <1>1
  <2>2. committer \in Processes /\ (committer = p => entry'[committer] = NoEntry)
    BY <1>3 DEF Typed, SettingsTypeOK
  <2>3. committer # p => \A u \in Threads : ProcessOf[u] = committer => u # t
    BY DEF p
  <2> QED
    BY <1>1, <1>3, <1>4, <1>6, <2>1, <2>2, <2>3 DEF Recent
<1> QED
  BY <1>7, <1>8, <1>9, <1>10, <1>11, <1>12

LEMMA InvalidateStep ==
  ASSUME CacheInv, NEW t \in Threads, Invalidate(t)
  PROVE  CacheInv'
<1> USE DEF CacheInv
<1> DEFINE p == ProcessOf[t]
<1>1. UNCHANGED <<stored, writes, now, fill, txn, left, undone, committer>>
  BY DEF Invalidate
<1>2. /\ entry' \in [Processes -> Entries] /\ entry'[p] = NoEntry
      /\ \A q \in Processes \ {p} : entry'[q] = entry[q]
  BY DroppedIs DEF Invalidate
<1> HIDE DEF p
<1>3. \A u \in Threads : Active(u)' = Active(u) /\ Own(u)' = Own(u) /\ Cur(u)' = Cur(u)
                         /\ Numbers(u)' = Numbers(u)
  BY <1>1 DEF Active, Own, Cur, Numbers, LastWritten
<1>4. Typed' /\ OneOpen' /\ Numbered' /\ Timed'
  BY <1>1, <1>2, <1>3 DEF Typed, SettingsTypeOK, OneOpen, Numbered, Timed
<1>5. Confined'
  BY <1>1, <1>2, <1>3, NothingIsHarmless DEF Confined
<1>6. Recent'
  <2>1. entry'[committer] = NoEntry \/ entry'[committer] = entry[committer]
    BY <1>2 DEF Typed, SettingsTypeOK
  <2> QED
    BY <1>1, <1>3, <2>1 DEF Recent
<1> QED
  BY <1>4, <1>5, <1>6

LEMMA ElapseStep ==
  ASSUME CacheInv, Elapse
  PROVE  CacheInv'
<1> USE DEF CacheInv
<1>1. UNCHANGED <<stored, writes, entry, fill, txn, left, undone, committer>>
      /\ now' = now + 1 /\ now \in Nat
  BY DEF Elapse, Typed, SettingsTypeOK
<1>2. \A u \in Threads : Active(u)' = Active(u) /\ Own(u)' = Own(u) /\ Cur(u)' = Cur(u)
                         /\ Numbers(u)' = Numbers(u)
  BY <1>1 DEF Active, Own, Cur, Numbers, LastWritten
<1>3. Typed' /\ OneOpen'
  BY <1>1 DEF Typed, SettingsTypeOK, OneOpen
<1>4. Numbered'
  BY <1>1, <1>2, Fields DEF Numbered, Typed, SettingsTypeOK
<1>5. Confined' /\ Recent'
  BY <1>1, <1>2 DEF Confined, Recent
<1>6. Timed'
  <2>1. \A u \in Threads : fill[u].since \in Nat
    BY Fields DEF Fills
  <2>2. \A q \in Processes : entry[q].until \in Nat
    BY DEF Typed, SettingsTypeOK, Entries
  <2> QED
    BY <1>1, <2>1, <2>2, SettingsAssumption DEF Timed, Elapse
<1> QED
  BY <1>3, <1>4, <1>5, <1>6

-----------------------------------------------------------------------------

LEMMA CacheStarts == SettingsInit => CacheInv
<1> SUFFICES ASSUME SettingsInit PROVE CacheInv
  OBVIOUS
<1> USE SettingsAssumption DEF SettingsInit
<1>1. 0 \in Writes /\ NoEntry \in Entries /\ NoFill \in Fills /\ NoTxn \in Txns
  BY DEF Writes, NoEntry, NoFill, NoTxn, Entries, Fills, Txns, Nothing
<1>2. Typed
  BY <1>1 DEF Typed, SettingsTypeOK
<1>3. \A t \in Threads : ~ Active(t) /\ txn[t].phase = "none"
  BY DEF Active, NoTxn
<1>4. OneOpen /\ Numbered
  BY <1>3 DEF OneOpen, Numbered
<1>5. Confined /\ Timed
  BY <1>3 DEF Confined, Timed, NoFill, NoEntry, Nothing
<1>6. Recent
  BY <1>1 DEF Recent
<1> QED
  BY <1>2, <1>4, <1>5, <1>6 DEF CacheInv

LEMMA CacheInvariance == SettingsSpec => []CacheInv
<1>1. ASSUME CacheInv, UNCHANGED settingsVars PROVE CacheInv'
  <2>1. \A t \in Threads : Active(t)' = Active(t) /\ Own(t)' = Own(t) /\ Cur(t)' = Cur(t)
                           /\ Numbers(t)' = Numbers(t)
    BY <1>1 DEF settingsVars, Active, Own, Cur, LastWritten, Numbers
  <2> QED
    BY <1>1, <2>1 DEF settingsVars, CacheInv, Typed, SettingsTypeOK, OneOpen, Numbered,
                      Confined, Timed, Recent
<1>2. CacheInv /\ [SettingsNext]_settingsVars => CacheInv'
  BY <1>1, ResolveStep, StoreStep, FlushStep, SavepointStep, RollbackStep, CacheCommitStep,
     EndStep, InvalidateStep, ElapseStep DEF SettingsNext
<1> QED
  BY <1>2, CacheStarts, PTL DEF SettingsSpec

\* Rows, entries, readers and transactions keep their domains (settings/service.py).
THEOREM CacheTypes == SettingsSpec => []SettingsTypeOK
<1>1. CacheInv => SettingsTypeOK
  BY DEF CacheInv, Typed
<1> QED
  BY <1>1, CacheInvariance, PTL

\* Whatever readers a commit overtakes, a process serves a replaced value for at most
\* one time to live and one read; nothing that was undone is served once the
\* transaction is over; a process that committed last serves its commit
\* (settings/service.py:3-14).
THEOREM CachesAreHonest == SettingsSpec => []CacheHonest
<1>1. ASSUME CacheInv, NEW p \in Processes, Fresh(p)
      PROVE  /\ entry[p] # NoEntry /\ entry[p].value \in Writes
             /\ entry[p].until > now /\ entry[p].until \in Nat /\ now \in Nat
  BY <1>1 DEF CacheInv, Typed, SettingsTypeOK, Entries, Fresh, NoEntry
<1>2. CacheInv => StaleIsBounded
  <2> SUFFICES ASSUME CacheInv, NEW p \in Processes, Fresh(p), left[entry[p].value] # Nothing
               PROVE  now < left[entry[p].value] + Ttl + FillTime
    BY DEF StaleIsBounded
  <2>1. entry[p].until <= left[entry[p].value] + FillTime + Ttl
    BY <1>1 DEF CacheInv, Timed
  <2>2. left[entry[p].value] \in Nat
    BY <1>1 DEF CacheInv, Typed, SettingsTypeOK
  <2> QED
    BY <1>1, <2>1, <2>2, SettingsAssumption
<1>3. CacheInv => NothingUndoneIsServed
  BY DEF CacheInv, Confined, NothingUndoneIsServed
<1>4. CacheInv => WritersSeeTheirWrite
  <2> SUFFICES ASSUME CacheInv, NEW p \in Processes, Fresh(p), ~ entry[p].raced,
                      committer = p, left[0] # Nothing,
                      \A t \in Threads : ProcessOf[t] = p => txn[t].phase = "none"
               PROVE  entry[p].value = stored
    BY DEF WritersSeeTheirWrite
  <2> QED
    BY <1>1 DEF CacheInv, Recent, Active
<1>5. CacheInv => CacheHonest
  BY <1>2, <1>3, <1>4 DEF CacheHonest
<1> QED
  BY <1>5, CacheInvariance, PTL

-----------------------------------------------------------------------------
(* The live page: the order of its events *)

Keys == [ts : Nat, kind : Nat, id : Nat]

\* A set of numbers has a least one.
LEMMA LeastNumber ==
  ASSUME NEW S \in SUBSET Nat, S # {}
  PROVE  \E n \in S : \A m \in S : n <= m
<1> DEFINE R == {ss \in Nat \X Nat : ss[1] < ss[2]}
<1>1. IsWellFoundedOn(R, Nat)
  BY NatLessThanWellFounded DEF OpToRel
<1> HIDE DEF R
<1>2. PICK n \in S : \A m \in S : ~ (<<m, n>> \in R)
  BY <1>1, WFMin
<1>3. \A m \in S : ~ (m < n)
  BY <1>2 DEF R
<1> QED  BY <1>3

\* Events are in one line, from either side.
LEMMA KeysInLine ==
  ASSUME NEW a \in Keys, NEW b \in Keys
  PROVE  /\ ~ Less(a, a) /\ (Less(a, b) => ~ Less(b, a))
         /\ a = b \/ Less(a, b) \/ Less(b, a)
<1>1. /\ a.ts \in Nat /\ a.kind \in Nat /\ a.id \in Nat
      /\ b.ts \in Nat /\ b.kind \in Nat /\ b.id \in Nat
      /\ a = [ts |-> a.ts, kind |-> a.kind, id |-> a.id]
      /\ b = [ts |-> b.ts, kind |-> b.kind, id |-> b.id]
  BY DEF Keys
<1> QED  BY <1>1 DEF Less

LEMMA KeysPassOn ==
  ASSUME NEW a \in Keys, NEW b \in Keys, NEW c \in Keys, Less(a, b), Less(b, c)
  PROVE  Less(a, c)
<1>1. /\ a.ts \in Nat /\ a.kind \in Nat /\ a.id \in Nat
      /\ b.ts \in Nat /\ b.kind \in Nat /\ b.id \in Nat
      /\ c.ts \in Nat /\ c.kind \in Nat /\ c.id \in Nat
  BY DEF Keys
<1> QED  BY <1>1 DEF Less

\* The same of "closer to the cursor", whichever way the page goes.
LEMMA CloserInLine ==
  ASSUME NEW side, NEW a \in Keys, NEW b \in Keys
  PROVE  /\ ~ Closer(a, a, side) /\ (Closer(a, b, side) => ~ Closer(b, a, side))
         /\ a = b \/ Closer(a, b, side) \/ Closer(b, a, side)
BY KeysInLine DEF Closer

LEMMA CloserPassesOn ==
  ASSUME NEW side, NEW a \in Keys, NEW b \in Keys, NEW c \in Keys,
         Closer(a, b, side), Closer(b, c, side)
  PROVE  Closer(a, c, side)
BY KeysPassOn DEF Closer

\* Those of a set that come before an event.
Ahead(S, x, side) == {q \in S : Closer(q, x, side)}

LEMMA AheadCounts ==
  ASSUME NEW side, NEW S \in SUBSET Keys, IsFiniteSet(S)
  PROVE  /\ \A x : IsFiniteSet(Ahead(S, x, side)) /\ Cardinality(Ahead(S, x, side)) \in Nat
         /\ \A x, y \in S : Closer(x, y, side) =>
              /\ Ahead(S, x, side) \in SUBSET Ahead(S, y, side)
              /\ Cardinality(Ahead(S, x, side)) < Cardinality(Ahead(S, y, side))
<1>1. \A x : IsFiniteSet(Ahead(S, x, side)) /\ Cardinality(Ahead(S, x, side)) \in Nat
  BY FS_Subset, FS_CardinalityType DEF Ahead
<1>2. ASSUME NEW x \in S, NEW y \in S, Closer(x, y, side)
      PROVE  /\ Ahead(S, x, side) \in SUBSET Ahead(S, y, side)
             /\ Cardinality(Ahead(S, x, side)) < Cardinality(Ahead(S, y, side))
  <2>1. Ahead(S, x, side) \in SUBSET Ahead(S, y, side)
    BY <1>2, CloserPassesOn DEF Ahead
  <2>2. x \in Ahead(S, y, side) /\ x \notin Ahead(S, x, side)
    BY <1>2, CloserInLine DEF Ahead
  <2>3. /\ Cardinality(Ahead(S, x, side)) <= Cardinality(Ahead(S, y, side))
        /\ Cardinality(Ahead(S, x, side)) # Cardinality(Ahead(S, y, side))
    BY <1>1, <2>1, <2>2, FS_Subset
  <2> QED  BY <1>1, <2>1, <2>3
<1> QED  BY <1>1, <1>2

\* One of a set comes first.
LEMMA FirstOne ==
  ASSUME NEW side, NEW S \in SUBSET Keys, IsFiniteSet(S), NEW T \in SUBSET S, T # {}
  PROVE  \E x \in T : \A y \in T \ {x} : Closer(x, y, side)
<1> DEFINE rank(x) == Cardinality(Ahead(S, x, side))
           ranks == {rank(x) : x \in T}
<1>1. \A x \in T : rank(x) \in Nat
  BY AheadCounts
<1>2. \A x, y \in S : Closer(x, y, side) => rank(x) < rank(y)
  BY AheadCounts
<1> HIDE DEF rank
<1>3. PICK n \in ranks : \A m \in ranks : n <= m
  <2>1. ranks \in SUBSET Nat /\ ranks # {}
    BY <1>1
  <2> HIDE DEF ranks
  <2> QED  BY <2>1, LeastNumber
<1>4. PICK x \in T : n = rank(x)
  OBVIOUS
<1>5. ASSUME NEW y \in T \ {x} PROVE Closer(x, y, side)
  <2>1. rank(x) <= rank(y) /\ rank(x) \in Nat /\ rank(y) \in Nat
    BY <1>1, <1>3, <1>4
  <2>2. ~ Closer(y, x, side)
    BY <1>2, <2>1
  <2> QED  BY <2>2, CloserInLine
<1> QED  BY <1>5

\* A query that leaves a row out is full of rows that come before it.
LEMMA NearestFull ==
  ASSUME NEW side, NEW S \in SUBSET Keys, IsFiniteSet(S), NEW n \in Nat,
         NEW r \in S, r \notin Nearest(S, n, side)
  PROVE  Cardinality(Ahead(Nearest(S, n, side), r, side)) >= n
<1> DEFINE N == Nearest(S, n, side)
           out == S \ N
<1>1. N = {x \in S : Cardinality(Ahead(S, x, side)) < n}
  BY DEF Nearest, Ahead
<1> HIDE DEF N
<1>2. PICK x \in out : \A y \in out \ {x} : Closer(x, y, side)
  <2>1. out \in SUBSET S /\ r \in out
    BY DEF N
  <2> HIDE DEF out
  <2> QED  BY <2>1, FirstOne
<1>3. Cardinality(Ahead(S, x, side)) >= n
  BY <1>1, <1>2, AheadCounts
<1>4. Ahead(S, x, side) \in SUBSET Ahead(N, r, side)
  <2> SUFFICES ASSUME NEW q \in Ahead(S, x, side) PROVE q \in N /\ Closer(q, r, side)
    BY DEF Ahead
  <2>1. q \in S /\ Closer(q, x, side) /\ q # x
    BY <1>2, CloserInLine DEF Ahead
  <2>2. q \in N
    BY <1>2, <2>1, CloserInLine
  <2>3. r = x \/ Closer(x, r, side)
    BY <1>2 DEF N
  <2>4. Closer(q, r, side)
    BY <1>2, <2>1, <2>3, CloserPassesOn
  <2> QED  BY <2>2, <2>4
<1>5. IsFiniteSet(Ahead(N, r, side))
  BY <1>1, FS_Subset DEF Ahead
<1>6. Cardinality(Ahead(S, x, side)) <= Cardinality(Ahead(N, r, side))
  BY <1>4, <1>5, FS_Subset
<1>7. Cardinality(Ahead(N, r, side)) \in Nat /\ Cardinality(Ahead(S, x, side)) \in Nat
  BY <1>5, AheadCounts, FS_CardinalityType
<1> QED  BY <1>3, <1>6, <1>7 DEF N

\* Of those a query takes, each comes before those it leaves out.
LEMMA NearestFirst ==
  ASSUME NEW side, NEW S \in SUBSET Keys, IsFiniteSet(S), NEW n \in Nat,
         NEW r \in S, r \notin Nearest(S, n, side), NEW s \in Nearest(S, n, side)
  PROVE  Closer(s, r, side)
<1>1. s \in S /\ Cardinality(Ahead(S, s, side)) < n /\ ~ (Cardinality(Ahead(S, r, side)) < n)
  BY DEF Nearest, Ahead
<1>2. /\ Cardinality(Ahead(S, s, side)) \in Nat /\ Cardinality(Ahead(S, r, side)) \in Nat
      /\ Closer(r, s, side) => Cardinality(Ahead(S, r, side)) < Cardinality(Ahead(S, s, side))
  BY <1>1, AheadCounts
<1>3. ~ Closer(r, s, side) /\ r # s
  BY <1>1, <1>2
<1> QED  BY <1>1, <1>3, CloserInLine

\* The places of a set's rows are all taken.
LEMMA RankTaken ==
  ASSUME NEW S \in SUBSET Keys, IsFiniteSet(S), NEW k \in Nat, k < Cardinality(S)
  PROVE  \E x \in S : Cardinality(Ahead(S, x, "older")) = k
<1> DEFINE rank(x) == Cardinality(Ahead(S, x, "older"))
           T == {x \in S : rank(x) >= k}
<1>0. \A x : IsFiniteSet(Ahead(S, x, "older")) /\ rank(x) \in Nat
  BY AheadCounts
<1>1. ASSUME NEW A \in SUBSET S, A # {}
      PROVE  \E w \in A : \A y \in A \ {w} : Closer(y, w, "older")
  <2>1. PICK w \in A : \A y \in A \ {w} : Closer(w, y, "newer")
    BY <1>1, FirstOne
  <2> QED  BY <2>1 DEF Closer
<1>2. Cardinality(S) \in Nat /\ Cardinality(S) # 0 /\ S # {}
  BY FS_CardinalityType, FS_EmptySet
<1>3. PICK z \in S : \A y \in S \ {z} : Closer(y, z, "older")
  BY <1>1, <1>2
<1>4. Ahead(S, z, "older") = S \ {z}
  BY <1>3, CloserInLine DEF Ahead
<1>5. rank(z) = Cardinality(S) - 1
  BY <1>4, FS_RemoveElement
<1>6. z \in T
  BY <1>2, <1>5
<1>7. PICK x \in T : \A y \in T \ {x} : Closer(x, y, "older")
  <2>1. T \in SUBSET S /\ T # {}
    BY <1>6
  <2> HIDE DEF T
  <2> QED  BY <2>1, FirstOne
<1>8. CASE rank(x) = k
  BY <1>8, <1>7
<1>9. CASE rank(x) # k
  <2>1. rank(x) \in Nat /\ rank(x) >= k + 1
    BY <1>0, <1>7, <1>9
  <2>2. Ahead(S, x, "older") # {} /\ Ahead(S, x, "older") \in SUBSET S
    <3>1. Cardinality(Ahead(S, x, "older")) # 0
      BY <2>1
    <3>2. Ahead(S, x, "older") # {}
      BY <3>1, FS_EmptySet
    <3> QED  BY <3>2 DEF Ahead
  <2>3. PICK w \in Ahead(S, x, "older") : \A y \in Ahead(S, x, "older") \ {w} : Closer(y, w, "older")
    BY <1>1, <2>2
  <2>4. w \in S /\ Closer(w, x, "older")
    BY DEF Ahead
  <2>5. Ahead(S, w, "older") = Ahead(S, x, "older") \ {w}
    <3>1. ASSUME NEW y \in Ahead(S, w, "older") PROVE y \in Ahead(S, x, "older") /\ y # w
      BY <2>4, CloserInLine, CloserPassesOn DEF Ahead
    <3>2. ASSUME NEW y \in Ahead(S, x, "older") \ {w} PROVE y \in Ahead(S, w, "older")
      BY <2>3 DEF Ahead
    <3> QED  BY <3>1, <3>2
  <2>6. rank(w) = rank(x) - 1
    BY <1>0, <2>5, FS_RemoveElement
  <2>7. w \in T /\ w # x /\ x \in S
    BY <2>1, <2>4, <2>6, CloserInLine
  <2>8. Closer(x, w, "older")
    BY <1>7, <2>7
  <2> QED  BY <2>4, <2>7, <2>8, CloserInLine
<1> QED  BY <1>8, <1>9

\* What a page renders: its rows, each once, newest first.
LEMMA RenderedIs ==
  ASSUME NEW S \in SUBSET Keys, IsFiniteSet(S)
  PROVE  /\ Rendered(S) \in Seq(S) /\ Len(Rendered(S)) = Cardinality(S)
         /\ Cardinality(S) \in Nat
         /\ \A i, j \in 1..Len(Rendered(S)) : i < j => Less(Rendered(S)[j], Rendered(S)[i])
         /\ \A r \in S : \E i \in 1..Len(Rendered(S)) : Rendered(S)[i] = r
<1> DEFINE rank(x) == Cardinality(Ahead(S, x, "older"))
           n == Cardinality(S)
           R == [i \in 1..n |-> CHOOSE r \in S : rank(r) = i - 1]
<1>1. n \in Nat
  BY FS_CardinalityType
<1>2. R = Rendered(S)
  BY DEF Rendered, Ahead, Closer
<1>3. \A x : IsFiniteSet(Ahead(S, x, "older")) /\ rank(x) \in Nat
  BY AheadCounts
<1>4. \A x, y \in S : Closer(x, y, "older") => rank(x) < rank(y)
  BY AheadCounts
<1>5. \A k \in Nat : k < n => \E x \in S : rank(x) = k
  BY RankTaken
<1>6. \A x \in S : rank(x) < n
  <2> TAKE x \in S
  <2>1. Ahead(S, x, "older") \in SUBSET (S \ {x})
    BY CloserInLine DEF Ahead
  <2>2. IsFiniteSet(S \ {x}) /\ Cardinality(S \ {x}) = n - 1
    BY FS_RemoveElement
  <2>3. rank(x) <= n - 1
    BY <2>1, <2>2, FS_Subset
  <2> QED  BY <1>1, <1>3, <2>3
<1> HIDE DEF rank, n
<1>7. \A i \in 1..n : R[i] \in S /\ rank(R[i]) = i - 1
  <2> TAKE i \in 1..n
  <2>1. \E x \in S : rank(x) = i - 1
    <3>1. i - 1 \in Nat /\ i - 1 < n
      BY <1>1
    <3> QED  BY <3>1, <1>5
  <2>2. R[i] = CHOOSE r \in S : rank(r) = i - 1
    OBVIOUS
  <2> QED  BY <2>1, <2>2
<1>8. R \in Seq(S) /\ Len(R) = n
  <2>1. R = [i \in 1..n |-> R[i]] /\ \A i \in 1..n : R[i] \in S
    BY <1>7
  <2>2. DOMAIN R = 1..n
    OBVIOUS
  <2> HIDE DEF R
  <2>3. R \in [1..n -> S]
    BY <2>1
  <2>4. R \in Seq(S)
    BY <1>1, <2>3
  <2> QED  BY <1>1, <2>2, <2>4
<1> HIDE DEF R
<1>9. ASSUME NEW i \in 1..n, NEW j \in 1..n, i < j PROVE Less(R[j], R[i])
  <2>1. R[i] \in S /\ R[j] \in S /\ rank(R[i]) = i - 1 /\ rank(R[j]) = j - 1
    BY <1>7
  <2>2. ~ (rank(R[j]) < rank(R[i])) /\ rank(R[i]) # rank(R[j])
    BY <1>1, <1>9, <2>1
  <2>3. ~ Closer(R[j], R[i], "older") /\ R[i] # R[j]
    BY <1>4, <2>1, <2>2
  <2>4. Closer(R[i], R[j], "older")
    BY <2>1, <2>3, CloserInLine
  <2> QED  BY <2>4 DEF Closer
<1>10. ASSUME NEW r \in S PROVE \E i \in 1..n : R[i] = r
  <2>1. rank(r) + 1 \in 1..n /\ rank(r) \in Nat
    BY <1>1, <1>3, <1>6
  <2> DEFINE i == rank(r) + 1
  <2>2. R[i] \in S /\ rank(R[i]) = rank(r)
    BY <1>7, <2>1
  <2>3. R[i] = r
    BY <1>4, <1>3, <2>2, <2>1, CloserInLine
  <2> QED  BY <2>1, <2>3
<1> QED  BY <1>1, <1>2, <1>8, <1>9, <1>10 DEF n

-----------------------------------------------------------------------------
(* The live page: its invariant *)

Past(c, r, side) == c = NoCursor \/ Closer(c, r, side)

\* The predicate of the query cuts exactly where the order of the keys does.
LEMMA KeysetIsOrder ==
  ASSUME NEW side \in Sides, NEW r \in Keys, NEW c \in Keys
  PROVE  Keyset(r, c, side) <=> Closer(c, r, side)
<1>1. /\ r.ts \in Nat /\ r.kind \in Nat /\ r.id \in Nat
      /\ c.ts \in Nat /\ c.kind \in Nat /\ c.id \in Nat
  BY DEF Keys
<1>2. CASE side = "newer"
  BY <1>1, <1>2 DEF Keyset, Closer, Less
<1>3. CASE side = "older"
  BY <1>1, <1>3 DEF Keyset, Closer, Less
<1> QED  BY <1>2, <1>3 DEF Sides

PageRequests == [busy : {TRUE}, cursor : rows \cup {NoCursor}, watermark : Nat,
             left : SUBSET kinds, got : SUBSET rows]

FeedTyped ==
  /\ FeedTypeOK
  /\ rows \in SUBSET Keys /\ IsFiniteSet(rows)
  /\ time \in 1..MaxTime /\ writing \in [Kinds -> Nat] /\ kinds \in SUBSET Kinds
  /\ list \in Seq(rows)
  /\ asked \in [Sides -> {Idle} \cup PageRequests]
  /\ \A r \in covered : r.kind \in kinds

\* Where the two ends of the list stand: the control and an older request are at
\* its last row, a newer request is at its first.
FeedPlaces ==
  /\ page \in {"closed", "opening"} => list = <<>>
  /\ page = "closed" => ~ asked["older"].busy
  /\ page = "opening" => asked["older"].busy /\ asked["older"].cursor = NoCursor
  /\ page = "joined" => list # <<>>
  /\ page \in {"open", "joined"} /\ asked["older"].busy =>
       /\ asked["older"].cursor # NoCursor
       /\ list # <<>>
       /\ ~ Less(list[Len(list)], asked["older"].cursor)
       /\ ReaderStays => asked["older"].cursor = list[Len(list)]
  /\ asked["newer"].busy => /\ page = "joined"
                            /\ asked["newer"].cursor = list[1]
                            /\ asked["newer"].cursor # NoCursor
  /\ older # NoCursor => list # <<>> /\ older = list[Len(list)]

InLine == \A i, j \in 1..Len(list) : i < j => Less(list[j], list[i])

\* What a request has not collected, of the sources it has asked, is behind a full page.
Behind(q, r, side) ==
  Cardinality({p \in q.got : Past(q.cursor, p, side) /\ Closer(p, r, side)}) >= PerSource

Collected ==
  \A side \in Sides : asked[side].busy =>
    \A r \in covered :
      r.kind \notin asked[side].left /\ Past(asked[side].cursor, r, side) =>
        r \in asked[side].got \/ Behind(asked[side], r, side)

FeedInv == FeedTyped /\ FeedPlaces /\ InLine /\ (ReaderStays => Gapless) /\ Collected

\* Finite sets of events have a newest timestamp, or there is none.
LEMMA NewestIs ==
  ASSUME NEW S \in SUBSET Keys, IsFiniteSet(S)
  PROVE  Newest(S) \in Nat
<1> DEFINE times == {r.ts : r \in S} \cup {NoTime}
<1>1. times \in SUBSET Nat
  BY DEF Keys, NoTime
<1>2. CASE S = {}
  <2>1. Newest(S) = CHOOSE t \in times : TRUE
    BY <1>2 DEF Newest
  <2>2. \E t \in times : TRUE
    OBVIOUS
  <2> HIDE DEF times
  <2> QED  BY <1>1, <2>1, <2>2
<1>3. CASE S # {}
  <2>1. PICK x \in S : \A y \in S \ {x} : Closer(x, y, "older")
    BY <1>3, FirstOne
  <2>2. \A r \in S : r.ts <= x.ts
    BY <2>1 DEF Closer, Less, Keys
  <2>3. \E t \in times : \A r \in S : r.ts <= t
    BY <2>1, <2>2
  <2>4. Newest(S) = CHOOSE t \in times : \A r \in S : r.ts <= t
    BY DEF Newest
  <2> HIDE DEF times
  <2> QED  BY <1>1, <2>3, <2>4
<1> QED  BY <1>2, <1>3

\* A line that is followed by one whose events are all older.
LEMMA LinesJoin ==
  ASSUME NEW a \in Seq(Keys), NEW b \in Seq(Keys),
         \A i, j \in 1..Len(a) : i < j => Less(a[j], a[i]),
         \A i, j \in 1..Len(b) : i < j => Less(b[j], b[i]),
         \A i \in 1..Len(a) : \A j \in 1..Len(b) : Less(b[j], a[i])
  PROVE  /\ a \o b \in Seq(Keys) /\ Len(a \o b) = Len(a) + Len(b)
         /\ \A i \in 1..Len(a) : (a \o b)[i] = a[i]
         /\ \A j \in 1..Len(b) : (a \o b)[Len(a) + j] = b[j]
         /\ \A i, j \in 1..Len(a \o b) : i < j => Less((a \o b)[j], (a \o b)[i])
<1> DEFINE c == a \o b
<1>1. /\ c \in Seq(Keys) /\ Len(c) = Len(a) + Len(b)
      /\ \A i \in 1..Len(a) : c[i] = a[i]
      /\ \A j \in 1..Len(b) : c[Len(a) + j] = b[j]
      /\ Len(a) \in Nat /\ Len(b) \in Nat
  OBVIOUS
<1> HIDE DEF c
<1>2. ASSUME NEW i \in 1..Len(c), NEW j \in 1..Len(c), i < j PROVE Less(c[j], c[i])
  <2>1. CASE j <= Len(a)
    <3>1. i \in 1..Len(a) /\ j \in 1..Len(a)
      BY <1>1, <1>2, <2>1
    <3> QED  BY <1>1, <1>2, <3>1
  <2>2. CASE i <= Len(a) /\ j > Len(a)
    <3>1. i \in 1..Len(a) /\ j - Len(a) \in 1..Len(b) /\ Len(a) + (j - Len(a)) = j
      BY <1>1, <1>2, <2>2
    <3>2. c[j] = b[j - Len(a)]
      BY <1>1, <3>1
    <3> QED  BY <1>1, <3>1, <3>2
  <2>3. CASE i > Len(a)
    <3>1. /\ i - Len(a) \in 1..Len(b) /\ j - Len(a) \in 1..Len(b)
          /\ Len(a) + (j - Len(a)) = j /\ Len(a) + (i - Len(a)) = i
          /\ i - Len(a) < j - Len(a)
      BY <1>1, <1>2, <2>3
    <3>2. c[j] = b[j - Len(a)] /\ c[i] = b[i - Len(a)]
      BY <1>1, <3>1
    <3> QED  BY <3>1, <3>2
  <2> QED  BY <1>1, <2>1, <2>2, <2>3
<1> QED  BY <1>1, <1>2 DEF c

\* A page: what it leaves out of what was there is behind all that it shows.
LEMMA PageWhole ==
  ASSUME FeedTyped, Collected, FeedAssumption, NEW side \in Sides, PageSent(side)
  PROVE  /\ Selected(side) \in SUBSET rows /\ IsFiniteSet(Selected(side))
         /\ \A s \in Selected(side) : Past(asked[side].cursor, s, side)
         /\ \A r \in covered : Past(asked[side].cursor, r, side) =>
              r \in Selected(side) \/ \A s \in Selected(side) : Closer(s, r, side)
<1> DEFINE q == asked[side]
           base == {r \in q.got : Past(q.cursor, r, side)}
           limit == IF side = "newer" THEN NewerLimit ELSE PageSize
           S == Nearest(base, limit, side)
<1>1. q \in PageRequests
  BY DEF FeedTyped, PageSent, Idle
<1>2. q.got \in SUBSET rows /\ q.busy /\ q.left = {}
  BY <1>1 DEF PageRequests, PageSent
<1>3. base \in SUBSET rows /\ base \in SUBSET Keys /\ IsFiniteSet(base)
  BY <1>2, FS_Subset DEF FeedTyped
<1>4. limit \in Nat /\ PerSource \in Nat /\ limit <= PerSource
  BY DEF FeedAssumption
<1>5. Selected(side) = S
  BY DEF Selected, Past
<1> HIDE DEF limit, q
<1>6. S \in SUBSET base /\ IsFiniteSet(S)
  <2>1. S \in SUBSET base
    BY DEF Nearest
  <2> HIDE DEF base, S
  <2> QED  BY <1>3, <2>1, FS_Subset
<1>7. ASSUME NEW r \in covered, Past(q.cursor, r, side), r \notin S, NEW s \in S
      PROVE  Closer(s, r, side)
  <2>1. r \in Keys
    BY DEF FeedTyped, FeedTypeOK
  <2>2. CASE r \in q.got
    <3>1. r \in base
      BY <1>7, <2>2
    <3> HIDE DEF base
    <3> QED  BY <3>1, <1>3, <1>4, <1>7, NearestFirst
  <2>3. CASE r \notin q.got
    <3>1. Cardinality(Ahead(base, r, side)) >= PerSource
      <4>1. Behind(q, r, side)
        BY <1>2, <1>7, <2>3 DEF Collected, q
      <4>2. Ahead(base, r, side) = {p \in q.got : Past(q.cursor, p, side) /\ Closer(p, r, side)}
        BY DEF Ahead
      <4> QED  BY <4>1, <4>2 DEF Behind
    <3>2. s \in base /\ Cardinality(Ahead(base, s, side)) < limit /\ s \in Keys
      BY <1>3 DEF Nearest, Ahead
    <3>3. s # r
      BY <2>3, <3>2
    <3>4. ASSUME Closer(r, s, side) PROVE FALSE
      <4>1. Ahead(base, r, side) \in SUBSET Ahead(base, s, side)
        BY <1>3, <2>1, <3>2, <3>4, CloserPassesOn DEF Ahead
      <4> HIDE DEF base
      <4>2. /\ IsFiniteSet(Ahead(base, s, side))
            /\ Cardinality(Ahead(base, s, side)) \in Nat /\ Cardinality(Ahead(base, r, side)) \in Nat
        BY <1>3, AheadCounts
      <4>3. Cardinality(Ahead(base, r, side)) <= Cardinality(Ahead(base, s, side))
        BY <4>1, <4>2, FS_Subset
      <4> QED  BY <1>4, <3>1, <3>2, <4>2, <4>3
    <3> QED  BY <2>1, <3>2, <3>3, <3>4, CloserInLine
  <2> QED  BY <2>2, <2>3
<1> QED  BY <1>3, <1>5, <1>6, <1>7 DEF q

-----------------------------------------------------------------------------
(* The live page: the steps *)

LEMMA FeedValues ==
  ASSUME FeedTyped
  PROVE  /\ list \in Seq(Keys) /\ Len(list) \in Nat /\ NoCursor \in Keys
         /\ list # <<>> => /\ Len(list) \in 1..Len(list) /\ 1 \in 1..Len(list)
                           /\ Head(list) = list[1] /\ Last(list) = list[Len(list)]
                           /\ list[1] \in rows /\ list[Len(list)] \in rows
         /\ \A i \in 1..Len(list) : list[i] \in rows /\ list[i] \in Keys
         /\ NoCursor \notin rows
<1>1. list \in Seq(rows) /\ rows \in SUBSET Keys
  BY DEF FeedTyped
<1>2. \A i \in 1..Len(list) : list[i] \in rows /\ list[i] \in Keys
  BY <1>1
<1>3. list \in Seq(Keys)
  BY <1>1
<1>4. NoCursor \in Keys
  BY DEF NoCursor, Keys
<1>5. NoCursor \notin rows
  BY DEF NoCursor, FeedTyped, FeedTypeOK
<1> QED  BY <1>1, <1>2, <1>3, <1>4, <1>5 DEF Last

\* What the site writes leaves the page where it stood.
LEMMA SiteKeeps ==
  ASSUME FeedInv, FeedAssumption,
         (\E k \in Kinds : Stamp(k) \/ Land(k)) \/ Passes
  PROVE  FeedInv'
<1>1. UNCHANGED <<kinds, list, older, asked, page, covered>>
  BY DEF Stamp, Land, Passes
<1>2. rows \in SUBSET rows' /\ FeedTyped
      /\ rows' \in SUBSET Keys /\ IsFiniteSet(rows') /\ time' \in 1..MaxTime
      /\ writing' \in [Kinds -> Nat]
      /\ (\A r \in rows' : r.ts \in 1..MaxTime /\ r.kind \in Kinds)
      /\ (\A k \in Kinds : writing'[k] \in 0..time')
  <2>1. /\ time \in 1..MaxTime /\ writing \in [Kinds -> Nat] /\ MaxTime \in Nat
        /\ \A k \in Kinds : writing[k] \in 0..time
        /\ rows \in SUBSET Keys /\ IsFiniteSet(rows)
        /\ \A r \in rows : r.ts \in 1..MaxTime /\ r.kind \in Kinds
        /\ FeedTyped
    BY DEF FeedInv, FeedTyped, FeedTypeOK, FeedAssumption
  <2>2. CASE Passes
    BY <2>1, <2>2 DEF Passes
  <2>3. ASSUME NEW k \in Kinds, Stamp(k)
        PROVE  /\ rows' = rows /\ time' = time /\ writing' \in [Kinds -> Nat]
               /\ \A m \in Kinds : writing'[m] \in 0..time
    BY <2>1, <2>3 DEF Stamp
  <2>4. ASSUME NEW k \in Kinds, Land(k)
        PROVE  /\ rows \in SUBSET rows' /\ rows' \in SUBSET Keys /\ IsFiniteSet(rows')
               /\ time' = time /\ writing' \in [Kinds -> Nat]
               /\ (\A r \in rows' : r.ts \in 1..MaxTime /\ r.kind \in Kinds)
               /\ \A m \in Kinds : writing'[m] \in 0..time
    <3> DEFINE n == Cardinality({r \in rows : r.kind = k})
               new == [ts |-> writing[k], kind |-> k, id |-> 1 + n]
    <3>1. rows' = rows \cup {new} /\ writing' = [writing EXCEPT ![k] = NoTime]
          /\ writing[k] # NoTime /\ time' = time
      BY <2>4 DEF Land
    <3>2. n \in Nat
      BY <2>1, FS_Subset, FS_CardinalityType
    <3> HIDE DEF n
    <3>3. writing[k] \in 1..MaxTime /\ k \in Nat
      BY <2>1, <3>1 DEF NoTime, FeedAssumption
    <3>4. new \in Keys /\ new.ts \in 1..MaxTime /\ new.kind \in Kinds
      BY <3>2, <3>3 DEF Keys
    <3>5. writing' \in [Kinds -> Nat] /\ \A m \in Kinds : writing'[m] \in 0..time
      BY <2>1, <3>1 DEF NoTime
    <3> HIDE DEF new
    <3>6. IsFiniteSet(rows')
      BY <2>1, <3>1, FS_AddElement
    <3> QED  BY <2>1, <3>1, <3>4, <3>5, <3>6
  <2> QED  BY <2>1, <2>2, <2>3, <2>4
<1>3. FeedTyped'
  <2>1. list' \in Seq(rows') /\ \A i \in DOMAIN list' : list'[i] \in rows'
    <3>1. list \in Seq(rows)
      BY <1>2 DEF FeedTyped
    <3>2. list \in Seq(rows')
      BY <1>2, <3>1
    <3> QED  BY <1>1, <3>2
  <2>2. asked' \in [Sides -> ({Idle} \cup PageRequests)']
    <3>1. PageRequests \in SUBSET PageRequests' /\ Idle' = Idle
      BY <1>1, <1>2 DEF PageRequests, Idle
    <3>2. asked \in [Sides -> {Idle} \cup PageRequests]
      BY <1>2 DEF FeedTyped
    <3>3. asked \in [Sides -> {Idle'} \cup PageRequests']
      BY <3>1, <3>2
    <3> QED  BY <1>1, <3>3
  <2>3. older' \in rows' \cup {NoCursor} /\ covered' \subseteq rows'
        /\ page' \in {"closed", "opening", "open", "joined"}
        /\ kinds' \in SUBSET Kinds /\ (\A r \in covered' : r.kind \in kinds')
    BY <1>1, <1>2 DEF FeedTyped, FeedTypeOK
  <2> QED  BY <1>2, <2>1, <2>2, <2>3 DEF FeedTyped, FeedTypeOK
<1>4. FeedPlaces'
  BY <1>1 DEF FeedInv, FeedPlaces
<1>5. InLine' /\ (ReaderStays => Gapless)'
  BY <1>1 DEF FeedInv, InLine, Gapless
<1>6. Collected'
  BY <1>1 DEF FeedInv, Collected, Behind
<1> QED  BY <1>3, <1>4, <1>5, <1>6 DEF FeedInv

\* The fields of a request that one of the sides has in flight.
LEMMA RequestIs ==
  ASSUME FeedTyped, NEW side \in Sides, asked[side].busy
  PROVE  /\ asked[side] \in PageRequests /\ asked[side].left \in SUBSET kinds
         /\ asked[side].got \in SUBSET rows /\ asked[side].cursor \in Keys
         /\ asked[side].cursor \in rows \cup {NoCursor}
<1>1. asked[side] \in PageRequests
  BY DEF FeedTyped, Idle
<1>2. rows \in SUBSET Keys /\ NoCursor \in Keys
  BY FeedValues DEF FeedTyped
<1> QED  BY <1>1, <1>2 DEF PageRequests

\* A step that only changes what is asked, on one side.
LEMMA AskingTyped ==
  ASSUME FeedTyped, NEW side \in Sides, NEW q \in {Idle} \cup PageRequests,
         asked' = [asked EXCEPT ![side] = q], UNCHANGED <<rows, time, writing, kinds, list, older>>,
         page' \in {"closed", "opening", "open", "joined"},
         covered' \subseteq rows, \A r \in covered' : r.kind \in kinds
  PROVE  FeedTyped'
<1>1. PageRequests' = PageRequests
  BY DEF PageRequests
<1>2. asked' \in [Sides -> {Idle} \cup PageRequests]
  BY DEF FeedTyped
<1>3. asked' \in [Sides -> {Idle} \cup PageRequests']
  BY <1>1, <1>2
<1>4. list' \in Seq(rows') /\ \A i \in DOMAIN list' : list'[i] \in rows'
  BY DEF FeedTyped, FeedTypeOK
<1>5. FeedTypeOK'
  BY <1>4 DEF FeedTyped, FeedTypeOK
<1> QED  BY <1>3, <1>4, <1>5 DEF FeedTyped

LEMMA CollectKeeps ==
  ASSUME FeedInv, FeedAssumption, NEW side \in Sides, Collect(side)
  PROVE  FeedInv'
<1> DEFINE q == asked[side]
           k == CHOOSE m \in q.left : \A n \in q.left : m <= n
           source == Source(k, q.cursor, side)
           after == [q EXCEPT !.left = @ \ {k}, !.got = @ \cup source]
<1>0. /\ UNCHANGED <<rows, writing, time, kinds, list, older, page, covered>>
      /\ asked' = [asked EXCEPT ![side].left = @ \ {k}, ![side].got = @ \cup source]
      /\ q.busy /\ q.left # {}
      /\ FeedTyped
  BY DEF Collect, world, FeedInv
<1>1. /\ q \in PageRequests /\ q.left \in SUBSET kinds /\ q.got \in SUBSET rows /\ q.cursor \in Keys
      /\ q.cursor \in rows \cup {NoCursor}
  BY <1>0, RequestIs
<1>2. asked' = [asked EXCEPT ![side] = after]
  BY <1>0 DEF FeedTyped
<1>3. rows \in SUBSET Keys /\ IsFiniteSet(rows) /\ asked \in [Sides -> {Idle} \cup PageRequests]
  BY <1>0 DEF FeedTyped
<1> DEFINE base == {r \in rows : r.kind = k /\ (q.cursor = NoCursor \/ Keyset(r, q.cursor, side))}
<1>4. source = Nearest(base, PerSource, side)
  BY DEF Source
<1>5. \A r \in rows : r \in base <=> r.kind = k /\ Past(q.cursor, r, side)
  BY <1>1, <1>3, KeysetIsOrder DEF Past
<1>6. base \in SUBSET rows /\ base \in SUBSET Keys /\ IsFiniteSet(base)
  <2>1. base \in SUBSET rows
    OBVIOUS
  <2> HIDE DEF base
  <2> QED  BY <1>3, <2>1, FS_Subset
<1> HIDE DEF base, k, source
<1>7. source \in SUBSET base
  BY <1>4 DEF Nearest
<1>8. after \in PageRequests /\ after.got = q.got \cup source /\ after.left = q.left \ {k}
      /\ after.cursor = q.cursor /\ after.busy
  BY <1>0, <1>1, <1>6, <1>7 DEF PageRequests
<1> HIDE DEF after
<1>9. /\ asked'[side] = after
      /\ \A s \in Sides : s # side => asked'[s] = asked[s]
      /\ \A s \in Sides : asked'[s].busy = asked[s].busy
      /\ \A s \in Sides : asked[s].busy => asked'[s].cursor = asked[s].cursor
  <2>1. asked'[side] = after /\ \A s \in Sides : s # side => asked'[s] = asked[s]
    BY <1>2, <1>3
  <2>2. after.busy = asked[side].busy
    BY <1>1, <1>8 DEF PageRequests
  <2> QED  BY <1>8, <2>1, <2>2
<1>10. FeedTyped'
  <2>1. covered' \subseteq rows /\ (\A r \in covered' : r.kind \in kinds)
        /\ page' \in {"closed", "opening", "open", "joined"}
    BY <1>0 DEF FeedTyped, FeedTypeOK
  <2> QED  BY <1>0, <1>2, <1>8, <2>1, AskingTyped
<1>11. FeedPlaces'
  BY <1>0, <1>9 DEF FeedInv, FeedPlaces, Sides
<1>12. InLine' /\ (ReaderStays => Gapless)'
  BY <1>0 DEF FeedInv, InLine, Gapless
<1>13. Collected'
  <2> SUFFICES ASSUME NEW s \in Sides, asked'[s].busy, NEW r \in covered,
                      r.kind \notin asked'[s].left, Past(asked'[s].cursor, r, s)
               PROVE  r \in asked'[s].got \/ Behind(asked'[s], r, s)
    BY <1>0 DEF Collected, Behind
  <2>0. r \in rows /\ r \in Keys /\ Collected
    BY <1>0, <1>3 DEF FeedTyped, FeedTypeOK, FeedInv
  <2>1. CASE s # side
    BY <1>9, <2>0, <2>1 DEF Collected
  <2>2. CASE s = side /\ r.kind # k
    <3>1. r.kind \notin q.left /\ Past(q.cursor, r, side)
      BY <1>8, <1>9, <2>2
    <3>2. r \in q.got \/ Behind(q, r, side)
      BY <1>0, <2>0, <3>1 DEF Collected
    <3>3. CASE r \in q.got
      BY <1>8, <1>9, <2>2, <3>3
    <3>4. CASE Behind(q, r, side)
      <4> DEFINE A == {p \in q.got : Past(q.cursor, p, side) /\ Closer(p, r, side)}
                 B == {p \in after.got : Past(q.cursor, p, side) /\ Closer(p, r, side)}
      <4>1. A \in SUBSET B /\ B \in SUBSET rows
        BY <1>1, <1>6, <1>7, <1>8
      <4>2. Cardinality(A) >= PerSource
        BY <3>4 DEF Behind
      <4>3. B = {p \in after.got : Past(after.cursor, p, side) /\ Closer(p, r, side)}
        BY <1>8
      <4> HIDE DEF A, B
      <4>4. IsFiniteSet(B)
        BY <1>3, <4>1, FS_Subset
      <4>5. Cardinality(A) <= Cardinality(B)
            /\ Cardinality(A) \in Nat /\ Cardinality(B) \in Nat
        BY <4>1, <4>4, FS_Subset, FS_CardinalityType
      <4>6. Cardinality(B) >= PerSource
        BY <4>2, <4>5 DEF FeedAssumption
      <4>7. Behind(after, r, side)
        BY <4>3, <4>6 DEF Behind
      <4> QED  BY <1>9, <2>2, <4>7
    <3> QED  BY <3>2, <3>3, <3>4
  <2>3. CASE s = side /\ r.kind = k
    <3>1. r \in base
      BY <1>5, <1>8, <1>9, <2>0, <2>3
    <3>2. CASE r \in source
      BY <1>8, <1>9, <2>3, <3>2
    <3>3. CASE r \notin source
      <4> DEFINE A == Ahead(source, r, side)
                 B == {p \in after.got : Past(q.cursor, p, side) /\ Closer(p, r, side)}
      <4>1. Cardinality(A) >= PerSource
        BY <1>4, <1>6, <3>1, <3>3, NearestFull DEF FeedAssumption
      <4>2. A \in SUBSET B /\ B \in SUBSET rows
        BY <1>1, <1>5, <1>6, <1>7, <1>8 DEF Ahead
      <4>3. B = {p \in after.got : Past(after.cursor, p, side) /\ Closer(p, r, side)}
        BY <1>8
      <4> HIDE DEF A, B
      <4>4. IsFiniteSet(B)
        BY <1>3, <4>2, FS_Subset
      <4>5. Cardinality(A) <= Cardinality(B)
            /\ Cardinality(A) \in Nat /\ Cardinality(B) \in Nat
        BY <4>2, <4>4, FS_Subset, FS_CardinalityType
      <4>6. Cardinality(B) >= PerSource
        BY <4>1, <4>5 DEF FeedAssumption
      <4>7. Behind(after, r, side)
        BY <4>3, <4>6 DEF Behind
      <4> QED  BY <1>9, <2>3, <4>7
    <3> QED  BY <3>2, <3>3
  <2> QED  BY <2>1, <2>2, <2>3
<1> QED  BY <1>10, <1>11, <1>12, <1>13 DEF FeedInv

LEMMA FailsKeeps ==
  ASSUME FeedInv, NEW side \in Sides, Fails(side)
  PROVE  FeedInv'
<1>1. /\ UNCHANGED <<rows, writing, time, kinds, list, older, page, covered>>
      /\ asked' = [asked EXCEPT ![side] = Idle] /\ page = "joined" /\ FeedTyped
  BY DEF Fails, world, FeedInv
<1>2. /\ ~ asked'[side].busy
      /\ \A s \in Sides : s # side => asked'[s] = asked[s]
  BY <1>1 DEF FeedTyped, Idle
<1>3. FeedTyped'
  <2>1. covered' \subseteq rows /\ (\A r \in covered' : r.kind \in kinds)
        /\ page' \in {"closed", "opening", "open", "joined"}
    BY <1>1 DEF FeedTyped, FeedTypeOK
  <2> QED  BY <1>1, <2>1, AskingTyped
<1>4. FeedPlaces'
  BY <1>1, <1>2 DEF FeedInv, FeedPlaces, Sides
<1>5. InLine' /\ (ReaderStays => Gapless)'
  BY <1>1 DEF FeedInv, InLine, Gapless
<1>6. Collected'
  BY <1>1, <1>2 DEF FeedInv, Collected, Behind
<1> QED  BY <1>3, <1>4, <1>5, <1>6 DEF FeedInv

\* A request for a place has asked no source yet.
LEMMA RequestFresh ==
  ASSUME FeedTyped, NEW c \in rows \cup {NoCursor}, NEW since \in BOOLEAN
  PROVE  /\ Request(c, since) \in PageRequests
         /\ Request(c, since).busy /\ Request(c, since).cursor = c
         /\ Request(c, since).left = kinds
<1>1. Newest(rows) \in Nat
  BY NewestIs DEF FeedTyped
<1>2. (IF since THEN Newest(rows) ELSE NoTime) \in Nat
  BY <1>1 DEF NoTime
<1> QED  BY <1>2 DEF Request, PageRequests

LEMMA OpenKeeps ==
  ASSUME FeedInv, Open
  PROVE  FeedInv'
<1> DEFINE q == Request(NoCursor, FALSE)
<1>1. /\ UNCHANGED <<rows, writing, time, kinds, list, older>>
      /\ asked' = [asked EXCEPT !["older"] = q] /\ page = "closed" /\ page' = "opening"
      /\ covered' = {r \in rows : r.kind \in kinds} /\ FeedTyped
  BY DEF Open, world, FeedInv
<1>2. q \in PageRequests /\ q.busy /\ q.cursor = NoCursor /\ q.left = kinds
  BY <1>1, RequestFresh
<1> HIDE DEF q
<1>3. asked'["older"] = q /\ asked'["newer"] = asked["newer"]
  BY <1>1, <1>2 DEF FeedTyped, Sides
<1>4. FeedTyped'
  <2>1. "older" \in Sides
    BY DEF Sides
  <2> QED  BY <1>1, <1>2, <2>1, AskingTyped
<1>5. ~ asked'["newer"].busy /\ list = <<>> /\ list' = <<>> /\ older = NoCursor
  BY <1>1, <1>3 DEF FeedInv, FeedPlaces
<1>6. FeedPlaces'
  BY <1>1, <1>2, <1>3, <1>5 DEF FeedPlaces
<1>7. InLine' /\ (ReaderStays => Gapless)'
  BY <1>1, <1>5 DEF FeedInv, InLine, Gapless
<1>8. Collected'
  BY <1>1, <1>2, <1>3, <1>5 DEF Collected, Sides
<1> QED  BY <1>4, <1>6, <1>7, <1>8 DEF FeedInv

LEMMA JoinKeeps ==
  ASSUME FeedInv, Join
  PROVE  FeedInv'
<1>1. /\ UNCHANGED <<rows, writing, time, kinds, list, older, asked, covered>>
      /\ page = "open" /\ page' = "joined" /\ list # <<>> /\ FeedTyped
  BY DEF Join, world, FeedInv
<1>2. FeedTyped'
  <2>1. PageRequests' = PageRequests
    BY <1>1 DEF PageRequests
  <2>2. list' \in Seq(rows') /\ \A i \in DOMAIN list' : list'[i] \in rows'
    BY <1>1 DEF FeedTyped, FeedTypeOK
  <2>3. FeedTypeOK'
    BY <1>1, <2>2 DEF FeedTyped, FeedTypeOK
  <2> QED  BY <1>1, <2>1, <2>2, <2>3 DEF FeedTyped
<1>3. FeedPlaces'
  BY <1>1 DEF FeedInv, FeedPlaces
<1>4. InLine' /\ (ReaderStays => Gapless)'
  BY <1>1 DEF FeedInv, InLine, Gapless
<1>5. Collected'
  BY <1>1 DEF FeedInv, Collected, Behind
<1> QED  BY <1>2, <1>3, <1>4, <1>5 DEF FeedInv

LEMMA LoadOlderKeeps ==
  ASSUME FeedInv, LoadOlder
  PROVE  FeedInv'
<1> DEFINE q == Request(older, FALSE)
<1>1. /\ UNCHANGED <<rows, writing, time, kinds, list, older, page, covered>>
      /\ asked' = [asked EXCEPT !["older"] = q] /\ page \in {"open", "joined"}
      /\ older # NoCursor /\ FeedTyped
  BY DEF LoadOlder, world, FeedInv
<1>2. q \in PageRequests /\ q.busy /\ q.cursor = older /\ q.left = kinds
  <2>1. older \in rows \cup {NoCursor}
    BY <1>1 DEF FeedTyped, FeedTypeOK
  <2> QED  BY <1>1, <2>1, RequestFresh
<1> HIDE DEF q
<1>3. asked'["older"] = q /\ asked'["newer"] = asked["newer"]
  BY <1>1, <1>2 DEF FeedTyped, Sides
<1>4. FeedTyped'
  <2>1. "older" \in Sides /\ covered' \subseteq rows /\ (\A r \in covered' : r.kind \in kinds)
        /\ page' \in {"closed", "opening", "open", "joined"}
    BY <1>1 DEF Sides, FeedTyped, FeedTypeOK
  <2> QED  BY <1>1, <1>2, <2>1, AskingTyped
<1>5. list # <<>> /\ older = list[Len(list)] /\ ~ Less(list[Len(list)], older)
  <2>1. list # <<>> /\ older = list[Len(list)]
    BY <1>1 DEF FeedInv, FeedPlaces
  <2> QED  BY <1>1, <2>1, FeedValues, KeysInLine
<1>6. FeedPlaces'
  <2>1. FeedPlaces
    BY DEF FeedInv
  <2> QED  BY <1>1, <1>2, <1>3, <1>5, <2>1 DEF FeedPlaces
<1>7. InLine' /\ (ReaderStays => Gapless)'
  BY <1>1 DEF FeedInv, InLine, Gapless
<1>8. Collected'
  <2>1. Collected
    BY DEF FeedInv
  <2>2. ASSUME NEW r \in covered PROVE r.kind \in asked'["older"].left
    BY <1>1, <1>2, <1>3 DEF FeedTyped
  <2> QED  BY <1>1, <1>3, <2>1, <2>2 DEF Collected, Behind, Sides
<1> QED  BY <1>4, <1>6, <1>7, <1>8 DEF FeedInv

\* The last row of the list is not newer than its first.
LEMMA EndsInLine ==
  ASSUME FeedTyped, InLine, list # <<>>
  PROVE  \A i \in 1..Len(list) : ~ Less(list[1], list[i]) /\ ~ Less(list[i], list[Len(list)])
<1> TAKE i \in 1..Len(list)
<1>1. /\ Len(list) \in Nat /\ 1 \in 1..Len(list) /\ Len(list) \in 1..Len(list)
      /\ list[1] \in Keys /\ list[i] \in Keys /\ list[Len(list)] \in Keys
  BY FeedValues
<1>2. i = 1 \/ 1 < i
  BY <1>1
<1>3. i = Len(list) \/ i < Len(list)
  BY <1>1
<1>4. list[i] = list[1] \/ Less(list[i], list[1])
  BY <1>1, <1>2 DEF InLine
<1>5. list[i] = list[Len(list)] \/ Less(list[Len(list)], list[i])
  BY <1>1, <1>3 DEF InLine
<1> QED  BY <1>1, <1>4, <1>5, KeysInLine

LEMMA LoadNewerKeeps ==
  ASSUME FeedInv, LoadNewer
  PROVE  FeedInv'
<1> DEFINE q == Request(Head(list), TRUE)
<1>1. /\ UNCHANGED <<rows, writing, time, kinds, list, older, page>>
      /\ asked' = [asked EXCEPT !["newer"] = q] /\ page = "joined"
      /\ covered' = covered \cup {r \in rows : r.kind \in kinds /\ Less(Head(list), r)}
      /\ FeedTyped /\ FeedPlaces /\ InLine /\ Collected
  BY DEF LoadNewer, world, FeedInv
<1>2. /\ list # <<>> /\ Head(list) = list[1] /\ list[1] \in rows /\ list[1] # NoCursor
      /\ list[1] \in Keys /\ Len(list) \in 1..Len(list) /\ list[Len(list)] \in Keys
      /\ rows \in SUBSET Keys
  BY <1>1, FeedValues DEF FeedPlaces, FeedTyped
<1>3. q \in PageRequests /\ q.busy /\ q.cursor = list[1] /\ q.left = kinds
  BY <1>1, <1>2, RequestFresh
<1> HIDE DEF q
<1>4. asked'["newer"] = q /\ asked'["older"] = asked["older"]
  BY <1>1, <1>3 DEF FeedTyped, Sides
<1>5. "newer" \in Sides /\ covered' \subseteq rows /\ (\A r \in covered' : r.kind \in kinds)
  BY <1>1 DEF Sides, FeedTyped, FeedTypeOK
<1>6. FeedTyped'
  <2>1. page' \in {"closed", "opening", "open", "joined"}
    BY <1>1
  <2> QED  BY <1>1, <1>3, <1>5, <2>1, AskingTyped
<1>7. FeedPlaces'
  BY <1>1, <1>2, <1>3, <1>4 DEF FeedPlaces
<1>8. InLine'
  BY <1>1 DEF InLine
<1>9. (ReaderStays => Gapless)'
  BY <1>1 DEF FeedInv, Gapless
<1>10. Collected'
  <2>1. ASSUME NEW r \in covered' PROVE r.kind \in asked'["newer"].left
    BY <1>3, <1>4, <1>5
  <2>2. ASSUME asked["older"].busy, NEW r \in covered', r \notin covered
        PROVE  ~ Past(asked["older"].cursor, r, "older")
    <3> DEFINE c == asked["older"].cursor
    <3>1. c \in Keys /\ c # NoCursor /\ ~ Less(list[Len(list)], c)
      <4>1. "older" \in Sides
        BY DEF Sides
      <4> QED  BY <1>1, <2>2, <4>1, RequestIs DEF FeedPlaces
    <3>2. r \in Keys /\ Less(list[1], r)
      BY <1>1, <1>2, <2>2
    <3>3. ~ Less(list[1], list[Len(list)])
      BY <1>1, <1>2, EndsInLine
    <3> HIDE DEF c
    <3>4. ~ Less(r, c)
      BY <1>2, <3>1, <3>2, <3>3, KeysInLine, KeysPassOn
    <3> QED  BY <3>1, <3>4 DEF Past, Closer, c
  <2>3. ASSUME NEW side \in Sides, asked'[side].busy, NEW r \in covered',
               r.kind \notin asked'[side].left, Past(asked'[side].cursor, r, side)
        PROVE  r \in asked'[side].got \/ Behind(asked'[side], r, side)
    <3>1. side = "older"
      BY <2>1, <2>3 DEF Sides
    <3>2. r \in covered
      BY <1>4, <2>2, <2>3, <3>1
    <3> QED  BY <1>1, <1>4, <2>3, <3>1, <3>2 DEF Collected
  <2> QED  BY <2>3 DEF Collected, Behind
<1> QED  BY <1>6, <1>7, <1>8, <1>9, <1>10 DEF FeedInv

\* What a page renders: its rows, newest first.
LEMMA PageRendered ==
  ASSUME FeedTyped, Collected, FeedAssumption, NEW side \in Sides, PageSent(side),
         NEW R, R = Rendered(Selected(side))
  PROVE  /\ R \in Seq(Keys) /\ R \in Seq(rows) /\ Len(R) \in Nat
         /\ Len(R) = Cardinality(Selected(side))
         /\ \A i, j \in 1..Len(R) : i < j => Less(R[j], R[i])
         /\ \A i \in 1..Len(R) : R[i] \in Selected(side) /\ Past(asked[side].cursor, R[i], side)
         /\ \A r \in covered : Past(asked[side].cursor, r, side) =>
              \/ \E i \in 1..Len(R) : R[i] = r
              \/ \A i \in 1..Len(R) : Closer(R[i], r, side)
<1> DEFINE S == Selected(side)
<1>1. /\ S \in SUBSET rows /\ IsFiniteSet(S)
      /\ \A s \in S : Past(asked[side].cursor, s, side)
      /\ \A r \in covered : Past(asked[side].cursor, r, side) =>
           r \in S \/ \A s \in S : Closer(s, r, side)
  BY PageWhole
<1>2. rows \in SUBSET Keys
  BY DEF FeedTyped
<1>3. R = Rendered(S) /\ S \in SUBSET Keys
  BY <1>1, <1>2
<1> HIDE DEF S
<1>4. /\ R \in Seq(S) /\ Len(R) = Cardinality(S) /\ Cardinality(S) \in Nat
      /\ \A i, j \in 1..Len(R) : i < j => Less(R[j], R[i])
      /\ \A r \in S : \E i \in 1..Len(R) : R[i] = r
  BY <1>1, <1>3, RenderedIs
<1>5. \A i \in 1..Len(R) : R[i] \in S
  BY <1>4
<1>6. R \in Seq(rows) /\ R \in Seq(Keys)
  BY <1>1, <1>3, <1>4
<1>7. \A i \in 1..Len(R) : Past(asked[side].cursor, R[i], side)
  BY <1>1, <1>5
<1>8. ASSUME NEW r \in covered, Past(asked[side].cursor, r, side)
      PROVE  \/ \E i \in 1..Len(R) : R[i] = r
             \/ \A i \in 1..Len(R) : Closer(R[i], r, side)
  BY <1>1, <1>4, <1>5, <1>8
<1> QED  BY <1>4, <1>5, <1>6, <1>7, <1>8 DEF S

\* A list typed by what its rows are.
LEMMA ArrivalTyped ==
  ASSUME FeedTyped, NEW side \in Sides,
         asked' = [asked EXCEPT ![side] = Idle], UNCHANGED <<rows, writing, time, kinds, covered>>,
         list' \in Seq(rows), older' \in rows \cup {NoCursor},
         page' \in {"closed", "opening", "open", "joined"}
  PROVE  FeedTyped'
<1>1. PageRequests' = PageRequests
  BY DEF PageRequests
<1>2. asked' \in [Sides -> {Idle} \cup PageRequests]
  BY DEF FeedTyped
<1>3. asked' \in [Sides -> {Idle} \cup PageRequests']
  BY <1>1, <1>2
<1>4. list' \in Seq(rows') /\ \A i \in DOMAIN list' : list'[i] \in rows'
  OBVIOUS
<1>5. FeedTypeOK'
  BY <1>4 DEF FeedTyped, FeedTypeOK
<1> QED  BY <1>3, <1>4, <1>5 DEF FeedTyped

LEMMA OlderKeeps ==
  ASSUME FeedInv, FeedAssumption, OlderArrives
  PROVE  FeedInv'
<1> DEFINE R == Rendered(Selected("older"))
           c == asked["older"].cursor
<1>1. /\ UNCHANGED <<rows, writing, time, kinds, covered>>
      /\ list' = list \o R /\ older' = Control(Selected("older"))
      /\ asked' = [asked EXCEPT !["older"] = Idle]
      /\ page' = (IF page = "opening" THEN "open" ELSE page)
      /\ PageSent("older") /\ asked["older"].busy
      /\ FeedTyped /\ FeedPlaces /\ InLine /\ Collected /\ "older" \in Sides
  BY DEF OlderArrives, world, FeedInv, PageSent, Sides
<1>2. /\ R \in Seq(Keys) /\ R \in Seq(rows) /\ Len(R) \in Nat
      /\ Len(R) = Cardinality(Selected("older"))
      /\ \A i, j \in 1..Len(R) : i < j => Less(R[j], R[i])
      /\ \A i \in 1..Len(R) : Past(c, R[i], "older")
      /\ \A r \in covered : Past(c, r, "older") =>
           \/ \E i \in 1..Len(R) : R[i] = r
           \/ \A i \in 1..Len(R) : Closer(R[i], r, "older")
  BY <1>1, PageRendered
<1>3. older' = (IF Len(R) = PageSize THEN R[Len(R)] ELSE NoCursor)
  BY <1>1, <1>2 DEF Control, Last
<1> HIDE DEF R
<1>4. /\ list \in Seq(Keys) /\ Len(list) \in Nat /\ c \in Keys
      /\ list # <<>> => /\ Len(list) \in 1..Len(list) /\ 1 \in 1..Len(list)
                        /\ Head(list) = list[1] /\ Last(list) = list[Len(list)]
                        /\ list[1] \in Keys /\ list[Len(list)] \in Keys
      /\ \A i \in 1..Len(list) : list[i] \in rows /\ list[i] \in Keys
      /\ covered \in SUBSET Keys /\ list \in Seq(rows)
  <2>1. covered \in SUBSET Keys /\ list \in Seq(rows)
    BY <1>1 DEF FeedTyped, FeedTypeOK
  <2> QED  BY <1>1, <2>1, FeedValues, RequestIs
<1>5. /\ page = "opening" => list = <<>> /\ c = NoCursor
      /\ page # "opening" => /\ page \in {"open", "joined"} /\ list # <<>> /\ c # NoCursor
                             /\ ~ Less(list[Len(list)], c)
                             /\ ReaderStays => c = list[Len(list)]
  BY <1>1 DEF FeedPlaces, FeedTyped, FeedTypeOK
<1> HIDE DEF c
<1>6. \A i \in 1..Len(list) : \A j \in 1..Len(R) : Less(R[j], list[i])
  <2> TAKE i \in 1..Len(list)
  <2> TAKE j \in 1..Len(R)
  <2>1. list # <<>> /\ list[i] \in Keys /\ R[j] \in Keys /\ list[Len(list)] \in Keys
    BY <1>2, <1>4
  <2>2. Less(R[j], c) /\ ~ Less(list[Len(list)], c)
    BY <1>2, <1>5, <2>1 DEF Past, Closer
  <2>3. ~ Less(list[i], list[Len(list)])
    BY <1>1, <2>1, EndsInLine
  <2>4. Less(R[j], list[Len(list)])
    BY <1>4, <2>1, <2>2, KeysInLine, KeysPassOn
  <2> QED  BY <2>1, <2>3, <2>4, KeysInLine, KeysPassOn
<1>7. /\ list' \in Seq(Keys) /\ Len(list') = Len(list) + Len(R)
      /\ \A i \in 1..Len(list) : list'[i] = list[i]
      /\ \A j \in 1..Len(R) : list'[Len(list) + j] = R[j]
      /\ \A i, j \in 1..Len(list') : i < j => Less(list'[j], list'[i])
  <2>1. \A i, j \in 1..Len(list) : i < j => Less(list[j], list[i])
    BY <1>1 DEF InLine
  <2>2. /\ list \o R \in Seq(Keys) /\ Len(list \o R) = Len(list) + Len(R)
        /\ \A i \in 1..Len(list) : (list \o R)[i] = list[i]
        /\ \A j \in 1..Len(R) : (list \o R)[Len(list) + j] = R[j]
        /\ \A i, j \in 1..Len(list \o R) : i < j => Less((list \o R)[j], (list \o R)[i])
    BY <1>2, <1>4, <1>6, <2>1, LinesJoin
  <2> QED  BY <1>1, <2>2
<1>8. list' \in Seq(rows)
  BY <1>1, <1>2, <1>4
<1>9. Len(R) = PageSize => Len(R) \in 1..Len(R) /\ R[Len(R)] \in rows
  <2>1. PageSize \in Nat \ {0}
    BY DEF FeedAssumption
  <2> QED  BY <1>2, <2>1
<1>10. FeedTyped'
  <2>1. older' \in rows \cup {NoCursor} /\ page' \in {"closed", "opening", "open", "joined"}
    BY <1>1, <1>3, <1>9 DEF FeedTyped, FeedTypeOK
  <2> QED  BY <1>1, <1>8, <2>1, ArrivalTyped
<1>11. /\ ~ asked'["older"].busy /\ asked'["newer"] = asked["newer"]
       /\ page' \in {"open", "joined"} /\ (page' = "joined" => page = "joined")
       /\ (page = "joined" => page' = "joined")
  BY <1>1, <1>5 DEF FeedTyped, Idle, Sides
<1>12. list # <<>> => list' # <<>> /\ list'[1] = list[1]
  BY <1>4, <1>7
<1>13. older' # NoCursor => list' # <<>> /\ older' = list'[Len(list')]
  BY <1>2, <1>3, <1>4, <1>7, <1>9
<1>14. FeedPlaces'
  BY <1>1, <1>5, <1>11, <1>12, <1>13 DEF FeedPlaces
<1>15. InLine'
  BY <1>7 DEF InLine
<1>16. (ReaderStays => Gapless)'
  <2> SUFFICES ASSUME ReaderStays, list' # <<>>, NEW r \in covered,
                      ~ Less(Head(list'), r), ~ Less(r, Last(list'))
               PROVE  \E i \in 1..Len(list') : list'[i] = r
    <3>1. Range(list') = {list'[i] : i \in DOMAIN list'}
      BY DEF Range
    <3>2. DOMAIN list' = 1..Len(list')
      BY <1>7
    <3> QED  BY <1>1, <3>1, <3>2 DEF Gapless, ToSet
  <2>1. Head(list') = list'[1] /\ Last(list') = list'[Len(list')] /\ Len(list') \in Nat
        /\ Len(list') # 0
    BY <1>7 DEF Last
  <2>2. r \in Keys
    BY <1>4
  <2>3. CASE list # <<>> /\ ~ Less(r, list[Len(list)])
    <3>1. r \in ToSet(list)
      BY <1>4, <1>12, <2>1, <2>3 DEF FeedInv, Gapless
    <3>2. \E i \in 1..Len(list) : list[i] = r
      BY <1>4, <3>1 DEF ToSet, Range
    <3> QED  BY <1>2, <1>4, <1>7, <3>2
  <2>4. CASE list = <<>> \/ Less(r, list[Len(list)])
    <3>1. Past(c, r, "older")
      BY <1>5, <2>4 DEF Past, Closer
    <3>2. CASE \E i \in 1..Len(R) : R[i] = r
      BY <1>2, <1>4, <1>7, <3>2
    <3>3. CASE \A i \in 1..Len(R) : Closer(R[i], r, "older")
      <4>1. CASE Len(R) = 0
        <5>1. list # <<>> /\ list'[Len(list')] = list[Len(list)]
          BY <1>4, <1>7, <2>1, <4>1
        <5> QED  BY <2>1, <2>4, <5>1
      <4>2. CASE Len(R) # 0
        <5>1. Len(R) \in 1..Len(R) /\ list'[Len(list')] = R[Len(R)]
          BY <1>2, <1>7, <4>2
        <5> QED  BY <2>1, <3>3, <5>1 DEF Closer
      <4> QED  BY <4>1, <4>2
    <3> QED  BY <1>2, <3>1, <3>2, <3>3
  <2> QED  BY <2>3, <2>4
<1>17. Collected'
  BY <1>1, <1>11 DEF Collected, Behind, Sides
<1> QED  BY <1>10, <1>14, <1>15, <1>16, <1>17 DEF FeedInv

LEMMA NewerKeeps ==
  ASSUME FeedInv, FeedAssumption, NewerArrives
  PROVE  FeedInv'
<1> DEFINE R == Rendered(Selected("newer"))
           whole == R \o list
           c == asked["newer"].cursor
<1>1. /\ UNCHANGED <<rows, writing, time, kinds, page, covered>>
      /\ \E kept \in Kept(whole) :
           list' = SubSeq(whole, 1, kept) /\ older' = Reanchored(whole, kept)
      /\ asked' = [asked EXCEPT !["newer"] = Idle]
      /\ PageSent("newer") /\ asked["newer"].busy
      /\ FeedTyped /\ FeedPlaces /\ InLine /\ Collected /\ "newer" \in Sides
  BY DEF NewerArrives, world, FeedInv, PageSent, Sides
<1>2. PICK kept \in Kept(whole) :
        list' = SubSeq(whole, 1, kept) /\ older' = Reanchored(whole, kept)
  BY <1>1
<1>3. /\ R \in Seq(Keys) /\ R \in Seq(rows) /\ Len(R) \in Nat
      /\ \A i, j \in 1..Len(R) : i < j => Less(R[j], R[i])
      /\ \A i \in 1..Len(R) : Past(c, R[i], "newer")
      /\ \A r \in covered : Past(c, r, "newer") =>
           \/ \E i \in 1..Len(R) : R[i] = r
           \/ \A i \in 1..Len(R) : Closer(R[i], r, "newer")
  BY <1>1, PageRendered
<1> HIDE DEF R
<1>4. page = "joined" /\ list # <<>> /\ c = list[1] /\ c # NoCursor
  BY <1>1 DEF FeedPlaces
<1>5. /\ list \in Seq(Keys) /\ Len(list) \in Nat /\ c \in Keys
      /\ Len(list) \in 1..Len(list) /\ 1 \in 1..Len(list)
      /\ Head(list) = list[1] /\ Last(list) = list[Len(list)]
      /\ list[1] \in Keys /\ list[Len(list)] \in Keys
      /\ \A i \in 1..Len(list) : list[i] \in rows /\ list[i] \in Keys
      /\ covered \in SUBSET Keys /\ list \in Seq(rows)
  <2>1. covered \in SUBSET Keys /\ list \in Seq(rows)
    BY <1>1 DEF FeedTyped, FeedTypeOK
  <2> QED  BY <1>1, <1>4, <2>1, FeedValues, RequestIs
<1> HIDE DEF c
<1>6. \A i \in 1..Len(R) : \A j \in 1..Len(list) : Less(list[j], R[i])
  <2> TAKE i \in 1..Len(R)
  <2> TAKE j \in 1..Len(list)
  <2>1. list[j] \in Keys /\ R[i] \in Keys
    BY <1>3, <1>5
  <2>2. Less(list[1], R[i])
    BY <1>3, <1>4 DEF Past, Closer
  <2>3. ~ Less(list[1], list[j])
    BY <1>1, <1>4, EndsInLine
  <2> QED  BY <1>5, <2>1, <2>2, <2>3, KeysInLine, KeysPassOn
<1>7. /\ whole \in Seq(Keys) /\ Len(whole) = Len(R) + Len(list)
      /\ \A i \in 1..Len(R) : whole[i] = R[i]
      /\ \A j \in 1..Len(list) : whole[Len(R) + j] = list[j]
      /\ \A i, j \in 1..Len(whole) : i < j => Less(whole[j], whole[i])
  <2>1. \A i, j \in 1..Len(list) : i < j => Less(list[j], list[i])
    BY <1>1 DEF InLine
  <2> QED  BY <1>3, <1>5, <1>6, <2>1, LinesJoin
<1>8. whole \in Seq(rows)
  BY <1>3, <1>5
<1> HIDE DEF whole
<1>9. kept \in 1..Len(whole) /\ Len(whole) \in Nat
  <2>1. Len(whole) \in 1..Len(whole) /\ MaxItems \in Nat \ {0}
    BY <1>3, <1>5, <1>7 DEF FeedAssumption
  <2> QED  BY <2>1 DEF Kept
<1>10. /\ list' \in Seq(rows) /\ Len(list') = kept
       /\ \A i \in 1..kept : list'[i] = whole[i]
  BY <1>2, <1>8, <1>9
<1>11. list' # <<>> /\ Head(list') = list'[1] /\ Last(list') = whole[kept]
       /\ Len(list') \in 1..Len(list') /\ list'[Len(list')] = whole[kept]
  BY <1>9, <1>10 DEF Last
<1>12. kept = Len(whole) => whole[kept] = list[Len(list)]
  BY <1>5, <1>7
<1>13. /\ ~ Less(list[Len(list)], whole[kept]) \/ kept < Len(whole) \/ kept = Len(whole)
       /\ whole[kept] = list[Len(list)] \/ Less(list[Len(list)], whole[kept])
       /\ whole[kept] \in Keys /\ whole[kept] \in rows
  <2>1. Len(whole) \in 1..Len(whole) /\ whole[Len(whole)] = list[Len(list)]
    BY <1>5, <1>7, <1>9
  <2>2. whole[kept] \in Keys /\ whole[kept] \in rows
    BY <1>7, <1>8, <1>9
  <2> QED  BY <1>7, <1>9, <2>1, <2>2
<1>14. older # NoCursor => older = list[Len(list)]
  BY <1>1 DEF FeedPlaces
<1>15. older' # NoCursor => older' = whole[kept]
  BY <1>2, <1>9, <1>12, <1>14 DEF Reanchored
<1>16. FeedTyped'
  <2>1. older' \in rows \cup {NoCursor} /\ page' \in {"closed", "opening", "open", "joined"}
    BY <1>1, <1>4, <1>13, <1>15
  <2> QED  BY <1>1, <1>10, <2>1, ArrivalTyped
<1>17. ~ asked'["newer"].busy /\ asked'["older"] = asked["older"]
  BY <1>1 DEF FeedTyped, Idle, Sides
<1>18. asked["older"].busy =>
         /\ asked["older"].cursor # NoCursor
         /\ ~ Less(whole[kept], asked["older"].cursor)
         /\ ReaderStays => asked["older"].cursor = whole[kept]
  <2> SUFFICES ASSUME asked["older"].busy
               PROVE  /\ asked["older"].cursor # NoCursor
                      /\ ~ Less(whole[kept], asked["older"].cursor)
                      /\ ReaderStays => asked["older"].cursor = whole[kept]
    OBVIOUS
  <2> DEFINE d == asked["older"].cursor
  <2>1. /\ d # NoCursor /\ d \in Keys /\ ~ Less(list[Len(list)], d)
        /\ ReaderStays => d = list[Len(list)]
    <3>1. "older" \in Sides
      BY DEF Sides
    <3> QED  BY <1>1, <1>4, <3>1, RequestIs DEF FeedPlaces
  <2> HIDE DEF d
  <2>2. ~ Less(whole[kept], d)
    <3> DEFINE a == list[Len(list)]
               b == whole[kept]
    <3>1. a \in Keys /\ b \in Keys /\ d \in Keys /\ (b = a \/ Less(a, b)) /\ ~ Less(a, d)
      BY <1>5, <1>13, <2>1
    <3> HIDE DEF a, b
    <3>2. ~ Less(b, d)
      BY <3>1, KeysPassOn
    <3> QED  BY <3>2 DEF b
  <2>3. ReaderStays => kept = Len(whole)
    BY DEF Kept
  <2>4. ReaderStays => d = whole[kept]
    BY <1>12, <2>1, <2>3
  <2> QED  BY <2>1, <2>2, <2>4 DEF d
<1>19. FeedPlaces'
  BY <1>1, <1>4, <1>11, <1>15, <1>17, <1>18 DEF FeedPlaces
<1>20. InLine'
  <2> SUFFICES ASSUME NEW i \in 1..kept, NEW j \in 1..kept, i < j
               PROVE  Less(list'[j], list'[i])
    BY <1>10 DEF InLine
  <2> QED  BY <1>7, <1>9, <1>10
<1>21. (ReaderStays => Gapless)'
  <2> SUFFICES ASSUME ReaderStays, NEW r \in covered,
                      ~ Less(whole[1], r), ~ Less(r, whole[kept])
               PROVE  \E i \in 1..kept : list'[i] = r
    <3>1. Range(list') = {list'[i] : i \in DOMAIN list'} /\ DOMAIN list' = 1..kept
      BY <1>10 DEF Range
    <3>2. list'[1] = whole[1]
      BY <1>9, <1>10
    <3>3. Head(list') = whole[1] /\ Last(list') = whole[kept]
      BY <1>11, <3>2
    <3>4. ToSet(list') = {list'[i] : i \in 1..kept}
      BY <3>1 DEF ToSet
    <3>5. ASSUME ReaderStays, NEW r \in covered', ~ Less(Head(list'), r), ~ Less(r, Last(list'))
          PROVE  r \in ToSet(list')
      <4>1. r \in covered /\ ~ Less(whole[1], r) /\ ~ Less(r, whole[kept])
        BY <1>1, <3>3, <3>5
      <4>2. \E i \in 1..kept : list'[i] = r
        BY <3>5, <4>1
      <4> QED  BY <3>4, <4>2
    <3> QED  BY <3>5 DEF Gapless
  <2>1. r \in Keys
    BY <1>5
  <2>2. ASSUME NEW i \in 1..Len(whole), whole[i] = r PROVE i \in 1..kept /\ list'[i] = r
    <3>1. CASE i > kept
      <4>1. Less(r, whole[kept])
        BY <1>7, <1>9, <2>2, <3>1
      <4> QED  BY <4>1
    <3>2. CASE i <= kept
      BY <1>9, <1>10, <2>2, <3>2
    <3> QED  BY <1>9, <3>1, <3>2
  <2>3. CASE ~ Less(list[1], r)
    <3>1. ~ Less(r, list[Len(list)])
      BY <1>5, <1>13, <2>1, KeysPassOn
    <3>2. r \in ToSet(list)
      BY <1>4, <1>5, <2>3, <3>1 DEF FeedInv, Gapless
    <3>3. PICK i \in 1..Len(list) : list[i] = r
      BY <1>5, <3>2 DEF ToSet, Range
    <3>4. Len(R) + i \in 1..Len(whole) /\ whole[Len(R) + i] = r
      BY <1>3, <1>5, <1>7, <3>3
    <3> QED  BY <2>2, <3>4
  <2>4. CASE Less(list[1], r)
    <3>1. Past(c, r, "newer")
      BY <1>4, <2>4 DEF Past, Closer
    <3>2. CASE \E i \in 1..Len(R) : R[i] = r
      <4>1. PICK i \in 1..Len(R) : R[i] = r
        BY <3>2
      <4>2. i \in 1..Len(whole) /\ whole[i] = r
        BY <1>3, <1>5, <1>7, <4>1
      <4> QED  BY <2>2, <4>2
    <3>3. CASE \A i \in 1..Len(R) : Closer(R[i], r, "newer")
      <4>1. CASE Len(R) = 0
        <5>1. whole[1] = list[1]
          BY <1>5, <1>7, <4>1
        <5> QED  BY <2>4, <5>1
      <4>2. CASE Len(R) # 0
        <5>1. 1 \in 1..Len(R) /\ whole[1] = R[1]
          BY <1>3, <1>7, <4>2
        <5> QED  BY <3>3, <5>1 DEF Closer
      <4> QED  BY <4>1, <4>2
    <3> QED  BY <1>3, <3>1, <3>2, <3>3
  <2> QED  BY <2>3, <2>4
<1>22. Collected'
  BY <1>1, <1>17 DEF Collected, Behind, Sides
<1> QED  BY <1>16, <1>19, <1>20, <1>21, <1>22 DEF FeedInv

LEMMA FeedStarts ==
  ASSUME FeedInit, FeedAssumption
  PROVE  FeedInv
<1>1. FeedTyped
  <2>1. FeedTypeOK
    BY DEF FeedInit, FeedTypeOK, NoTime
  <2>2. kinds \in SUBSET Kinds /\ writing \in [Kinds -> Nat] /\ 1 \in 1..MaxTime
    BY DEF FeedInit, FeedAssumption, NoTime
  <2>3. rows \in SUBSET Keys /\ IsFiniteSet(rows)
    BY FS_EmptySet DEF FeedInit
  <2>4. list \in Seq(rows) /\ asked \in [Sides -> {Idle} \cup PageRequests]
    BY DEF FeedInit
  <2>5. \A r \in covered : r.kind \in kinds
    BY DEF FeedInit
  <2>6. time \in 1..MaxTime
    BY <2>2 DEF FeedInit
  <2> QED  BY <2>1, <2>2, <2>3, <2>4, <2>5, <2>6 DEF FeedTyped
<1>2. \A side \in Sides : ~ asked[side].busy
  BY DEF FeedInit, Idle
<1>3. FeedPlaces
  BY <1>2 DEF FeedInit, FeedPlaces, Sides
<1>4. InLine /\ Gapless
  BY DEF FeedInit, InLine, Gapless
<1>5. Collected
  BY <1>2 DEF Collected
<1> QED  BY <1>1, <1>3, <1>4, <1>5 DEF FeedInv

LEMMA FeedStep ==
  ASSUME FeedInv, FeedAssumption, [FeedNext]_feedVars
  PROVE  FeedInv'
<1>1. CASE UNCHANGED feedVars
  <2>1. UNCHANGED <<rows, writing, time, kinds, list, older, asked, page, covered>>
    BY <1>1 DEF feedVars
  <2>2. PageRequests' = PageRequests
    BY <2>1 DEF PageRequests
  <2>3. FeedTyped /\ FeedPlaces /\ InLine /\ (ReaderStays => Gapless) /\ Collected
    BY DEF FeedInv
  <2>4. FeedTypeOK'
    BY <2>1, <2>3 DEF FeedTyped, FeedTypeOK
  <2>5. FeedTyped'
    BY <2>1, <2>2, <2>3, <2>4 DEF FeedTyped
  <2>6. FeedPlaces'
    BY <2>1, <2>3 DEF FeedPlaces
  <2>7. InLine' /\ (ReaderStays => Gapless)'
    BY <2>1, <2>3 DEF InLine, Gapless
  <2>8. Collected'
    BY <2>1, <2>3 DEF Collected, Behind
  <2> QED  BY <2>5, <2>6, <2>7, <2>8 DEF FeedInv
<1>2. CASE (\E k \in Kinds : Stamp(k) \/ Land(k)) \/ Passes
  BY <1>2, SiteKeeps
<1>3. CASE \E side \in Sides : Collect(side) \/ Fails(side)
  BY <1>3, CollectKeeps, FailsKeeps
<1>4. CASE Open \/ Join \/ LoadOlder \/ LoadNewer
  BY <1>4, OpenKeeps, JoinKeeps, LoadOlderKeeps, LoadNewerKeeps
<1>5. CASE OlderArrives \/ NewerArrives
  BY <1>5, OlderKeeps, NewerKeeps
<1> QED  BY <1>1, <1>2, <1>3, <1>4, <1>5 DEF FeedNext

\* live.js and _collect_events: at every moment the list of the public ticker is
\* newest first and shows no event twice; and as long as the reader stays at its
\* end while older rows load, it misses nothing between its ends that was there
\* when the page asked for that place.
THEOREM FeedWhole ==
  FeedSpec => [](FeedTypeOK /\ NewestFirst /\ (ReaderStays => Gapless))
<1>1. FeedInit => FeedInv
  BY FeedStarts, FeedAssumption
<1>2. FeedInv /\ [FeedNext]_feedVars => FeedInv'
  BY FeedStep, FeedAssumption
<1>3. FeedInv => FeedTypeOK /\ NewestFirst /\ (ReaderStays => Gapless)
  <2> SUFFICES ASSUME FeedInv PROVE FeedTypeOK /\ NewestFirst /\ (ReaderStays => Gapless)
    OBVIOUS
  <2>1. FeedTyped /\ InLine /\ (ReaderStays => Gapless)
    BY DEF FeedInv
  <2>2. ASSUME NEW i \in 1..Len(list) - 1 PROVE Less(list[i + 1], list[i])
    <3>1. Len(list) \in Nat
      BY <2>1, FeedValues
    <3>2. i \in 1..Len(list) /\ i + 1 \in 1..Len(list) /\ i < i + 1
      BY <3>1
    <3> QED  BY <2>1, <3>2 DEF InLine
  <2> QED  BY <2>1, <2>2 DEF FeedTyped, NewestFirst
<1> QED  BY <1>1, <1>2, <1>3, PTL DEF FeedSpec

-----------------------------------------------------------------------------
(* A persona's memory: its invariant *)

ChunkRows == [number : Nat, of : Nat, items : SUBSET Nat, by : Everyone]
Tellings == [step : {"new", "telling", "over"}, chunks : Seq(SUBSET Nat), told : Nat,
             had : Nat, raced : BOOLEAN]
Stages == {"new", "completed", "failed", "told", "untold"} \cup Visiting

MemoryTyped ==
  /\ items \in Nat
  /\ memory \in [backfill : Seq(ChunkRows), episode : Seq([run : Stays])]
  /\ teller \in [Everyone -> Tellings] /\ stay \in [Stays -> Stages]
  /\ remembered \in [chunks : Seq(ChunkRows), episodes : Seq([run : Stays]), there : SUBSET Stays]
  /\ finished \in Seq(Stays)

\* Where a telling stands: it has committed its first chunks, and all of them when it
\* is over and did not break off.
Telling(x) ==
  /\ teller[x].told <= Len(teller[x].chunks)
  /\ teller[x].told = Cardinality(ChunksOf(x))
  /\ teller[x].step = "new" => teller[x].chunks = << >> /\ ~ teller[x].raced
  /\ teller[x].step = "telling" => teller[x].told < Len(teller[x].chunks)
  /\ teller[x].chunks # << >> => teller[x].chunks = Chunks(teller[x].had)
  /\ teller[x].step = "over" /\ x \notin broken => teller[x].told = Len(teller[x].chunks)
  /\ \A n \in 1..teller[x].told : \E k \in ChunksOf(x) : memory.backfill[k].number = n

\* A row is the next chunk of the telling it belongs to.
ChunkIs(k) ==
  LET row == memory.backfill[k]
      before == {j \in ChunksOf(row.by) : j < k}
  IN /\ row.number \in 1..teller[row.by].told
     /\ row.of = Len(teller[row.by].chunks)
     /\ row.items = teller[row.by].chunks[row.number]
     /\ row.number = Cardinality(before) + 1
     /\ \A j \in before : memory.backfill[j].number < row.number

Engaged(x) == teller[x].step = "telling" \/ teller[x].told # 0

\* Two that told of the same history had looked before either had told.
Raced ==
  \A x, y \in Everyone : x # y /\ Engaged(x) /\ Engaged(y) => teller[x].raced

Begun == \A v \in Stays : stay[v] = "new" => teller[v].step = "new"

\* Episodes are of visits that were completed, in their order or late.
EpisodesOrdered ==
  /\ \A v \in Stays : stay[v] \in {"completed", "told", "untold"} =>
       \E i \in DOMAIN finished : finished[i] = v
  /\ \A v \in Stays : stay[v] = "told" => \E i \in DOMAIN memory.episode : memory.episode[i].run = v
  /\ \A i \in DOMAIN memory.episode : stay[memory.episode[i].run] = "told"
  /\ \A i, j \in DOMAIN memory.episode :
       i < j => WrittenAfter(memory.episode[j].run, memory.episode[i].run)

\* The prompt was given the beginning of the history.
BeginningGiven ==
  /\ Len(remembered.chunks) <= Len(memory.backfill)
  /\ \A k \in DOMAIN remembered.chunks : remembered.chunks[k] = memory.backfill[k]

\* The prompt was given the latest episodes.
EpisodesGiven ==
  LET given == remembered.episodes
  IN /\ \A w \in remembered.there :
          \/ \E i \in 1..Len(given) : given[i].run = w
          \/ Len(given) = PromptEpisodes /\ \A i \in 1..Len(given) : WrittenAfter(given[i].run, w)
     /\ \A i, j \in 1..Len(given) : i < j => WrittenAfter(given[j].run, given[i].run)

TellingsSound ==
  /\ \A x \in Everyone : Telling(x)
  /\ \A k \in DOMAIN memory.backfill : ChunkIs(k)
  /\ Raced

MemoryInv ==
  MemoryTyped /\ TellingsSound /\ Begun /\ EpisodesOrdered /\ BeginningGiven /\ EpisodesGiven

LEMMA TimesKeeps ==
  ASSUME NEW a \in Nat, NEW b \in Nat, NEW c \in Nat, a <= b
  PROVE  a * c <= b * c
<1>1. b = a + (b - a) /\ b - a \in Nat
  OBVIOUS
<1>2. b * c = a * c + (b - a) * c
  BY <1>1
<1>3. (b - a) * c \in Nat /\ a * c \in Nat
  BY <1>1
<1> QED  BY <1>2, <1>3

\* The count of pages of a size that n items fill.
LEMMA PagesOf ==
  ASSUME NEW n \in Nat, NEW c \in Nat \ {0}
  PROVE  LET k == (n + c - 1) \div c
         IN k \in Nat /\ n <= k * c /\ (k - 1) * c < n
<1> DEFINE m == n + c - 1
           k == m \div c
<1>1. m \in Nat
  OBVIOUS
<1> HIDE DEF m
<1>2. k \in Int /\ c * k <= m /\ m < c * (k + 1)
  BY <1>1
<1>3. k \in Nat
  BY <1>1
<1> HIDE DEF k
<1>4. k * c <= m /\ m < k * c + c /\ (k - 1) * c = k * c - c
  BY <1>2, <1>3
<1>5. n <= k * c /\ (k - 1) * c < n
  BY <1>4, <1>3 DEF m
<1> QED  BY <1>3, <1>5 DEF k, m

\* The chunks of a history: one behind another, and all of it up to the cap.
LEMMA ChunksAre ==
  ASSUME PersonaMemoryAssumption, NEW n \in Nat
  PROVE  /\ Chunks(n) \in Seq(SUBSET Nat) /\ (n > 0 => Chunks(n) # << >>)
         /\ \A j, k \in 1..Len(Chunks(n)) : j < k =>
              \A h \in Chunks(n)[j], i \in Chunks(n)[k] : h < i
         /\ \A m \in 1..n :
              (\E k \in 1..Len(Chunks(n)) : m \in Chunks(n)[k]) \/ m > ChunkSize * MaxChunks
<1> DEFINE count == (n + ChunkSize - 1) \div ChunkSize
           size == IF count > MaxChunks THEN MaxChunks ELSE count
           chunk(k) == (k - 1) * ChunkSize + 1..(IF k * ChunkSize > n THEN n ELSE k * ChunkSize)
           C == [k \in 1..size |-> chunk(k)]
<1>0. C = Chunks(n)
  BY DEF Chunks
<1>1. ChunkSize \in Nat \ {0} /\ MaxChunks \in Nat \ {0}
  BY DEF PersonaMemoryAssumption
<1>2. count \in Nat /\ n <= count * ChunkSize /\ (count - 1) * ChunkSize < n
  BY <1>1, PagesOf
<1> HIDE DEF count
<1>3. size \in Nat
  BY <1>1, <1>2
<1>4. n > 0 => size > 0
  <2>1. n > 0 => count # 0
    BY <1>1, <1>2
  <2> QED  BY <1>1, <1>2, <2>1
<1>5. \A k \in Nat \ {0} : /\ (k - 1) * ChunkSize \in Nat /\ k * ChunkSize \in Nat
                           /\ k * ChunkSize = (k - 1) * ChunkSize + ChunkSize
  BY <1>1
<1>6. ASSUME NEW k \in 1..size PROVE chunk(k) \in SUBSET Nat
  <2>1. (k - 1) * ChunkSize \in Nat /\ k * ChunkSize \in Nat
    BY <1>3, <1>5
  <2> QED  BY <2>1
<1> HIDE DEF size
<1>7. C \in Seq(SUBSET Nat) /\ Len(C) = size /\ \A k \in 1..size : C[k] = chunk(k)
  <2>1. \A k \in 1..size : C[k] = chunk(k)
    OBVIOUS
  <2>2. DOMAIN C = 1..size /\ C = [k \in 1..size |-> C[k]]
    OBVIOUS
  <2>3. \A k \in 1..size : C[k] \in SUBSET Nat
    BY <1>6, <2>1
  <2> HIDE DEF C, chunk
  <2>4. C \in [1..size -> SUBSET Nat]
    BY <2>2, <2>3
  <2>5. C \in Seq(SUBSET Nat)
    BY <1>3, <2>4
  <2> QED  BY <1>3, <2>1, <2>2, <2>5
<1> HIDE DEF C
<1>8. ASSUME NEW j \in 1..size, NEW k \in 1..size, j < k, NEW h \in C[j], NEW i \in C[k]
      PROVE  h < i
  <2>1. h \in chunk(j) /\ i \in chunk(k)
    BY <1>7
  <2>2. j \in Nat \ {0} /\ k \in Nat \ {0} /\ j <= k - 1 /\ k - 1 \in Nat
    BY <1>3, <1>8
  <2>3. j * ChunkSize <= (k - 1) * ChunkSize
    BY <1>1, <2>2, TimesKeeps
  <2>4. j * ChunkSize \in Nat /\ (k - 1) * ChunkSize \in Nat /\ (j - 1) * ChunkSize \in Nat
        /\ k * ChunkSize \in Nat
    BY <1>5, <2>2
  <2>5. h <= j * ChunkSize /\ h \in Int
    BY <2>1, <2>4
  <2>6. (k - 1) * ChunkSize < i /\ i \in Int
    BY <2>1, <2>4
  <2> QED  BY <2>3, <2>4, <2>5, <2>6
<1>9. ASSUME NEW m \in 1..n
      PROVE  (\E k \in 1..size : m \in C[k]) \/ m > ChunkSize * MaxChunks
  <2> DEFINE k == (m + ChunkSize - 1) \div ChunkSize
  <2>1. k \in Nat /\ m <= k * ChunkSize /\ (k - 1) * ChunkSize < m
    BY <1>1, PagesOf
  <2> HIDE DEF k
  <2>2. k # 0
    BY <1>1, <2>1
  <2>3. k \in Nat \ {0} /\ (k - 1) * ChunkSize \in Nat /\ k * ChunkSize \in Nat
    BY <1>5, <2>1, <2>2
  <2>4. k <= count
    <3>1. CASE count <= k - 1
      <4>1. count * ChunkSize <= (k - 1) * ChunkSize
        BY <1>1, <1>2, <2>3, <3>1, TimesKeeps
      <4>2. n < m
        BY <1>1, <1>2, <2>1, <2>3, <4>1
      <4> QED  BY <4>2
    <3> QED  BY <1>2, <2>3, <3>1
  <2>5. CASE k <= size
    <3>1. m \in chunk(k)
      BY <2>1, <2>3
    <3>2. k \in 1..size
      BY <1>3, <2>3, <2>5
    <3> QED  BY <1>7, <3>1, <3>2
  <2>6. CASE k > size
    <3>1. MaxChunks <= k - 1
      BY <1>1, <1>2, <2>3, <2>4, <2>6 DEF size
    <3>2. MaxChunks * ChunkSize <= (k - 1) * ChunkSize
      BY <1>1, <2>3, <3>1, TimesKeeps
    <3>3. MaxChunks * ChunkSize = ChunkSize * MaxChunks /\ MaxChunks * ChunkSize \in Nat
      BY <1>1
    <3> QED  BY <2>1, <2>3, <3>2, <3>3
  <2> QED  BY <1>3, <2>3, <2>5, <2>6
<1>10. n > 0 => C # << >>
  BY <1>3, <1>4, <1>7
<1> QED  BY <1>0, <1>7, <1>8, <1>9, <1>10

LEMMA LastOfIs ==
  ASSUME NEW T, NEW s \in Seq(T), NEW n \in Nat
  PROVE  LET a == IF Len(s) > n THEN Len(s) - n ELSE 0
         IN /\ LastOf(s, n) \in Seq(T) /\ a \in Nat /\ Len(LastOf(s, n)) = Len(s) - a
            /\ a > 0 => Len(LastOf(s, n)) = n
            /\ \A i \in 1..Len(LastOf(s, n)) : a + i \in 1..Len(s) /\ LastOf(s, n)[i] = s[a + i]
<1> DEFINE a == IF Len(s) > n THEN Len(s) - n ELSE 0
           l == SubSeq(s, a + 1, Len(s))
<1>1. Len(s) \in Nat /\ a \in Nat /\ a <= Len(s) /\ (a > 0 => Len(s) - a = n)
  OBVIOUS
<1>2. LastOf(s, n) = l
  <2>1. (IF Len(s) > n THEN Len(s) - n + 1 ELSE 1) = a + 1
    BY <1>1
  <2> QED  BY <2>1 DEF LastOf
<1> HIDE DEF a
<1>3. l \in Seq(T) /\ Len(l) = Len(s) - a /\ \A i \in 1..Len(l) : a + i \in 1..Len(s) /\ l[i] = s[a + i]
  BY <1>1
<1> QED  BY <1>1, <1>2, <1>3 DEF a

LEMMA OldestIs ==
  ASSUME NEW T, NEW s \in Seq(T), NEW n \in Nat
  PROVE  /\ Oldest(s, n) \in Seq(T) /\ Len(Oldest(s, n)) <= Len(s)
         /\ \A i \in 1..Len(Oldest(s, n)) : i \in 1..Len(s) /\ Oldest(s, n)[i] = s[i]
<1> DEFINE b == IF Len(s) > n THEN n ELSE Len(s)
<1>1. b \in Nat /\ b <= Len(s) /\ Len(s) \in Nat /\ Oldest(s, n) = SubSeq(s, 1, b)
  BY DEF Oldest
<1> HIDE DEF b
<1> QED  BY <1>1

-----------------------------------------------------------------------------
(* A persona's memory: the steps *)

LEMMA BackfillIs ==
  ASSUME MemoryTyped
  PROVE  /\ memory.backfill \in Seq(ChunkRows) /\ Len(memory.backfill) \in Nat
         /\ DOMAIN memory.backfill = 1..Len(memory.backfill)
         /\ \A k \in DOMAIN memory.backfill : memory.backfill[k] \in ChunkRows
         /\ \A x : /\ ChunksOf(x) \in SUBSET (1..Len(memory.backfill))
                   /\ IsFiniteSet(ChunksOf(x)) /\ Cardinality(ChunksOf(x)) \in Nat
<1>1. /\ memory.backfill \in Seq(ChunkRows) /\ Len(memory.backfill) \in Nat
      /\ DOMAIN memory.backfill = 1..Len(memory.backfill)
      /\ \A k \in DOMAIN memory.backfill : memory.backfill[k] \in ChunkRows
  BY DEF MemoryTyped
<1>2. ASSUME NEW x
      PROVE  /\ ChunksOf(x) \in SUBSET (1..Len(memory.backfill))
             /\ IsFiniteSet(ChunksOf(x)) /\ Cardinality(ChunksOf(x)) \in Nat
  <2>1. ChunksOf(x) \in SUBSET (1..Len(memory.backfill))
    BY <1>1 DEF ChunksOf
  <2>2. IsFiniteSet(1..Len(memory.backfill))
    BY <1>1, FS_Interval
  <2> QED  BY <2>1, <2>2, FS_Subset, FS_CardinalityType
<1> QED  BY <1>1, <1>2

\* What is not told leaves the tellings where they stood.
LEMMA TellingsStay ==
  ASSUME TellingsSound, teller' = teller, broken' = broken, memory'.backfill = memory.backfill
  PROVE  TellingsSound'
<1>1. ASSUME NEW x \in Everyone PROVE Telling(x)'
  <2>1. ChunksOf(x)' = ChunksOf(x)
    BY DEF ChunksOf
  <2>2. Telling(x)
    BY DEF TellingsSound
  <2> QED  BY <2>1, <2>2 DEF Telling
<1>2. \A k \in DOMAIN memory'.backfill : ChunkIs(k)'
  BY DEF TellingsSound, ChunkIs, ChunksOf
<1>3. Raced'
  BY DEF TellingsSound, Raced, Engaged
<1> QED  BY <1>1, <1>2, <1>3 DEF TellingsSound

\* A change of where tellings stand that commits nothing.
LEMMA NothingCommitted ==
  ASSUME MemoryTyped, TellingsSound, memory' = memory, broken \subseteq broken',
         teller' \in [Everyone -> Tellings],
         \A y \in Everyone :
           \/ teller'[y] = teller[y]
           \/ /\ teller[y].told = 0 /\ teller'[y].told = 0
              /\ Telling(y)'
           \/ /\ teller'[y].told = teller[y].told /\ teller'[y].chunks = teller[y].chunks
              /\ Telling(y)',
         Raced'
  PROVE  TellingsSound'
<1>1. ASSUME NEW y \in Everyone PROVE Telling(y)'
  <2>1. CASE teller'[y] = teller[y]
    <3>1. Telling(y) /\ (y \in broken => y \in broken')
      BY DEF TellingsSound
    <3> QED  BY <2>1, <3>1 DEF Telling, ChunksOf
  <2> QED  BY <2>1
<1>2. ASSUME NEW k \in DOMAIN memory.backfill PROVE ChunkIs(k)'
  <2> DEFINE y == memory.backfill[k].by
  <2>1. ChunkIs(k) /\ y \in Everyone /\ teller[y] \in Tellings
    BY BackfillIs DEF TellingsSound, MemoryTyped, ChunkRows
  <2>2. teller[y].told # 0
    BY <2>1 DEF ChunkIs, Tellings
  <2>3. teller'[y].told = teller[y].told /\ teller'[y].chunks = teller[y].chunks
    BY <2>1, <2>2
  <2> QED  BY <2>1, <2>3 DEF ChunkIs, ChunksOf
<1> QED  BY <1>1, <1>2 DEF TellingsSound

LEMMA LookKeeps ==
  ASSUME MemoryTyped, TellingsSound, PersonaMemoryAssumption, NEW x \in Everyone,
         teller[x].step = "new", Look(x), memory' = memory, broken' = broken
  PROVE  /\ teller' \in [Everyone -> Tellings] /\ TellingsSound'
         /\ \A y \in Everyone \ {x} : teller'[y].step = teller[y].step
<1> DEFINE telling == {y \in Everyone : teller[y].step = "telling"}
           begins == UntoldYet /\ items > 0
           mine == [step |-> IF begins THEN "telling" ELSE "over",
                    chunks |-> IF begins THEN Chunks(items) ELSE << >>,
                    told |-> 0, had |-> items, raced |-> begins /\ telling # {}]
<1>0. /\ teller \in [Everyone -> Tellings] /\ items \in Nat
      /\ \A y \in Everyone : Telling(y) /\ teller[y] \in Tellings
  BY DEF MemoryTyped, TellingsSound
<1>1. Chunks(items) \in Seq(SUBSET Nat) /\ (items > 0 => Chunks(items) # << >>)
  BY <1>0, ChunksAre
<1>2. mine \in Tellings
  <2>1. (IF begins THEN Chunks(items) ELSE << >>) \in Seq(SUBSET Nat)
    BY <1>1
  <2>2. (begins /\ telling # {}) \in BOOLEAN
    OBVIOUS
  <2> HIDE DEF begins, telling
  <2> QED  BY <1>0, <2>1, <2>2 DEF Tellings
<1>3. teller' = [y \in Everyone |-> IF y = x THEN mine
                                    ELSE IF begins /\ y \in telling
                                         THEN [teller[y] EXCEPT !.raced = TRUE] ELSE teller[y]]
  BY DEF Look
<1>4. /\ mine.told = 0 /\ mine.had = items
      /\ begins => mine.step = "telling" /\ mine.chunks = Chunks(items)
      /\ ~ begins => mine.step = "over" /\ mine.chunks = << >>
  OBVIOUS
<1>5. mine.raced = (begins /\ telling # {})
  BY Zenon
<1> HIDE DEF mine
<1>6. /\ teller'[x] = mine
      /\ \A y \in Everyone \ {x} :
           teller'[y] = (IF begins /\ y \in telling THEN [teller[y] EXCEPT !.raced = TRUE]
                                                   ELSE teller[y])
  BY <1>3
<1>7. \A y \in Everyone \ {x} :
        /\ teller'[y].step = teller[y].step /\ teller'[y].told = teller[y].told
        /\ teller'[y].chunks = teller[y].chunks /\ teller'[y].had = teller[y].had
        /\ teller'[y] \in Tellings
        /\ (begins /\ y \in telling) => teller'[y].raced
        /\ ~ (begins /\ y \in telling) => teller'[y] = teller[y]
  <2> TAKE y \in Everyone \ {x}
  <2>1. teller[y] \in Tellings
    BY <1>0
  <2> HIDE DEF begins
  <2>2. CASE begins /\ y \in telling
    <3>1. teller'[y] = [teller[y] EXCEPT !.raced = TRUE]
      BY <1>6, <2>2
    <3> QED  BY <2>1, <2>2, <3>1 DEF Tellings
  <2>3. CASE ~ (begins /\ y \in telling)
    <3>1. teller'[y] = teller[y]
      BY <1>6, <2>3
    <3> QED  BY <2>1, <2>3, <3>1
  <2> QED  BY <2>2, <2>3
<1>8. teller' \in [Everyone -> Tellings]
  <2>1. \A y \in Everyone : teller'[y] \in Tellings
    BY <1>2, <1>6, <1>7
  <2>2. teller' = [y \in Everyone |-> teller'[y]]
    BY <1>3
  <2> QED  BY <2>1, <2>2
<1>9. teller[x].chunks = << >> /\ teller[x].told = 0 /\ Cardinality(ChunksOf(x)) = 0
  BY <1>0 DEF Telling, Tellings
<1>10. begins => \A y \in Everyone : teller[y].told = 0
  <2> SUFFICES ASSUME begins, NEW y \in Everyone PROVE teller[y].told = 0
    OBVIOUS
  <2>1. ChunksOf(y) = {}
    BY DEF UntoldYet, ChunksOf
  <2>2. Cardinality(ChunksOf(y)) = 0
    BY <2>1, FS_EmptySet
  <2> QED  BY <1>0, <2>2 DEF Telling
<1>11. Telling(x)'
  <2>1. ChunksOf(x)' = ChunksOf(x)
    BY DEF ChunksOf
  <2>2. Len(mine.chunks) \in Nat /\ (begins => Len(mine.chunks) # 0) /\ (~ begins => Len(mine.chunks) = 0)
    <3>1. begins => mine.chunks \in Seq(SUBSET Nat) /\ mine.chunks # << >>
      BY <1>1, <1>4
    <3>2. ~ begins => mine.chunks = << >>
      BY <1>4
    <3> QED  BY <3>1, <3>2
  <2>3. mine.step # "new" /\ (mine.step = "telling" <=> begins)
    BY <1>4
  <2> HIDE DEF begins
  <2>4. mine.chunks # << >> => mine.chunks = Chunks(mine.had)
    BY <1>4
  <2> QED  BY <1>4, <1>6, <1>9, <2>1, <2>2, <2>3, <2>4 DEF Telling
<1>12. ASSUME NEW y \in Everyone \ {x}, teller'[y] # teller[y] PROVE Telling(y)'
  <2>1. begins /\ y \in telling
    BY <1>7, <1>12
  <2>2. teller'[y].step = "telling" /\ Telling(y) /\ ChunksOf(y)' = ChunksOf(y)
    BY <1>0, <1>7, <2>1 DEF ChunksOf
  <2> QED  BY <1>7, <2>2 DEF Telling
<1>13. Raced'
  <2> SUFFICES ASSUME NEW y \in Everyone, NEW z \in Everyone, y # z, Engaged(y)', Engaged(z)'
               PROVE  teller'[y].raced
    BY DEF Raced
  <2>1. CASE y # x /\ z # x
    <3>1. Engaged(y) /\ Engaged(z)
      BY <1>7, <2>1 DEF Engaged
    <3>2. teller[y].raced
      BY <3>1 DEF TellingsSound, Raced
    <3> QED  BY <1>7, <2>1, <3>2
  <2>2. CASE y = x
    <3>1. begins
      BY <1>4, <1>6, <2>2 DEF Engaged
    <3>2. teller[z].step = "telling"
      BY <1>7, <1>10, <2>2, <3>1 DEF Engaged
    <3>3. z \in telling
      BY <3>2
    <3> HIDE DEF begins, telling
    <3> QED  BY <1>5, <1>6, <2>2, <3>1, <3>3
  <2>3. CASE z = x /\ y # x
    <3>1. begins
      BY <1>4, <1>6, <2>3 DEF Engaged
    <3>2. y \in telling
      BY <1>7, <1>10, <2>3, <3>1 DEF Engaged
    <3> QED  BY <1>7, <2>3, <3>1, <3>2
  <2> QED  BY <2>1, <2>2, <2>3
<1>14. TellingsSound'
  <2>1. ASSUME NEW y \in Everyone
        PROVE \/ teller'[y] = teller[y]
              \/ teller[y].told = 0 /\ teller'[y].told = 0 /\ Telling(y)'
              \/ /\ teller'[y].told = teller[y].told /\ teller'[y].chunks = teller[y].chunks
                 /\ Telling(y)'
    BY <1>4, <1>6, <1>7, <1>9, <1>11, <1>12
  <2> QED  BY <1>8, <1>13, <2>1, NothingCommitted
<1> QED  BY <1>7, <1>8, <1>14

\* The next chunk of a telling, in a row of its own.
LEMMA ChunkKeeps ==
  ASSUME MemoryTyped, TellingsSound, NEW x \in Everyone, teller[x].step = "telling",
         CommitChunk(x), broken' = broken
  PROVE  /\ teller' \in [Everyone -> Tellings] /\ TellingsSound'
         /\ memory'.backfill \in Seq(ChunkRows) /\ memory'.episode = memory.episode
         /\ memory' \in [backfill : Seq(ChunkRows), episode : Seq([run : Stays])]
         /\ \A y \in Everyone : teller'[y].step = "new" <=> teller[y].step = "new"
         /\ Len(memory.backfill) <= Len(memory'.backfill)
         /\ \A k \in DOMAIN memory.backfill : memory'.backfill[k] = memory.backfill[k]
<1> DEFINE b == memory.backfill
           t == teller[x]
           k == t.told + 1
           n == Len(t.chunks)
           new == [number |-> k, of |-> n, items |-> t.chunks[k], by |-> x]
           l == Len(b)
<1>1. /\ t \in Tellings /\ teller \in [Everyone -> Tellings]
      /\ t.told \in Nat /\ t.chunks \in Seq(SUBSET Nat) /\ n \in Nat /\ t.told < n
      /\ b \in Seq(ChunkRows) /\ l \in Nat /\ DOMAIN b = 1..l
      /\ memory \in [backfill : Seq(ChunkRows), episode : Seq([run : Stays])]
  <2>1. /\ t \in Tellings /\ teller \in [Everyone -> Tellings]
        /\ memory \in [backfill : Seq(ChunkRows), episode : Seq([run : Stays])]
    BY DEF MemoryTyped
  <2>2. t.told \in Nat /\ t.chunks \in Seq(SUBSET Nat) /\ n \in Nat
    BY <2>1 DEF Tellings
  <2>3. t.told < n
    BY DEF TellingsSound, Telling
  <2> QED  BY <2>1, <2>2, <2>3, BackfillIs
<1>2. /\ memory' = [memory EXCEPT !.backfill = Append(b, new)]
      /\ teller' = [teller EXCEPT ![x].told = k, ![x].step = IF k = n THEN "over" ELSE "telling"]
  BY DEF CommitChunk
<1>3. k \in 1..n /\ k \in Nat /\ t.chunks[k] \in SUBSET Nat
  BY <1>1
<1>4. new \in ChunkRows /\ new.number = k /\ new.of = n /\ new.items = t.chunks[k] /\ new.by = x
  BY <1>1, <1>3 DEF ChunkRows
<1>5. /\ teller'[x] = [t EXCEPT !.told = k, !.step = IF k = n THEN "over" ELSE "telling"]
      /\ \A y \in Everyone \ {x} : teller'[y] = teller[y]
  BY <1>1, <1>2
<1>6. /\ teller'[x].told = k /\ teller'[x].chunks = t.chunks /\ teller'[x].had = t.had
      /\ teller'[x].raced = t.raced /\ teller'[x].step = (IF k = n THEN "over" ELSE "telling")
      /\ teller'[x] \in Tellings
  BY <1>1, <1>3, <1>5 DEF Tellings
<1>7. teller' \in [Everyone -> Tellings]
  BY <1>1, <1>2, <1>5, <1>6
<1> HIDE DEF new
<1>8. /\ memory'.backfill = Append(b, new) /\ memory'.episode = memory.episode
      /\ memory' \in [backfill : Seq(ChunkRows), episode : Seq([run : Stays])]
  <2> DEFINE longer == Append(b, new)
  <2>1. longer \in Seq(ChunkRows)
    BY <1>1, <1>4
  <2> HIDE DEF longer
  <2>2. memory' = [memory EXCEPT !.backfill = longer]
    BY <1>2 DEF longer
  <2>3. memory'.backfill = longer /\ memory'.episode = memory.episode
        /\ memory' \in [backfill : Seq(ChunkRows), episode : Seq([run : Stays])]
    BY <1>1, <2>1, <2>2
  <2> QED  BY <2>3 DEF longer
<1> DEFINE c == memory'.backfill
<1>9. /\ c \in Seq(ChunkRows) /\ Len(c) = l + 1 /\ DOMAIN c = 1..(l + 1)
      /\ c[l + 1] = new /\ \A i \in 1..l : c[i] = b[i]
  BY <1>1, <1>4, <1>8
<1> HIDE DEF b, t, k, n, l, c
<1>10. ASSUME NEW y
       PROVE  /\ ChunksOf(y) \in SUBSET (1..l) /\ IsFiniteSet(ChunksOf(y))
              /\ Cardinality(ChunksOf(y)) \in Nat
              /\ ChunksOf(y) = {i \in 1..l : b[i].by = y}
              /\ ChunksOf(y)' = {i \in 1..(l + 1) : c[i].by = y}
  <2>1. /\ ChunksOf(y) \in SUBSET (1..l) /\ IsFiniteSet(ChunksOf(y))
        /\ Cardinality(ChunksOf(y)) \in Nat
    BY BackfillIs DEF b, l
  <2>2. ChunksOf(y) = {i \in 1..l : b[i].by = y}
    BY <1>1 DEF ChunksOf, b
  <2>3. ChunksOf(y)' = {i \in 1..(l + 1) : c[i].by = y}
    BY <1>9 DEF ChunksOf, c
  <2> QED  BY <2>1, <2>2, <2>3
<1>11. ChunksOf(x)' = ChunksOf(x) \cup {l + 1}
  <2>1. c[l + 1].by = x /\ \A i \in 1..l : c[i].by = b[i].by
    BY <1>4, <1>9
  <2>2. \A i : i \in 1..(l + 1) <=> i \in 1..l \/ i = l + 1
    BY <1>1
  <2>3. {i \in 1..(l + 1) : c[i].by = x} = {i \in 1..l : b[i].by = x} \cup {l + 1}
    BY <2>1, <2>2
  <2>4. /\ ChunksOf(x)' = {i \in 1..(l + 1) : c[i].by = x}
        /\ ChunksOf(x) = {i \in 1..l : b[i].by = x}
    BY <1>10
  <2> QED  BY <2>3, <2>4
<1>12. ASSUME NEW y, y # x PROVE ChunksOf(y)' = ChunksOf(y)
  <2>1. c[l + 1].by = x /\ \A i \in 1..l : c[i].by = b[i].by
    BY <1>4, <1>9
  <2>2. \A i : i \in 1..(l + 1) <=> i \in 1..l \/ i = l + 1
    BY <1>1
  <2>3. {i \in 1..(l + 1) : c[i].by = y} = {i \in 1..l : b[i].by = y}
    BY <1>12, <2>1, <2>2
  <2>4. /\ ChunksOf(y)' = {i \in 1..(l + 1) : c[i].by = y}
        /\ ChunksOf(y) = {i \in 1..l : b[i].by = y}
    BY <1>10
  <2> QED  BY <2>3, <2>4
<1>13. Cardinality(ChunksOf(x)') = Cardinality(ChunksOf(x)) + 1
  <2>1. l + 1 \notin ChunksOf(x)
    BY <1>1, <1>10
  <2> QED  BY <1>10, <1>11, <2>1, FS_AddElement
<1>14. /\ t.told = Cardinality(ChunksOf(x))
       /\ \A m \in 1..t.told : \E i \in ChunksOf(x) : b[i].number = m
       /\ t.chunks # << >> => t.chunks = Chunks(t.had)
  BY DEF TellingsSound, Telling, t, b
<1>15. Telling(x)'
  <2>1. teller'[x].told <= Len(teller'[x].chunks)
    BY <1>3, <1>6 DEF n
  <2>2. teller'[x].told = Cardinality(ChunksOf(x)')
    BY <1>6, <1>13, <1>14 DEF k
  <2>3. /\ teller'[x].step # "new"
        /\ teller'[x].step = "telling" => teller'[x].told < Len(teller'[x].chunks)
        /\ teller'[x].step = "over" => teller'[x].told = Len(teller'[x].chunks)
    <3>1. k = n \/ k < n
      BY <1>1, <1>3
    <3> QED  BY <1>6, <3>1 DEF n
  <2>4. ASSUME NEW m \in 1..k PROVE \E i \in ChunksOf(x)' : c[i].number = m
    <3>1. CASE m = k
      BY <1>4, <1>9, <1>11, <3>1
    <3>2. CASE m # k
      <4>1. m \in 1..t.told
        BY <1>1, <3>2 DEF k
      <4> QED  BY <1>9, <1>10, <1>11, <1>14, <4>1
    <3> QED  BY <3>1, <3>2
  <2>5. \A m \in 1..teller'[x].told : \E i \in ChunksOf(x)' : memory'.backfill[i].number = m
    BY <1>6, <2>4 DEF c
  <2>6. teller'[x].chunks # << >> => teller'[x].chunks = Chunks(teller'[x].had)
    BY <1>6, <1>14
  <2> QED  BY <2>1, <2>2, <2>3, <2>5, <2>6 DEF Telling
<1>16. ASSUME NEW y \in Everyone, y # x PROVE Telling(y)'
  <2>1. Telling(y) /\ teller'[y] = teller[y] /\ ChunksOf(y)' = ChunksOf(y)
    BY <1>5, <1>12, <1>16 DEF TellingsSound
  <2>2. \A i \in ChunksOf(y) : memory'.backfill[i].number = memory.backfill[i].number
    BY <1>9, <1>10 DEF b, c
  <2> QED  BY <2>1, <2>2 DEF Telling
<1>17. ASSUME NEW i \in 1..l PROVE ChunkIs(i)'
  <2>0. PICK y \in Everyone : y = b[i].by
    <3>1. b[i] \in ChunkRows
      BY <1>1
    <3> QED  BY <3>1 DEF ChunkRows
  <2>1. ChunkIs(i) /\ y \in Everyone
    BY <1>1, <2>0 DEF TellingsSound, b
  <2>2. /\ teller'[y].chunks = teller[y].chunks /\ teller[y].told \in Nat
        /\ teller[y].told <= teller'[y].told /\ teller'[y].told \in Nat
    <3>1. teller[y].told \in Nat
      BY <1>1, <2>1 DEF Tellings
    <3>2. CASE y = x
      BY <1>1, <1>3, <1>6, <3>1, <3>2 DEF k, t
    <3>3. CASE y # x
      BY <1>5, <2>1, <3>1, <3>3
    <3> QED  BY <3>2, <3>3
  <2>3. {j \in ChunksOf(y)' : j < i} = {j \in ChunksOf(y) : j < i}
    <3>1. ~ (l + 1 < i)
      BY <1>1
    <3> QED  BY <1>11, <1>12, <3>1
  <2>4. c[i] = b[i] /\ \A j \in ChunksOf(y) : c[j] = b[j]
    BY <1>9, <1>10
  <2>5. LET before == {j \in ChunksOf(y) : j < i}
        IN /\ b[i].number \in 1..teller[y].told
           /\ b[i].of = Len(teller[y].chunks)
           /\ b[i].items = teller[y].chunks[b[i].number]
           /\ b[i].number = Cardinality(before) + 1
           /\ \A j \in before : b[j].number < b[i].number
    BY <2>0, <2>1 DEF ChunkIs, b
  <2>6. b[i].number \in 1..teller'[y].told
    BY <2>2, <2>5
  <2>7. LET before == {j \in ChunksOf(y)' : j < i}
        IN /\ c[i].number \in 1..teller'[y].told
           /\ c[i].of = Len(teller'[y].chunks)
           /\ c[i].items = teller'[y].chunks[c[i].number]
           /\ c[i].number = Cardinality(before) + 1
           /\ \A j \in before : c[j].number < c[i].number
    BY <2>2, <2>3, <2>4, <2>5, <2>6
  <2>8. y = c[i].by
    BY <2>0, <2>4
  <2> QED  BY <2>7, <2>8 DEF ChunkIs, c
<1>18. ASSUME NEW m, m = l + 1 PROVE ChunkIs(m)'
  <2>1. {j \in ChunksOf(x)' : j < l + 1} = ChunksOf(x)
    BY <1>1, <1>10, <1>11
  <2>2. \A j \in ChunksOf(x) : c[j].number < k
    <3> TAKE j \in ChunksOf(x)
    <3>1. j \in 1..l /\ b[j].by = x
      BY <1>10
    <3>2. b[j].number \in 1..t.told
      BY <1>1, <3>1 DEF TellingsSound, ChunkIs, b, t
    <3> QED  BY <1>1, <1>9, <3>1, <3>2 DEF k
  <2>3. LET before == {j \in ChunksOf(x)' : j < l + 1}
        IN /\ k \in 1..teller'[x].told
           /\ n = Len(teller'[x].chunks)
           /\ t.chunks[k] = teller'[x].chunks[k]
           /\ k = Cardinality(before) + 1
           /\ \A j \in before : c[j].number < k
    <3>1. k \in 1..teller'[x].told
      BY <1>3, <1>6
    <3>2. n = Len(teller'[x].chunks) /\ t.chunks[k] = teller'[x].chunks[k]
      BY <1>6 DEF n
    <3>3. k = Cardinality({j \in ChunksOf(x)' : j < l + 1}) + 1
      BY <1>14, <2>1 DEF k
    <3> QED  BY <2>1, <2>2, <3>1, <3>2, <3>3
  <2>4. c[m].number = k /\ c[m].of = n /\ c[m].items = t.chunks[k] /\ c[m].by = x
    BY <1>4, <1>9, <1>18
  <2> QED  BY <1>18, <2>3, <2>4 DEF ChunkIs, c
<1>19. Raced'
  <2>1. \A y \in Everyone : teller'[y].raced = teller[y].raced
    BY <1>5, <1>6 DEF t
  <2>2. \A y \in Everyone : Engaged(y)' => Engaged(y)
    BY <1>5 DEF Engaged
  <2> QED  BY <2>1, <2>2 DEF TellingsSound, Raced
<1>20. TellingsSound'
  <2>1. \A i \in DOMAIN memory'.backfill : ChunkIs(i)'
    <3>1. \A i \in 1..(l + 1) : i \in 1..l \/ i = l + 1
      BY <1>1
    <3> QED  BY <1>9, <1>17, <1>18, <3>1 DEF c
  <2> QED  BY <1>15, <1>16, <1>19, <2>1 DEF TellingsSound
<1>21. \A y \in Everyone : teller'[y].step = "new" <=> teller[y].step = "new"
  BY <1>5, <1>6
<1> QED  BY <1>1, <1>7, <1>8, <1>9, <1>20, <1>21 DEF b, c, l

LEMMA WrittenAfterStays ==
  ASSUME NEW v, NEW w, WrittenAfter(v, w), late \subseteq late',
         DOMAIN finished \subseteq DOMAIN finished',
         \A i \in DOMAIN finished : finished'[i] = finished[i]
  PROVE  WrittenAfter(v, w)'
BY DEF WrittenAfter

LEMMA EpisodesAre ==
  ASSUME MemoryTyped
  PROVE  /\ memory.episode \in Seq([run : Stays]) /\ Len(memory.episode) \in Nat
         /\ DOMAIN memory.episode = 1..Len(memory.episode)
         /\ \A i \in DOMAIN memory.episode : memory.episode[i].run \in Stays
         /\ remembered.episodes \in Seq([run : Stays]) /\ Len(remembered.episodes) \in Nat
         /\ DOMAIN remembered.episodes = 1..Len(remembered.episodes)
         /\ \A i \in 1..Len(remembered.episodes) : remembered.episodes[i].run \in Stays
         /\ finished \in Seq(Stays) /\ Len(finished) \in Nat
         /\ DOMAIN finished = 1..Len(finished)
<1>1. memory.episode \in Seq([run : Stays]) /\ remembered.episodes \in Seq([run : Stays])
      /\ finished \in Seq(Stays)
  BY DEF MemoryTyped
<1>2. ASSUME NEW s \in Seq([run : Stays])
      PROVE  /\ Len(s) \in Nat /\ DOMAIN s = 1..Len(s)
             /\ \A i \in 1..Len(s) : s[i].run \in Stays
  <2> DEFINE T == [run : Stays]
  <2>0. s \in Seq(T)
    OBVIOUS
  <2> HIDE DEF T
  <2>1. Len(s) \in Nat /\ DOMAIN s = 1..Len(s) /\ \A i \in 1..Len(s) : s[i] \in T
    BY <2>0
  <2> USE DEF T
  <2>2. \A i \in 1..Len(s) : s[i].run \in Stays
    BY <2>1
  <2> QED  BY <2>1, <2>2
<1>3. Len(finished) \in Nat /\ DOMAIN finished = 1..Len(finished)
  BY <1>1
<1> QED  BY <1>1, <1>2, <1>3

\* Visits that go on without an episode leave what was remembered where it stood.
LEMMA EpisodesStay ==
  ASSUME MemoryTyped, EpisodesOrdered, EpisodesGiven,
         memory'.episode = memory.episode, remembered' = remembered, late' = late,
         DOMAIN finished \subseteq DOMAIN finished',
         \A i \in DOMAIN finished : finished'[i] = finished[i],
         \A v \in Stays : stay'[v] = "told" <=> stay[v] = "told",
         \A v \in Stays : stay'[v] \in {"completed", "untold"} =>
           \E i \in DOMAIN finished' : finished'[i] = v
  PROVE  EpisodesOrdered' /\ EpisodesGiven'
<1>1. \A v, w : WrittenAfter(v, w) => WrittenAfter(v, w)'
  BY WrittenAfterStays
<1>2. EpisodesOrdered'
  <2>1. ASSUME NEW v \in Stays, stay'[v] \in {"completed", "told", "untold"}
        PROVE  \E i \in DOMAIN finished' : finished'[i] = v
    <3>1. CASE stay'[v] = "told"
      <4>1. stay[v] = "told"
        BY <3>1
      <4>2. \E i \in DOMAIN finished : finished[i] = v
        BY <4>1 DEF EpisodesOrdered
      <4> QED  BY <4>2
    <3> QED  BY <2>1, <3>1
  <2>2. \A v \in Stays : stay'[v] = "told" => \E i \in DOMAIN memory'.episode : memory'.episode[i].run = v
    BY DEF EpisodesOrdered
  <2>3. \A i \in DOMAIN memory'.episode : stay'[memory'.episode[i].run] = "told"
    BY EpisodesAre DEF EpisodesOrdered
  <2>4. (\A i, j \in DOMAIN memory.episode :
           i < j => WrittenAfter(memory.episode[j].run, memory.episode[i].run))'
    <3>1. \A i, j \in DOMAIN memory.episode :
            i < j => WrittenAfter(memory.episode[j].run, memory.episode[i].run)
      BY DEF EpisodesOrdered
    <3> QED  BY <3>1 DEF WrittenAfter
  <2> QED  BY <2>1, <2>2, <2>3, <2>4 DEF EpisodesOrdered
<1>3. EpisodesGiven'
  BY <1>1 DEF EpisodesGiven
<1> QED  BY <1>2, <1>3

LEMMA TellKeeps ==
  ASSUME MemoryInv, PersonaMemoryAssumption, NEW x \in Tellers, Tell(x)
  PROVE  MemoryInv'
<1>1. /\ teller[x].step = "new" /\ Look(x) /\ x \in Everyone /\ x \notin Stays
      /\ UNCHANGED <<items, memory, stay, remembered, broken, finished, late>>
      /\ MemoryTyped /\ TellingsSound /\ Begun /\ EpisodesOrdered /\ BeginningGiven /\ EpisodesGiven
  BY DEF Tell, MemoryInv, Everyone, PersonaMemoryAssumption
<1>2. /\ teller' \in [Everyone -> Tellings] /\ TellingsSound'
      /\ \A y \in Everyone \ {x} : teller'[y].step = teller[y].step
  BY <1>1, LookKeeps
<1>3. MemoryTyped'
  BY <1>1, <1>2 DEF MemoryTyped
<1>4. Begun'
  BY <1>1, <1>2 DEF Begun, Everyone
<1>5. EpisodesOrdered' /\ EpisodesGiven'
  BY <1>1 DEF EpisodesOrdered, EpisodesGiven, WrittenAfter
<1>6. BeginningGiven'
  BY <1>1 DEF BeginningGiven
<1> QED  BY <1>2, <1>3, <1>4, <1>5, <1>6 DEF MemoryInv

LEMMA TellOnKeeps ==
  ASSUME MemoryInv, NEW x \in Everyone, TellOn(x)
  PROVE  MemoryInv'
<1>1. /\ teller[x].step = "telling" /\ CommitChunk(x)
      /\ UNCHANGED <<items, stay, remembered, broken, finished, late>>
      /\ MemoryTyped /\ TellingsSound /\ Begun /\ EpisodesOrdered /\ BeginningGiven /\ EpisodesGiven
  BY DEF TellOn, MemoryInv
<1>2. /\ teller' \in [Everyone -> Tellings] /\ TellingsSound'
      /\ memory'.backfill \in Seq(ChunkRows) /\ memory'.episode = memory.episode
      /\ memory' \in [backfill : Seq(ChunkRows), episode : Seq([run : Stays])]
      /\ \A y \in Everyone : teller'[y].step = "new" <=> teller[y].step = "new"
      /\ Len(memory.backfill) <= Len(memory'.backfill)
      /\ \A k \in DOMAIN memory.backfill : memory'.backfill[k] = memory.backfill[k]
  BY <1>1, ChunkKeeps
<1>3. MemoryTyped'
  BY <1>1, <1>2 DEF MemoryTyped
<1>4. Begun'
  BY <1>1, <1>2 DEF Begun, Everyone
<1>5. EpisodesOrdered' /\ EpisodesGiven'
  <2>1. \A v \in Stays : stay'[v] \in {"completed", "untold"} =>
          \E i \in DOMAIN finished' : finished'[i] = v
    BY <1>1 DEF EpisodesOrdered
  <2> QED  BY <1>1, <1>2, <2>1, EpisodesStay
<1>6. BeginningGiven'
  <2>1. /\ Len(remembered.chunks) \in Nat /\ DOMAIN remembered.chunks = 1..Len(remembered.chunks)
        /\ Len(memory.backfill) \in Nat /\ DOMAIN memory.backfill = 1..Len(memory.backfill)
        /\ Len(memory'.backfill) \in Nat
    <3>1. remembered.chunks \in Seq(ChunkRows)
      BY <1>1 DEF MemoryTyped
    <3> QED  BY <1>1, <1>2, <3>1, BackfillIs
  <2>2. Len(remembered.chunks) <= Len(memory.backfill)
        /\ \A k \in DOMAIN remembered.chunks : remembered.chunks[k] = memory.backfill[k]
    BY <1>1 DEF BeginningGiven
  <2>3. \A k \in DOMAIN remembered.chunks : k \in DOMAIN memory.backfill
    BY <2>1, <2>2
  <2>4. Len(remembered.chunks) <= Len(memory'.backfill)
    BY <1>2, <2>1, <2>2
  <2> QED  BY <1>1, <1>2, <2>2, <2>3, <2>4 DEF BeginningGiven
<1> QED  BY <1>2, <1>3, <1>4, <1>5, <1>6 DEF MemoryInv

LEMMA BreakOffKeeps ==
  ASSUME MemoryInv, NEW x \in Everyone, BreakOff(x)
  PROVE  MemoryInv'
<1>1. /\ teller[x].step = "telling" /\ teller' = [teller EXCEPT ![x].step = "over"]
      /\ broken' = broken \cup {x}
      /\ UNCHANGED <<items, memory, stay, remembered, finished, late>>
      /\ MemoryTyped /\ TellingsSound /\ Begun /\ EpisodesOrdered /\ BeginningGiven /\ EpisodesGiven
      /\ teller \in [Everyone -> Tellings]
  BY DEF BreakOff, MemoryInv, MemoryTyped
<1>2. /\ teller'[x] = [teller[x] EXCEPT !.step = "over"]
      /\ \A y \in Everyone \ {x} : teller'[y] = teller[y]
  BY <1>1
<1>3. /\ teller'[x].told = teller[x].told /\ teller'[x].chunks = teller[x].chunks
      /\ teller'[x].had = teller[x].had /\ teller'[x].raced = teller[x].raced
      /\ teller'[x].step = "over" /\ teller'[x] \in Tellings
  BY <1>1, <1>2 DEF Tellings
<1>4. teller' \in [Everyone -> Tellings]
  BY <1>1, <1>2, <1>3
<1>5. Telling(x)'
  <2>1. Telling(x) /\ ChunksOf(x)' = ChunksOf(x) /\ x \in broken'
    BY <1>1 DEF TellingsSound, ChunksOf
  <2> QED  BY <1>1, <1>3, <2>1 DEF Telling
<1>6. Raced'
  <2>1. \A y \in Everyone : teller'[y].raced = teller[y].raced
    BY <1>2, <1>3
  <2>2. \A y \in Everyone : Engaged(y)' => Engaged(y)
    BY <1>1, <1>2, <1>3 DEF Engaged
  <2> QED  BY <1>1, <2>1, <2>2 DEF TellingsSound, Raced
<1>7. TellingsSound'
  <2>1. ASSUME NEW y \in Everyone
        PROVE \/ teller'[y] = teller[y]
              \/ teller[y].told = 0 /\ teller'[y].told = 0 /\ Telling(y)'
              \/ /\ teller'[y].told = teller[y].told /\ teller'[y].chunks = teller[y].chunks
                 /\ Telling(y)'
    BY <1>2, <1>3, <1>5
  <2> QED  BY <1>1, <1>4, <1>6, <2>1, NothingCommitted
<1>8. MemoryTyped'
  BY <1>1, <1>4 DEF MemoryTyped
<1>9. Begun'
  BY <1>1, <1>2, <1>3 DEF Begun, Everyone
<1>10. EpisodesOrdered' /\ EpisodesGiven'
  BY <1>1 DEF EpisodesOrdered, EpisodesGiven, WrittenAfter
<1>11. BeginningGiven'
  BY <1>1 DEF BeginningGiven
<1> QED  BY <1>7, <1>8, <1>9, <1>10, <1>11 DEF MemoryInv

LEMMA ArriveKeeps ==
  ASSUME MemoryInv, PersonaMemoryAssumption, NEW v \in Stays, Arrive(v)
  PROVE  MemoryInv'
<1>1. /\ stay[v] = "new" /\ stay' = [stay EXCEPT ![v] = "telling"]
      /\ IF v \in Lazy THEN Look(v) ELSE teller' = [teller EXCEPT ![v].step = "over"]
      /\ UNCHANGED <<items, memory, remembered, broken, finished, late>>
      /\ MemoryTyped /\ TellingsSound /\ Begun /\ EpisodesOrdered /\ BeginningGiven /\ EpisodesGiven
      /\ teller[v].step = "new" /\ v \in Everyone
      /\ teller \in [Everyone -> Tellings] /\ stay \in [Stays -> Stages]
  BY DEF Arrive, MemoryInv, Begun, Everyone, MemoryTyped
<1>2. /\ stay'[v] = "telling" /\ \A w \in Stays \ {v} : stay'[w] = stay[w]
      /\ stay' \in [Stays -> Stages]
  BY <1>1 DEF Stages, Visiting
<1>3. /\ teller' \in [Everyone -> Tellings] /\ TellingsSound'
      /\ \A y \in Everyone \ {v} : teller'[y].step = teller[y].step
  <2>1. CASE v \in Lazy
    BY <1>1, <2>1, LookKeeps
  <2>2. CASE v \notin Lazy
    <3>1. /\ teller'[v] = [teller[v] EXCEPT !.step = "over"]
          /\ \A y \in Everyone \ {v} : teller'[y] = teller[y]
      BY <1>1, <2>2
    <3>2. /\ teller'[v].told = teller[v].told /\ teller'[v].chunks = teller[v].chunks
          /\ teller'[v].had = teller[v].had /\ teller'[v].raced = teller[v].raced
          /\ teller'[v].step = "over" /\ teller'[v] \in Tellings
      BY <1>1, <3>1 DEF Tellings
    <3>3. teller' \in [Everyone -> Tellings]
      BY <1>1, <2>2, <3>1, <3>2
    <3>4. Telling(v)'
      <4>1. Telling(v) /\ ChunksOf(v)' = ChunksOf(v)
        BY <1>1 DEF TellingsSound, ChunksOf
      <4>2. teller[v].chunks = << >> /\ teller[v].told \in Nat
            /\ teller[v].told <= Len(teller[v].chunks)
        BY <1>1, <4>1 DEF Telling, Tellings
      <4>3. teller[v].told = Len(teller[v].chunks)
        BY <4>2
      <4> QED  BY <1>1, <3>2, <4>1, <4>3 DEF Telling
    <3>5. Raced'
      <4>1. \A y \in Everyone : teller'[y].raced = teller[y].raced
        BY <3>1, <3>2
      <4>2. \A y \in Everyone : Engaged(y)' => Engaged(y)
        BY <1>1, <3>1, <3>2 DEF Engaged
      <4> QED  BY <1>1, <4>1, <4>2 DEF TellingsSound, Raced
    <3>6. ASSUME NEW y \in Everyone
          PROVE \/ teller'[y] = teller[y]
                \/ teller[y].told = 0 /\ teller'[y].told = 0 /\ Telling(y)'
                \/ /\ teller'[y].told = teller[y].told /\ teller'[y].chunks = teller[y].chunks
                   /\ Telling(y)'
      BY <3>1, <3>2, <3>4
    <3>7. TellingsSound'
      BY <1>1, <3>3, <3>5, <3>6, NothingCommitted
    <3> QED  BY <3>1, <3>3, <3>7
  <2> QED  BY <2>1, <2>2
<1>4. MemoryTyped'
  BY <1>1, <1>2, <1>3 DEF MemoryTyped
<1>5. Begun'
  BY <1>1, <1>2, <1>3 DEF Begun, Everyone
<1>6. EpisodesOrdered' /\ EpisodesGiven'
  <2>1. \A w \in Stays : stay'[w] = "told" <=> stay[w] = "told"
    BY <1>1, <1>2
  <2>2. \A w \in Stays : stay'[w] \in {"completed", "untold"} =>
          \E i \in DOMAIN finished' : finished'[i] = w
    BY <1>1, <1>2 DEF EpisodesOrdered
  <2> QED  BY <1>1, <2>1, <2>2, EpisodesStay
<1>7. BeginningGiven'
  BY <1>1 DEF BeginningGiven
<1> QED  BY <1>3, <1>4, <1>5, <1>6, <1>7 DEF MemoryInv

LEMMA PrepareKeeps ==
  ASSUME MemoryInv, PersonaMemoryAssumption, NEW v \in Stays, Prepare(v)
  PROVE  MemoryInv'
<1> DEFINE e == memory.episode
           chunks == Oldest(memory.backfill, PromptChunks)
           given == LastOf(e, PromptEpisodes)
           there == {w \in Stays : stay[w] = "told"}
           a == IF Len(e) > PromptEpisodes THEN Len(e) - PromptEpisodes ELSE 0
<1>1. /\ stay[v] = "telling" /\ stay' = [stay EXCEPT ![v] = "visiting"]
      /\ remembered' = [chunks |-> chunks, episodes |-> given, there |-> there]
      /\ UNCHANGED <<items, memory, teller, broken, finished, late>>
      /\ MemoryTyped /\ TellingsSound /\ Begun /\ EpisodesOrdered /\ BeginningGiven /\ EpisodesGiven
      /\ stay \in [Stays -> Stages]
  BY DEF Prepare, Episodes, MemoryInv, MemoryTyped
<1>2. PromptChunks \in Nat /\ PromptEpisodes \in Nat
  BY DEF PersonaMemoryAssumption
<1>3. /\ stay'[v] = "visiting" /\ \A w \in Stays \ {v} : stay'[w] = stay[w]
      /\ stay' \in [Stays -> Stages]
  BY <1>1 DEF Stages, Visiting
<1>4. /\ e \in Seq([run : Stays]) /\ Len(e) \in Nat /\ DOMAIN e = 1..Len(e)
      /\ \A i \in 1..Len(e) : e[i].run \in Stays
  BY <1>1, EpisodesAre
<1>5. /\ given \in Seq([run : Stays]) /\ a \in Nat /\ Len(given) = Len(e) - a
      /\ a > 0 => Len(given) = PromptEpisodes
      /\ \A i \in 1..Len(given) : a + i \in 1..Len(e) /\ given[i] = e[a + i]
  <2> DEFINE T == [run : Stays]
  <2>1. e \in Seq(T) /\ PromptEpisodes \in Nat
    BY <1>2, <1>4
  <2> HIDE DEF T, e
  <2> QED  BY <2>1, LastOfIs DEF T
<1>6. /\ chunks \in Seq(ChunkRows) /\ Len(chunks) <= Len(memory.backfill)
      /\ \A i \in 1..Len(chunks) : i \in 1..Len(memory.backfill) /\ chunks[i] = memory.backfill[i]
  BY <1>1, <1>2, BackfillIs, OldestIs
<1> HIDE DEF chunks, given, a
<1>7. MemoryTyped'
  <2>1. remembered' \in [chunks : Seq(ChunkRows), episodes : Seq([run : Stays]), there : SUBSET Stays]
    BY <1>1, <1>5, <1>6
  <2> QED  BY <1>1, <1>3, <2>1 DEF MemoryTyped
<1>8. remembered'.chunks = chunks /\ remembered'.episodes = given /\ remembered'.there = there
  BY <1>1
<1>9. TellingsSound'
  BY <1>1, TellingsStay
<1>10. Begun'
  BY <1>1, <1>3 DEF Begun
<1>11. EpisodesOrdered'
  <2>1. \A w \in Stays : stay'[w] \in {"completed", "told", "untold"} => stay'[w] = stay[w]
    BY <1>3
  <2>2. \A w \in Stays : stay[w] = "told" => stay'[w] = stay[w]
    BY <1>1, <1>3
  <2>3. \A w \in Stays : stay'[w] \in {"completed", "told", "untold"} =>
          \E i \in DOMAIN finished' : finished'[i] = w
    BY <1>1, <2>1 DEF EpisodesOrdered
  <2>4. \A w \in Stays : stay'[w] = "told" =>
          \E i \in DOMAIN memory'.episode : memory'.episode[i].run = w
    BY <1>1, <2>1 DEF EpisodesOrdered
  <2>5. \A i \in DOMAIN memory'.episode : stay'[memory'.episode[i].run] = "told"
    BY <1>1, <1>4, <2>2 DEF EpisodesOrdered
  <2>6. (\A i, j \in DOMAIN memory.episode :
           i < j => WrittenAfter(memory.episode[j].run, memory.episode[i].run))'
    <3>1. \A i, j \in DOMAIN memory.episode :
            i < j => WrittenAfter(memory.episode[j].run, memory.episode[i].run)
      BY <1>1 DEF EpisodesOrdered
    <3> QED  BY <1>1, <3>1 DEF WrittenAfter
  <2> QED  BY <2>3, <2>4, <2>5, <2>6 DEF EpisodesOrdered
<1>12. \A i, j \in 1..Len(e) : i < j => WrittenAfter(e[j].run, e[i].run)
  BY <1>1, <1>4 DEF EpisodesOrdered
<1>13. EpisodesGiven'
  <2>1. ASSUME NEW w \in there
        PROVE  \/ \E i \in 1..Len(given) : given[i].run = w
               \/ Len(given) = PromptEpisodes
                  /\ \A i \in 1..Len(given) : WrittenAfter(given[i].run, w)
    <3>1. PICK k \in 1..Len(e) : e[k].run = w
      BY <1>1, <1>4 DEF EpisodesOrdered
    <3>2. CASE k > a
      <4>1. k - a \in 1..Len(given) /\ a + (k - a) = k
        BY <1>4, <1>5, <3>2
      <4>2. given[k - a].run = w
        BY <1>5, <3>1, <4>1
      <4> QED  BY <4>1, <4>2
    <3>3. CASE k <= a
      <4>1. a > 0
        BY <1>5, <3>3
      <4>2. ASSUME NEW i \in 1..Len(given) PROVE WrittenAfter(given[i].run, w)
        <5>1. a + i \in 1..Len(e) /\ given[i] = e[a + i]
          BY <1>5
        <5>2. k < a + i
          <6>1. i \in Nat /\ i > 0 /\ k \in Nat /\ a \in Nat
            BY <1>4, <1>5
          <6> QED  BY <3>3, <6>1
        <5> QED  BY <1>12, <3>1, <5>1, <5>2
      <4> QED  BY <1>5, <4>1, <4>2
    <3> QED  BY <1>5, <3>2, <3>3
  <2>2. ASSUME NEW i \in 1..Len(given), NEW j \in 1..Len(given), i < j
        PROVE  WrittenAfter(given[j].run, given[i].run)
    <3>1. a + i \in 1..Len(e) /\ a + j \in 1..Len(e) /\ a + i < a + j
          /\ given[i] = e[a + i] /\ given[j] = e[a + j]
      BY <1>5, <2>2
    <3> QED  BY <1>12, <3>1
  <2>3. LET g == remembered'.episodes
        IN /\ \A w \in remembered'.there :
                \/ \E i \in 1..Len(g) : g[i].run = w
                \/ Len(g) = PromptEpisodes /\ \A i \in 1..Len(g) : WrittenAfter(g[i].run, w)
           /\ \A i, j \in 1..Len(g) : i < j => WrittenAfter(g[j].run, g[i].run)
    BY <1>8, <2>1, <2>2
  <2> QED  BY <1>1, <2>3 DEF EpisodesGiven, WrittenAfter
<1>14. BeginningGiven'
  <2>1. DOMAIN chunks = 1..Len(chunks)
    BY <1>6
  <2> QED  BY <1>1, <1>6, <1>8, <2>1 DEF BeginningGiven
<1> QED  BY <1>7, <1>9, <1>10, <1>11, <1>13, <1>14 DEF MemoryInv

LEMMA CompleteKeeps ==
  ASSUME MemoryInv, NEW v \in Stays, NEW wrote \in 0..1, Complete(v, wrote)
  PROVE  MemoryInv'
<1>1. /\ stay[v] = "visiting" /\ stay' = [stay EXCEPT ![v] = "completed"]
      /\ items' = items + wrote /\ finished' = Append(finished, v)
      /\ UNCHANGED <<memory, teller, remembered, broken, late>>
      /\ MemoryTyped /\ TellingsSound /\ Begun /\ EpisodesOrdered /\ BeginningGiven /\ EpisodesGiven
      /\ stay \in [Stays -> Stages] /\ finished \in Seq(Stays) /\ items \in Nat
  BY DEF Complete, MemoryInv, MemoryTyped
<1>2. /\ stay'[v] = "completed" /\ \A w \in Stays \ {v} : stay'[w] = stay[w]
      /\ stay' \in [Stays -> Stages]
  BY <1>1 DEF Stages
<1>3. /\ finished' \in Seq(Stays) /\ Len(finished) \in Nat /\ DOMAIN finished = 1..Len(finished)
      /\ DOMAIN finished' = 1..(Len(finished) + 1) /\ finished'[Len(finished) + 1] = v
      /\ \A i \in DOMAIN finished : finished'[i] = finished[i]
  BY <1>1
<1>4. DOMAIN finished \subseteq DOMAIN finished' /\ Len(finished) + 1 \in DOMAIN finished'
  BY <1>3
<1>5. MemoryTyped'
  BY <1>1, <1>2, <1>3 DEF MemoryTyped
<1>6. TellingsSound'
  BY <1>1, TellingsStay
<1>7. Begun'
  BY <1>1, <1>2 DEF Begun
<1>8. EpisodesOrdered' /\ EpisodesGiven'
  <2>1. \A w \in Stays : stay'[w] = "told" <=> stay[w] = "told"
    BY <1>1, <1>2
  <2>2. ASSUME NEW w \in Stays, stay'[w] \in {"completed", "untold"}
        PROVE  \E i \in DOMAIN finished' : finished'[i] = w
    <3>1. CASE w = v
      BY <1>3, <1>4, <3>1
    <3>2. CASE w # v
      <4>1. \E i \in DOMAIN finished : finished[i] = w
        BY <1>1, <1>2, <2>2, <3>2 DEF EpisodesOrdered
      <4> QED  BY <1>3, <1>4, <4>1
    <3> QED  BY <3>1, <3>2
  <2> QED  BY <1>1, <1>3, <1>4, <2>1, <2>2, EpisodesStay
<1>9. BeginningGiven'
  BY <1>1 DEF BeginningGiven
<1> QED  BY <1>5, <1>6, <1>7, <1>8, <1>9 DEF MemoryInv

LEMMA EndsWithoutKeeps ==
  ASSUME MemoryInv, NEW v \in Stays, VisitFails(v) \/ SummaryLost(v)
  PROVE  MemoryInv'
<1>1. /\ \/ stay[v] \in Visiting /\ stay' = [stay EXCEPT ![v] = "failed"]
         \/ stay[v] = "completed" /\ stay' = [stay EXCEPT ![v] = "untold"]
      /\ UNCHANGED <<items, memory, teller, remembered, broken, finished, late>>
      /\ MemoryTyped /\ TellingsSound /\ Begun /\ EpisodesOrdered /\ BeginningGiven /\ EpisodesGiven
      /\ stay \in [Stays -> Stages]
  BY DEF VisitFails, SummaryLost, MemoryInv, MemoryTyped
<1>2. /\ stay'[v] \in {"failed", "untold"} /\ \A w \in Stays \ {v} : stay'[w] = stay[w]
      /\ stay' \in [Stays -> Stages] /\ stay[v] # "told"
      /\ stay'[v] = "untold" => stay[v] = "completed"
  BY <1>1 DEF Stages, Visiting
<1>3. MemoryTyped'
  BY <1>1, <1>2 DEF MemoryTyped
<1>4. TellingsSound'
  BY <1>1, TellingsStay
<1>5. Begun'
  BY <1>1, <1>2 DEF Begun
<1>6. EpisodesOrdered' /\ EpisodesGiven'
  <2>1. \A w \in Stays : stay'[w] = "told" <=> stay[w] = "told"
    BY <1>2
  <2>2. \A w \in Stays : stay'[w] \in {"completed", "untold"} =>
          \E i \in DOMAIN finished' : finished'[i] = w
    BY <1>1, <1>2 DEF EpisodesOrdered
  <2> QED  BY <1>1, <2>1, <2>2, EpisodesStay
<1>7. BeginningGiven'
  BY <1>1 DEF BeginningGiven
<1> QED  BY <1>3, <1>4, <1>5, <1>6, <1>7 DEF MemoryInv

LEMMA SummarizeKeeps ==
  ASSUME MemoryInv, NEW v \in Stays, Summarize(v)
  PROVE  MemoryInv'
<1> DEFINE e == memory.episode
           f == memory'.episode
           l == Len(e)
<1>1. /\ stay[v] = "completed" /\ stay' = [stay EXCEPT ![v] = "told"]
      /\ memory' = [memory EXCEPT !.episode = Append(e, [run |-> v])]
      /\ late' = (IF Last(finished) = v THEN late ELSE late \cup {v})
      /\ UNCHANGED <<items, teller, remembered, broken, finished>>
      /\ MemoryTyped /\ TellingsSound /\ Begun /\ EpisodesOrdered /\ BeginningGiven /\ EpisodesGiven
      /\ stay \in [Stays -> Stages] /\ finished \in Seq(Stays)
      /\ memory \in [backfill : Seq(ChunkRows), episode : Seq([run : Stays])]
  BY DEF Summarize, MemoryInv, MemoryTyped
<1>2. /\ stay'[v] = "told" /\ \A w \in Stays \ {v} : stay'[w] = stay[w]
      /\ stay' \in [Stays -> Stages]
  BY <1>1 DEF Stages
<1>3. /\ e \in Seq([run : Stays]) /\ l \in Nat /\ DOMAIN e = 1..l
      /\ \A i \in 1..l : e[i].run \in Stays
  BY <1>1, EpisodesAre
<1> DEFINE T == [run : Stays]
           new == [run |-> v]
<1>4. new \in T /\ new.run = v
  OBVIOUS
<1>5. /\ Append(e, new) \in Seq(T) /\ Len(Append(e, new)) = l + 1
      /\ DOMAIN Append(e, new) = 1..(l + 1) /\ Append(e, new)[l + 1] = new
      /\ \A i \in 1..l : Append(e, new)[i] = e[i]
  <2> HIDE DEF new, T, e
  <2>1. e \in Seq(T)
    BY <1>3 DEF T
  <2> QED  BY <1>4, <2>1
<1>6. /\ f = Append(e, new) /\ memory'.backfill = memory.backfill
      /\ memory' \in [backfill : Seq(ChunkRows), episode : Seq([run : Stays])]
  <2> DEFINE longer == Append(e, new)
  <2> HIDE DEF longer
  <2>1. longer \in Seq(T) /\ memory' = [memory EXCEPT !.episode = longer]
    BY <1>1, <1>5 DEF longer
  <2>2. memory' = [backfill |-> memory.backfill, episode |-> longer]
        /\ memory.backfill \in Seq(ChunkRows)
    BY <1>1, <2>1
  <2>3. memory' \in [backfill : Seq(ChunkRows), episode : Seq(T)]
    BY <2>1, <2>2
  <2> QED  BY <2>2, <2>3 DEF longer
<1>7. /\ DOMAIN f = 1..(l + 1) /\ f[l + 1].run = v
      /\ \A i \in 1..l : f[i] = e[i]
  BY <1>4, <1>5, <1>6
<1> HIDE DEF e, f, l, new, T
<1>8. MemoryTyped'
  BY <1>1, <1>2, <1>6 DEF MemoryTyped
<1>9. TellingsSound'
  BY <1>1, <1>6, TellingsStay
<1>10. Begun'
  BY <1>1, <1>2 DEF Begun
<1>11. \A x, y : WrittenAfter(x, y) => WrittenAfter(x, y)'
  BY <1>1, WrittenAfterStays
<1>12. \A w \in Stays : stay[w] \in {"completed", "told"} =>
         \E i \in DOMAIN finished : finished[i] = w
  BY <1>1 DEF EpisodesOrdered
<1>13. ASSUME NEW w \in Stays, stay[w] = "told" PROVE WrittenAfter(v, w)'
  <2>1. CASE Last(finished) # v
    BY <1>1, <2>1 DEF WrittenAfter
  <2>2. CASE Last(finished) = v
    <3>1. PICK i \in DOMAIN finished : finished[i] = w
      BY <1>12, <1>13
    <3>2. w # v
      BY <1>1, <1>13
    <3>3. /\ Len(finished) \in DOMAIN finished /\ finished[Len(finished)] = v
          /\ i \in 1..Len(finished) /\ Len(finished) \in Nat
      BY <1>1, <2>2 DEF Last
    <3>4. i < Len(finished)
      BY <3>1, <3>2, <3>3
    <3> QED  BY <1>1, <3>1, <3>3, <3>4 DEF WrittenAfter
  <2> QED  BY <2>1, <2>2
<1>14. EpisodesOrdered'
  <2>1. \A w \in Stays : stay'[w] \in {"completed", "told", "untold"} =>
          \E i \in DOMAIN finished' : finished'[i] = w
    BY <1>1, <1>2, <1>12 DEF EpisodesOrdered
  <2>2. ASSUME NEW w \in Stays, stay'[w] = "told" PROVE \E i \in DOMAIN f : f[i].run = w
    <3>1. CASE w = v
      <4>1. l + 1 \in DOMAIN f
        BY <1>3, <1>7
      <4> QED  BY <1>7, <3>1, <4>1
    <3>2. CASE w # v
      <4>1. \E i \in DOMAIN e : e[i].run = w
        BY <1>1, <1>2, <2>2, <3>2 DEF EpisodesOrdered, e
      <4>2. \A i \in 1..l : i \in 1..(l + 1)
        BY <1>3
      <4> QED  BY <1>3, <1>7, <4>1, <4>2
    <3> QED  BY <3>1, <3>2
  <2>3. \A i \in 1..l : stay[e[i].run] = "told"
    BY <1>1, <1>3 DEF EpisodesOrdered, e
  <2>4. \A i \in 1..(l + 1) : i \in 1..l \/ i = l + 1
    BY <1>3
  <2>5. \A i \in DOMAIN f : stay'[f[i].run] = "told"
    BY <1>2, <1>3, <1>7, <2>3, <2>4
  <2>6. ASSUME NEW i \in DOMAIN f, NEW j \in DOMAIN f, i < j,
               NEW x, x = f[j].run, NEW y, y = f[i].run
        PROVE  WrittenAfter(x, y)'
    <3>1. i \in 1..l /\ y = e[i].run
      BY <1>3, <1>7, <2>6
    <3>2. CASE j \in 1..l
      <4>1. x = e[j].run
        BY <1>7, <2>6, <3>2
      <4>2. WrittenAfter(x, y)
        BY <1>1, <1>3, <2>6, <3>1, <3>2, <4>1 DEF EpisodesOrdered, e
      <4> QED  BY <1>11, <4>2
    <3>3. CASE j = l + 1
      <4>1. x = v /\ y \in Stays /\ stay[y] = "told"
        BY <1>3, <1>7, <2>3, <2>6, <3>1, <3>3
      <4> QED  BY <1>13, <4>1
    <3> QED  BY <1>7, <2>4, <3>2, <3>3
  <2>7. (\A i, j \in DOMAIN memory.episode :
           i < j => WrittenAfter(memory.episode[j].run, memory.episode[i].run))'
    BY <2>6 DEF f
  <2> QED  BY <2>1, <2>2, <2>5, <2>7 DEF EpisodesOrdered, f
<1>15. EpisodesGiven'
  BY <1>1, <1>11 DEF EpisodesGiven
<1>16. BeginningGiven'
  BY <1>1, <1>6 DEF BeginningGiven
<1> QED  BY <1>8, <1>9, <1>10, <1>14, <1>15, <1>16 DEF MemoryInv

LEMMA MemoryStarts ==
  ASSUME PersonaMemoryAssumption, MemoryInit
  PROVE  MemoryInv
<1>1. /\ items \in Nat /\ memory = [backfill |-> << >>, episode |-> << >>]
      /\ teller = [x \in Everyone |-> Untold] /\ stay = [v \in Stays |-> "new"]
      /\ remembered = [chunks |-> << >>, episodes |-> << >>, there |-> {}]
      /\ broken = {} /\ finished = << >> /\ late = {}
  BY DEF MemoryInit, PersonaMemoryAssumption
<1>2. /\ Untold.step = "new" /\ Untold.chunks = << >> /\ Untold.told = 0 /\ Untold.raced = FALSE
      /\ Untold \in Tellings
  BY DEF Untold, Tellings
<1> HIDE DEF Untold
<1>3. MemoryTyped
  <2>1. /\ memory \in [backfill : Seq(ChunkRows), episode : Seq([run : Stays])]
        /\ remembered \in [chunks : Seq(ChunkRows), episodes : Seq([run : Stays]), there : SUBSET Stays]
        /\ finished \in Seq(Stays)
    BY <1>1
  <2>2. teller \in [Everyone -> Tellings] /\ stay \in [Stays -> Stages]
    BY <1>1, <1>2 DEF Stages
  <2> QED  BY <1>1, <2>1, <2>2 DEF MemoryTyped
<1>4. \A x : ChunksOf(x) = {}
  BY <1>1 DEF ChunksOf
<1>5. \A x \in Everyone : Telling(x)
  <2> TAKE x \in Everyone
  <2>1. teller[x] = Untold /\ ChunksOf(x) = {}
    BY <1>1, <1>4
  <2>2. Cardinality(ChunksOf(x)) = 0 /\ Len(teller[x].chunks) = 0
    BY <1>2, <2>1, FS_EmptySet
  <2>3. teller[x].told = 0 /\ teller[x].step = "new" /\ teller[x].chunks = << >>
        /\ ~ teller[x].raced
    BY <1>2, <2>1
  <2> QED  BY <2>2, <2>3 DEF Telling
<1>6. \A k \in DOMAIN memory.backfill : ChunkIs(k)
  BY <1>1
<1>7. Raced
  BY <1>1, <1>2 DEF Raced, Engaged
<1>8. Begun
  BY <1>1, <1>2 DEF Begun, Everyone
<1>9. EpisodesOrdered
  BY <1>1 DEF EpisodesOrdered
<1>10. BeginningGiven /\ EpisodesGiven
  BY <1>1 DEF BeginningGiven, EpisodesGiven
<1> QED  BY <1>3, <1>5, <1>6, <1>7, <1>8, <1>9, <1>10 DEF MemoryInv, TellingsSound

LEMMA MemoryStep ==
  ASSUME PersonaMemoryAssumption, MemoryInv, [MemoryNext]_memoryVars
  PROVE  MemoryInv'
<1>1. CASE UNCHANGED memoryVars
  <2>1. UNCHANGED <<items, memory, teller, stay, remembered, broken, finished, late>>
    BY <1>1 DEF memoryVars
  <2>2. /\ MemoryTyped /\ TellingsSound /\ Begun /\ EpisodesOrdered /\ BeginningGiven /\ EpisodesGiven
    BY DEF MemoryInv
  <2>3. MemoryTyped' /\ Begun' /\ BeginningGiven'
    BY <2>1, <2>2 DEF MemoryTyped, Begun, BeginningGiven
  <2>4. TellingsSound'
    BY <2>1, <2>2, TellingsStay
  <2>5. EpisodesOrdered' /\ EpisodesGiven'
    BY <2>1, <2>2 DEF EpisodesOrdered, EpisodesGiven, WrittenAfter
  <2> QED  BY <2>3, <2>4, <2>5 DEF MemoryInv
<1>2. CASE \E x \in Tellers : Tell(x)
  BY <1>2, TellKeeps
<1>3. CASE \E x \in Everyone : TellOn(x) \/ BreakOff(x)
  BY <1>3, TellOnKeeps, BreakOffKeeps
<1>4. CASE \E v \in Stays : Arrive(v) \/ Prepare(v)
  BY <1>4, ArriveKeeps, PrepareKeeps
<1>5. CASE \E v \in Stays : VisitFails(v) \/ Summarize(v) \/ SummaryLost(v)
  BY <1>5, EndsWithoutKeeps, SummarizeKeeps
<1>6. CASE \E v \in Stays : \E wrote \in 0..1 : Complete(v, wrote)
  BY <1>6, CompleteKeeps
<1> QED  BY <1>1, <1>2, <1>3, <1>4, <1>5, <1>6 DEF MemoryNext

-----------------------------------------------------------------------------
(* A persona's memory: what the invariant says *)

\* A row and the telling it belongs to.
LEMMA RowIs ==
  ASSUME MemoryTyped, TellingsSound, PersonaMemoryAssumption, NEW k \in DOMAIN memory.backfill,
         NEW x, x = memory.backfill[k].by
  PROVE  /\ x \in Everyone /\ Engaged(x) /\ k \in ChunksOf(x)
         /\ memory.backfill[k].items \in SUBSET Nat
         /\ teller[x].had \in Nat /\ teller[x].chunks = Chunks(teller[x].had)
         /\ memory.backfill[k].number \in 1..Len(teller[x].chunks)
         /\ memory.backfill[k].items = teller[x].chunks[memory.backfill[k].number]
         /\ memory.backfill[k].of = Len(teller[x].chunks)
         /\ memory.backfill[k].number = Cardinality({j \in ChunksOf(x) : j < k}) + 1
         /\ \A j \in ChunksOf(x) : j < k => memory.backfill[j].number < memory.backfill[k].number
<1>1. memory.backfill[k] \in ChunkRows /\ ChunkIs(k)
  BY BackfillIs DEF TellingsSound
<1>2. x \in Everyone /\ memory.backfill[k].items \in SUBSET Nat /\ k \in ChunksOf(x)
  BY <1>1 DEF ChunkRows, ChunksOf
<1>3. teller[x] \in Tellings /\ Telling(x)
  BY <1>2 DEF MemoryTyped, TellingsSound
<1>4. /\ memory.backfill[k].number \in 1..teller[x].told
      /\ memory.backfill[k].of = Len(teller[x].chunks)
      /\ memory.backfill[k].items = teller[x].chunks[memory.backfill[k].number]
      /\ memory.backfill[k].number = Cardinality({j \in ChunksOf(x) : j < k}) + 1
      /\ \A j \in ChunksOf(x) : j < k => memory.backfill[j].number < memory.backfill[k].number
  BY <1>1 DEF ChunkIs
<1>5. /\ teller[x].told \in Nat /\ teller[x].chunks \in Seq(SUBSET Nat) /\ teller[x].had \in Nat
      /\ teller[x].told <= Len(teller[x].chunks)
  BY <1>3 DEF Tellings, Telling
<1>6. teller[x].told # 0 /\ Len(teller[x].chunks) \in Nat
      /\ memory.backfill[k].number \in 1..Len(teller[x].chunks)
  <2> DEFINE l == Len(teller[x].chunks)
             told == teller[x].told
             n == memory.backfill[k].number
  <2>1. l \in Nat /\ told \in Nat /\ told <= l /\ n \in 1..told
    BY <1>4, <1>5
  <2> HIDE DEF l, told, n
  <2>2. told # 0 /\ n \in 1..l
    BY <2>1
  <2> QED  BY <2>1, <2>2 DEF l, told, n
<1>7. teller[x].chunks # << >>
  BY <1>6
<1>8. teller[x].chunks = Chunks(teller[x].had)
  BY <1>3, <1>7 DEF Telling
<1> QED  BY <1>2, <1>4, <1>5, <1>6, <1>8 DEF Engaged

\* Of two rows of one telling, the later tells of later items.
LEMMA RowsInOrder ==
  ASSUME MemoryTyped, TellingsSound, PersonaMemoryAssumption,
         NEW j \in DOMAIN memory.backfill, NEW k \in DOMAIN memory.backfill, j < k,
         memory.backfill[j].by = memory.backfill[k].by,
         NEW h \in memory.backfill[j].items, NEW i \in memory.backfill[k].items
  PROVE  h < i
<1> DEFINE x == memory.backfill[k].by
           n == teller[x].had
           a == memory.backfill[j].number
           b == memory.backfill[k].number
<1>1. /\ j \in ChunksOf(x) /\ n \in Nat /\ teller[x].chunks = Chunks(n)
      /\ a \in 1..Len(teller[x].chunks) /\ memory.backfill[j].items = teller[x].chunks[a]
  BY RowIs
<1>2. /\ b \in 1..Len(teller[x].chunks) /\ memory.backfill[k].items = teller[x].chunks[b]
      /\ a < b
  BY <1>1, RowIs
<1> HIDE DEF x, n, a, b
<1> QED  BY <1>1, <1>2, ChunksAre

LEMMA MemoryIsToldOnce ==
  ASSUME MemoryTyped, TellingsSound, PersonaMemoryAssumption
  PROVE  ToldOnce
<1> SUFFICES ASSUME NEW i \in DOMAIN memory.backfill, NEW j \in DOMAIN memory.backfill, i < j,
                    memory.backfill[i].items \cap memory.backfill[j].items # {}
             PROVE  teller[memory.backfill[i].by].raced /\ teller[memory.backfill[j].by].raced
  BY DEF ToldOnce
<1>1. PICK h : h \in memory.backfill[i].items /\ h \in memory.backfill[j].items
  OBVIOUS
<1>2. memory.backfill[i].by # memory.backfill[j].by
  <2> SUFFICES ASSUME memory.backfill[i].by = memory.backfill[j].by PROVE FALSE
    OBVIOUS
  <2>1. h < h
    BY <1>1, RowsInOrder
  <2>2. h \in Nat
    BY <1>1, RowIs
  <2> QED  BY <2>1, <2>2
<1>3. /\ memory.backfill[i].by \in Everyone /\ Engaged(memory.backfill[i].by)
      /\ memory.backfill[j].by \in Everyone /\ Engaged(memory.backfill[j].by)
  BY RowIs
<1> QED  BY <1>2, <1>3 DEF TellingsSound, Raced

LEMMA MemoryIsToldWhole ==
  ASSUME MemoryTyped, TellingsSound, PersonaMemoryAssumption
  PROVE  ToldWhole
<1> SUFFICES ASSUME NEW x \in Everyone
             PROVE  /\ \A k \in ChunksOf(x) :
                         LET before == {j \in ChunksOf(x) : j < k}
                         IN /\ memory.backfill[k].number = Cardinality(before) + 1
                            /\ \A j \in before :
                                 \A h \in memory.backfill[j].items, i \in memory.backfill[k].items : h < i
                    /\ teller[x].chunks # << >> /\ teller[x].step = "over" /\ x \notin broken =>
                         /\ \A k \in ChunksOf(x) : memory.backfill[k].of = Cardinality(ChunksOf(x))
                         /\ \A n \in 1..teller[x].had : n \in ItemsOf(x) \/ n > ChunkSize * MaxChunks
  BY DEF ToldWhole
<1>1. \A k \in ChunksOf(x) : k \in DOMAIN memory.backfill /\ memory.backfill[k].by = x
  BY DEF ChunksOf
<1>2. ASSUME NEW k \in ChunksOf(x)
      PROVE  memory.backfill[k].number = Cardinality({j \in ChunksOf(x) : j < k}) + 1
             /\ memory.backfill[k].of = Len(teller[x].chunks)
  BY <1>1, RowIs
<1>3. ASSUME NEW k \in ChunksOf(x), NEW j \in ChunksOf(x), j < k,
             NEW h \in memory.backfill[j].items, NEW i \in memory.backfill[k].items
      PROVE  h < i
  BY <1>1, <1>3, RowsInOrder
<1>4. ASSUME teller[x].chunks # << >>, teller[x].step = "over", x \notin broken
      PROVE  /\ \A k \in ChunksOf(x) : memory.backfill[k].of = Cardinality(ChunksOf(x))
             /\ \A n \in 1..teller[x].had : n \in ItemsOf(x) \/ n > ChunkSize * MaxChunks
  <2>1. /\ teller[x].told = Cardinality(ChunksOf(x)) /\ teller[x].told = Len(teller[x].chunks)
        /\ teller[x].chunks = Chunks(teller[x].had) /\ teller[x].had \in Nat
        /\ \A n \in 1..teller[x].told : \E k \in ChunksOf(x) : memory.backfill[k].number = n
    <3>1. Telling(x) /\ teller[x] \in Tellings
      BY DEF TellingsSound, MemoryTyped
    <3> QED  BY <1>4, <3>1 DEF Telling, Tellings
  <2>2. ASSUME NEW n \in 1..teller[x].had, ~ (n > ChunkSize * MaxChunks)
        PROVE  n \in ItemsOf(x)
    <3>1. PICK m \in 1..Len(teller[x].chunks) : n \in teller[x].chunks[m]
      BY <2>1, <2>2, ChunksAre
    <3>2. PICK k \in ChunksOf(x) : memory.backfill[k].number = m
      BY <2>1
    <3>3. n \in memory.backfill[k].items
      BY <1>1, <3>1, <3>2, RowIs
    <3> QED  BY <3>3 DEF ItemsOf
  <2> QED  BY <1>2, <2>1, <2>2
<1> QED  BY <1>2, <1>3, <1>4

LEMMA EpisodesAreRemembered ==
  ASSUME MemoryTyped, EpisodesGiven
  PROVE  EpisodesRemembered
<1> DEFINE e == remembered.episodes
           given == [i \in DOMAIN e |-> e[i].run]
<1>1. e \in Seq([run : Stays]) /\ Len(e) \in Nat /\ DOMAIN e = 1..Len(e)
      /\ \A i \in 1..Len(e) : e[i].run \in Stays
  BY EpisodesAre
<1>2. DOMAIN given = 1..Len(e) /\ \A i \in 1..Len(e) : given[i] = e[i].run
  BY <1>1
<1>3. given \in Seq(Stays) /\ Len(given) = Len(e)
  <2>1. given = [i \in 1..Len(e) |-> given[i]]
    BY <1>1
  <2> HIDE DEF given, e
  <2>2. given \in [1..Len(e) -> Stays]
    BY <1>1, <1>2, <2>1
  <2> QED  BY <1>1, <1>2, <2>2
<1>4. ToSet(given) = {given[i] : i \in 1..Len(e)}
  BY <1>2 DEF ToSet
<1> HIDE DEF given
<1>5. /\ \A w \in remembered.there :
           \/ \E i \in 1..Len(e) : e[i].run = w
           \/ Len(e) = PromptEpisodes /\ \A i \in 1..Len(e) : WrittenAfter(e[i].run, w)
      /\ \A i, j \in 1..Len(e) : i < j => WrittenAfter(e[j].run, e[i].run)
  BY DEF EpisodesGiven
<1>6. ASSUME NEW w \in remembered.there \ ToSet(given)
      PROVE  Len(given) = PromptEpisodes /\ \A v \in ToSet(given) : WrittenAfter(v, w)
  <2>1. ~ \E i \in 1..Len(e) : e[i].run = w
    BY <1>2, <1>4, <1>6
  <2>2. Len(e) = PromptEpisodes /\ \A i \in 1..Len(e) : WrittenAfter(e[i].run, w)
    BY <1>5, <1>6, <2>1
  <2> QED  BY <1>2, <1>3, <1>4, <2>2
<1>7. \A i, j \in DOMAIN given : i < j => WrittenAfter(given[j], given[i])
  BY <1>2, <1>5
<1> QED  BY <1>6, <1>7 DEF EpisodesRemembered, given

LEMMA HistoryIsRemembered ==
  ASSUME MemoryTyped, TellingsSound, BeginningGiven, PersonaMemoryAssumption
  PROVE  HistoryRemembered
<1> SUFFICES ASSUME \A x \in Everyone : ~ teller[x].raced, NEW k \in DOMAIN remembered.chunks
             PROVE  /\ remembered.chunks[k].number = k
                    /\ remembered.chunks[k].by = remembered.chunks[1].by
  BY DEF HistoryRemembered
<1> DEFINE b == memory.backfill
           x == b[k].by
<1>1. /\ Len(b) \in Nat /\ DOMAIN b = 1..Len(b)
      /\ Len(remembered.chunks) \in Nat /\ DOMAIN remembered.chunks = 1..Len(remembered.chunks)
  <2>1. remembered.chunks \in Seq(ChunkRows)
    BY DEF MemoryTyped
  <2> QED  BY <2>1, BackfillIs
<1>2. /\ k \in 1..Len(b) /\ 1 \in 1..Len(b) /\ k \in Nat
      /\ remembered.chunks[k] = b[k] /\ remembered.chunks[1] = b[1]
  <2>1. Len(remembered.chunks) <= Len(b)
        /\ \A i \in DOMAIN remembered.chunks : remembered.chunks[i] = b[i]
    BY DEF BeginningGiven
  <2>2. 1 \in DOMAIN remembered.chunks /\ k \in 1..Len(b) /\ 1 \in 1..Len(b) /\ k \in Nat
    BY <1>1, <2>1
  <2> QED  BY <2>1, <2>2
<1>3. \A j \in 1..Len(b) : b[j].by \in Everyone /\ Engaged(b[j].by)
  BY <1>1, RowIs
<1>4. \A j \in 1..Len(b) : b[j].by = x
  BY <1>2, <1>3 DEF TellingsSound, Raced
<1>5. b[k].number = Cardinality({j \in ChunksOf(x) : j < k}) + 1
  BY <1>1, <1>2, RowIs
<1> HIDE DEF x
<1>6. PICK m \in Nat : k = m + 1
  <2>1. k - 1 \in Nat /\ k = (k - 1) + 1
    BY <1>2
  <2> QED  BY <2>1
<1>7. {j \in ChunksOf(x) : j < k} = 1..m
  <2>1. ChunksOf(x) = 1..Len(b)
    BY <1>1, <1>4 DEF ChunksOf
  <2> QED  BY <1>1, <1>2, <1>6, <2>1
<1>8. Cardinality(1..m) = m
  <2> DEFINE c == Cardinality(1..m)
  <2>1. c = IF 1 > m THEN 0 ELSE m - 1 + 1
    BY FS_Interval
  <2> HIDE DEF c
  <2>2. c = m
    BY <2>1
  <2> QED  BY <2>2 DEF c
<1>9. b[k].number = k
  BY <1>5, <1>6, <1>7, <1>8
<1> QED  BY <1>2, <1>4, <1>9

LEMMA MemoryInvariance == MemorySpec => []MemoryInv
<1>1. MemoryInit => MemoryInv
  BY MemoryStarts, PersonaMemoryAssumption
<1>2. MemoryInv /\ [MemoryNext]_memoryVars => MemoryInv'
  BY MemoryStep, PersonaMemoryAssumption
<1> QED  BY <1>1, <1>2, PTL DEF MemorySpec

\* A persona's memory is sound (agents/memory.py): its history is told once, unless
\* two looked before either had committed; whole and in order, unless it broke off;
\* a visit is given the beginning of one telling, and the latest episodes in the
\* order of the visits, but for those that were written late.
THEOREM MemoryStaysSound == MemorySpec => [](MemoryTypeOK /\ MemorySound)
<1>1. MemoryInv => MemoryTypeOK
  <2> SUFFICES ASSUME MemoryInv PROVE MemoryTypeOK
    OBVIOUS
  <2>1. MemoryTyped
    BY DEF MemoryInv
  <2>2. /\ \A x \in Everyone : teller[x].step \in {"new", "telling", "over"}
        /\ \A k \in DOMAIN memory.backfill : memory.backfill[k].by \in Everyone
    <3>1. \A x \in Everyone : teller[x] \in Tellings
      BY <2>1 DEF MemoryTyped
    <3>2. \A k \in DOMAIN memory.backfill : memory.backfill[k] \in ChunkRows
      BY <2>1, BackfillIs
    <3> QED  BY <3>1, <3>2 DEF Tellings, ChunkRows
  <2>3. \A v \in Stays : stay[v] \in Stages
    BY <2>1 DEF MemoryTyped
  <2>4. items \in Nat /\ \A k \in DOMAIN memory.episode : memory.episode[k].run \in Stays
    BY <2>1, EpisodesAre DEF MemoryTyped
  <2> QED  BY <2>2, <2>3, <2>4 DEF MemoryTypeOK, Stages
<1>2. MemoryInv => MemorySound
  BY PersonaMemoryAssumption, MemoryIsToldOnce, MemoryIsToldWhole, EpisodesAreRemembered,
     HistoryIsRemembered DEF MemoryInv, MemorySound
<1> QED  BY <1>1, <1>2, MemoryInvariance, PTL

-----------------------------------------------------------------------------
(* A job's log: its invariant *)

LogCallers == [step : {"idle", "walking", "emitting", "numbering", "writing"}, record : Nat,
            at : Nat, job : LogJobs \cup {0}, batch : Seq(Nat), top : Nat]
Handlers == [buffer : Seq(Nat), flushing : BOOLEAN, lock : LogJobs \cup {0}]
LogRows == [seq : Nat, record : Nat]

LogTyped ==
  /\ attached \in Seq(LogJobs)
  /\ running \in [LogJobs -> {"new", "running", "detached", "over"}]
  /\ handler \in [LogJobs -> Handlers]
  /\ caller \in [LogJobs -> LogCallers]
  /\ logged \in [LogJobs -> SUBSET LogRows]
  /\ \A j \in LogJobs : \E m \in Nat : \A r \in logged[j] : r.seq <= m
  /\ records \in Nat
  /\ offered \in [LogJobs -> Seq(Nat)]
  /\ unwritten \in [LogJobs -> SUBSET Nat]
  /\ \A t \in LogJobs :
       /\ caller[t].step \in {"emitting", "numbering", "writing"} => caller[t].job \in LogJobs
       /\ caller[t].step \in {"numbering", "writing"} => caller[t].batch # << >>
       /\ caller[t].step = "walking" => caller[t].at > 0

NotPut(r, j) == \A p \in DOMAIN offered[j] : offered[j][p] # r

\* A record is passed on by one thread, and put into a buffer once.
RecordsDistinct ==
  /\ \A t \in LogJobs : caller[t].record <= records
  /\ \A t \in LogJobs : caller[t].step \in {"walking", "emitting"} => caller[t].record > 0
  /\ \A t, u \in LogJobs : t # u /\ caller[t].record = caller[u].record => caller[t].record = 0
  /\ \A j \in LogJobs : \A p \in DOMAIN offered[j] : offered[j][p] \in 1..records
  /\ \A j \in LogJobs : \A p, q \in DOMAIN offered[j] : offered[j][p] = offered[j][q] => p = q

\* The first place in the list that a walk has not passed.
Place(t) == IF caller[t].step = "walking" THEN caller[t].at ELSE caller[t].at + 1

\* What a handler has been given is behind the walk that gave it.
Walking ==
  /\ \A i, k \in DOMAIN attached : attached[i] = attached[k] => i = k
  /\ \A i \in DOMAIN attached : running[attached[i]] = "running"
  /\ \A j \in LogJobs : running[j] = "new" => offered[j] = << >>
  /\ \A t \in LogJobs : \A i \in DOMAIN attached : i >= Place(t) => NotPut(caller[t].record, attached[i])
  /\ \A t \in LogJobs : caller[t].step \in {"numbering", "writing"} /\ caller[t].record = 0 =>
       running[t] = "detached"
  /\ \A t \in LogJobs : caller[t].step = "emitting" =>
       /\ NotPut(caller[t].record, caller[t].job)
       /\ running[caller[t].job] # "new"
       /\ \A i \in DOMAIN attached : i >= Place(t) => attached[i] # caller[t].job

\* The log of j has come to n, q is the batch under way: what was put into the buffer
\* is told, or in the batch, or still in the buffer, in this order.
Comes(j, n, q) ==
  /\ Len(offered[j]) = n + Len(q) + Len(handler[j].buffer)
  /\ \A i \in DOMAIN q : offered[j][n + i] = q[i]
  /\ \A i \in DOMAIN handler[j].buffer : offered[j][n + Len(q) + i] = handler[j].buffer[i]
  /\ ToldUpTo(j, n)
  /\ \A r \in unwritten[j] : \E p \in 1..n : offered[j][p] = r

ToldInTurn(j) ==
  /\ \A t, u \in Writing(j) : t = u
  /\ Writing(j) = {} => \E n \in 0..Len(offered[j]) : Comes(j, n, << >>)
  /\ \A t \in Writing(j) :
       /\ \E n \in 0..Len(offered[j]), q \in {caller[t].batch} : Comes(j, n, q)
       /\ caller[t].step = "writing" => caller[t].top = Highest(j)

LogInv ==
  LogTyped /\ RecordsDistinct /\ Walking /\ \A j \in LogJobs \ twoFlushes : ToldInTurn(j)

-----------------------------------------------------------------------------
(* A job's log: what is told *)

LEMMA MaxIs ==
  ASSUME NEW S \in SUBSET Int, NEW m \in S, \A y \in S : y <= m
  PROVE  Max(S) = m
<1>1. \A y \in S : m >= y
  OBVIOUS
<1>2. \A x \in S : (\A y \in S : x >= y) => x = m
  BY <1>1
<1> QED  BY <1>1, <1>2 DEF Max

\* How far a place is from the end of those that are due.
FromEnd(D, p) == Cardinality({q \in D : p <= q})

LEMMA PlacesFromEnd ==
  ASSUME NEW n \in Nat, NEW D \in SUBSET (1..n), NEW p \in Int
  PROVE  IsFiniteSet({q \in D : p <= q}) /\ FromEnd(D, p) \in Nat /\ (p \in D => FromEnd(D, p) >= 1)
<1>1. IsFiniteSet({q \in D : p <= q})
  <2>1. 1 \in Int /\ n \in Int
    OBVIOUS
  <2>2. IsFiniteSet(1..n)
    BY <2>1, FS_Interval
  <2>3. {q \in D : p <= q} \subseteq 1..n
    OBVIOUS
  <2> QED  BY <2>2, <2>3, FS_Subset
<1>2. Cardinality({q \in D : p <= q}) \in Nat
  BY <1>1, FS_CardinalityType
<1>3. ASSUME p \in D PROVE Cardinality({q \in D : p <= q}) >= 1
  <2>1. p \in {q \in D : p <= q}
    BY <1>3
  <2>2. {q \in D : p <= q} # {}
    BY <2>1
  <2>3. Cardinality({q \in D : p <= q}) # 0
    BY <1>1, <2>2, FS_EmptySet
  <2> QED  BY <1>2, <2>3
<1> QED  BY <1>1, <1>2, <1>3 DEF FromEnd

\* With m more at the end, each is m farther from it.
LEMMA FartherFromEnd ==
  ASSUME NEW n \in Nat, NEW m \in Nat, NEW D \in SUBSET (1..n)
  PROVE  /\ \A p \in D : FromEnd(D \cup (n + 1..n + m), p) = FromEnd(D, p) + m
         /\ \A i \in 1..m : FromEnd(D \cup (n + 1..n + m), n + i) = m + 1 - i
<1> DEFINE E == D \cup (n + 1..n + m)
<1>1. \A a, b \in Int : IsFiniteSet(a..b) /\ Cardinality(a..b) = IF a > b THEN 0 ELSE b - a + 1
  BY FS_Interval
<1>2. ASSUME NEW p \in D
      PROVE  Cardinality({q \in E : p <= q}) = Cardinality({q \in D : p <= q}) + m
  <2> DEFINE A == {q \in D : p <= q}
             B == n + 1..n + m
  <2>1. {q \in E : p <= q} = A \cup B /\ A \cap B = {}
    <3>1. \A q \in D : q \in 1..n /\ ~ (n < q)
      OBVIOUS
    <3>2. \A q \in B : q \in Int /\ n < q /\ p <= q
      BY <3>1
    <3>3. \A q : q \in E <=> q \in D \/ q \in B
      OBVIOUS
    <3> HIDE DEF B
    <3>4. \A q : q \in {e \in E : p <= e} <=> q \in A \cup B
      BY <3>2, <3>3
    <3>5. \A q \in D : q \notin B
      BY <3>1, <3>2
    <3> QED  BY <3>4, <3>5
  <2>2. IsFiniteSet(A) /\ Cardinality(A) \in Nat
    <3>1. p \in Int
      OBVIOUS
    <3> QED  BY <3>1, PlacesFromEnd DEF FromEnd
  <2>3. IsFiniteSet(B) /\ Cardinality(B) = m
    <3> DEFINE c == Cardinality(B)
    <3>1. n + 1 \in Int /\ n + m \in Int
      OBVIOUS
    <3>2. IsFiniteSet(B) /\ c = IF n + 1 > n + m THEN 0 ELSE (n + m) - (n + 1) + 1
      BY <1>1, <3>1
    <3> HIDE DEF c
    <3>3. c = m
      BY <3>2
    <3> QED  BY <3>2, <3>3 DEF c
  <2>4. Cardinality(A \cup B) = Cardinality(A) + m
    <3> HIDE DEF A, B
    <3>1. Cardinality(A \cap B) = 0
      BY <2>1, FS_EmptySet
    <3>2. Cardinality(A \cup B) = Cardinality(A) + Cardinality(B) - Cardinality(A \cap B)
      BY <2>2, <2>3, FS_Union
    <3> QED  BY <2>2, <2>3, <3>1, <3>2
  <2> QED  BY <2>1, <2>4
<1>3. ASSUME NEW i \in 1..m PROVE Cardinality({q \in E : n + i <= q}) = m + 1 - i
  <2>1. {q \in E : n + i <= q} = n + i..n + m
    <3>1. \A q \in D : q \in 1..n /\ ~ (n + i <= q)
      OBVIOUS
    <3>2. \A q : q \in n + i..n + m <=> q \in n + 1..n + m /\ n + i <= q
      OBVIOUS
    <3> QED  BY <3>1, <3>2
  <2> DEFINE c == Cardinality(n + i..n + m)
  <2>2. n + i \in Int /\ n + m \in Int
    OBVIOUS
  <2>3. c = IF n + i > n + m THEN 0 ELSE (n + m) - (n + i) + 1
    BY <1>1, <2>2
  <2> HIDE DEF c
  <2>4. c = m + 1 - i
    BY <2>3
  <2> QED  BY <2>1, <2>4 DEF c
<1> QED  BY <1>2, <1>3 DEF FromEnd

\* What is told of the first n stays told, whatever comes behind them.
LEMMA ToldStays ==
  ASSUME NEW j, NEW n \in Nat, ToldUpTo(j, n), logged'[j] = logged[j],
         \A p \in 1..n : /\ offered'[j][p] = offered[j][p]
                         /\ offered[j][p] \in unwritten'[j] <=> offered[j][p] \in unwritten[j]
  PROVE  ToldUpTo(j, n)'
<1> DEFINE due == {p \in 1..n : offered[j][p] \notin unwritten[j]}
           Rank(p) == Cardinality({q \in due : p <= q})
<1>1. logged[j] = {[seq |-> Highest(j) + 1 - Rank(p), record |-> offered[j][p]] :
                     p \in {q \in due : Rank(q) <= MaxLines}}
  BY DEF ToldUpTo
<1>2. Highest(j)' = Highest(j)
  BY DEF Highest
<1>3. {p \in 1..n : offered'[j][p] \notin unwritten'[j]} = due
  OBVIOUS
<1>4. \A p \in due : offered'[j][p] = offered[j][p]
  OBVIOUS
<1> HIDE DEF due
<1>5. logged'[j] = {[seq |-> Highest(j)' + 1 - Rank(p), record |-> offered'[j][p]] :
                     p \in {q \in due : Rank(q) <= MaxLines}}
  BY <1>1, <1>2, <1>4
<1> QED  BY <1>3, <1>5 DEF ToldUpTo

\* A batch that was lost was not due.
LEMMA ToldWithout ==
  ASSUME NEW j, NEW n \in Nat, NEW m \in Nat, ToldUpTo(j, n), logged'[j] = logged[j],
         \A p \in 1..n + m : offered'[j][p] = offered[j][p],
         \A p \in 1..n : offered[j][p] \in unwritten'[j] <=> offered[j][p] \in unwritten[j],
         \A p \in n + 1..n + m : offered[j][p] \in unwritten'[j]
  PROVE  \A l \in Nat : l = n + m => ToldUpTo(j, l)'
<1> SUFFICES ASSUME NEW l \in Nat, l = n + m PROVE ToldUpTo(j, l)'
  OBVIOUS
<1> DEFINE due == {p \in 1..n : offered[j][p] \notin unwritten[j]}
           Rank(p) == Cardinality({q \in due : p <= q})
<1>1. logged[j] = {[seq |-> Highest(j) + 1 - Rank(p), record |-> offered[j][p]] :
                     p \in {q \in due : Rank(q) <= MaxLines}}
  BY DEF ToldUpTo
<1>2. Highest(j)' = Highest(j)
  BY DEF Highest
<1>3. {p \in 1..l : offered'[j][p] \notin unwritten'[j]} = due
  <2>1. \A p \in 1..l : p \in 1..n \/ p \in n + 1..n + m
    OBVIOUS
  <2>2. \A p \in 1..n : p \in 1..l
    OBVIOUS
  <2> QED  BY <2>1, <2>2
<1>4. \A p \in due : offered'[j][p] = offered[j][p]
  OBVIOUS
<1> HIDE DEF due
<1>5. logged'[j] = {[seq |-> Highest(j)' + 1 - Rank(p), record |-> offered'[j][p]] :
                     p \in {q \in due : Rank(q) <= MaxLines}}
  BY <1>1, <1>2, <1>4
<1> QED  BY <1>3, <1>5 DEF ToldUpTo

\* A batch that is written is told behind what was told, numbered on from the highest.
LEMMA ToldMore ==
  ASSUME NEW j, NEW n \in Nat, NEW q \in Seq(Nat), ToldUpTo(j, n), MaxLines \in Nat,
         Highest(j) \in Nat, q # << >>,
         logged'[j] = Capped(logged[j] \cup
                        {[seq |-> Highest(j) + i, record |-> q[i]] : i \in DOMAIN q}, Highest(j) + Len(q)),
         \A p \in 1..n + Len(q) : offered'[j][p] = offered[j][p],
         \A i \in DOMAIN q : offered[j][n + i] = q[i] /\ q[i] \notin unwritten[j],
         unwritten'[j] = unwritten[j]
  PROVE  \A l \in Nat : l = n + Len(q) => ToldUpTo(j, l)'
<1> SUFFICES ASSUME NEW l \in Nat, l = n + Len(q) PROVE ToldUpTo(j, l)'
  OBVIOUS
<1> DEFINE D == {p \in 1..n : offered[j][p] \notin unwritten[j]}
           E == {p \in 1..l : offered'[j][p] \notin unwritten'[j]}
           F(p) == FromEnd(D, p)
           G(p) == FromEnd(E, p)
           m == Len(q)
           top == Highest(j)
           last == top + m
           new == {[seq |-> top + i, record |-> q[i]] : i \in DOMAIN q}
           R == {[seq |-> last + 1 - G(p), record |-> offered'[j][p]] : p \in {x \in E : G(x) <= MaxLines}}
<1>1. m \in Nat /\ m # 0 /\ DOMAIN q = 1..m /\ \A i \in 1..m : q[i] \in Nat
  OBVIOUS
<1>2. logged[j] = {[seq |-> top + 1 - F(p), record |-> offered[j][p]] : p \in {x \in D : F(x) <= MaxLines}}
  BY DEF ToldUpTo, FromEnd
<1>3. logged'[j] = {r \in logged[j] \cup new : r.seq > last - MaxLines}
  BY DEF Capped
<1>4. E = D \cup (n + 1..n + m)
  <2>1. ASSUME NEW p \in 1..n PROVE p \in E <=> p \in D
    BY <1>1, <2>1
  <2>2. ASSUME NEW p \in n + 1..n + m PROVE p \in E
    <3>1. p - n \in 1..m /\ n + (p - n) = p /\ p \in 1..l
      BY <1>1
    <3>2. offered[j][p] = q[p - n] /\ q[p - n] \notin unwritten[j]
      BY <1>1, <3>1
    <3> QED  BY <3>1, <3>2
  <2>3. \A p \in 1..l : p \in 1..n \/ p \in n + 1..n + m
    BY <1>1
  <2>4. \A p \in E : p \in 1..l
    OBVIOUS
  <2>5. \A p \in D : p \in 1..n
    OBVIOUS
  <2> HIDE DEF D, E
  <2> QED  BY <2>1, <2>2, <2>3, <2>4, <2>5
<1>5. D \in SUBSET (1..n) /\ D \in SUBSET E
      /\ \A p \in D : p \in Int /\ offered'[j][p] = offered[j][p]
  BY <1>1, <1>4
<1>6. \A i \in 1..m : n + i \in E /\ offered'[j][n + i] = q[i]
  <2> TAKE i \in 1..m
  <2>1. n + i \in n + 1..n + m /\ n + i \in 1..n + m
    BY <1>1
  <2>2. offered'[j][n + i] = offered[j][n + i] /\ offered[j][n + i] = q[i]
    BY <1>1, <2>1
  <2> HIDE DEF D, E
  <2> QED  BY <1>4, <2>1, <2>2
<1>7. \A p \in E : p \in D \/ \E i \in 1..m : p = n + i
  <2>1. \A p \in n + 1..n + m : p - n \in 1..m /\ p = n + (p - n)
    BY <1>1
  <2> HIDE DEF D, E
  <2> QED  BY <1>4, <2>1
<1>8. top \in Nat /\ last \in Nat
  BY <1>1
<1> HIDE DEF D, E, m, top
<1>0. /\ \A p \in D : FromEnd(E, p) = FromEnd(D, p) + m
      /\ \A i \in 1..m : FromEnd(E, n + i) = m + 1 - i
  <2>1. n \in Nat /\ m \in Nat /\ D \in SUBSET (1..n) /\ E = D \cup (n + 1..n + m)
    BY <1>1, <1>4, <1>5
  <2> QED  BY ONLY <2>1, FartherFromEnd
<1>9. \A p \in D : G(p) = F(p) + m
  BY <1>0
<1>10. \A i \in 1..m : G(n + i) = m + 1 - i
  BY <1>0
<1>11. \A p \in D : F(p) \in Nat /\ F(p) >= 1
  <2>1. n \in Nat /\ D \in SUBSET (1..n) /\ \A p \in D : p \in Int
    BY <1>5
  <2> QED  BY ONLY <2>1, PlacesFromEnd
<1> HIDE DEF F, G
<1>12. ASSUME NEW r, r \in R PROVE r \in logged'[j]
  <2>1. PICK p \in E : G(p) <= MaxLines /\ r = [seq |-> last + 1 - G(p), record |-> offered'[j][p]]
    BY <1>12
  <2>2. r.seq = last + 1 - G(p) /\ r.record = offered'[j][p]
    BY <2>1
  <2>3. CASE p \in D
    <3>1. G(p) = F(p) + m /\ F(p) \in Nat
      BY <1>9, <1>11, <2>3
    <3>2. F(p) <= MaxLines /\ last + 1 - G(p) = top + 1 - F(p) /\ last + 1 - G(p) > last - MaxLines
      BY <1>1, <1>8, <2>1, <3>1
    <3>3. r \in logged[j]
      BY <1>2, <1>5, <2>1, <2>3, <3>2
    <3> QED  BY <1>3, <2>2, <3>2, <3>3
  <2>4. CASE \E i \in 1..m : p = n + i
    <3>1. PICK i \in 1..m : p = n + i
      BY <2>4
    <3>2. G(p) = m + 1 - i /\ offered'[j][p] = q[i]
      BY <1>6, <1>10, <3>1
    <3>3. last + 1 - G(p) = top + i /\ last + 1 - G(p) > last - MaxLines
      BY <1>1, <1>8, <2>1, <3>2
    <3>4. r \in new
      BY <1>1, <2>1, <3>2, <3>3
    <3> QED  BY <1>3, <2>2, <3>3, <3>4
  <2> QED  BY <1>7, <2>3, <2>4
<1>13. ASSUME NEW r, r \in logged'[j] PROVE r \in R
  <2>1. r \in logged[j] \cup new /\ r.seq > last - MaxLines
    BY <1>3, <1>13
  <2>2. CASE r \in logged[j]
    <3>1. PICK p \in D : r = [seq |-> top + 1 - F(p), record |-> offered[j][p]]
      BY <1>2, <2>2
    <3>2. r.seq = top + 1 - F(p) /\ G(p) = F(p) + m /\ F(p) \in Nat
      BY <1>9, <1>11, <3>1
    <3>3. G(p) <= MaxLines /\ top + 1 - F(p) = last + 1 - G(p)
      BY <1>1, <1>8, <2>1, <3>2
    <3> QED  BY <1>5, <3>1, <3>3
  <2>3. CASE r \in new
    <3>1. PICK i \in 1..m : r = [seq |-> top + i, record |-> q[i]]
      BY <1>1, <2>3
    <3>2. r.seq = top + i /\ G(n + i) = m + 1 - i /\ n + i \in E /\ offered'[j][n + i] = q[i]
      BY <1>6, <1>10, <3>1
    <3>3. G(n + i) <= MaxLines /\ top + i = last + 1 - G(n + i)
      <4>1. G(n + i) = m + 1 - i /\ r.seq = top + i /\ r.seq > (top + m) - MaxLines
        BY <2>1, <3>2
      <4>3. top + i > (top + m) - MaxLines /\ top \in Nat /\ m \in Nat /\ MaxLines \in Nat /\ i \in 1..m
        BY <1>1, <1>8, <4>1
      <4>2. (m + 1) - i <= MaxLines /\ top + i = ((top + m) + 1) - ((m + 1) - i)
        BY ONLY <4>3
      <4>4. PICK g \in Int : g = (m + 1) - i
        BY <4>3
      <4>5. G(n + i) = g
        BY <4>1, <4>3, <4>4
      <4>6. g <= MaxLines /\ top + i = (top + m) + 1 - g
        BY <4>2, <4>3, <4>4
      <4> QED  BY <4>5, <4>6
    <3>4. ASSUME NEW s, s = last + 1 - G(n + i), NEW o, o = offered'[j][n + i]
          PROVE  r = [seq |-> s, record |-> o]
      <4>1. s = top + i /\ o = q[i]
        BY <3>2, <3>3, <3>4
      <4> QED  BY <3>1, <4>1
    <3> QED  BY <3>2, <3>3, <3>4
  <2> QED  BY <2>1, <2>2, <2>3
<1>14. logged'[j] = R
  <2> HIDE DEF R
  <2> QED  BY <1>12, <1>13
<1>15. \A p \in E : G(p) \in Nat /\ G(p) >= 1
  <2> TAKE p \in E
  <2>1. CASE p \in D
    <3>1. G(p) = F(p) + m /\ F(p) \in Nat
      BY <1>9, <1>11, <2>1
    <3> QED  BY <1>1, <3>1
  <2>2. CASE \E i \in 1..m : p = n + i
    <3>1. PICK i \in 1..m : p = n + i
      BY <2>2
    <3>2. G(p) = m + 1 - i
      BY <1>10, <3>1
    <3> QED  BY <1>1, <3>2
  <2> QED  BY <1>7, <2>1, <2>2
<1>16. R = {[seq |-> Highest(j)' + 1 - G(p), record |-> offered'[j][p]] : p \in {x \in E : G(x) <= MaxLines}}
  <2>1. CASE \A p \in E : ~ (G(p) <= MaxLines)
    BY <2>1
  <2>2. CASE \E p \in E : G(p) <= MaxLines
    <3>1. MaxLines >= 1
      BY <1>15, <2>2
    <3>2. n + m \in E /\ G(n + m) = 1
      <4>1. m \in 1..m /\ m + 1 - m = 1
        BY <1>1
      <4> QED  BY <1>6, <1>10, <4>1
    <3>3. [seq |-> last + 1 - G(n + m), record |-> offered'[j][n + m]] \in R
      BY <3>1, <3>2
    <3>4. last + 1 - G(n + m) = last
      BY <1>8, <3>2
    <3>5. \A r \in R : r.seq \in Int /\ r.seq <= last
      BY <1>8, <1>15
    <3> DEFINE S == {r.seq : r \in logged'[j]}
    <3>6. last \in S /\ S \in SUBSET Int /\ \A y \in S : y <= last
      <4>1. PICK r \in R : r.seq = last
        BY <3>3, <3>4
      <4> HIDE DEF R
      <4>2. r \in logged'[j] /\ \A x \in logged'[j] : x.seq \in Int /\ x.seq <= last
        BY <1>14, <3>5
      <4> QED  BY <4>1, <4>2
    <3>7. logged'[j] # {} /\ Max(S) = last
      <4>1. logged'[j] # {}
        BY <3>6
      <4> HIDE DEF S
      <4> QED  BY <3>6, <4>1, MaxIs
    <3>8. Highest(j)' = last
      BY <3>7 DEF Highest
    <3> QED  BY <3>8
  <2> QED  BY <2>1, <2>2
<1> QED  BY <1>14, <1>16 DEF ToldUpTo, FromEnd, E, G

-----------------------------------------------------------------------------
(* A job's log: what a step leaves as it was *)

LEMMA CallersAre ==
  ASSUME LogTyped
  PROVE  /\ \A t \in LogJobs : /\ caller[t] \in LogCallers /\ caller[t].record \in Nat
                               /\ caller[t].at \in Nat /\ caller[t].top \in Nat
                               /\ caller[t].batch \in Seq(Nat) /\ Place(t) \in Nat
         /\ \A j \in LogJobs : /\ handler[j] \in Handlers /\ handler[j].buffer \in Seq(Nat)
                               /\ offered[j] \in Seq(Nat) /\ Len(offered[j]) \in Nat
                               /\ DOMAIN offered[j] = 1..Len(offered[j])
                               /\ logged[j] \in SUBSET LogRows /\ unwritten[j] \in SUBSET Nat
         /\ Len(attached) \in Nat /\ DOMAIN attached = 1..Len(attached)
         /\ \A i \in DOMAIN attached : attached[i] \in LogJobs
<1>1. ASSUME NEW t \in LogJobs
      PROVE  /\ caller[t] \in LogCallers /\ caller[t].record \in Nat
             /\ caller[t].at \in Nat /\ caller[t].top \in Nat
             /\ caller[t].batch \in Seq(Nat) /\ Place(t) \in Nat
  <2>1. caller[t] \in LogCallers
    BY DEF LogTyped
  <2> QED  BY <2>1 DEF LogCallers, Place
<1>2. ASSUME NEW j \in LogJobs
      PROVE  /\ handler[j] \in Handlers /\ handler[j].buffer \in Seq(Nat)
             /\ offered[j] \in Seq(Nat) /\ Len(offered[j]) \in Nat
             /\ DOMAIN offered[j] = 1..Len(offered[j])
             /\ logged[j] \in SUBSET LogRows /\ unwritten[j] \in SUBSET Nat
  <2>1. handler[j] \in Handlers /\ offered[j] \in Seq(Nat)
        /\ logged[j] \in SUBSET LogRows /\ unwritten[j] \in SUBSET Nat
    BY DEF LogTyped
  <2> QED  BY <2>1 DEF Handlers
<1>3. attached \in Seq(LogJobs)
  BY DEF LogTyped
<1> QED  BY <1>1, <1>2, <1>3

\* No record has the number 0.
LEMMA NothingPut ==
  ASSUME LogTyped, RecordsDistinct
  PROVE  \A j \in LogJobs : NotPut(0, j)
<1>1. \A j \in LogJobs : \A p \in DOMAIN offered[j] : offered[j][p] \in 1..records
  BY DEF RecordsDistinct
<1>2. records \in Nat
  BY DEF LogTyped
<1> QED  BY <1>1, <1>2 DEF NotPut

LEMMA RecordsStay ==
  ASSUME LogTyped, RecordsDistinct, offered' = offered, records' = records,
         \A t \in LogJobs :
           /\ caller'[t].record = caller[t].record \/ caller'[t].record = 0
           /\ caller'[t].step \in {"walking", "emitting"} => caller'[t].record > 0
  PROVE  RecordsDistinct'
<1>1. \A t \in LogJobs : caller[t].record \in Nat /\ caller[t].record <= records
  BY CallersAre DEF RecordsDistinct
<1>2. records \in Nat
  BY DEF LogTyped
<1>3. \A t \in LogJobs : caller'[t].record <= records
  BY <1>1, <1>2
<1>4. ASSUME NEW t \in LogJobs, NEW u \in LogJobs, t # u, caller'[t].record = caller'[u].record
      PROVE  caller'[t].record = 0
  <2>1. CASE caller'[t].record = caller[t].record /\ caller'[u].record = caller[u].record
    <3>1. caller[t].record = caller[u].record
      BY <1>4, <2>1
    <3>2. caller[t].record = 0
      BY <1>4, <3>1 DEF RecordsDistinct
    <3> QED  BY <2>1, <3>2
  <2> QED  BY <1>4, <2>1
<1> QED  BY <1>3, <1>4 DEF RecordsDistinct

\* Walks that go no way back, past handlers that stay.
LEMMA WalksStay ==
  ASSUME LogTyped, RecordsDistinct, Walking, attached' = attached, offered' = offered,
         \A t \in LogJobs :
           /\ caller'[t].record = 0 \/ (caller'[t].record = caller[t].record /\ Place(t)' >= Place(t))
           /\ caller'[t].step = "emitting" =>
                \/ caller[t].step = "emitting" /\ caller'[t] = caller[t]
                \/ /\ caller[t].step = "walking" /\ caller'[t].at = caller[t].at
                   /\ caller'[t].record = caller[t].record
                   /\ caller[t].at \in DOMAIN attached /\ caller'[t].job = attached[caller[t].at]
           /\ caller'[t].step \in {"numbering", "writing"} /\ caller'[t].record = 0 =>
                running'[t] = "detached"
           /\ running'[t] = running[t] \/ (running[t] # "running" /\ running[t] # "new" /\ running'[t] # "new"),
         \A t \in LogJobs : Place(t)' \in Nat
  PROVE  Walking'
<1>1. \A j \in LogJobs : NotPut(0, j)
  BY NothingPut
<1>2. \A i \in DOMAIN attached : attached[i] \in LogJobs
      /\ running[attached[i]] = "running"
  BY CallersAre DEF Walking
<1>3. \A r, j : NotPut(r, j) => NotPut(r, j)'
  BY DEF NotPut
<1>4. \A i \in DOMAIN attached : running'[attached[i]] = "running"
  BY <1>2
<1>5. DOMAIN attached = 1..Len(attached) /\ Len(attached) \in Nat
      /\ \A t \in LogJobs : Place(t) \in Nat
  BY CallersAre
<1>6. ASSUME NEW t \in LogJobs, NEW i \in DOMAIN attached, i >= Place(t)',
             NEW r, r = caller'[t].record, NEW j, j = attached[i]
      PROVE  NotPut(r, j)'
  <2>1. CASE r = 0
    BY <1>1, <1>2, <1>3, <1>6, <2>1
  <2>2. CASE r = caller[t].record /\ Place(t)' >= Place(t)
    <3>1. i >= Place(t)
      BY <1>5, <1>6, <2>2
    <3>2. NotPut(caller[t].record, attached[i])
      BY <3>1 DEF Walking
    <3> QED  BY <1>3, <1>6, <2>2, <3>2
  <2> QED  BY <1>6, <2>1, <2>2
<1>7. (\A t \in LogJobs : \A i \in DOMAIN attached :
         i >= Place(t) => NotPut(caller[t].record, attached[i]))'
  BY <1>6
<1>8. ASSUME NEW t \in LogJobs, caller'[t].step = "emitting", NEW r, r = caller'[t].record,
             NEW j, j = caller'[t].job
      PROVE  /\ NotPut(r, j)' /\ running'[j] # "new"
             /\ \A i \in DOMAIN attached : i >= Place(t)' => attached[i] # j
  <2>1. CASE caller[t].step = "emitting" /\ caller'[t] = caller[t]
    <3>1. r = caller[t].record /\ j = caller[t].job
      BY <1>8, <2>1
    <3>2. NotPut(r, j) /\ running[j] # "new" /\ \A i \in DOMAIN attached : i >= Place(t) => attached[i] # j
      BY <2>1, <3>1 DEF Walking
    <3>3. Place(t)' = Place(t)
      BY <2>1 DEF Place
    <3>4. j \in LogJobs
      BY <2>1, <3>1 DEF LogTyped
    <3> QED  BY <1>3, <3>2, <3>3, <3>4
  <2>2. CASE /\ caller[t].step = "walking" /\ caller'[t].at = caller[t].at
             /\ caller'[t].record = caller[t].record
             /\ caller[t].at \in DOMAIN attached /\ caller'[t].job = attached[caller[t].at]
    <3> DEFINE at == caller[t].at
    <3>1. /\ at \in DOMAIN attached /\ j = attached[at] /\ r = caller[t].record /\ at \in Nat
          /\ Place(t) = at /\ Place(t)' = at + 1
      BY <1>8, <2>2, CallersAre DEF Place
    <3>2. NotPut(r, j)
      <4>1. at >= Place(t)
        BY <3>1
      <4>2. NotPut(caller[t].record, attached[at])
        BY <3>1, <4>1 DEF Walking
      <4> QED  BY <3>1, <4>2
    <3>3. j \in LogJobs /\ running[j] = "running"
      BY <1>2, <3>1
    <3>4. \A i \in DOMAIN attached : i >= at + 1 => attached[i] # j
      <4>1. \A i \in DOMAIN attached : i \in Int /\ (attached[i] = attached[at] => i = at)
        BY <1>5, <3>1 DEF Walking
      <4> HIDE DEF at
      <4> QED  BY <3>1, <4>1
    <3> QED  BY <1>3, <3>1, <3>2, <3>3, <3>4
  <2> QED  BY <1>8, <2>1, <2>2
<1>9. (\A t \in LogJobs : caller[t].step = "emitting" =>
         /\ NotPut(caller[t].record, caller[t].job)
         /\ running[caller[t].job] # "new"
         /\ \A i \in DOMAIN attached : i >= Place(t) => attached[i] # caller[t].job)'
  BY <1>8
<1>10. \A j \in LogJobs : running'[j] = "new" => offered'[j] = << >>
  BY DEF Walking
<1>11. \A i, k \in DOMAIN attached : attached[i] = attached[k] => i = k
  BY DEF Walking
<1> QED  BY <1>4, <1>7, <1>9, <1>10, <1>11 DEF Walking

LEMMA ComesStays ==
  ASSUME NEW j, NEW n \in Nat, NEW q, Comes(j, n, q), offered'[j] = offered[j],
         unwritten'[j] = unwritten[j], logged'[j] = logged[j],
         handler'[j].buffer = handler[j].buffer
  PROVE  Comes(j, n, q)'
<1>1. ToldUpTo(j, n)'
  BY ToldStays DEF Comes
<1> QED  BY <1>1 DEF Comes

\* A log that a step does not touch.
LEMMA InTurnStays ==
  ASSUME LogTyped, NEW j \in LogJobs, ToldInTurn(j), offered'[j] = offered[j],
         unwritten'[j] = unwritten[j], logged'[j] = logged[j],
         handler'[j].buffer = handler[j].buffer, Writing(j)' = Writing(j),
         \A t \in Writing(j) :
           /\ caller'[t].batch = caller[t].batch
           /\ caller'[t].step = "writing" =>
                \/ caller[t].step = "writing" /\ caller'[t].top = caller[t].top
                \/ caller'[t].top = Highest(j)
  PROVE  ToldInTurn(j)'
<1>1. \A n \in Nat : \A q : Comes(j, n, q) => Comes(j, n, q)'
  BY ComesStays
<1>2. Len(offered[j]) \in Nat /\ Highest(j)' = Highest(j)
  BY CallersAre DEF Highest
<1>3. Writing(j) = {} => \E n \in 0..Len(offered'[j]) : Comes(j, n, << >>)'
  BY <1>1, <1>2 DEF ToldInTurn
<1>4. ASSUME NEW t \in Writing(j)
      PROVE  /\ \E n \in 0..Len(offered'[j]), q \in {caller'[t].batch} : Comes(j, n, q)'
             /\ caller'[t].step = "writing" => caller'[t].top = Highest(j)'
  <2>1. \E n \in 0..Len(offered[j]), q \in {caller[t].batch} : Comes(j, n, q)
    BY DEF ToldInTurn
  <2>2. caller[t].step = "writing" => caller[t].top = Highest(j)
    BY DEF ToldInTurn
  <2> QED  BY <1>1, <1>2, <2>1, <2>2
<1>5. \A t, u \in Writing(j)' : t = u
  BY DEF ToldInTurn
<1> QED  BY <1>3, <1>4, <1>5 DEF ToldInTurn

-----------------------------------------------------------------------------
(* A job's log: the steps *)

LEMMA StepsAre ==
  /\ NotLogging \in LogCallers /\ NotLogging.step = "idle" /\ NotLogging.record = 0
  /\ \A r, a \in Nat :
       /\ WalksOn(r, a) \in LogCallers /\ WalksOn(r, a).step = "walking"
       /\ WalksOn(r, a).record = r /\ WalksOn(r, a).at = a
<1>1. NotLogging \in LogCallers /\ NotLogging.step = "idle" /\ NotLogging.record = 0
  BY DEF NotLogging, LogCallers
<1>2. ASSUME NEW r \in Nat, NEW a \in Nat
      PROVE  /\ WalksOn(r, a) \in LogCallers /\ WalksOn(r, a).step = "walking"
             /\ WalksOn(r, a).record = r /\ WalksOn(r, a).at = a
  <2>1. WalksOn(r, a) = [NotLogging EXCEPT !.step = "walking", !.record = r, !.at = a]
    BY DEF WalksOn
  <2> QED  BY <1>1, <2>1 DEF LogCallers
<1> QED  BY <1>1, <1>2

LEMMA GreatestIs ==
  ASSUME NEW S \in SUBSET Nat, S # {}, NEW m \in Nat, \A y \in S : y <= m
  PROVE  Max(S) \in S
<1> DEFINE T == {m - y : y \in S}
<1>1. T \in SUBSET Nat /\ T # {}
  <2>1. \A y \in S : m - y \in Nat
    OBVIOUS
  <2>2. \A t \in T : t \in Nat
    BY <2>1
  <2>3. PICK y \in S : TRUE
    OBVIOUS
  <2>4. m - y \in T
    OBVIOUS
  <2> QED  BY <2>2, <2>4
<1>2. PICK t \in T : \A u \in T : t <= u
  <2> HIDE DEF T
  <2> QED  BY <1>1, LeastNumber
<1>3. PICK x \in S : t = m - x
  OBVIOUS
<1>4. ASSUME NEW y \in S PROVE y <= x
  <2>1. m - x <= m - y
    BY <1>2, <1>3
  <2>2. x \in Nat /\ y \in Nat
    OBVIOUS
  <2> QED  BY <2>1, <2>2
<1>5. Max(S) = x
  <2>1. S \in SUBSET Int
    OBVIOUS
  <2> QED  BY <1>4, <2>1, MaxIs
<1> QED  BY <1>5

LEMMA HighestIs ==
  ASSUME LogTyped, NEW j \in LogJobs
  PROVE  Highest(j) \in Nat
<1> DEFINE S == {r.seq : r \in logged[j]}
<1>1. PICK m \in Nat : \A r \in logged[j] : r.seq <= m
  BY DEF LogTyped
<1>2. logged[j] \in SUBSET LogRows
  BY DEF LogTyped
<1>3. S \in SUBSET Nat /\ (\A y \in S : y <= m) /\ (logged[j] # {} => S # {})
  BY <1>1, <1>2 DEF LogRows
<1>4. ASSUME logged[j] # {} PROVE Max(S) \in Nat
  <2> HIDE DEF S
  <2>1. Max(S) \in S
    BY <1>3, <1>4, GreatestIs
  <2> QED  BY <1>3, <2>1
<1> QED  BY <1>4 DEF Highest

LEMMA AttachKeeps ==
  ASSUME LogInv, NEW t \in LogJobs, Attach(t)
  PROVE  LogInv'
<1>1. /\ running[t] = "new" /\ running' = [running EXCEPT ![t] = "running"]
      /\ attached' = Append(attached, t)
      /\ UNCHANGED <<handler, caller, logged, records, offered, unwritten, twoFlushes>>
      /\ LogTyped /\ RecordsDistinct /\ Walking
  BY DEF Attach, LogInv
<1>2. /\ attached \in Seq(LogJobs) /\ Len(attached) \in Nat /\ DOMAIN attached = 1..Len(attached)
      /\ attached' \in Seq(LogJobs) /\ DOMAIN attached' = 1..(Len(attached) + 1)
      /\ attached'[Len(attached) + 1] = t /\ \A i \in 1..Len(attached) : attached'[i] = attached[i]
  BY <1>1 DEF LogTyped
<1>3. /\ running'[t] = "running" /\ \A j \in LogJobs \ {t} : running'[j] = running[j]
      /\ running' \in [LogJobs -> {"new", "running", "detached", "over"}]
  BY <1>1 DEF LogTyped
<1>4. LogTyped'
  BY <1>1, <1>2, <1>3 DEF LogTyped
<1>5. RecordsDistinct'
  BY <1>1 DEF RecordsDistinct
<1>6. \A i \in 1..Len(attached) : attached[i] \in LogJobs /\ attached[i] # t /\ running[attached[i]] = "running"
  BY <1>1, <1>2 DEF Walking
<1>7. \A i \in 1..(Len(attached) + 1) : i \in 1..Len(attached) \/ i = Len(attached) + 1
  BY <1>2
<1>8. Walking'
  <2>1. offered[t] = << >> /\ \A r : NotPut(r, t)
    BY <1>1 DEF Walking, NotPut
  <2>2. \A i, k \in DOMAIN attached' : attached'[i] = attached'[k] => i = k
    BY <1>1, <1>2, <1>6, <1>7 DEF Walking
  <2>3. \A i \in DOMAIN attached' : running'[attached'[i]] = "running"
    BY <1>2, <1>3, <1>6, <1>7
  <2>4. \A j \in LogJobs : running'[j] = "new" => offered'[j] = << >>
    BY <1>1, <1>3 DEF Walking
  <2>5. \A u \in LogJobs : Place(u)' = Place(u)
    BY <1>1 DEF Place
  <2>6. ASSUME NEW u \in LogJobs, NEW i \in DOMAIN attached', i >= Place(u),
               NEW j, j = attached'[i], NEW r, r = caller[u].record
        PROVE  NotPut(r, j)
    BY <1>1, <1>2, <1>7, <2>1, <2>6 DEF Walking
  <2>7. (\A u \in LogJobs : \A i \in DOMAIN attached :
           i >= Place(u) => NotPut(caller[u].record, attached[i]))'
    BY <1>1, <2>5, <2>6 DEF NotPut
  <2>8. \A u \in LogJobs : caller[u].step \in {"numbering", "writing"} /\ caller[u].record = 0 =>
          running'[u] = "detached"
    BY <1>1, <1>3 DEF Walking
  <2>9. ASSUME NEW u \in LogJobs, caller[u].step = "emitting"
        PROVE  /\ NotPut(caller[u].record, caller[u].job) /\ running'[caller[u].job] # "new"
               /\ \A i \in DOMAIN attached' : i >= Place(u) => attached'[i] # caller[u].job
    <3>1. /\ NotPut(caller[u].record, caller[u].job) /\ running[caller[u].job] # "new"
          /\ \A i \in DOMAIN attached : i >= Place(u) => attached[i] # caller[u].job
          /\ caller[u].job \in LogJobs
      BY <1>1, <2>9 DEF Walking, LogTyped
    <3> QED  BY <1>1, <1>2, <1>3, <1>7, <3>1
  <2>10. (\A u \in LogJobs : caller[u].step = "emitting" =>
            /\ NotPut(caller[u].record, caller[u].job)
            /\ running[caller[u].job] # "new"
            /\ \A i \in DOMAIN attached : i >= Place(u) => attached[i] # caller[u].job)'
    BY <1>1, <2>5, <2>9 DEF NotPut
  <2> QED  BY <1>1, <2>2, <2>3, <2>4, <2>7, <2>8, <2>10 DEF Walking
<1>9. ASSUME NEW j \in LogJobs \ twoFlushes' PROVE ToldInTurn(j)'
  <2>1. Writing(j)' = Writing(j)
    BY <1>1 DEF Writing
  <2>2. ToldInTurn(j)
    BY <1>1 DEF LogInv
  <2> QED  BY <1>1, <2>1, <2>2, InTurnStays DEF Writing
<1> QED  BY <1>4, <1>5, <1>8, <1>9 DEF LogInv

LEMMA LogKeeps ==
  ASSUME LogInv, NEW t \in LogJobs, Log(t)
  PROVE  LogInv'
<1>1. /\ caller[t] = NotLogging /\ records' = records + 1
      /\ caller' = [caller EXCEPT ![t] = WalksOn(records + 1, 1)]
      /\ UNCHANGED <<attached, running, handler, logged, offered, unwritten, twoFlushes>>
      /\ LogTyped /\ RecordsDistinct /\ Walking /\ records \in Nat
      /\ caller \in [LogJobs -> LogCallers]
  BY DEF Log, LogInv, LogTyped
<1>2. /\ caller'[t] \in LogCallers /\ caller'[t].step = "walking" /\ caller'[t].record = records + 1
      /\ caller'[t].at = 1 /\ \A u \in LogJobs \ {t} : caller'[u] = caller[u]
      /\ caller' \in [LogJobs -> LogCallers]
  BY <1>1, StepsAre
<1>3. LogTyped'
  BY <1>1, <1>2 DEF LogTyped
<1>4. \A j \in LogJobs : \A p \in DOMAIN offered[j] : offered[j][p] \in 1..records
  BY <1>1 DEF RecordsDistinct
<1>5. RecordsDistinct'
  <2>1. \A u \in LogJobs : caller[u].record \in Nat /\ caller[u].record <= records
    BY <1>1, CallersAre DEF RecordsDistinct
  <2>2. \A u \in LogJobs : caller'[u].record <= records'
    BY <1>1, <1>2, <2>1
  <2>3. \A u \in LogJobs : caller'[u].step \in {"walking", "emitting"} => caller'[u].record > 0
    BY <1>1, <1>2 DEF RecordsDistinct
  <2>4. \A u \in LogJobs \ {t} : caller'[u].record # records + 1
    BY <1>1, <1>2, <2>1
  <2>5. \A u, v \in LogJobs : u # v /\ caller'[u].record = caller'[v].record => caller'[u].record = 0
    BY <1>1, <1>2, <2>4 DEF RecordsDistinct
  <2>6. \A j \in LogJobs : \A p \in DOMAIN offered'[j] : offered'[j][p] \in 1..records'
    BY <1>1, <1>4
  <2>7. \A j \in LogJobs : \A p, q \in DOMAIN offered'[j] : offered'[j][p] = offered'[j][q] => p = q
    BY <1>1 DEF RecordsDistinct
  <2> QED  BY <2>2, <2>3, <2>5, <2>6, <2>7 DEF RecordsDistinct
<1>6. Walking'
  <2>1. \A j \in LogJobs : NotPut(records + 1, j)
    BY <1>1, <1>4 DEF NotPut
  <2>2. \A u \in LogJobs \ {t} : Place(u)' = Place(u)
    BY <1>2 DEF Place
  <2>3. \A i \in DOMAIN attached : attached[i] \in LogJobs
    BY <1>1, CallersAre
  <2>4. ASSUME NEW u \in LogJobs, NEW i \in DOMAIN attached, i >= Place(u)',
               NEW j, j = attached[i], NEW r, r = caller'[u].record
        PROVE  NotPut(r, j)
    BY <1>1, <1>2, <2>1, <2>2, <2>3, <2>4 DEF Walking
  <2>5. (\A u \in LogJobs : \A i \in DOMAIN attached :
           i >= Place(u) => NotPut(caller[u].record, attached[i]))'
    BY <1>1, <2>4 DEF NotPut
  <2>6. ASSUME NEW u \in LogJobs, caller'[u].step = "emitting"
        PROVE  /\ caller'[u] = caller[u] /\ NotPut(caller[u].record, caller[u].job)
               /\ running[caller[u].job] # "new" /\ Place(u)' = Place(u)
               /\ \A i \in DOMAIN attached : i >= Place(u) => attached[i] # caller[u].job
    <3>1. u # t
      BY <1>2, <2>6
    <3>2. caller'[u] = caller[u] /\ caller[u].step = "emitting"
      BY <1>2, <2>6, <3>1
    <3> QED  BY <1>1, <2>2, <3>1, <3>2 DEF Walking
  <2>7. (\A u \in LogJobs : caller[u].step = "emitting" =>
            /\ NotPut(caller[u].record, caller[u].job)
            /\ running[caller[u].job] # "new"
            /\ \A i \in DOMAIN attached : i >= Place(u) => attached[i] # caller[u].job)'
    BY <1>1, <2>6 DEF NotPut
  <2>8. \A u \in LogJobs : caller'[u].step \in {"numbering", "writing"} /\ caller'[u].record = 0 =>
          running'[u] = "detached"
    BY <1>1, <1>2 DEF Walking
  <2> QED  BY <1>1, <2>5, <2>7, <2>8 DEF Walking
<1>7. ASSUME NEW j \in LogJobs \ twoFlushes' PROVE ToldInTurn(j)'
  <2>1. Writing(j)' = Writing(j) /\ t \notin Writing(j)
    BY <1>1, <1>2, StepsAre DEF Writing
  <2>2. ToldInTurn(j)
    BY <1>1 DEF LogInv
  <2>3. \A u \in Writing(j) : caller'[u] = caller[u]
    BY <1>2, <2>1 DEF Writing
  <2> QED  BY <1>1, <2>1, <2>2, <2>3, InTurnStays
<1> QED  BY <1>3, <1>5, <1>6, <1>7 DEF LogInv

LEMMA ReachKeeps ==
  ASSUME LogInv, NEW t \in LogJobs, Reach(t)
  PROVE  LogInv'
<1> DEFINE c == caller[t]
<1>1. /\ c.step = "walking"
      /\ UNCHANGED <<attached, running, logged, records, offered, unwritten, twoFlushes>>
      /\ LogTyped /\ RecordsDistinct /\ Walking /\ records \in Nat
      /\ caller \in [LogJobs -> LogCallers] /\ c \in LogCallers /\ c.at \in Nat /\ c.at > 0
      /\ handler \in [LogJobs -> Handlers]
      /\ Len(attached) \in Nat /\ DOMAIN attached = 1..Len(attached)
  BY CallersAre DEF Reach, LogInv, LogTyped
<1>2. \/ caller' = [caller EXCEPT ![t] = NotLogging] /\ UNCHANGED handler
      \/ caller' = [caller EXCEPT ![t].at = @ + 1] /\ UNCHANGED handler
      \/ \E j \in LogJobs :
           /\ j = attached[c.at] /\ c.at \in DOMAIN attached
           /\ caller' = [caller EXCEPT ![t].step = "emitting", ![t].job = j]
           /\ handler' = [handler EXCEPT ![j].lock = t]
  <2>1. CASE c.at > Len(attached)
    BY <2>1 DEF Reach
  <2>2. CASE ~ (c.at > Len(attached))
    <3>1. c.at \in DOMAIN attached
      BY <1>1, <2>2
    <3>2. attached[c.at] \in LogJobs
      BY <1>1, <3>1, CallersAre
    <3>3. /\ handler[attached[c.at]].lock = 0
          /\ IF Busy(attached[c.at])
             THEN caller' = [caller EXCEPT ![t].at = @ + 1] /\ UNCHANGED handler
             ELSE /\ caller' = [caller EXCEPT ![t].step = "emitting", ![t].job = attached[c.at]]
                  /\ handler' = [handler EXCEPT ![attached[c.at]].lock = t]
      BY <2>2 DEF Reach
    <3> QED  BY <3>1, <3>2, <3>3
  <2> QED  BY <2>1, <2>2
<1> DEFINE Moved ==
      /\ \A u \in LogJobs \ {t} : caller'[u] = caller[u]
      /\ caller' \in [LogJobs -> LogCallers] /\ caller'[t] \in LogCallers
      /\ handler' \in [LogJobs -> Handlers]
      /\ \A j \in LogJobs : handler'[j].buffer = handler[j].buffer
      /\ caller'[t].step \in {"idle", "walking", "emitting"}
      /\ caller'[t].step = "idle" => caller'[t].record = 0
      /\ caller'[t].step # "idle" => caller'[t].record = c.record
      /\ caller'[t].step = "walking" => caller'[t].at = c.at + 1
      /\ caller'[t].step = "emitting" =>
           /\ caller'[t].at = c.at /\ c.at \in DOMAIN attached
           /\ caller'[t].job = attached[c.at] /\ caller'[t].job \in LogJobs
<1>3. Moved
  <2>1. CASE caller' = [caller EXCEPT ![t] = NotLogging] /\ UNCHANGED handler
    BY <1>1, <2>1, StepsAre
  <2>2. CASE caller' = [caller EXCEPT ![t].at = @ + 1] /\ UNCHANGED handler
    <3>1. caller'[t] = [c EXCEPT !.at = c.at + 1] /\ \A u \in LogJobs \ {t} : caller'[u] = caller[u]
      BY <1>1, <2>2
    <3>2. caller'[t] \in LogCallers /\ caller'[t].step = c.step /\ caller'[t].record = c.record
          /\ caller'[t].at = c.at + 1
      <4>1. c.at + 1 \in Nat
        BY <1>1
      <4> HIDE DEF c
      <4> QED  BY <1>1, <3>1, <4>1 DEF LogCallers
    <3>3. caller' \in [LogJobs -> LogCallers]
      BY <1>1, <2>2, <3>1, <3>2
    <3> QED  BY <1>1, <2>2, <3>1, <3>2, <3>3
  <2>3. ASSUME NEW j \in LogJobs, j = attached[c.at], c.at \in DOMAIN attached,
               caller' = [caller EXCEPT ![t].step = "emitting", ![t].job = j],
               handler' = [handler EXCEPT ![j].lock = t]
        PROVE  Moved
    <3>1. caller'[t] = [c EXCEPT !.step = "emitting", !.job = j]
          /\ \A u \in LogJobs \ {t} : caller'[u] = caller[u]
      BY <1>1, <2>3
    <3>2. caller'[t] \in LogCallers /\ caller'[t].step = "emitting" /\ caller'[t].record = c.record
          /\ caller'[t].at = c.at /\ caller'[t].job = j
      BY <1>1, <3>1 DEF LogCallers
    <3>3. caller' \in [LogJobs -> LogCallers]
      BY <1>1, <2>3, <3>1, <3>2
    <3>4. handler'[j] = [handler[j] EXCEPT !.lock = t] /\ \A k \in LogJobs \ {j} : handler'[k] = handler[k]
      BY <1>1, <2>3
    <3>5. handler'[j] \in Handlers /\ handler'[j].buffer = handler[j].buffer
      BY <1>1, <3>4 DEF Handlers
    <3>6. handler' \in [LogJobs -> Handlers] /\ \A k \in LogJobs : handler'[k].buffer = handler[k].buffer
      BY <1>1, <2>3, <3>4, <3>5
    <3> QED  BY <2>3, <3>1, <3>2, <3>3, <3>6
  <2> HIDE DEF Moved
  <2> QED  BY <1>2, <2>1, <2>2, <2>3
<1>4. LogTyped'
  <2>1. \A u \in LogJobs :
          /\ caller'[u].step \in {"emitting", "numbering", "writing"} => caller'[u].job \in LogJobs
          /\ caller'[u].step \in {"numbering", "writing"} => caller'[u].batch # << >>
          /\ caller'[u].step = "walking" => caller'[u].at > 0
    <3>1. ASSUME NEW u \in LogJobs \ {t}
          PROVE  /\ caller'[u].step \in {"emitting", "numbering", "writing"} => caller'[u].job \in LogJobs
                 /\ caller'[u].step \in {"numbering", "writing"} => caller'[u].batch # << >>
                 /\ caller'[u].step = "walking" => caller'[u].at > 0
      <4>1. caller'[u] = caller[u]
        BY <1>3
      <4> QED  BY <1>1, <4>1 DEF LogTyped
    <3>2. /\ caller'[t].step \in {"idle", "walking", "emitting"}
          /\ caller'[t].step = "emitting" => caller'[t].job \in LogJobs
          /\ caller'[t].step = "walking" => caller'[t].at = c.at + 1
      BY <1>3
    <3>3. caller'[t].step = "walking" => caller'[t].at > 0
      BY <1>1, <3>2
    <3> QED  BY <3>1, <3>2, <3>3
  <2> QED  BY <1>1, <1>3, <2>1 DEF LogTyped
<1>5. RecordsDistinct'
  <2>1. \A u \in LogJobs : caller'[u].step \in {"walking", "emitting"} => caller'[u].record > 0
    BY <1>1, <1>3 DEF RecordsDistinct
  <2> QED  BY <1>1, <1>3, <2>1, RecordsStay
<1>6. Walking'
  <2>1. /\ Place(t) = c.at /\ Place(t)' \in Nat
        /\ caller'[t].step # "idle" => Place(t)' = c.at + 1
    BY <1>1, <1>3 DEF Place, LogCallers
  <2>2. \A u \in LogJobs \ {t} : Place(u)' = Place(u) /\ Place(u) \in Nat
    BY <1>1, <1>3, CallersAre DEF Place
  <2>3. ASSUME NEW u \in LogJobs
        PROVE  /\ Place(u)' \in Nat
               /\ caller'[u].record = 0 \/ (caller'[u].record = caller[u].record /\ Place(u)' >= Place(u))
    <3>1. CASE u = t
      BY <1>1, <1>3, <2>1, <3>1
    <3>2. CASE u # t
      BY <1>3, <2>2, <3>2
    <3> QED  BY <3>1, <3>2
  <2>4. ASSUME NEW u \in LogJobs, caller'[u].step = "emitting"
        PROVE  \/ caller[u].step = "emitting" /\ caller'[u] = caller[u]
               \/ /\ caller[u].step = "walking" /\ caller'[u].at = caller[u].at
                  /\ caller'[u].record = caller[u].record
                  /\ caller[u].at \in DOMAIN attached /\ caller'[u].job = attached[caller[u].at]
    BY <1>1, <1>3, <2>4
  <2>5. \A u \in LogJobs : caller'[u].step \in {"numbering", "writing"} /\ caller'[u].record = 0 =>
          running'[u] = "detached"
    BY <1>1, <1>3 DEF Walking
  <2> HIDE DEF c
  <2> QED  BY <1>1, <2>3, <2>4, <2>5, WalksStay
<1>7. ASSUME NEW j \in LogJobs \ twoFlushes' PROVE ToldInTurn(j)'
  <2>1. Writing(j)' = Writing(j) /\ t \notin Writing(j)
    BY <1>1, <1>3 DEF Writing
  <2>2. ToldInTurn(j)
    BY <1>1 DEF LogInv
  <2>3. \A u \in Writing(j) : caller'[u] = caller[u]
    BY <1>3, <2>1 DEF Writing
  <2> QED  BY <1>1, <1>3, <2>1, <2>2, <2>3, InTurnStays
<1> QED  BY <1>4, <1>5, <1>6, <1>7 DEF LogInv

LEMMA NumberKeeps ==
  ASSUME LogInv, NEW t \in LogJobs, Number(t)
  PROVE  LogInv'
<1> DEFINE c == caller[t]
<1>1. /\ c.step = "numbering"
      /\ caller' = [caller EXCEPT ![t] = [c EXCEPT !.step = "writing", !.top = Highest(c.job)]]
      /\ UNCHANGED <<attached, running, handler, logged, records, offered, unwritten, twoFlushes>>
      /\ LogTyped /\ RecordsDistinct /\ Walking
      /\ caller \in [LogJobs -> LogCallers] /\ c \in LogCallers /\ c.job \in LogJobs
  BY CallersAre DEF Number, TopNumber, LogInv, LogTyped
<1>2. Highest(c.job) \in Nat
  BY <1>1, HighestIs
<1>3. /\ caller'[t] = [c EXCEPT !.step = "writing", !.top = Highest(c.job)]
      /\ \A u \in LogJobs \ {t} : caller'[u] = caller[u]
  BY <1>1
<1>4. /\ caller'[t] \in LogCallers /\ caller'[t].step = "writing" /\ caller'[t].top = Highest(c.job)
      /\ caller'[t].record = c.record /\ caller'[t].job = c.job /\ caller'[t].batch = c.batch
      /\ caller'[t].at = c.at
  BY <1>1, <1>2, <1>3 DEF LogCallers
<1>5. caller' \in [LogJobs -> LogCallers]
  BY <1>1, <1>3, <1>4
<1>6. LogTyped'
  BY <1>1, <1>3, <1>4, <1>5 DEF LogTyped
<1>7. RecordsDistinct'
  <2>1. \A u \in LogJobs : caller'[u].step \in {"walking", "emitting"} => caller'[u].record > 0
    BY <1>1, <1>3, <1>4 DEF RecordsDistinct
  <2> QED  BY <1>1, <1>3, <1>4, <2>1, RecordsStay
<1>8. Walking'
  <2>1. \A u \in LogJobs : Place(u)' = Place(u) /\ Place(u) \in Nat
    BY <1>1, <1>3, <1>4, CallersAre DEF Place
  <2>2. ASSUME NEW u \in LogJobs
        PROVE  caller'[u].record = caller[u].record /\ Place(u)' >= Place(u)
    <3>1. Place(u)' = Place(u) /\ Place(u) \in Nat
      BY <2>1
    <3>2. Place(u)' >= Place(u)
      BY <3>1
    <3>3. caller'[u].record = caller[u].record
      BY <1>3, <1>4
    <3> QED  BY <3>2, <3>3
  <2>3. \A u \in LogJobs : caller'[u].step = "emitting" =>
          caller[u].step = "emitting" /\ caller'[u] = caller[u]
    BY <1>3, <1>4
  <2>4. \A u \in LogJobs : caller'[u].step \in {"numbering", "writing"} /\ caller'[u].record = 0 =>
          running'[u] = "detached"
    BY <1>1, <1>3, <1>4 DEF Walking
  <2> HIDE DEF c
  <2> QED  BY <1>1, <2>1, <2>2, <2>3, <2>4, WalksStay
<1>9. ASSUME NEW j \in LogJobs \ twoFlushes' PROVE ToldInTurn(j)'
  <2>1. Writing(j)' = Writing(j)
    BY <1>1, <1>3, <1>4 DEF Writing
  <2>2. ToldInTurn(j)
    BY <1>1 DEF LogInv
  <2>3. ASSUME NEW u \in Writing(j)
        PROVE  /\ caller'[u].batch = caller[u].batch
               /\ caller'[u].step = "writing" =>
                    \/ caller[u].step = "writing" /\ caller'[u].top = caller[u].top
                    \/ caller'[u].top = Highest(j)
    <3>1. u \in LogJobs /\ caller[u].job = j
      BY DEF Writing
    <3> QED  BY <1>3, <1>4, <3>1
  <2> QED  BY <1>1, <2>1, <2>2, <2>3, InTurnStays
<1> QED  BY <1>6, <1>7, <1>8, <1>9 DEF LogInv

\* What a flush leaves: a batch, and an empty buffer.
LEMMA FlushIs ==
  ASSUME LogTyped, NEW t \in LogJobs, NEW j \in LogJobs, NEW buffer \in Seq(Nat),
         NEW lock \in LogJobs \cup {0}, StartFlush(t, j, buffer, lock)
  PROVE  /\ handler' \in [LogJobs -> Handlers] /\ handler'[j].buffer = << >>
         /\ \A k \in LogJobs \ {j} : handler'[k] = handler[k]
         /\ caller' \in [LogJobs -> LogCallers] /\ \A u \in LogJobs \ {t} : caller'[u] = caller[u]
         /\ caller'[t].step = "numbering" /\ caller'[t].job = j /\ caller'[t].batch = buffer
         /\ caller'[t].record = caller[t].record /\ caller'[t].at = caller[t].at
<1>1. /\ handler \in [LogJobs -> Handlers] /\ handler[j] \in Handlers
      /\ caller \in [LogJobs -> LogCallers] /\ caller[t] \in LogCallers
  BY DEF LogTyped
<1>2. handler' = [handler EXCEPT ![j] = [Emptied([handler[j] EXCEPT !.buffer = buffer]) EXCEPT !.lock = lock]]
  BY <1>1 DEF StartFlush
<1>3. handler'[j] = [Emptied([handler[j] EXCEPT !.buffer = buffer]) EXCEPT !.lock = lock]
      /\ \A k \in LogJobs \ {j} : handler'[k] = handler[k]
  BY <1>1, <1>2
<1>4. handler'[j] = [buffer |-> << >>, flushing |-> TRUE, lock |-> lock]
  BY <1>1, <1>3 DEF Emptied, Handlers
<1>5. handler'[j] \in Handlers /\ handler'[j].buffer = << >>
  <2>1. << >> \in Seq(Nat)
    OBVIOUS
  <2> QED  BY <1>4, <2>1 DEF Handlers
<1>6. handler' \in [LogJobs -> Handlers]
  BY <1>1, <1>2, <1>3, <1>5
<1>7. caller' = [caller EXCEPT ![t] = [@ EXCEPT !.step = "numbering", !.job = j, !.batch = buffer]]
  BY DEF StartFlush
<1>8. caller'[t] = [caller[t] EXCEPT !.step = "numbering", !.job = j, !.batch = buffer]
      /\ \A u \in LogJobs \ {t} : caller'[u] = caller[u]
  BY <1>1, <1>7
<1>9. /\ caller'[t] \in LogCallers
      /\ caller'[t].step = "numbering" /\ caller'[t].job = j /\ caller'[t].batch = buffer
      /\ caller'[t].record = caller[t].record /\ caller'[t].at = caller[t].at
  BY <1>1, <1>8 DEF LogCallers
<1>10. caller' \in [LogJobs -> LogCallers]
  BY <1>1, <1>7, <1>8, <1>9
<1> QED  BY <1>3, <1>5, <1>6, <1>8, <1>9, <1>10

\* A record is put into the buffer behind the batch under way.
LEMMA ComesGrows ==
  ASSUME NEW j, NEW n \in Nat, NEW q \in Seq(Nat), Comes(j, n, q), NEW r \in Nat,
         offered[j] \in Seq(Nat), handler[j].buffer \in Seq(Nat),
         offered'[j] = Append(offered[j], r), handler'[j].buffer = Append(handler[j].buffer, r),
         unwritten'[j] = unwritten[j], logged'[j] = logged[j]
  PROVE  Comes(j, n, q)'
<1> DEFINE o == offered[j]
           b == handler[j].buffer
<1>1. /\ Len(o) = n + Len(q) + Len(b) /\ Len(o) \in Nat /\ Len(q) \in Nat /\ Len(b) \in Nat
      /\ DOMAIN q = 1..Len(q) /\ DOMAIN b = 1..Len(b)
      /\ \A i \in DOMAIN q : o[n + i] = q[i]
      /\ \A i \in DOMAIN b : o[n + Len(q) + i] = b[i]
      /\ ToldUpTo(j, n) /\ \A x \in unwritten[j] : \E p \in 1..n : o[p] = x
  <2>1. /\ Len(o) = n + Len(q) + Len(b)
        /\ \A i \in DOMAIN q : o[n + i] = q[i]
        /\ \A i \in DOMAIN b : o[n + Len(q) + i] = b[i]
        /\ ToldUpTo(j, n)
    BY DEF Comes
  <2>2. \A x \in unwritten[j] : \E p \in 1..n : o[p] = x
    BY DEF Comes
  <2>3. Len(o) \in Nat /\ Len(q) \in Nat /\ Len(b) \in Nat /\ DOMAIN q = 1..Len(q) /\ DOMAIN b = 1..Len(b)
    OBVIOUS
  <2> QED  BY <2>1, <2>2, <2>3
<1>2. /\ Len(offered'[j]) = Len(o) + 1 /\ offered'[j][Len(o) + 1] = r
      /\ \A p \in 1..Len(o) : offered'[j][p] = o[p]
      /\ Len(handler'[j].buffer) = Len(b) + 1 /\ handler'[j].buffer[Len(b) + 1] = r
      /\ \A i \in 1..Len(b) : handler'[j].buffer[i] = b[i]
      /\ DOMAIN handler'[j].buffer = 1..(Len(b) + 1)
  OBVIOUS
<1> HIDE DEF o, b
<1>3. \A p \in 1..n : p \in 1..Len(o)
  BY <1>1
<1>4. ToldUpTo(j, n)'
  BY <1>1, <1>2, <1>3, ToldStays DEF o
<1>5. \A i \in DOMAIN q : offered'[j][n + i] = q[i]
  <2> TAKE i \in DOMAIN q
  <2> DEFINE a == Len(q)
             e == Len(b)
             l == Len(o)
  <2>1. a \in Nat /\ e \in Nat /\ l = n + a + e /\ i \in 1..a
    BY <1>1
  <2> HIDE DEF a, e, l
  <2>2. n + i \in 1..l
    BY ONLY <2>1, n \in Nat
  <2>3. n + i \in 1..Len(o) /\ o[n + i] = q[i]
    BY <1>1, <2>2 DEF l
  <2> QED  BY <1>2, <2>3
<1>6. \A i \in 1..(Len(b) + 1) : offered'[j][n + Len(q) + i] = handler'[j].buffer[i]
  <2> TAKE i \in 1..(Len(b) + 1)
  <2>1. CASE i = Len(b) + 1
    <3>1. n + Len(q) + i = Len(o) + 1
      BY <1>1, <2>1
    <3> QED  BY <1>2, <2>1, <3>1
  <2>2. CASE i \in 1..Len(b)
    <3>1. n + Len(q) + i \in 1..Len(o)
      BY <1>1, <2>2
    <3> QED  BY <1>1, <1>2, <2>2, <3>1
  <2>3. i = Len(b) + 1 \/ i \in 1..Len(b)
    BY <1>1
  <2> QED  BY <2>1, <2>2, <2>3
<1>7. Len(offered'[j]) = n + Len(q) + Len(handler'[j].buffer)
  BY <1>1, <1>2
<1>8. \A x \in unwritten'[j] : \E p \in 1..n : offered'[j][p] = x
  <2> TAKE x \in unwritten'[j]
  <2>1. PICK p \in 1..n : o[p] = x
    BY <1>1
  <2>2. offered'[j][p] = o[p]
    BY <1>2, <1>3
  <2> QED  BY <2>1, <2>2
<1> QED  BY <1>2, <1>4, <1>5, <1>6, <1>7, <1>8 DEF Comes

\* All that is in the buffer, and what is put behind it, is taken for a batch.
LEMMA ComesTaken ==
  ASSUME NEW j, NEW n \in Nat, NEW q \in Seq(Nat), Comes(j, n, << >>),
         offered[j] \in Seq(Nat), handler[j].buffer \in Seq(Nat),
         \A p \in 1..Len(offered[j]) : offered'[j][p] = offered[j][p],
         Len(offered'[j]) = n + Len(q), \A i \in DOMAIN q : offered'[j][n + i] = q[i],
         handler'[j].buffer = << >>,
         unwritten'[j] = unwritten[j], logged'[j] = logged[j]
  PROVE  Comes(j, n, q)'
<1>1. /\ Len(offered[j]) = n + Len(<< >>) + Len(handler[j].buffer) /\ Len(offered[j]) \in Nat
      /\ Len(handler[j].buffer) \in Nat /\ Len(<< >>) = 0 /\ DOMAIN << >> = {} /\ Len(q) \in Nat
      /\ ToldUpTo(j, n) /\ \A x \in unwritten[j] : \E p \in 1..n : offered[j][p] = x
  <2>1. Len(offered[j]) = n + Len(<< >>) + Len(handler[j].buffer) /\ ToldUpTo(j, n)
    BY DEF Comes
  <2>2. \A x \in unwritten[j] : \E p \in 1..n : offered[j][p] = x
    BY DEF Comes
  <2>3. /\ Len(offered[j]) \in Nat /\ Len(handler[j].buffer) \in Nat
        /\ Len(<< >>) = 0 /\ DOMAIN << >> = {} /\ Len(q) \in Nat
    OBVIOUS
  <2> QED  BY <2>1, <2>2, <2>3
<1>2. \A p \in 1..n : p \in 1..Len(offered[j])
  BY <1>1
<1>3. ToldUpTo(j, n)'
  BY <1>1, <1>2, ToldStays
<1>4. \A x \in unwritten'[j] : \E p \in 1..n : offered'[j][p] = x
  BY <1>1, <1>2
<1>5. /\ Len(offered'[j]) = n + Len(q) + Len(handler'[j].buffer)
      /\ DOMAIN handler'[j].buffer = {}
  BY <1>1
<1> QED  BY <1>3, <1>4, <1>5 DEF Comes

\* A flush takes a batch from the handler of j; no other log is touched.
LEMMA FlushInTurn ==
  ASSUME LogInv, NEW t \in LogJobs, NEW j \in LogJobs, NEW buffer \in Seq(Nat),
         NEW lock \in LogJobs \cup {0}, StartFlush(t, j, buffer, lock),
         caller[t].step \notin {"numbering", "writing"},
         \A k \in LogJobs \ {j} : offered'[k] = offered[k],
         unwritten' = unwritten, logged' = logged, offered'[j] \in Seq(Nat),
         \A p \in 1..Len(offered[j]) : offered'[j][p] = offered[j][p],
         \A n \in Nat : Comes(j, n, << >>) =>
           /\ Len(offered'[j]) = n + Len(buffer)
           /\ \A i \in DOMAIN buffer : offered'[j][n + i] = buffer[i]
  PROVE  \A k \in LogJobs \ twoFlushes' : ToldInTurn(k)'
<1>1. /\ LogTyped /\ handler'[j].buffer = << >>
      /\ \A k \in LogJobs \ {j} : handler'[k] = handler[k]
      /\ \A u \in LogJobs \ {t} : caller'[u] = caller[u]
      /\ caller'[t].step = "numbering" /\ caller'[t].job = j /\ caller'[t].batch = buffer
      /\ \A k \in LogJobs : t \notin Writing(k)
  BY FlushIs DEF LogInv, Writing
<1>2. twoFlushes' = IF Writing(j) = {} THEN twoFlushes ELSE twoFlushes \cup {j}
  BY DEF StartFlush
<1>3. ASSUME NEW k \in LogJobs \ twoFlushes', k # j PROVE ToldInTurn(k)'
  <2>1. Writing(k)' = Writing(k)
    <3>1. t \notin Writing(k)' /\ t \notin Writing(k)
      BY <1>1, <1>3 DEF Writing
    <3>2. \A u \in LogJobs \ {t} : u \in Writing(k)' <=> u \in Writing(k)
      BY <1>1 DEF Writing
    <3>3. \A u \in Writing(k) : u \in LogJobs
      BY DEF Writing
    <3>4. \A u \in Writing(k)' : u \in LogJobs
      BY DEF Writing
    <3>5. Writing(k)' \subseteq Writing(k)
      BY <3>1, <3>2, <3>4
    <3>6. Writing(k) \subseteq Writing(k)'
      BY <3>1, <3>2, <3>3
    <3> QED  BY ONLY <3>5, <3>6
  <2>2. ToldInTurn(k)
    BY <1>2, <1>3 DEF LogInv
  <2>3. \A u \in Writing(k) : caller'[u] = caller[u]
    BY <1>1 DEF Writing
  <2> QED  BY <1>1, <1>3, <2>1, <2>2, <2>3, InTurnStays
<1>4. ASSUME j \notin twoFlushes' PROVE ToldInTurn(j)'
  <2>1. Writing(j) = {} /\ j \notin twoFlushes
    BY <1>2, <1>4
  <2>2. Writing(j)' = {t}
    BY <1>1, <2>1 DEF Writing
  <2>3. PICK n \in 0..Len(offered[j]) : Comes(j, n, << >>)
    BY <2>1 DEF LogInv, ToldInTurn
  <2>4. n \in Nat /\ offered[j] \in Seq(Nat) /\ handler[j].buffer \in Seq(Nat)
        /\ Len(offered[j]) \in Nat /\ Len(buffer) \in Nat
    BY <1>1, CallersAre
  <2>5. Comes(j, n, buffer)'
    <3>1. /\ unwritten'[j] = unwritten[j] /\ logged'[j] = logged[j] /\ handler'[j].buffer = << >>
          /\ \A p \in 1..Len(offered[j]) : offered'[j][p] = offered[j][p]
          /\ Len(offered'[j]) = n + Len(buffer)
          /\ \A i \in DOMAIN buffer : offered'[j][n + i] = buffer[i]
      BY <1>1, <2>3, <2>4
    <3>2. buffer \in Seq(Nat)
      OBVIOUS
    <3> QED  BY ONLY <2>3, <2>4, <3>1, <3>2, ComesTaken
  <2>6. n \in 0..Len(offered'[j])
    BY <2>3, <2>4
  <2> QED  BY <1>1, <2>2, <2>5, <2>6 DEF ToldInTurn
<1> QED  BY <1>3, <1>4

LEMMA EmitKeeps ==
  ASSUME LogInv, NEW t \in LogJobs, NEW waited \in BOOLEAN, Emit(t, waited)
  PROVE  LogInv'
<1> DEFINE c == caller[t]
           j == c.job
           r == c.record
           b == handler[j].buffer
           buffer == Append(b, r)
           Flushes == waited \/ Len(buffer) >= BatchLines
<1>1. /\ c.step = "emitting" /\ offered' = [offered EXCEPT ![j] = Append(@, r)]
      /\ UNCHANGED <<attached, running, logged, records, unwritten>>
      /\ LogTyped /\ RecordsDistinct /\ Walking
      /\ Flushes => StartFlush(t, j, buffer, t)
      /\ ~ Flushes => /\ handler' = [handler EXCEPT ![j].buffer = buffer, ![j].lock = 0]
                      /\ caller' = [caller EXCEPT ![t] = WalksOn(r, c.at + 1)]
                      /\ UNCHANGED twoFlushes
  BY DEF Emit, LogInv
<1>2. /\ j \in LogJobs /\ r \in Nat /\ r > 0 /\ r <= records /\ c.at \in Nat /\ records \in Nat
      /\ b \in Seq(Nat) /\ buffer \in Seq(Nat) /\ buffer # << >>
      /\ handler \in [LogJobs -> Handlers] /\ handler[j] \in Handlers
      /\ caller \in [LogJobs -> LogCallers]
      /\ NotPut(r, j) /\ running[j] # "new" /\ Place(t) = c.at + 1
      /\ \A i \in DOMAIN attached : i >= Place(t) => attached[i] # j
  <2>1. j \in LogJobs /\ handler \in [LogJobs -> Handlers] /\ caller \in [LogJobs -> LogCallers] /\ records \in Nat
    BY <1>1 DEF LogTyped
  <2>2. r \in Nat /\ c.at \in Nat /\ b \in Seq(Nat) /\ handler[j] \in Handlers
    BY <1>1, <2>1, CallersAre
  <2>3. r > 0 /\ r <= records
    BY <1>1 DEF RecordsDistinct
  <2>4. /\ NotPut(r, j) /\ running[j] # "new" /\ Place(t) = c.at + 1
        /\ \A i \in DOMAIN attached : i >= Place(t) => attached[i] # j
    BY <1>1 DEF Walking, Place
  <2>5. buffer \in Seq(Nat) /\ buffer # << >>
    <3> HIDE DEF b, r
    <3> QED  BY <2>2
  <2> QED  BY <2>1, <2>2, <2>3, <2>4, <2>5
<1>3. /\ offered \in [LogJobs -> Seq(Nat)] /\ offered' \in [LogJobs -> Seq(Nat)]
      /\ offered'[j] = Append(offered[j], r)
      /\ \A k \in LogJobs \ {j} : offered'[k] = offered[k]
  <2>1. offered \in [LogJobs -> Seq(Nat)]
    BY <1>1 DEF LogTyped
  <2> HIDE DEF j, r
  <2> QED  BY <1>1, <1>2, <2>1
<1>4. /\ Len(offered[j]) \in Nat /\ DOMAIN offered'[j] = 1..(Len(offered[j]) + 1)
      /\ DOMAIN offered[j] = 1..Len(offered[j]) /\ Len(offered'[j]) = Len(offered[j]) + 1
      /\ offered'[j][Len(offered[j]) + 1] = r
      /\ \A p \in 1..Len(offered[j]) : offered'[j][p] = offered[j][p]
  <2>1. offered[j] \in Seq(Nat)
    BY <1>2, <1>3
  <2> HIDE DEF j, r
  <2> QED  BY <1>2, <1>3, <2>1
<1> HIDE DEF c, j, r, b, buffer, Flushes
<1> DEFINE Onward ==
      /\ handler' \in [LogJobs -> Handlers] /\ \A k \in LogJobs \ {j} : handler'[k] = handler[k]
      /\ caller' \in [LogJobs -> LogCallers] /\ \A u \in LogJobs \ {t} : caller'[u] = caller[u]
      /\ caller'[t].record = r /\ caller'[t].step \in {"walking", "numbering"}
      /\ caller'[t].step = "walking" => caller'[t].at = c.at + 1
      /\ caller'[t].step = "numbering" =>
           caller'[t].at = c.at /\ caller'[t].job = j /\ caller'[t].batch = buffer
<1>5. ASSUME ~ Flushes
      PROVE  /\ Onward /\ handler'[j].buffer = buffer /\ caller'[t].step = "walking"
             /\ twoFlushes' = twoFlushes
  <2>1. /\ handler' = [handler EXCEPT ![j].buffer = buffer, ![j].lock = 0]
        /\ caller' = [caller EXCEPT ![t] = WalksOn(r, c.at + 1)] /\ twoFlushes' = twoFlushes
    BY <1>1, <1>5
  <2>2. /\ WalksOn(r, c.at + 1) \in LogCallers /\ WalksOn(r, c.at + 1).step = "walking"
        /\ WalksOn(r, c.at + 1).record = r /\ WalksOn(r, c.at + 1).at = c.at + 1
    <3>1. c.at + 1 \in Nat
      BY <1>2
    <3> QED  BY <1>2, <3>1, StepsAre
  <2>3. caller'[t] = WalksOn(r, c.at + 1) /\ \A u \in LogJobs \ {t} : caller'[u] = caller[u]
    BY <1>2, <2>1
  <2>4. caller' \in [LogJobs -> LogCallers]
    BY <1>2, <2>1, <2>2, <2>3
  <2>5. /\ handler'[j] = [handler[j] EXCEPT !.buffer = buffer, !.lock = 0]
        /\ \A k \in LogJobs \ {j} : handler'[k] = handler[k]
    BY <1>2, <2>1
  <2>6. handler'[j] \in Handlers /\ handler'[j].buffer = buffer
    BY <1>2, <2>5 DEF Handlers
  <2>7. handler' \in [LogJobs -> Handlers]
    BY <1>2, <2>1, <2>5, <2>6
  <2> QED  BY <2>1, <2>2, <2>3, <2>4, <2>5, <2>6, <2>7
<1>6. ASSUME Flushes PROVE Onward
  <2>1. StartFlush(t, j, buffer, t)
    BY <1>1, <1>6
  <2> QED  BY <1>1, <1>2, <2>1, FlushIs DEF c, r
<1>7. Onward
  BY <1>5, <1>6
<1>8. LogTyped'
  <2>1. \A u \in LogJobs :
          /\ caller'[u].step \in {"emitting", "numbering", "writing"} => caller'[u].job \in LogJobs
          /\ caller'[u].step \in {"numbering", "writing"} => caller'[u].batch # << >>
          /\ caller'[u].step = "walking" => caller'[u].at > 0
    <3>1. ASSUME NEW u \in LogJobs \ {t}
          PROVE  /\ caller'[u].step \in {"emitting", "numbering", "writing"} => caller'[u].job \in LogJobs
                 /\ caller'[u].step \in {"numbering", "writing"} => caller'[u].batch # << >>
                 /\ caller'[u].step = "walking" => caller'[u].at > 0
      <4>1. caller'[u] = caller[u]
        BY <1>7
      <4> QED  BY <1>1, <4>1 DEF LogTyped
    <3>2. /\ caller'[t].step \in {"walking", "numbering"}
          /\ caller'[t].step = "numbering" => caller'[t].job \in LogJobs /\ caller'[t].batch # << >>
          /\ caller'[t].step = "walking" => caller'[t].at > 0
      BY <1>2, <1>7
    <3> QED  BY <3>1, <3>2
  <2> QED  BY <1>1, <1>3, <1>7, <2>1 DEF LogTyped
<1>9. \A p \in 1..(Len(offered[j]) + 1) : p \in 1..Len(offered[j]) \/ p = Len(offered[j]) + 1
  BY <1>4
<1>10. \A u \in LogJobs : caller'[u].record = caller[u].record
  BY <1>7 DEF c, r
<1>11. RecordsDistinct'
  <2>1. \A u \in LogJobs : caller'[u].record <= records'
    BY <1>1, <1>10 DEF RecordsDistinct
  <2>2. \A u \in LogJobs : caller'[u].step \in {"walking", "emitting"} => caller'[u].record > 0
    BY <1>1, <1>2, <1>7 DEF RecordsDistinct
  <2>3. \A u, v \in LogJobs : u # v /\ caller'[u].record = caller'[v].record => caller'[u].record = 0
    BY <1>1, <1>10 DEF RecordsDistinct
  <2>4. \A k \in LogJobs : \A p \in DOMAIN offered'[k] : offered'[k][p] \in 1..records'
    <3>1. r \in 1..records
      BY <1>2
    <3> QED  BY <1>1, <1>3, <1>4, <1>9, <3>1 DEF RecordsDistinct
  <2>5. ASSUME NEW p \in DOMAIN offered'[j], NEW q \in DOMAIN offered'[j], offered'[j][p] = offered'[j][q]
        PROVE  p = q
    <3>1. \A i \in 1..Len(offered[j]) : offered[j][i] # r
      BY <1>2, <1>4 DEF NotPut
    <3>2. CASE p \in 1..Len(offered[j]) /\ q \in 1..Len(offered[j])
      BY <1>1, <1>2, <1>4, <2>5, <3>2 DEF RecordsDistinct
    <3> QED  BY <1>4, <1>9, <2>5, <3>1, <3>2
  <2>6. ASSUME NEW k \in LogJobs \ {j} PROVE \A p, q \in DOMAIN offered'[k] : offered'[k][p] = offered'[k][q] => p = q
    <3>1. offered'[k] = offered[k]
      BY <1>3
    <3>2. \A p, q \in DOMAIN offered[k] : offered[k][p] = offered[k][q] => p = q
      BY <1>1 DEF RecordsDistinct
    <3> QED  BY <3>1, <3>2
  <2>7. \A k \in LogJobs : \A p, q \in DOMAIN offered'[k] : offered'[k][p] = offered'[k][q] => p = q
    BY <2>5, <2>6
  <2> QED  BY <2>1, <2>2, <2>3, <2>4, <2>7 DEF RecordsDistinct
<1>12. Walking'
  <2>1. \A u \in LogJobs : Place(u)' = Place(u)
    BY <1>2, <1>7 DEF Place
  <2>2. \A u \in LogJobs : u # t => caller[u].record # r
    BY <1>1, <1>2 DEF RecordsDistinct, r, c
  <2>3. ASSUME NEW x, NEW k, k \in LogJobs, NotPut(x, k), k = j => x # r PROVE NotPut(x, k)'
    BY <1>3, <1>4, <1>9, <2>3 DEF NotPut
  <2>4. \A i \in DOMAIN attached : attached[i] \in LogJobs
    BY <1>1, CallersAre
  <2>5. ASSUME NEW u \in LogJobs, NEW i \in DOMAIN attached, i >= Place(u),
               NEW k, k = attached[i], NEW x, x = caller[u].record
        PROVE  NotPut(x, k)'
    <3>1. NotPut(x, k) /\ k \in LogJobs
      BY <1>1, <2>4, <2>5 DEF Walking
    <3>2. k = j => x # r
      BY <1>2, <2>2, <2>5
    <3> QED  BY <2>3, <3>1, <3>2
  <2>6. (\A u \in LogJobs : \A i \in DOMAIN attached :
           i >= Place(u) => NotPut(caller[u].record, attached[i]))'
    BY <1>1, <1>10, <2>1, <2>5 DEF NotPut
  <2>7. ASSUME NEW u \in LogJobs, caller'[u].step = "emitting",
               NEW k, k = caller'[u].job, NEW x, x = caller'[u].record
        PROVE  /\ NotPut(x, k)' /\ running'[k] # "new"
               /\ \A i \in DOMAIN attached : i >= Place(u) => attached[i] # k
    <3>1. u # t
      BY <1>7, <2>7
    <3>2. caller'[u] = caller[u]
      BY <1>7, <3>1
    <3>3. /\ NotPut(x, k) /\ running[k] # "new" /\ k \in LogJobs /\ x # r
          /\ \A i \in DOMAIN attached : i >= Place(u) => attached[i] # k
      BY <1>1, <2>2, <2>7, <3>1, <3>2 DEF Walking, LogTyped
    <3> QED  BY <1>1, <2>3, <3>3
  <2>8. (\A u \in LogJobs : caller[u].step = "emitting" =>
            /\ NotPut(caller[u].record, caller[u].job)
            /\ running[caller[u].job] # "new"
            /\ \A i \in DOMAIN attached : i >= Place(u) => attached[i] # caller[u].job)'
    BY <1>1, <2>1, <2>7 DEF NotPut
  <2>9. \A u \in LogJobs : caller'[u].step \in {"numbering", "writing"} /\ caller'[u].record = 0 =>
          running'[u] = "detached"
    BY <1>1, <1>2, <1>7 DEF Walking
  <2>10. \A k \in LogJobs : running'[k] = "new" => offered'[k] = << >>
    BY <1>1, <1>2, <1>3 DEF Walking
  <2> QED  BY <1>1, <2>6, <2>8, <2>9, <2>10 DEF Walking
<1>13. ASSUME Flushes PROVE \A k \in LogJobs \ twoFlushes' : ToldInTurn(k)'
  <2>1. StartFlush(t, j, buffer, t)
    BY <1>1, <1>13
  <2>2. ASSUME NEW n \in Nat, Comes(j, n, << >>)
        PROVE  /\ Len(offered'[j]) = n + Len(buffer)
               /\ \A i \in DOMAIN buffer : offered'[j][n + i] = buffer[i]
    <3>1. /\ Len(offered[j]) = n + Len(<< >>) + Len(b)
          /\ \A i \in DOMAIN b : offered[j][n + Len(<< >>) + i] = b[i]
      BY <2>2 DEF Comes, b
    <3>2. /\ Len(<< >>) = 0 /\ Len(b) \in Nat /\ DOMAIN b = 1..Len(b)
          /\ Len(buffer) = Len(b) + 1 /\ DOMAIN buffer = 1..(Len(b) + 1)
          /\ buffer[Len(b) + 1] = r /\ \A i \in 1..Len(b) : buffer[i] = b[i]
      BY <1>2 DEF buffer
    <3>3. ASSUME NEW i \in DOMAIN buffer PROVE offered'[j][n + i] = buffer[i]
      <4>1. CASE i = Len(b) + 1
        <5>1. n + i = Len(offered[j]) + 1
          BY <3>1, <3>2, <4>1
        <5> QED  BY <1>4, <3>2, <4>1, <5>1
      <4>2. CASE i \in 1..Len(b)
        <5>1. n + i \in 1..Len(offered[j]) /\ n + Len(<< >>) + i = n + i
          BY <1>4, <3>1, <3>2, <4>2
        <5>2. offered[j][n + i] = b[i]
          BY <3>1, <3>2, <4>2, <5>1
        <5> QED  BY <1>4, <3>2, <4>2, <5>1, <5>2
      <4>3. i = Len(b) + 1 \/ i \in 1..Len(b)
        BY <3>2
      <4> QED  BY <4>1, <4>2, <4>3
    <3> QED  BY <1>4, <3>1, <3>2, <3>3
  <2>3. caller[t].step \notin {"numbering", "writing"}
    BY <1>1 DEF c
  <2>4. /\ j \in LogJobs /\ buffer \in Seq(Nat) /\ t \in LogJobs \cup {0} /\ offered'[j] \in Seq(Nat)
        /\ unwritten' = unwritten /\ logged' = logged
        /\ \A k \in LogJobs \ {j} : offered'[k] = offered[k]
        /\ \A p \in 1..Len(offered[j]) : offered'[j][p] = offered[j][p]
    BY <1>1, <1>2, <1>3, <1>4
  <2>5. \A n \in Nat : Comes(j, n, << >>) =>
          /\ Len(offered'[j]) = n + Len(buffer)
          /\ \A i \in DOMAIN buffer : offered'[j][n + i] = buffer[i]
    BY <2>2
  <2> QED  BY ONLY LogInv, t \in LogJobs, <2>1, <2>3, <2>4, <2>5, FlushInTurn
<1>14. ASSUME ~ Flushes, NEW k \in LogJobs \ twoFlushes' PROVE ToldInTurn(k)'
  <2>1. Writing(k)' = Writing(k) /\ t \notin Writing(k)
    BY <1>1, <1>5, <1>14 DEF Writing, c
  <2>2. ToldInTurn(k)
    BY <1>5, <1>14 DEF LogInv
  <2>3. \A u \in Writing(k) : caller'[u] = caller[u] /\ caller[u].batch \in Seq(Nat)
    BY <1>1, <1>7, <2>1, CallersAre DEF Writing
  <2>4. CASE k # j
    BY <1>1, <1>3, <1>7, <2>1, <2>2, <2>3, <2>4, InTurnStays
  <2>5. CASE k = j
    <3>1. /\ offered[k] \in Seq(Nat) /\ handler[k].buffer \in Seq(Nat)
          /\ offered'[k] = Append(offered[k], r) /\ handler'[k].buffer = Append(handler[k].buffer, r)
      BY <1>2, <1>3, <1>5, <1>14, <2>5 DEF buffer, b
    <3>2. \A n \in Nat, q \in Seq(Nat) : Comes(k, n, q) => Comes(k, n, q)'
      BY <1>1, <1>2, <3>1, ComesGrows
    <3>3. \A n \in 0..Len(offered[k]) : n \in Nat /\ n \in 0..Len(offered'[k])
      BY <1>4, <2>5
    <3>4. Highest(k)' = Highest(k) /\ << >> \in Seq(Nat)
      BY <1>1 DEF Highest
    <3>5. Writing(k) = {} => \E n \in 0..Len(offered'[k]) : Comes(k, n, << >>)'
      BY <2>2, <3>2, <3>3, <3>4 DEF ToldInTurn
    <3>6. ASSUME NEW u \in Writing(k)
          PROVE  /\ \E n \in 0..Len(offered'[k]), q \in {caller'[u].batch} : Comes(k, n, q)'
                 /\ caller'[u].step = "writing" => caller'[u].top = Highest(k)'
      <4>1. \E n \in 0..Len(offered[k]), q \in {caller[u].batch} : Comes(k, n, q)
        BY <2>2 DEF ToldInTurn
      <4>2. caller[u].step = "writing" => caller[u].top = Highest(k)
        BY <2>2 DEF ToldInTurn
      <4> QED  BY <2>3, <3>2, <3>3, <3>4, <4>1, <4>2
    <3>7. \A u, v \in Writing(k)' : u = v
      BY <2>1, <2>2 DEF ToldInTurn
    <3> QED  BY <2>1, <3>5, <3>6, <3>7 DEF ToldInTurn
  <2> QED  BY <2>4, <2>5
<1> QED  BY <1>8, <1>11, <1>12, <1>13, <1>14 DEF LogInv

\* A list without its i-th place.
LEMMA RemovedAt ==
  ASSUME NEW S, NEW s \in Seq(S), NEW i \in 1..Len(s)
  PROVE  /\ RemoveAt(s, i) \in Seq(S) /\ Len(RemoveAt(s, i)) = Len(s) - 1
         /\ \A k \in 1..(Len(s) - 1) : RemoveAt(s, i)[k] = IF k < i THEN s[k] ELSE s[k + 1]
<1> DEFINE a == SubSeq(s, 1, i - 1)
           b == SubSeq(s, i + 1, Len(s))
<1>1. Len(s) \in Nat /\ i \in 1..Len(s)
  OBVIOUS
<1>2. a \in Seq(S) /\ Len(a) = i - 1 /\ \A k \in 1..(i - 1) : a[k] = s[k]
  BY <1>1
<1>3. b \in Seq(S) /\ Len(b) = Len(s) - i /\ \A k \in 1..(Len(s) - i) : b[k] = s[k + i]
  BY <1>1
<1> HIDE DEF a, b
<1>4. RemoveAt(s, i) = a \o b
  BY ONLY i \in 1..Len(s) DEF RemoveAt, a, b
<1>5. a \o b \in Seq(S) /\ Len(a \o b) = Len(s) - 1
  <2>1. a \o b \in Seq(S) /\ Len(a \o b) = Len(a) + Len(b)
    BY <1>2, <1>3, ConcatProperties
  <2>2. (i - 1) + (Len(s) - i) = Len(s) - 1
    BY <1>1
  <2> QED  BY <1>2, <1>3, <2>1, <2>2
<1>6. ASSUME NEW k \in 1..(Len(s) - 1) PROVE (a \o b)[k] = IF k < i THEN s[k] ELSE s[k + 1]
  <2>1. CASE k < i
    <3>1. k \in 1..(i - 1)
      BY <1>1, <2>1
    <3>2. (a \o b)[k] = a[k]
      BY <1>1, <1>2, <1>3, <3>1
    <3> QED  BY <1>2, <2>1, <3>1, <3>2
  <2>2. CASE ~ (k < i)
    <3>1. k - (i - 1) \in 1..(Len(s) - i) /\ (k - (i - 1)) + i = k + 1
      BY <1>1, <2>2
    <3>2. (a \o b)[k] = b[k - (i - 1)]
      BY <1>1, <1>2, <1>3, <2>2, <3>1
    <3> QED  BY <1>3, <2>2, <3>1, <3>2
  <2> QED  BY <2>1, <2>2
<1> QED  BY <1>4, <1>5, <1>6

LEMMA DetachKeeps ==
  ASSUME LogInv, NEW t \in LogJobs, Detach(t)
  PROVE  LogInv'
<1>1. /\ running[t] = "running" /\ caller[t] = NotLogging
      /\ running' = [running EXCEPT ![t] = "detached"]
      /\ UNCHANGED <<handler, caller, logged, records, offered, unwritten, twoFlushes>>
      /\ LogTyped /\ RecordsDistinct /\ Walking
  BY DEF Detach, LogInv
<1>2. PICK i \in DOMAIN attached : attached[i] = t /\ attached' = RemoveAt(attached, i)
  BY DEF Detach
<1>3. /\ attached \in Seq(LogJobs) /\ Len(attached) \in Nat /\ DOMAIN attached = 1..Len(attached)
      /\ \A k \in DOMAIN attached : attached[k] \in LogJobs
      /\ \A k \in DOMAIN attached : running[attached[k]] = "running"
      /\ \A k, l \in DOMAIN attached : attached[k] = attached[l] => k = l
  BY <1>1, CallersAre DEF LogTyped, Walking
<1>4. /\ attached' \in Seq(LogJobs) /\ Len(attached') = Len(attached) - 1
      /\ \A k \in 1..(Len(attached) - 1) : attached'[k] = IF k < i THEN attached[k] ELSE attached[k + 1]
  <2>1. i \in 1..Len(attached) /\ attached \in Seq(LogJobs)
    BY <1>3
  <2>2. /\ RemoveAt(attached, i) \in Seq(LogJobs) /\ Len(RemoveAt(attached, i)) = Len(attached) - 1
        /\ \A k \in 1..(Len(attached) - 1) :
             RemoveAt(attached, i)[k] = IF k < i THEN attached[k] ELSE attached[k + 1]
    BY ONLY <2>1, RemovedAt
  <2> QED  BY <1>2, <2>2
<1>5. DOMAIN attached' = 1..(Len(attached) - 1)
  BY <1>4
<1> DEFINE from(k) == IF k < i THEN k ELSE k + 1
<1>6. ASSUME NEW k \in DOMAIN attached'
      PROVE  /\ from(k) \in DOMAIN attached /\ attached'[k] = attached[from(k)]
             /\ from(k) >= k /\ from(k) # i /\ k \in Nat /\ from(k) \in Nat
  <2>1. k \in 1..(Len(attached) - 1) /\ i \in 1..Len(attached)
    BY <1>3, <1>5
  <2>2. CASE k < i
    BY <1>3, <1>4, <2>1, <2>2
  <2>3. CASE ~ (k < i)
    BY <1>3, <1>4, <2>1, <2>3
  <2> QED  BY <2>2, <2>3
<1>7. \A k, l \in DOMAIN attached' : from(k) = from(l) => k = l
  <2> TAKE k, l \in DOMAIN attached'
  <2>1. k \in Nat /\ l \in Nat /\ i \in Nat
    BY <1>3, <1>6
  <2> QED  BY <2>1
<1> HIDE DEF from
<1>8. /\ running'[t] = "detached" /\ \A j \in LogJobs \ {t} : running'[j] = running[j]
      /\ running' \in [LogJobs -> {"new", "running", "detached", "over"}]
  BY <1>1 DEF LogTyped
<1>9. LogTyped'
  BY <1>1, <1>4, <1>8 DEF LogTyped
<1>10. RecordsDistinct'
  BY <1>1 DEF RecordsDistinct
<1>11. \A k \in DOMAIN attached' : attached'[k] \in LogJobs \ {t}
  BY <1>2, <1>3, <1>6
<1>12. Walking'
  <2>1. \A u \in LogJobs : Place(u)' = Place(u) /\ Place(u) \in Nat
    BY <1>1, CallersAre DEF Place
  <2>2. \A k, l \in DOMAIN attached' : attached'[k] = attached'[l] => k = l
    <3> TAKE k, l \in DOMAIN attached'
    <3> HAVE attached'[k] = attached'[l]
    <3>1. from(k) = from(l)
      BY <1>3, <1>6
    <3> QED  BY <1>7, <3>1
  <2>3. \A k \in DOMAIN attached' : running'[attached'[k]] = "running"
    <3> TAKE k \in DOMAIN attached'
    <3>1. running[attached'[k]] = "running"
      BY <1>3, <1>6
    <3> QED  BY <1>8, <1>11, <3>1
  <2>4. \A j \in LogJobs : running'[j] = "new" => offered'[j] = << >>
    BY <1>1, <1>8 DEF Walking
  <2>5. ASSUME NEW u \in LogJobs, NEW k \in DOMAIN attached', k >= Place(u)
        PROVE  from(k) \in DOMAIN attached /\ from(k) >= Place(u) /\ attached'[k] = attached[from(k)]
    BY <1>6, <2>1, <2>5
  <2>6. ASSUME NEW u \in LogJobs, NEW k \in DOMAIN attached', k >= Place(u),
               NEW j, j = attached'[k], NEW r, r = caller[u].record
        PROVE  NotPut(r, j)
    BY <1>1, <2>5, <2>6 DEF Walking
  <2>7. (\A u \in LogJobs : \A k \in DOMAIN attached :
           k >= Place(u) => NotPut(caller[u].record, attached[k]))'
    BY <1>1, <2>1, <2>6 DEF NotPut
  <2>8. \A u \in LogJobs : caller[u].step \in {"numbering", "writing"} /\ caller[u].record = 0 =>
          running'[u] = "detached"
    BY <1>1, <1>8 DEF Walking
  <2>9. ASSUME NEW u \in LogJobs, caller[u].step = "emitting"
        PROVE  /\ NotPut(caller[u].record, caller[u].job) /\ running'[caller[u].job] # "new"
               /\ \A k \in DOMAIN attached' : k >= Place(u) => attached'[k] # caller[u].job
    <3>1. /\ NotPut(caller[u].record, caller[u].job) /\ running[caller[u].job] # "new"
          /\ \A k \in DOMAIN attached : k >= Place(u) => attached[k] # caller[u].job
          /\ caller[u].job \in LogJobs
      BY <1>1, <2>9 DEF Walking, LogTyped
    <3>2. running'[caller[u].job] # "new"
      BY <1>8, <3>1
    <3> QED  BY <2>5, <3>1, <3>2
  <2>10. (\A u \in LogJobs : caller[u].step = "emitting" =>
            /\ NotPut(caller[u].record, caller[u].job)
            /\ running[caller[u].job] # "new"
            /\ \A k \in DOMAIN attached : k >= Place(u) => attached[k] # caller[u].job)'
    BY <1>1, <2>1, <2>9 DEF NotPut
  <2> QED  BY <1>1, <2>2, <2>3, <2>4, <2>7, <2>8, <2>10 DEF Walking
<1>13. ASSUME NEW j \in LogJobs \ twoFlushes' PROVE ToldInTurn(j)'
  <2>1. Writing(j)' = Writing(j)
    BY <1>1 DEF Writing
  <2>2. ToldInTurn(j)
    BY <1>1 DEF LogInv
  <2> QED  BY <1>1, <2>1, <2>2, InTurnStays DEF Writing
<1> QED  BY <1>9, <1>10, <1>12, <1>13 DEF LogInv

LEMMA LastFlushKeeps ==
  ASSUME LogInv, NEW t \in LogJobs, LastFlush(t)
  PROVE  LogInv'
<1> DEFINE b == handler[t].buffer
<1>1. /\ running[t] = "detached" /\ caller[t] = NotLogging
      /\ UNCHANGED <<attached, logged, records, offered, unwritten>>
      /\ LogTyped /\ RecordsDistinct /\ Walking
  BY DEF LastFlush, LogInv
<1>2. /\ caller[t].step = "idle" /\ caller[t].record = 0 /\ caller[t].at = 0
      /\ b \in Seq(Nat) /\ handler[t].lock \in LogJobs \cup {0}
      /\ running \in [LogJobs -> {"new", "running", "detached", "over"}]
  <2>1. handler[t] \in Handlers /\ b \in Seq(Nat)
    BY <1>1, CallersAre
  <2>2. caller[t].step = "idle" /\ caller[t].record = 0 /\ caller[t].at = 0
    BY <1>1 DEF NotLogging
  <2> QED  BY <1>1, <2>1, <2>2 DEF Handlers, LogTyped
<1>3. CASE b = << >>
  <2>1. running' = [running EXCEPT ![t] = "over"] /\ UNCHANGED <<handler, caller, twoFlushes>>
    BY <1>3 DEF LastFlush
  <2>2. /\ running'[t] = "over" /\ \A j \in LogJobs \ {t} : running'[j] = running[j]
        /\ running' \in [LogJobs -> {"new", "running", "detached", "over"}]
    BY <1>2, <2>1
  <2>3. LogTyped'
    BY <1>1, <2>1, <2>2 DEF LogTyped
  <2>4. RecordsDistinct'
    BY <1>1, <2>1 DEF RecordsDistinct
  <2>5. Walking'
    <3>1. \A u \in LogJobs : Place(u)' = Place(u) /\ Place(u) \in Nat
      BY <1>1, <2>1, CallersAre DEF Place
    <3>2. \A u \in LogJobs : caller'[u].record = caller[u].record /\ Place(u)' >= Place(u)
      BY <2>1, <3>1
    <3>3. \A u \in LogJobs : caller'[u].step \in {"numbering", "writing"} /\ caller'[u].record = 0 =>
            running'[u] = "detached"
      BY <1>1, <1>2, <2>1, <2>2 DEF Walking
    <3>4. \A u \in LogJobs :
            running'[u] = running[u] \/ (running[u] # "running" /\ running[u] # "new" /\ running'[u] # "new")
      BY <1>1, <2>2
    <3> QED  BY <1>1, <2>1, <3>1, <3>2, <3>3, <3>4, WalksStay
  <2>6. ASSUME NEW j \in LogJobs \ twoFlushes' PROVE ToldInTurn(j)'
    <3>1. Writing(j)' = Writing(j)
      BY <2>1 DEF Writing
    <3>2. ToldInTurn(j)
      BY <2>1 DEF LogInv
    <3> QED  BY <1>1, <2>1, <3>1, <3>2, InTurnStays DEF Writing
  <2> QED  BY <2>3, <2>4, <2>5, <2>6 DEF LogInv
<1>4. CASE b # << >>
  <2>1. StartFlush(t, t, b, handler[t].lock) /\ running' = running
    BY <1>4 DEF LastFlush
  <2>2. /\ handler' \in [LogJobs -> Handlers] /\ caller' \in [LogJobs -> LogCallers]
        /\ \A u \in LogJobs \ {t} : caller'[u] = caller[u]
        /\ caller'[t].step = "numbering" /\ caller'[t].job = t /\ caller'[t].batch = b
        /\ caller'[t].record = 0 /\ caller'[t].at = 0
    <3> HIDE DEF b
    <3> QED  BY <1>1, <1>2, <2>1, FlushIs
  <2> HIDE DEF b
  <2>3. LogTyped'
    <3>1. ASSUME NEW u \in LogJobs
          PROVE  /\ caller'[u].step \in {"emitting", "numbering", "writing"} => caller'[u].job \in LogJobs
                 /\ caller'[u].step \in {"numbering", "writing"} => caller'[u].batch # << >>
                 /\ caller'[u].step = "walking" => caller'[u].at > 0
      <4>1. CASE u = t
        BY <1>4, <2>2, <4>1
      <4>2. CASE u # t
        <5>1. caller'[u] = caller[u]
          BY <2>2, <4>2
        <5> QED  BY <1>1, <5>1 DEF LogTyped
      <4> QED  BY <4>1, <4>2
    <3> QED  BY <1>1, <2>1, <2>2, <3>1 DEF LogTyped
  <2>4. \A u \in LogJobs : caller'[u].record = caller[u].record
    BY <1>2, <2>2
  <2>5. RecordsDistinct'
    <3>1. \A u \in LogJobs : caller'[u].step \in {"walking", "emitting"} => caller'[u].record > 0
      BY <1>1, <2>2 DEF RecordsDistinct
    <3> QED  BY <1>1, <2>4, <3>1, RecordsStay
  <2>6. Walking'
    <3>1. \A u \in LogJobs : Place(u)' = Place(u) /\ Place(u) \in Nat
      BY <1>1, <1>2, <2>2, CallersAre DEF Place
    <3>2. \A u \in LogJobs : Place(u)' >= Place(u)
      BY <3>1
    <3>3. \A u \in LogJobs : caller'[u].step = "emitting" => caller[u].step = "emitting" /\ caller'[u] = caller[u]
      BY <2>2
    <3>4. \A u \in LogJobs : caller'[u].step \in {"numbering", "writing"} /\ caller'[u].record = 0 =>
            running'[u] = "detached"
      BY <1>1, <2>1, <2>2 DEF Walking
    <3> QED  BY <1>1, <2>1, <2>4, <3>1, <3>2, <3>3, <3>4, WalksStay
  <2>7. \A j \in LogJobs \ twoFlushes' : ToldInTurn(j)'
    <3>1. ASSUME NEW n \in Nat, Comes(t, n, << >>)
          PROVE  /\ Len(offered'[t]) = n + Len(b)
                 /\ \A i \in DOMAIN b : offered'[t][n + i] = b[i]
      <4>1. /\ Len(offered[t]) = n + Len(<< >>) + Len(b)
            /\ \A i \in DOMAIN b : offered[t][n + Len(<< >>) + i] = b[i]
        BY <3>1 DEF Comes, b
      <4>2. Len(<< >>) = 0 /\ DOMAIN b = 1..Len(b) /\ Len(b) \in Nat
        BY <1>2
      <4>3. n + Len(<< >>) = n
        BY <4>2
      <4> QED  BY <1>1, <4>1, <4>2, <4>3
    <3>2. offered'[t] \in Seq(Nat) /\ offered' = offered /\ unwritten' = unwritten /\ logged' = logged
      BY <1>1, CallersAre
    <3>3. caller[t].step \notin {"numbering", "writing"}
      BY <1>2
    <3> QED  BY <1>2, <2>1, <3>1, <3>2, <3>3, FlushInTurn
  <2> QED  BY <2>3, <2>5, <2>6, <2>7 DEF LogInv
<1> QED  BY <1>3, <1>4

LEMMA WriteIs ==
  ASSUME LogInv, NEW t \in LogJobs, NEW ok \in BOOLEAN, Write(t, ok)
  PROVE  /\ caller[t].step = "writing" /\ caller[t].job \in LogJobs
         /\ handler' \in [LogJobs -> Handlers]
         /\ \A j \in LogJobs : handler'[j].buffer = handler[j].buffer
         /\ caller' \in [LogJobs -> LogCallers] /\ \A u \in LogJobs \ {t} : caller'[u] = caller[u]
         /\ caller'[t].step \in {"idle", "walking"} /\ caller'[t].record = caller[t].record
         /\ caller'[t].step = "idle" => caller'[t].record = 0
         /\ caller'[t].step = "walking" => caller'[t].record > 0 /\ caller'[t].at = caller[t].at + 1
         /\ running' \in [LogJobs -> {"new", "running", "detached", "over"}]
         /\ \A u \in LogJobs :
              running'[u] = running[u] \/ (running[u] = "detached" /\ running'[u] = "over")
         /\ \A u \in LogJobs \ {t} : running'[u] = running[u]
<1> DEFINE c == caller[t]
           j == c.job
<1>1. /\ c.step = "writing" /\ LogTyped /\ Walking /\ RecordsDistinct
      /\ handler' = [handler EXCEPT ![j].flushing = FALSE, ![j].lock = IF @ = t THEN 0 ELSE @]
      /\ IF c.record = 0
         THEN /\ caller' = [caller EXCEPT ![t] = NotLogging]
              /\ running' = [running EXCEPT ![t] = "over"]
         ELSE /\ caller' = [caller EXCEPT ![t] = WalksOn(c.record, c.at + 1)]
              /\ UNCHANGED running
  BY DEF Write, LogInv
<1>2. /\ j \in LogJobs /\ c.record \in Nat /\ c.at \in Nat /\ c.at + 1 \in Nat
      /\ handler \in [LogJobs -> Handlers] /\ handler[j] \in Handlers
      /\ caller \in [LogJobs -> LogCallers]
      /\ running \in [LogJobs -> {"new", "running", "detached", "over"}]
  BY <1>1, CallersAre DEF LogTyped
<1>3. /\ handler' \in [LogJobs -> Handlers]
      /\ \A k \in LogJobs : handler'[k].buffer = handler[k].buffer
  <2> HIDE DEF c, j
  <2>1. /\ handler'[j] = [handler[j] EXCEPT !.flushing = FALSE,
                                           !.lock = IF handler[j].lock = t THEN 0 ELSE handler[j].lock]
        /\ \A k \in LogJobs \ {j} : handler'[k] = handler[k]
    BY <1>1, <1>2
  <2>2. handler'[j] \in Handlers /\ handler'[j].buffer = handler[j].buffer
    BY <1>2, <2>1 DEF Handlers
  <2>3. handler' \in [LogJobs -> Handlers]
    BY <1>1, <1>2, <2>1, <2>2
  <2> QED  BY <2>1, <2>2, <2>3
<1>4. CASE c.record = 0
  <2>1. /\ caller' = [caller EXCEPT ![t] = NotLogging]
        /\ running' = [running EXCEPT ![t] = "over"]
    BY <1>1, <1>4
  <2>2. /\ caller'[t] = NotLogging /\ \A u \in LogJobs \ {t} : caller'[u] = caller[u]
        /\ caller' \in [LogJobs -> LogCallers]
    BY <1>2, <2>1, StepsAre
  <2>3. running[t] = "detached"
    BY <1>1, <1>4 DEF Walking
  <2>4. /\ running' \in [LogJobs -> {"new", "running", "detached", "over"}] /\ running'[t] = "over"
        /\ \A u \in LogJobs \ {t} : running'[u] = running[u]
    BY <1>2, <2>1
  <2> QED  BY <1>1, <1>2, <1>3, <1>4, <2>2, <2>3, <2>4, StepsAre
<1>5. CASE c.record # 0
  <2> DEFINE w == WalksOn(c.record, c.at + 1)
  <2>1. caller' = [caller EXCEPT ![t] = w] /\ running' = running
    BY <1>1, <1>5
  <2>2. /\ w \in LogCallers /\ w.step = "walking"
        /\ w.record = c.record /\ w.at = c.at + 1
    BY <1>2, StepsAre
  <2> HIDE DEF w
  <2>3. /\ caller'[t] = w /\ \A u \in LogJobs \ {t} : caller'[u] = caller[u]
        /\ caller' \in [LogJobs -> LogCallers]
    BY <1>2, <2>1, <2>2
  <2>4. c.record > 0
    BY <1>2, <1>5
  <2> QED  BY <1>1, <1>2, <1>3, <2>1, <2>2, <2>3, <2>4
<1> QED  BY <1>4, <1>5

\* A batch is written or lost: the log has come to its end.
LEMMA BatchIsTold ==
  ASSUME LogInv, NEW t \in LogJobs, NEW ok \in BOOLEAN, Write(t, ok),
         NEW j, j = caller[t].job, j \notin twoFlushes
  PROVE  ToldInTurn(j)'
<1> DEFINE c == caller[t]
<1>0. PICK q : q = c.batch
  OBVIOUS
<1> DEFINE new == {[seq |-> c.top + i, record |-> q[i]] : i \in DOMAIN q}
<1>1. /\ c.step = "writing" /\ LogTyped /\ RecordsDistinct /\ j \in LogJobs
      /\ \A k \in LogJobs : handler'[k].buffer = handler[k].buffer
      /\ \A u \in LogJobs \ {t} : caller'[u] = caller[u]
      /\ caller'[t].step \in {"idle", "walking"}
  BY WriteIs DEF LogInv
<1>2. /\ offered' = offered /\ twoFlushes' = twoFlushes
      /\ ok => /\ logged' = [logged EXCEPT ![j] = Capped(@ \cup new, c.top + Len(q))]
               /\ unwritten' = unwritten
      /\ ~ ok => /\ unwritten' = [unwritten EXCEPT ![j] = @ \cup ToSet(q)]
                 /\ logged' = logged
  BY <1>0 DEF Write
<1>3. t \in Writing(j) /\ ToldInTurn(j)
  BY <1>1 DEF Writing, LogInv
<1>4. PICK n \in 0..Len(offered[j]) : Comes(j, n, q)
  BY <1>0, <1>3 DEF ToldInTurn
<1>5. /\ c.top = Highest(j) /\ Writing(j)' = {}
  <2>1. c.top = Highest(j) /\ \A u \in Writing(j) : u = t
    BY <1>1, <1>3 DEF ToldInTurn
  <2>2. ASSUME NEW u \in LogJobs PROVE u \notin Writing(j)'
    <3>1. CASE u = t
      BY <1>1, <3>1 DEF Writing
    <3>2. CASE u # t
      <4>1. u \notin Writing(j) /\ caller'[u] = caller[u]
        BY <1>1, <2>1, <3>2
      <4> QED  BY <4>1 DEF Writing
    <3> QED  BY <3>1, <3>2
  <2> QED  BY <2>1, <2>2 DEF Writing
<1>6. /\ Highest(j) \in Nat /\ q \in Seq(Nat) /\ q # << >> /\ n \in Nat
      /\ logged \in [LogJobs -> SUBSET LogRows] /\ unwritten \in [LogJobs -> SUBSET Nat]
      /\ offered[j] \in Seq(Nat) /\ Len(offered[j]) \in Nat /\ handler[j].buffer \in Seq(Nat)
      /\ DOMAIN offered[j] = 1..Len(offered[j]) /\ DOMAIN q = 1..Len(q) /\ Len(q) \in Nat
      /\ Len(handler[j].buffer) \in Nat /\ MaxLines \in Nat
  <2>1. /\ c.batch \in Seq(Nat) /\ offered[j] \in Seq(Nat) /\ Len(offered[j]) \in Nat
        /\ handler[j].buffer \in Seq(Nat) /\ DOMAIN offered[j] = 1..Len(offered[j])
    BY <1>1, CallersAre
  <2>2. /\ logged \in [LogJobs -> SUBSET LogRows] /\ unwritten \in [LogJobs -> SUBSET Nat]
        /\ c.batch # << >> /\ Highest(j) \in Nat /\ MaxLines \in Nat
    BY <1>1, HighestIs, JobLogsAssumption DEF LogTyped
  <2>3. q \in Seq(Nat) /\ q # << >>
    BY <1>0, <2>1, <2>2
  <2>4. DOMAIN q = 1..Len(q) /\ Len(q) \in Nat /\ Len(handler[j].buffer) \in Nat /\ n \in Nat
    BY <2>1, <2>3
  <2> QED  BY <2>1, <2>2, <2>3, <2>4
<1>7. /\ Len(offered[j]) = n + Len(q) + Len(handler[j].buffer)
      /\ \A i \in DOMAIN q : offered[j][n + i] = q[i]
      /\ \A i \in DOMAIN handler[j].buffer : offered[j][n + Len(q) + i] = handler[j].buffer[i]
      /\ ToldUpTo(j, n)
  BY <1>4 DEF Comes
<1>8. \A x \in unwritten[j] : \E p \in 1..n : offered[j][p] = x
  BY <1>4 DEF Comes
<1>9. \A k, l \in 1..Len(offered[j]) : offered[j][k] = offered[j][l] => k = l
  BY <1>1, <1>6 DEF RecordsDistinct
<1> HIDE DEF c, new
<1>10. PICK m \in Nat : m = n + Len(q)
  BY <1>6
<1>11. /\ \A p \in 1..n : p \in 1..Len(offered[j]) /\ p \in 1..m
       /\ \A i \in DOMAIN q : n + i \in 1..Len(offered[j]) /\ n + i \in 1..m /\ n + i \notin 1..n
       /\ m \in 0..Len(offered[j])
  <2> DEFINE k == Len(q)
             l == Len(offered[j])
             h == Len(handler[j].buffer)
  <2>1. n \in Nat /\ k \in Nat /\ l \in Nat /\ h \in Nat /\ m = n + k /\ l = n + k + h /\ DOMAIN q = 1..k
    BY <1>6, <1>7, <1>10
  <2> HIDE DEF k, l, h
  <2>2. m \in Nat /\ m <= l /\ n <= m
    BY ONLY <2>1
  <2>3. \A i \in 1..k : n + i \in 1..m /\ n + i \in 1..l /\ n + i \notin 1..n
    BY ONLY <2>1, <2>2
  <2>4. (\A i \in 1..n : i \in 1..l /\ i \in 1..m) /\ m \in 0..l
    BY ONLY <2>1, <2>2
  <2> QED  BY <2>1, <2>3, <2>4 DEF l
<1>12. \A p \in 1..n, i \in DOMAIN q : offered[j][p] # q[i]
  <2> TAKE p \in 1..n, i \in DOMAIN q
  <2>1. /\ p \in 1..Len(offered[j]) /\ n + i \in 1..Len(offered[j]) /\ n + i \notin 1..n
        /\ offered[j][n + i] = q[i]
    BY <1>7, <1>11
  <2>2. p # n + i
    BY <2>1
  <2> QED  BY <1>9, <2>1, <2>2
<1>13. ToldUpTo(j, m)' /\ \A x \in unwritten'[j] : \E p \in 1..m : offered'[j][p] = x
  <2>1. CASE ok
    <3>1. /\ logged'[j] = Capped(logged[j] \cup {[seq |-> Highest(j) + i, record |-> q[i]] : i \in DOMAIN q},
                                 Highest(j) + Len(q))
          /\ unwritten'[j] = unwritten[j]
      BY <1>1, <1>2, <1>5, <1>6, <2>1 DEF new
    <3>2. \A i \in DOMAIN q : offered[j][n + i] = q[i] /\ q[i] \notin unwritten[j]
      BY <1>7, <1>8, <1>12
    <3>3. \A p \in 1..n + Len(q) : offered'[j][p] = offered[j][p]
      BY <1>2
    <3>4. ToldUpTo(j, m)'
      BY ONLY <1>6, <1>7, <1>10, <3>1, <3>2, <3>3, ToldMore
    <3> QED  BY <1>2, <1>8, <1>11, <3>1, <3>4
  <2>2. CASE ~ ok
    <3>1. unwritten'[j] = unwritten[j] \cup ToSet(q) /\ logged'[j] = logged[j]
      BY <1>1, <1>2, <1>6, <2>2
    <3>2. ToSet(q) = {q[i] : i \in DOMAIN q}
      BY DEF ToSet
    <3>3. \A p \in 1..n : offered[j][p] \in unwritten'[j] <=> offered[j][p] \in unwritten[j]
      BY <1>12, <3>1, <3>2
    <3>4. \A p \in n + 1..n + Len(q) : offered[j][p] \in unwritten'[j]
      <4> TAKE p \in n + 1..n + Len(q)
      <4>1. p - n \in DOMAIN q /\ n + (p - n) = p
        BY <1>6
      <4>2. offered[j][p] = q[p - n]
        BY <1>7, <4>1
      <4> QED  BY <3>1, <3>2, <4>1, <4>2
    <3>5. \A p \in 1..n + Len(q) : offered'[j][p] = offered[j][p]
      BY <1>2
    <3>6. ToldUpTo(j, m)'
      BY ONLY <1>6, <1>7, <1>10, <3>1, <3>3, <3>4, <3>5, ToldWithout
    <3>7. \A i \in DOMAIN q : \E p \in 1..m : offered'[j][p] = q[i]
      BY <1>2, <1>7, <1>11
    <3>8. \A x \in unwritten[j] : \E p \in 1..m : offered'[j][p] = x
      BY <1>2, <1>8, <1>11
    <3> QED  BY <3>1, <3>2, <3>6, <3>7, <3>8
  <2> QED  BY <2>1, <2>2
<1>14. Comes(j, m, << >>)'
  <2>1. Len(<< >>) = 0 /\ DOMAIN << >> = {} /\ m + Len(<< >>) = n + Len(q)
    BY <1>10
  <2>2. handler'[j].buffer = handler[j].buffer
    BY <1>1
  <2>3. Len(offered'[j]) = m + Len(<< >>) + Len(handler'[j].buffer)
    BY <1>2, <1>6, <1>7, <1>10, <2>1, <2>2
  <2>4. \A i \in DOMAIN handler'[j].buffer : offered'[j][m + Len(<< >>) + i] = handler'[j].buffer[i]
    BY <1>2, <1>7, <2>1, <2>2
  <2> QED  BY <1>13, <2>1, <2>3, <2>4 DEF Comes
<1>15. m \in 0..Len(offered'[j])
  BY <1>2, <1>11
<1> QED  BY <1>5, <1>14, <1>15 DEF ToldInTurn

LEMMA WriteKeeps ==
  ASSUME LogInv, NEW t \in LogJobs, NEW ok \in BOOLEAN, Write(t, ok)
  PROVE  LogInv'
<1> DEFINE c == caller[t]
           j == c.job
           new == {[seq |-> c.top + i, record |-> c.batch[i]] : i \in DOMAIN c.batch}
<1>1. /\ c.step = "writing" /\ j \in LogJobs
      /\ handler' \in [LogJobs -> Handlers]
      /\ \A k \in LogJobs : handler'[k].buffer = handler[k].buffer
      /\ caller' \in [LogJobs -> LogCallers] /\ \A u \in LogJobs \ {t} : caller'[u] = caller[u]
      /\ caller'[t].step \in {"idle", "walking"} /\ caller'[t].record = c.record
      /\ caller'[t].step = "idle" => caller'[t].record = 0
      /\ caller'[t].step = "walking" => caller'[t].record > 0 /\ caller'[t].at = c.at + 1
      /\ running' \in [LogJobs -> {"new", "running", "detached", "over"}]
      /\ \A u \in LogJobs :
           running'[u] = running[u] \/ (running[u] = "detached" /\ running'[u] = "over")
      /\ \A u \in LogJobs \ {t} : running'[u] = running[u]
  BY WriteIs
<1>2. /\ LogTyped /\ RecordsDistinct /\ Walking
      /\ c.top \in Nat /\ c.batch \in Seq(Nat) /\ c.at \in Nat /\ c.record \in Nat
      /\ logged \in [LogJobs -> SUBSET LogRows] /\ unwritten \in [LogJobs -> SUBSET Nat]
  BY CallersAre DEF LogInv, LogTyped
<1>3. /\ UNCHANGED <<attached, records, offered, twoFlushes>>
      /\ ok => /\ logged' = [logged EXCEPT ![j] = Capped(@ \cup new, c.top + Len(c.batch))]
               /\ unwritten' = unwritten
      /\ ~ ok => /\ unwritten' = [unwritten EXCEPT ![j] = @ \cup ToSet(c.batch)]
                 /\ logged' = logged
  BY DEF Write
<1>4. /\ logged' \in [LogJobs -> SUBSET LogRows] /\ unwritten' \in [LogJobs -> SUBSET Nat]
      /\ \A k \in LogJobs \ {j} : logged'[k] = logged[k] /\ unwritten'[k] = unwritten[k]
      /\ logged'[j] \in SUBSET (logged[j] \cup new)
  <2>1. new \in SUBSET LogRows /\ ToSet(c.batch) \in SUBSET Nat
    <3>1. \A i \in DOMAIN c.batch : c.batch[i] \in Nat /\ c.top + i \in Nat
      <4> DEFINE b == c.batch
                 n == c.top
      <4>1. b \in Seq(Nat) /\ n \in Nat
        BY <1>2
      <4> HIDE DEF b, n
      <4>2. \A i \in DOMAIN b : b[i] \in Nat /\ n + i \in Nat
        BY ONLY <4>1
      <4> QED  BY <4>2 DEF b, n
    <3>2. ToSet(c.batch) = {c.batch[i] : i \in DOMAIN c.batch}
      BY DEF ToSet
    <3>3. \A i \in DOMAIN c.batch : [seq |-> c.top + i, record |-> c.batch[i]] \in LogRows
      BY <3>1 DEF LogRows
    <3> QED  BY <3>1, <3>2, <3>3
  <2> HIDE DEF new, c, j
  <2>2. CASE ok
    <3>1. logged' = [logged EXCEPT ![j] = Capped(logged[j] \cup new, c.top + Len(c.batch))]
          /\ unwritten' = unwritten
      BY <1>3, <2>2
    <3>2. Capped(logged[j] \cup new, c.top + Len(c.batch)) \in SUBSET (logged[j] \cup new)
      BY DEF Capped
    <3>3. logged[j] \cup new \in SUBSET LogRows
      BY <1>1, <1>2, <2>1
    <3> QED  BY <1>1, <1>2, <3>1, <3>2, <3>3
  <2>3. CASE ~ ok
    <3>1. unwritten' = [unwritten EXCEPT ![j] = unwritten[j] \cup ToSet(c.batch)] /\ logged' = logged
      BY <1>3, <2>3
    <3> QED  BY <1>1, <1>2, <2>1, <3>1
  <2> QED  BY <2>2, <2>3
<1>5. \A k \in LogJobs : \E m \in Nat : \A r \in logged'[k] : r.seq <= m
  <2> TAKE k \in LogJobs
  <2>1. PICK m \in Nat : \A r \in logged[k] : r.seq <= m
    BY <1>2 DEF LogTyped
  <2>2. CASE k # j
    BY <1>4, <2>1, <2>2
  <2>3. CASE k = j
    <3>1. m + (c.top + Len(c.batch)) \in Nat /\ Len(c.batch) \in Nat /\ DOMAIN c.batch = 1..Len(c.batch)
      BY <1>2
    <3>2. ASSUME NEW r \in logged[j] PROVE r.seq <= m + (c.top + Len(c.batch))
      <4>1. r.seq \in Nat /\ r.seq <= m
        BY <1>1, <1>2, <2>1, <2>3 DEF LogRows
      <4> QED  BY <1>2, <3>1, <4>1
    <3>3. ASSUME NEW r \in new PROVE r.seq <= m + (c.top + Len(c.batch))
      <4>1. PICK i \in DOMAIN c.batch : r.seq = c.top + i
        OBVIOUS
      <4>2. i \in Nat /\ i <= Len(c.batch)
        BY <3>1
      <4> HIDE DEF c, j
      <4> QED  BY <1>2, <3>1, <4>1, <4>2
    <3> HIDE DEF new, c, j
    <3> QED  BY <1>4, <2>3, <3>1, <3>2, <3>3
  <2> QED  BY <2>2, <2>3
<1> HIDE DEF new, c, j
<1>6. LogTyped'
  <2>1. ASSUME NEW u \in LogJobs
        PROVE  /\ caller'[u].step \in {"emitting", "numbering", "writing"} => caller'[u].job \in LogJobs
               /\ caller'[u].step \in {"numbering", "writing"} => caller'[u].batch # << >>
               /\ caller'[u].step = "walking" => caller'[u].at > 0
    <3>1. CASE u = t
      BY <1>1, <1>2, <3>1
    <3>2. CASE u # t
      <4>1. caller'[u] = caller[u]
        BY <1>1, <3>2
      <4> QED  BY <1>2, <4>1 DEF LogTyped
    <3> QED  BY <3>1, <3>2
  <2> QED  BY <1>1, <1>2, <1>3, <1>4, <1>5, <2>1 DEF LogTyped
<1>7. \A u \in LogJobs : caller'[u].record = caller[u].record
  BY <1>1 DEF c
<1>8. RecordsDistinct'
  <2>1. \A u \in LogJobs : caller'[u].step \in {"walking", "emitting"} => caller'[u].record > 0
    BY <1>1, <1>2 DEF RecordsDistinct
  <2> QED  BY <1>2, <1>3, <1>7, <2>1, RecordsStay
<1>9. Walking'
  <2>1. \A u \in LogJobs \ {t} : Place(u)' = Place(u) /\ Place(u) \in Nat
    BY <1>1, <1>2, CallersAre DEF Place
  <2>2. Place(t) = c.at + 1
    BY <1>1 DEF Place, c
  <2>3. Place(t)' \in Nat /\ (caller'[t].step = "walking" => Place(t)' = c.at + 1)
    BY <1>1 DEF Place, LogCallers
  <2>4. ASSUME NEW u \in LogJobs
        PROVE  /\ Place(u)' \in Nat
               /\ caller'[u].record = 0 \/ (caller'[u].record = caller[u].record /\ Place(u)' >= Place(u))
    <3>1. CASE u = t
      <4>1. CASE caller'[t].step = "idle"
        BY <1>1, <2>3, <3>1, <4>1
      <4>2. CASE caller'[t].step = "walking"
        BY <1>2, <1>7, <2>2, <2>3, <3>1, <4>2
      <4> QED  BY <1>1, <4>1, <4>2
    <3>2. CASE u # t
      <4>1. Place(u)' = Place(u) /\ Place(u) \in Nat
        BY <2>1, <3>2
      <4> QED  BY <1>7, <4>1
    <3> QED  BY <3>1, <3>2
  <2>5. \A u \in LogJobs : caller'[u].step = "emitting" => caller[u].step = "emitting" /\ caller'[u] = caller[u]
    BY <1>1
  <2>6. \A u \in LogJobs : caller'[u].step \in {"numbering", "writing"} /\ caller'[u].record = 0 =>
          running'[u] = "detached"
    BY <1>1, <1>2 DEF Walking
  <2>7. \A u \in LogJobs :
          running'[u] = running[u] \/ (running[u] # "running" /\ running[u] # "new" /\ running'[u] # "new")
    BY <1>1
  <2> QED  BY <1>2, <1>3, <2>4, <2>5, <2>6, <2>7, WalksStay
<1>10. ASSUME NEW k \in LogJobs \ twoFlushes' PROVE ToldInTurn(k)'
  <2>1. CASE k = j
    BY <1>3, <2>1, BatchIsTold DEF j, c
  <2>2. CASE k # j
    <3>1. Writing(k)' = Writing(k) /\ t \notin Writing(k)
      BY <1>1, <2>2 DEF Writing, j, c
    <3>2. ToldInTurn(k)
      BY <1>3 DEF LogInv
    <3>3. \A u \in Writing(k) : caller'[u] = caller[u]
      BY <1>1, <3>1 DEF Writing
    <3> QED  BY <1>1, <1>2, <1>3, <1>4, <2>2, <3>1, <3>2, <3>3, InTurnStays
  <2> QED  BY <2>1, <2>2
<1> QED  BY <1>6, <1>8, <1>9, <1>10 DEF LogInv

-----------------------------------------------------------------------------
(* A job's log: the theorem *)

LEMMA LogStarts ==
  ASSUME LogInit
  PROVE  LogInv
<1>1. /\ attached = << >>
      /\ running = [j \in LogJobs |-> "new"]
      /\ handler = [j \in LogJobs |-> [buffer |-> << >>, flushing |-> FALSE, lock |-> 0]]
      /\ caller = [t \in LogJobs |-> NotLogging]
      /\ logged = [j \in LogJobs |-> {}]
      /\ records = 0
      /\ offered = [j \in LogJobs |-> << >>]
      /\ unwritten = [j \in LogJobs |-> {}]
      /\ twoFlushes = {}
  BY DEF LogInit
<1>2. << >> \in Seq(Nat) /\ << >> \in Seq(LogJobs) /\ Len(<< >>) = 0 /\ DOMAIN << >> = {} /\ 0 \in Nat
  OBVIOUS
<1>3. [buffer |-> << >>, flushing |-> FALSE, lock |-> 0] \in Handlers
  BY <1>2 DEF Handlers
<1>4. \A j \in LogJobs : /\ running[j] = "new" /\ handler[j].buffer = << >> /\ caller[j] = NotLogging
                         /\ logged[j] = {} /\ offered[j] = << >> /\ unwritten[j] = {}
  BY <1>1
<1>5. \A t \in LogJobs : caller[t].step = "idle" /\ caller[t].record = 0
  BY <1>4, StepsAre
<1>6. LogTyped
  <2>1. caller \in [LogJobs -> LogCallers] /\ handler \in [LogJobs -> Handlers]
    BY <1>1, <1>3, StepsAre
  <2>2. \A j \in LogJobs : \E m \in Nat : \A r \in logged[j] : r.seq <= m
    BY <1>2, <1>4
  <2> QED  BY <1>1, <1>2, <1>5, <2>1, <2>2 DEF LogTyped
<1>7. RecordsDistinct
  BY <1>1, <1>2, <1>4, <1>5 DEF RecordsDistinct
<1>8. Walking
  BY <1>1, <1>2, <1>4, <1>5 DEF Walking
<1>9. ASSUME NEW j \in LogJobs PROVE ToldInTurn(j)
  <2>1. Writing(j) = {}
    BY <1>5 DEF Writing
  <2>2. ToldUpTo(j, 0)
    <3>1. {p \in 1..0 : offered[j][p] \notin unwritten[j]} = {}
      OBVIOUS
    <3> QED  BY <1>4, <3>1 DEF ToldUpTo
  <2>3. Comes(j, 0, << >>)
    BY <1>2, <1>4, <2>2 DEF Comes
  <2>4. 0 \in 0..Len(offered[j])
    BY <1>2, <1>4
  <2> QED  BY <2>1, <2>3, <2>4 DEF ToldInTurn
<1> QED  BY <1>6, <1>7, <1>8, <1>9 DEF LogInv

LEMMA LogStep ==
  ASSUME LogInv, [LogNext]_logVars
  PROVE  LogInv'
<1>1. ASSUME LogNext PROVE LogInv'
  <2>1. PICK t \in LogJobs :
          \/ Attach(t) \/ Log(t) \/ Reach(t) \/ Number(t) \/ Detach(t) \/ LastFlush(t)
          \/ \E waited \in BOOLEAN : Emit(t, waited)
          \/ \E ok \in BOOLEAN : Write(t, ok)
    BY <1>1 DEF LogNext
  <2> QED  BY <2>1, AttachKeeps, LogKeeps, ReachKeeps, NumberKeeps, DetachKeeps,
              LastFlushKeeps, EmitKeeps, WriteKeeps
<1>2. ASSUME UNCHANGED logVars PROVE LogInv'
  <2>1. /\ attached' = attached /\ running' = running /\ handler' = handler /\ caller' = caller
        /\ logged' = logged /\ records' = records /\ offered' = offered /\ unwritten' = unwritten
        /\ twoFlushes' = twoFlushes /\ LogTyped /\ RecordsDistinct /\ Walking
    BY <1>2 DEF logVars, LogInv
  <2>2. LogTyped'
    BY <2>1 DEF LogTyped
  <2>3. RecordsDistinct'
    BY <2>1 DEF RecordsDistinct
  <2>4. Walking'
    BY <2>1 DEF Walking, Place, NotPut
  <2>5. ASSUME NEW j \in LogJobs \ twoFlushes' PROVE ToldInTurn(j)'
    <3>1. Writing(j)' = Writing(j)
      BY <2>1 DEF Writing
    <3>2. ToldInTurn(j)
      BY <2>1 DEF LogInv
    <3> QED  BY <2>1, <3>1, <3>2, InTurnStays DEF Writing
  <2> QED  BY <2>2, <2>3, <2>4, <2>5 DEF LogInv
<1> QED  BY <1>1, <1>2

\* How far the log has come is what was put into the buffer and is in it no more.
LEMMA LogIsInOrder ==
  ASSUME LogInv
  PROVE  LogTypeOK /\ LogsInOrder
<1>1. LogTypeOK
  <2>1. /\ attached \in Seq(LogJobs)
        /\ running \in [LogJobs -> {"new", "running", "detached", "over"}]
        /\ handler \in [LogJobs -> Handlers] /\ caller \in [LogJobs -> LogCallers]
    BY DEF LogInv, LogTyped
  <2> QED  BY <2>1 DEF LogTypeOK, Handlers, LogCallers
<1>2. ASSUME NEW j \in LogJobs \ twoFlushes, Writing(j) = {}
      PROVE  ToldUpTo(j, Len(offered[j]) - Len(handler[j].buffer))
  <2>1. PICK n \in 0..Len(offered[j]) : Comes(j, n, << >>)
    BY <1>2 DEF LogInv, ToldInTurn
  <2>2. offered[j] \in Seq(Nat) /\ handler[j].buffer \in Seq(Nat)
    BY CallersAre DEF LogInv
  <2>3. Len(offered[j]) = n + Len(<< >>) + Len(handler[j].buffer) /\ ToldUpTo(j, n)
    BY <2>1 DEF Comes
  <2>4. Len(offered[j]) \in Nat /\ Len(handler[j].buffer) \in Nat /\ Len(<< >>) = 0
    BY <2>2
  <2>5. Len(offered[j]) - Len(handler[j].buffer) = n
    BY <2>3, <2>4
  <2> QED  BY <2>3, <2>5
<1> QED  BY <1>1, <1>2 DEF LogsInOrder

LEMMA LogInvariance == LogSpec => []LogInv
<1>1. LogInit => LogInv
  BY LogStarts
<1>2. LogInv /\ [LogNext]_logVars => LogInv'
  BY LogStep
<1> QED  BY <1>1, <1>2, PTL DEF LogSpec

\* The log of a job tells in order, with no number twice and none missing, what its
\* handler was given, but for lost batches, what is left in the buffer and what the
\* cap has cut off; whatever threads log, and however they interleave, as long as no
\* two flushes of the same handler run at once.
THEOREM LogsStayInOrder == LogSpec => [](LogTypeOK /\ LogsInOrder)
<1>1. LogInv => LogTypeOK /\ LogsInOrder
  BY LogIsInOrder
<1> QED  BY <1>1, LogInvariance, PTL

-----------------------------------------------------------------------------
(* All that is told *)

\* The page, the logs and the memories together, in whatever order the steps of the
\* three come: they share no state.  The page has no gap for a reader who stays at the
\* end of the list while older rows load.
THEOREM AllIsToldFaithfully ==
  ReaderStays => (FeedSpec /\ LogSpec /\ MemorySpec => []ToldFaithfully)
<1>1. ReaderStays /\ FeedTypeOK /\ NewestFirst /\ (ReaderStays => Gapless)
        /\ LogTypeOK /\ LogsInOrder /\ MemoryTypeOK /\ MemorySound => ToldFaithfully
  BY DEF ToldFaithfully
<1> SUFFICES ASSUME ReaderStays PROVE FeedSpec /\ LogSpec /\ MemorySpec => []ToldFaithfully
  OBVIOUS
<1>2. FeedTypeOK /\ NewestFirst /\ (ReaderStays => Gapless)
        /\ LogTypeOK /\ LogsInOrder /\ MemoryTypeOK /\ MemorySound => ToldFaithfully
  BY <1>1
<1> QED  BY <1>2, FeedWhole, LogsStayInOrder, MemoryStaysSound, PTL

=============================================================================
