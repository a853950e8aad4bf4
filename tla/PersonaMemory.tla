---------------------------- MODULE PersonaMemory -----------------------------
(***************************************************************************)
(* What a persona remembers (agents/memory.py): its history from before it *)
(* had an agent, told once in numbered chunks, and an episode for each     *)
(* visit.  Three paths start the history: the administrator's create, the  *)
(* command line's cohort, and a random agent's visit (loop.py).  Each      *)
(* looks whether there is a history, reads what the persona has written,   *)
(* and commits one chunk after another, with a model call before each.     *)
(*                                                                         *)
(* A persona has one visit at a time (AgentRuns), but the episode of one   *)
(* is written after the run's last commit, when the next may have begun.   *)
(***************************************************************************)
EXTENDS Integers, FiniteSets, SequencesExt, TLC

CONSTANTS
  Tellers,          \* requests and commands that tell a history
  Stays,            \* visits of the persona, numbered as they come
  Lazy,             \* those by random agents that are set to tell histories
  Backlog,          \* items it may have written before
  ChunkSize,        \* _CHUNK_SIZE
  MaxChunks,        \* _MAX_CHUNKS
  PromptChunks,     \* limit of the chunks in a prompt
  PromptEpisodes,   \* limit of the episodes in a prompt
  MaxMishaps        \* bound of the model: failures

ASSUME PersonaMemoryAssumption ==
  /\ Tellers \cap Stays = {} /\ Stays \subseteq Nat /\ Backlog \subseteq Nat
  /\ {ChunkSize, MaxChunks} \subseteq Nat \ {0} /\ PromptChunks \in Nat /\ PromptEpisodes \in Nat
  /\ Lazy \subseteq Stays /\ MaxMishaps \in Nat

VARIABLES
  items,            \* how many posts and comments the persona has written
  memory,           \* its agent_memory rows of each kind, by id
  teller,           \* teller or visit -> the history it is telling
  stay,             \* visit -> where it stands
  remembered,       \* what the latest prompt was given, visit_memories
  broken,           \* history: tellings that broke off
  finished,         \* history: visits in the order in which they were completed
  late,             \* history: visits whose episode came after a later visit's end
  mishaps

memoryVars == <<items, memory, teller, stay, remembered, broken, finished, late,
                mishaps>>

Everyone == Tellers \cup Stays
Untold == [step |-> "new", chunks |-> << >>, told |-> 0, had |-> 0, raced |-> FALSE]

MemoryInit ==
  /\ items \in Backlog
  /\ memory = [backfill |-> << >>, episode |-> << >>]
  /\ teller = [x \in Everyone |-> Untold]
  /\ stay = [v \in Stays |-> "new"]
  /\ remembered = [chunks |-> << >>, episodes |-> << >>, there |-> {}]
  /\ broken = {} /\ finished = << >> /\ late = {} /\ mishaps = 0

MishapOf == mishaps < MaxMishaps /\ mishaps' = mishaps + 1

-----------------------------------------------------------------------------
(* The history *)

\* The oldest items first, in chunks, as many as there may be.
Chunks(n) ==
  LET count == (n + ChunkSize - 1) \div ChunkSize
  IN [k \in 1..(IF count > MaxChunks THEN MaxChunks ELSE count) |->
        (k - 1) * ChunkSize + 1..(IF k * ChunkSize > n THEN n ELSE k * ChunkSize)]

\* Mutant: nothing is looked up.
UntoldYetAnyway == TRUE
UntoldYet == memory.backfill = << >>

\* backfill_persona_history up to its first chunk.  The others that are telling are
\* noted: their first commit may be still to come.
Look(x) ==
  LET telling == {y \in Everyone : teller[y].step = "telling"}
      begins == UntoldYet /\ items > 0
  IN teller' = [y \in Everyone |->
       IF y = x THEN [step |-> IF begins THEN "telling" ELSE "over",
                      chunks |-> IF begins THEN Chunks(items) ELSE << >>,
                      told |-> 0, had |-> items, raced |-> begins /\ telling # {}]
       ELSE IF begins /\ y \in telling THEN [teller[y] EXCEPT !.raced = TRUE]
       ELSE teller[y]]

Tell(x) ==
  /\ x \in Tellers /\ teller[x].step = "new"
  /\ Look(x)
  /\ UNCHANGED <<items, memory, stay, remembered, broken, finished, late, mishaps>>

\* One chunk, summarised by the model or extracted, and committed.
\* Mutant: the chunks are one commit.
CommitAllChunks(x) ==
  LET n == Len(teller[x].chunks) IN
  /\ memory' = [memory EXCEPT !.backfill = @ \o
       [k \in 1..n |-> [number |-> k, of |-> n, items |-> teller[x].chunks[1], by |-> x]]]
  /\ teller' = [teller EXCEPT ![x].told = n, ![x].step = "over"]
CommitChunk(x) ==
  LET k == teller[x].told + 1
      n == Len(teller[x].chunks)
  IN /\ memory' = [memory EXCEPT !.backfill =
          Append(@, [number |-> k, of |-> n, items |-> teller[x].chunks[k], by |-> x])]
     /\ teller' = [teller EXCEPT ![x].told = k, ![x].step = IF k = n THEN "over" ELSE "telling"]

TellOn(x) ==
  /\ teller[x].step = "telling"
  /\ CommitChunk(x)
  /\ UNCHANGED <<items, stay, remembered, broken, finished, late, mishaps>>

\* A commit fails, or the process dies: what was told stays, the rest is not told.
BreakOff(x) ==
  /\ MishapOf
  /\ teller[x].step = "telling"
  /\ teller' = [teller EXCEPT ![x].step = "over"]
  /\ broken' = broken \cup {x}
  /\ UNCHANGED <<items, memory, stay, remembered, finished, late>>

-----------------------------------------------------------------------------
(* Visits *)

Visiting == {"telling", "visiting"}

\* A run of the persona is reserved; one of a random agent that is set to tell
\* histories tells this one first (ensure_lazy_backfill).
Arrive(v) ==
  /\ stay[v] = "new"
  /\ \A w \in Stays : stay[w] \notin Visiting /\ (w < v => stay[w] # "new")
  /\ stay' = [stay EXCEPT ![v] = "telling"]
  /\ IF v \in Lazy THEN Look(v) ELSE teller' = [teller EXCEPT ![v].step = "over"]
  /\ UNCHANGED <<items, memory, remembered, broken, finished, late, mishaps>>

LastOf(s, n) == SubSeq(s, IF Len(s) > n THEN Len(s) - n + 1 ELSE 1, Len(s))
Oldest(s, n) == SubSeq(s, 1, IF Len(s) > n THEN n ELSE Len(s))

\* Mutant: the first episodes, not the last.
EpisodesFirst == Oldest(memory.episode, PromptEpisodes)
Episodes == LastOf(memory.episode, PromptEpisodes)

\* visit_memories, for the prompt.
Prepare(v) ==
  /\ stay[v] = "telling" /\ teller[v].step = "over"
  /\ stay' = [stay EXCEPT ![v] = "visiting"]
  /\ remembered' = [chunks |-> Oldest(memory.backfill, PromptChunks),
                     episodes |-> Episodes, there |-> {w \in Stays : stay[w] = "told"}]
  /\ UNCHANGED <<items, memory, teller, broken, finished, late, mishaps>>

\* The visit publishes or not, and its run is completed.
Complete(v, wrote) ==
  /\ stay[v] = "visiting"
  /\ stay' = [stay EXCEPT ![v] = "completed"]
  /\ items' = items + wrote
  /\ finished' = Append(finished, v)
  /\ UNCHANGED <<memory, teller, remembered, broken, late, mishaps>>

\* A visit that failed, or was taken over, leaves no episode; the thread of one that
\* was taken over tells on.
VisitFails(v) ==
  /\ MishapOf
  /\ stay[v] \in Visiting
  /\ stay' = [stay EXCEPT ![v] = "failed"]
  /\ UNCHANGED <<items, memory, teller, remembered, broken, finished, late>>

\* summarize_run, in a commit of its own.
Summarize(v) ==
  /\ stay[v] = "completed"
  /\ stay' = [stay EXCEPT ![v] = "told"]
  /\ memory' = [memory EXCEPT !.episode = Append(@, [run |-> v])]
  /\ late' = IF Last(finished) = v THEN late ELSE late \cup {v}
  /\ UNCHANGED <<items, teller, remembered, broken, finished, mishaps>>

\* Its error is swallowed; or the process died.
SummaryLost(v) ==
  /\ MishapOf
  /\ stay[v] = "completed"
  /\ stay' = [stay EXCEPT ![v] = "untold"]
  /\ UNCHANGED <<items, memory, teller, remembered, broken, finished, late>>

MemoryNext ==
  \/ \E x \in Tellers : Tell(x)
  \/ \E x \in Everyone : TellOn(x) \/ BreakOff(x)
  \/ \E v \in Stays :
       \/ Arrive(v)
       \/ Prepare(v) \/ VisitFails(v) \/ Summarize(v) \/ SummaryLost(v)
       \/ \E wrote \in 0..1 : Complete(v, wrote)

MemorySpec == MemoryInit /\ [][MemoryNext]_memoryVars

-----------------------------------------------------------------------------
(* Properties *)

MemoryTypeOK ==
  /\ items \in Nat
  /\ \A x \in Everyone : teller[x].step \in {"new", "telling", "over"}
  /\ \A v \in Stays : stay[v] \in {"new", "completed", "failed", "told", "untold"} \cup Visiting
  /\ \A k \in DOMAIN memory.backfill : memory.backfill[k].by \in Everyone
  /\ \A k \in DOMAIN memory.episode : memory.episode[k].run \in Stays

ChunksOf(x) == {k \in DOMAIN memory.backfill : memory.backfill[k].by = x}
ItemsOf(x) == UNION {memory.backfill[k].items : k \in ChunksOf(x)}

\* "One-time per persona": no item is told twice, unless two looked before either
\* had committed a chunk.
ToldOnce ==
  \A i, j \in DOMAIN memory.backfill :
    i < j /\ memory.backfill[i].items \cap memory.backfill[j].items # {} =>
      teller[memory.backfill[i].by].raced /\ teller[memory.backfill[j].by].raced

\* Each telling numbers its chunks without a gap, oldest items first; it is whole
\* when it is over, up to the cap, unless it broke off: and then no later one makes
\* it whole.
ToldWhole ==
  \A x \in Everyone :
    /\ \A k \in ChunksOf(x) :
         LET before == {j \in ChunksOf(x) : j < k}
         IN /\ memory.backfill[k].number = Cardinality(before) + 1
            /\ \A j \in before :
                 \A h \in memory.backfill[j].items, i \in memory.backfill[k].items : h < i
    /\ teller[x].chunks # << >> /\ teller[x].step = "over" /\ x \notin broken =>
         /\ \A k \in ChunksOf(x) : memory.backfill[k].of = Cardinality(ChunksOf(x))
         /\ \A n \in 1..teller[x].had : n \in ItemsOf(x) \/ n > ChunkSize * MaxChunks

\* An episode stands behind that of an earlier visit, or was written late.
WrittenAfter(v, w) ==
  v \in late \/ \E i, j \in DOMAIN finished : i < j /\ finished[i] = w /\ finished[j] = v

\* A visit is given its persona's latest episodes, in the order of the visits: one
\* that was there is left out only for a full prompt of later ones.  An episode that
\* was written after a later visit was completed stands behind it.
EpisodesRemembered ==
  LET given == [i \in DOMAIN remembered.episodes |-> remembered.episodes[i].run]
  IN /\ \A w \in remembered.there \ ToSet(given) :
          Len(given) = PromptEpisodes /\ \A v \in ToSet(given) : WrittenAfter(v, w)
     /\ \A i, j \in DOMAIN given : i < j => WrittenAfter(given[j], given[i])

\* A history in a prompt is the beginning of one telling, if only one was telling.
HistoryRemembered ==
  (\A x \in Everyone : ~ teller[x].raced) =>
    \A k \in DOMAIN remembered.chunks :
      remembered.chunks[k].number = k /\ remembered.chunks[k].by = remembered.chunks[1].by

MemorySound == ToldOnce /\ ToldWhole /\ EpisodesRemembered /\ HistoryRemembered
=============================================================================
