-------------------------------- MODULE Votes --------------------------------
(***************************************************************************)
(* Votes, scores and karma: cast_vote (deaddit/dynamics/votes.py), which   *)
(* any web request, agent or simulator tick may run, beside the nightly    *)
(* recompute_scores_and_karma (deaddit/dynamics/karma.py).                 *)
(*                                                                         *)
(* cast_vote opens with an UPDATE, so the whole of it is one transaction   *)
(* under SQLite's writer lock.  The recompute only reads until its first   *)
(* flush: its reads are steps of their own.  One kind of item stands for   *)
(* posts and comments, whose bookkeeping is the same.                      *)
(***************************************************************************)
EXTENDS Integers, FiniteSets, FiniteSetsExt

CONSTANTS
  Users,        \* platform users: authors and voters
  Visitors,     \* anonymous browsers, by their visitor_hash
  Items,        \* posts or comments
  Author,       \* Items -> Users
  MaxDrift      \* bound of the model: initial drift of the stored totals

ASSUME VotesAssumption ==
  /\ Author \in [Items -> Users]
  /\ Users \cap Visitors = {}
  /\ IsFiniteSet(Users \cup Visitors) /\ IsFiniteSet(Items)
  /\ MaxDrift \in Nat

Voters == Users \cup Visitors

Phases == {"idle", "items", "karma", "commit"}

VARIABLES
  vote,       \* the vote table: voter, item -> 1, -1, or 0 for no row
  score,      \* item.score
  votes,      \* item.vote_count
  karma,      \* user.post_karma (comment_karma)
  downvotes,  \* the downvotes setting
  phase,      \* where the nightly recompute stands
  total,      \* the aggregates it read: per item <<sum, count>>
  repair,     \* items whose columns it will overwrite
  rekarma,    \* users whose karma it will overwrite
  locked,     \* it holds the writer lock
  quiet       \* no vote changed since it read the aggregates

tables == <<vote, score, votes, karma>>
recompute == <<phase, total, repair, rekarma, locked, quiet>>
vars == <<vote, score, votes, karma, downvotes, recompute>>

VoteSum(i) == SumFunction([v \in Voters |-> vote[v][i]])
VoteCount(i) == Cardinality({v \in Voters : vote[v][i] # 0})

Of(u) == {i \in Items : Author[i] = u}

NoTotal == [i \in Items |-> <<0, 0>>]

Init ==
  /\ vote = [v \in Voters |-> [i \in Items |-> 0]]
  /\ score \in [Items -> -MaxDrift..MaxDrift]
  /\ votes = [i \in Items |-> 0]
  /\ karma = [u \in Users |-> 0]
  /\ downvotes \in BOOLEAN
  /\ phase = "idle"
  /\ total = NoTotal
  /\ repair = {}
  /\ rekarma = {}
  /\ locked = FALSE
  /\ quiet = TRUE

-----------------------------------------------------------------------------
(* cast_vote *)

Rejected(v, i, value) ==
  \/ Author[i] = v
  \/ value = -1 /\ ~ downvotes

\* Mutant: repeated votes add up.
OutcomeSum(v, i, value, recast) == vote[v][i] + value

\* The vote the request leaves behind: 0 clears, an insert-only caller
\* (allow_recast=False, the simulator) never touches an existing row.
Outcome(v, i, value, recast) ==
  IF vote[v][i] = 0 \/ recast THEN value ELSE vote[v][i]

\* Mutant: a cleared vote is still counted.
CountInserts(old, new) == IF old = 0 THEN 1 ELSE 0

CountDelta(old, new) ==
  (IF new # 0 THEN 1 ELSE 0) - (IF old # 0 THEN 1 ELSE 0)

CastVote(v, i, value, recast) ==
  LET old == vote[v][i]
      new == Outcome(v, i, value, recast)
      delta == new - old
  IN  /\ ~ locked
      /\ ~ Rejected(v, i, value)
      /\ delta # 0
      /\ vote' = [vote EXCEPT ![v][i] = new]
      /\ score' = [score EXCEPT ![i] = @ + delta]
      /\ votes' = [votes EXCEPT ![i] = @ + CountDelta(old, new)]
      /\ karma' = [karma EXCEPT ![Author[i]] = @ + delta]
      /\ quiet' = FALSE
      /\ UNCHANGED <<downvotes, phase, total, repair, rekarma, locked>>

SetDownvotes ==
  /\ downvotes' = ~ downvotes
  /\ UNCHANGED <<tables, recompute>>

-----------------------------------------------------------------------------
(* recompute_scores_and_karma *)

ReadAggregates ==
  /\ phase = "idle"
  /\ phase' = "items"
  /\ total' = [i \in Items |-> <<VoteSum(i), VoteCount(i)>>]
  /\ quiet' = TRUE
  /\ UNCHANGED <<tables, downvotes, repair, rekarma, locked>>

\* Compare the stored columns.  The next query flushes what differs, and
\* from that write on the session holds the writer lock.
ReadItems ==
  /\ phase = "items"
  /\ phase' = "karma"
  /\ repair' = {i \in Items : total[i] # <<score[i], votes[i]>>}
  /\ UNCHANGED <<tables, downvotes, total, rekarma, locked, quiet>>

\* The flush: item columns go to the totals of the aggregates.
FlushItems ==
  /\ phase = "karma" /\ ~ locked
  /\ repair # {}
  /\ locked' = TRUE
  /\ score' = [i \in Items |-> IF i \in repair THEN total[i][1] ELSE score[i]]
  /\ votes' = [i \in Items |-> IF i \in repair THEN total[i][2] ELSE votes[i]]
  /\ UNCHANGED <<vote, karma, downvotes, phase, total, repair, rekarma, quiet>>

\* Mutant: karma counts votes instead of summing them.
KarmaCount(u) == SumFunction([i \in Of(u) |-> total[i][2]])

KarmaTotal(u) == SumFunction([i \in Of(u) |-> total[i][1]])

ReadUsers ==
  /\ phase = "karma" /\ (repair = {} \/ locked)
  /\ phase' = "commit"
  /\ rekarma' = {u \in Users : karma[u] # KarmaTotal(u)}
  /\ UNCHANGED <<tables, downvotes, total, repair, locked, quiet>>

CommitRecompute ==
  /\ phase = "commit"
  /\ phase' = "idle"
  /\ karma' = [u \in Users |-> IF u \in rekarma THEN KarmaTotal(u) ELSE karma[u]]
  /\ total' = NoTotal
  /\ repair' = {}
  /\ rekarma' = {}
  /\ locked' = FALSE
  /\ UNCHANGED <<vote, score, votes, downvotes, quiet>>

-----------------------------------------------------------------------------

Recompute ==
  ReadAggregates \/ ReadItems \/ FlushItems \/ ReadUsers \/ CommitRecompute

Next ==
  \/ \E v \in Voters, i \in Items, value \in {1, -1, 0}, recast \in BOOLEAN :
       CastVote(v, i, value, recast)
  \/ SetDownvotes
  \/ Recompute

Spec == Init /\ [][Next]_vars

FairSpec == Spec /\ WF_vars(Recompute)

-----------------------------------------------------------------------------
(* Properties *)

Values == {-1, 0, 1}

TypeOK ==
  /\ vote \in [Voters -> [Items -> Values]]
  /\ score \in [Items -> Int]
  /\ votes \in [Items -> Int]
  /\ karma \in [Users -> Int]
  /\ downvotes \in BOOLEAN
  /\ phase \in Phases
  /\ repair \subseteq Items /\ rekarma \subseteq Users
  /\ locked \in BOOLEAN /\ quiet \in BOOLEAN

\* How far the stored totals are from the vote rows.
Drift(i) == <<score[i] - VoteSum(i), votes[i] - VoteCount(i)>>
KarmaDrift(u) == karma[u] - SumFunction([i \in Of(u) |-> VoteSum(i)])

Canonical == /\ \A i \in Items : Drift(i) = <<0, 0>>
             /\ \A u \in Users : KarmaDrift(u) = 0

\* votes.py:68: whatever sequence of inserts, switches, clears and collisions,
\* a cast moves score, count and karma by exactly what the vote rows moved.
CastKeepsDrift ==
  [][vote' # vote => /\ \A i \in Items : Drift(i)' = Drift(i)
                     /\ \A u \in Users : KarmaDrift(u)' = KarmaDrift(u)]_vars

\* karma.py:5-10: a recompute no vote interrupted leaves every stored total
\* equal to the vote rows, whatever the drift it found.
QuietRepairExact ==
  [][phase = "commit" /\ phase' = "idle" /\ quiet => Canonical']_vars

\* karma.py:5: the vote rows are authoritative: when the recompute is done
\* and no vote came after it, totals agree with them.
RecomputedIsCanonical ==
  [][phase = "commit" /\ phase' = "idle" => Canonical']_vars
=============================================================================
