----------------------------- MODULE HistorySeeding -----------------------------
(***************************************************************************)
(* seed_history() (deaddit/dynamics/seeding.py): personas on a fresh       *)
(* install, posts and comments dated back into a window, a pass of made-up *)
(* votes committed in batches, and the repair of all totals at the end.    *)
(*                                                                         *)
(* It runs from the command line beside the live site: personas and people *)
(* vote, accounts go and turn human, and the command may break off and be  *)
(* started again.  Random draws are choices.  The final repair is one      *)
(* step here; module Votes has its steps.                                  *)
(***************************************************************************)
EXTENDS Integers, Sequences, FiniteSets, FiniteSetsExt, Functions

CONSTANTS
  Planned,      \* usernames of the persona bank
  Others,       \* people who registered before
  Window,       \* days, of history
  Arrivals,     \* how long before its run a post may come
  DecayDays,    \* SEED_DECAY_DAYS
  SeedVoteMax,  \* SEED_VOTE_MAX
  SeedBatch,    \* items in a commit of the vote pass
  SeedHourly,   \* posts, or comments, of one author in the current tick of the clock
  MaxSeeded,    \* items of all runs: bound of the model
  MaxSeedDay,   \* days that pass: bound of the model
  MaxSeedEvents \* runs and doings of the live site together: bound of the model

ASSUME SeedingAssumption ==
  /\ Planned \cap Others = {} /\ IsFiniteSet(Planned \cup Others) /\ Arrivals \subseteq 0..Window
  /\ {Window, DecayDays, SeedVoteMax, SeedHourly, MaxSeeded, MaxSeedDay,
      MaxSeedEvents} \subseteq Nat
  /\ SeedBatch \in Nat \ {0}

VARIABLES
  day,
  folk,         \* username -> "none", "persona" or "human"
  anchor,       \* SEED_ANCHOR_AT
  seeded,       \* items by id: [by, on, under, depth, at, run]
  ballot,       \* rows of vote: [voter, item, value, madeUp]
  mark,         \* score of each item
  fame,         \* karma
  seeding,      \* the run in progress
  seedRuns,     \* runs started: the day of each
  settled,      \* history: runs that got as far as the repair
  loose,        \* history: made-up votes were committed since the last repair
  meddling

seedVars == <<day, folk, anchor, seeded, ballot, mark, fame, seeding, seedRuns, settled,
              loose, meddling>>
stored == <<seeded, ballot, mark, fame>>

Usernames == Planned \cup Others
SyntheticUsers == {n \in Usernames : folk[n] = "persona"}
Never == -1
NoHit == [item |-> 0]
NotSeeding ==
  [step |-> "idle", plan |-> {}, authors |-> {}, from |-> 0, left |-> {}, capacity |-> 0,
   pool |-> {}, hit |-> NoHit, batch |-> {}]

BallotsFor(B, i) == {b \in B : b.item = i}
Cast(B, i, value) == {b \in BallotsFor(B, i) : b.value = value}
Total(B, i) == Cardinality(Cast(B, i, 1)) - Cardinality(Cast(B, i, -1))
ItemsOf(n) == {i \in DOMAIN seeded : seeded[i].by = n}
Earned(m, n) == SumFunction([i \in ItemsOf(n) |-> m[i]])

SeedInit ==
  /\ day = 0 /\ anchor = Never
  /\ folk = [n \in Usernames |-> IF n \in Others THEN "human" ELSE "none"]
  /\ seeded = << >> /\ ballot = {} /\ mark = << >>
  /\ fame = [n \in Usernames |-> 0]
  /\ seeding = NotSeeding /\ seedRuns = << >> /\ settled = {} /\ loose = FALSE
  /\ meddling = 0

\* An exception or the end of the process: what was not committed is gone.
BreaksOff == seeding' = NotSeeding

-----------------------------------------------------------------------------
(* The plan *)

ThisRun == Len(seedRuns)
RunDay == seedRuns[ThisRun]

\* Whether the run still makes up votes; the first run set the anchor for good.
\* Mutant: every run sets it anew.
VotesLeftAnew(since) == RunDay - RunDay < DecayDays
VotesLeft(since) == RunDay - since < DecayDays

\* _plan_community: names of the bank that nobody has, on an install without personas.
FreshNames == IF SyntheticUsers = {} THEN {n \in Planned : folk[n] = "none"} ELSE {}

\* seed_history: the anchor, then everything the timeline is planned from.
StartSeeding ==
  /\ seeding.step = "idle" /\ Len(seedRuns) + meddling < MaxSeedEvents
  /\ anchor' = IF anchor = Never THEN day ELSE anchor
  /\ seeding' = [NotSeeding EXCEPT !.step = "people", !.plan = FreshNames, !.from = Len(seeded),
                                   !.authors = SyntheticUsers \cup FreshNames]
  /\ seedRuns' = Append(seedRuns, day)
  /\ UNCHANGED <<day, folk, stored, settled, loose, meddling>>

\* _persist_community: each account is a commit; a name taken since breaks it off.
PersistUser ==
  /\ seeding.step = "people" /\ seeding.plan # {}
  /\ LET n == CHOOSE x \in seeding.plan : TRUE   \* the plan's order, whichever it is
     IN IF folk[n] # "none" THEN BreaksOff /\ UNCHANGED folk
        ELSE folk' = [folk EXCEPT ![n] = "persona"] /\ seeding' = [seeding EXCEPT !.plan = @ \ {n}]
  /\ UNCHANGED <<day, anchor, stored, seedRuns, settled, loose, meddling>>

PeopleDone ==
  /\ seeding.step = "people" /\ seeding.plan = {}
  /\ seeding' = [seeding EXCEPT !.step = "content"]
  /\ UNCHANGED <<day, folk, anchor, stored, seedRuns, settled, loose, meddling>>

-----------------------------------------------------------------------------
(* Content *)

MadeSoFar == (seeding.from + 1)..Len(seeded)
PostsSoFar == {i \in MadeSoFar : seeded[i].on = i}

\* The service refuses an author who is gone, and one with too many recent items.
Refuses(n, comment) ==
  \/ folk[n] = "none"
  \/ Cardinality({i \in ItemsOf(n) : seeded[i].at >= day /\ (seeded[i].on # i) = comment})
       >= SeedHourly

PersistItem(item, comment) ==
  /\ seeding.step = "content" /\ Len(seeded) < MaxSeeded
  /\ item.by \in seeding.authors
  /\ IF Refuses(item.by, comment) THEN BreaksOff /\ UNCHANGED stored
     ELSE /\ seeded' = Append(seeded, item) /\ mark' = Append(mark, 0)
          /\ UNCHANGED <<ballot, fame, seeding>>
  /\ UNCHANGED <<day, folk, anchor, seedRuns, settled, loose, meddling>>

\* A post of the timeline: an arrival in the window, its hour redrawn, and put back
\* between the ends.
PersistPost(n, at) ==
  /\ RunDay - at \in Arrivals
  /\ PersistItem([by |-> n, on |-> Len(seeded) + 1, under |-> 0, depth |-> 0, at |-> at,
                  run |-> ThisRun], FALSE)

\* When a comment may come: after what it answers, not after the run's now.
\* Mutant: up to its half day, whenever that ends.
MomentsUnbounded(after) == (after + 1)..(after + 3)
Moments(after) == (after + 1)..Min({after + 3, RunDay})

\* A comment on the last post, or a reply to a comment there, three deep.
PersistComment(n, under, at) ==
  /\ PostsSoFar # {}
  /\ LET post == Max(PostsSoFar)
         parent == IF under = 0 THEN post ELSE under
     IN /\ under = 0 \/ (under > post /\ seeded[under].depth < 3)
        /\ seeded[parent].at + 1 < RunDay
        /\ at \in Moments(seeded[parent].at)
        /\ PersistItem([by |-> n, on |-> post, under |-> under,
                        depth |-> seeded[parent].depth + 1, at |-> at, run |-> ThisRun], TRUE)

\* The pass over the votes, or nothing of it once they have faded.
ContentDone ==
  /\ seeding.step = "content"
  /\ seeding' = [seeding EXCEPT !.step = IF VotesLeft(anchor) THEN "votes" ELSE "repair"]
  /\ UNCHANGED <<day, folk, anchor, stored, seedRuns, settled, loose, meddling>>

-----------------------------------------------------------------------------
(* Votes *)

\* _vote_pass counts the voters ...
CountVoters ==
  /\ seeding.step = "votes"
  /\ seeding' = IF Cardinality(SyntheticUsers) <= 1 THEN [seeding EXCEPT !.step = "repair"]
                ELSE [seeding EXCEPT !.step = "pool", !.capacity = Cardinality(SyntheticUsers) - 1]
  /\ UNCHANGED <<day, folk, anchor, stored, seedRuns, settled, loose, meddling>>

\* Posts come before comments, and each in the order of the ids.
NextUp ==
  LET posts == seeding.left \cap PostsSoFar
  IN Min(IF posts # {} THEN posts ELSE seeding.left)

\* ... and _activity_weights lists them.
ReadPool ==
  /\ seeding.step = "pool"
  /\ seeding' = [seeding EXCEPT !.step = "voting", !.pool = SyntheticUsers, !.left = MadeSoFar]
  /\ UNCHANGED <<day, folk, anchor, stored, seedRuns, settled, loose, meddling>>

\* The votes of an item: target ones to one side, and pairs that cancel out.
\* Mutant: an extra vote without the other of its pair.
OnesOnly(target, k) == <<Max({target, 0}) + k, Max({-target, 0})>>
Ones(target, k) == <<Max({target, 0}) + k, Max({-target, 0}) + k>>

\* _pick_voters: so many of the pool, nobody twice and never the author.
Picks(i, n) == {V \in SUBSET (seeding.pool \ {seeded[i].by}) : Cardinality(V) = n}

Magnitude(x) == IF x < 0 THEN -x ELSE x

\* _backfill_item, by voters other than the author; too few of them raises.
VoteItem(target, k) ==
  /\ seeding.step = "voting" /\ seeding.left # {} /\ seeding.hit = NoHit
  /\ LET i == NextUp
         bound == Min({SeedVoteMax, seeding.capacity})
         ones == Ones(target, k)
     IN /\ Magnitude(target) <= bound /\ k <= (bound - Magnitude(target)) \div 2
        /\ target = 0 /\ k = 0 => bound < 2
        /\ \E all \in Picks(i, ones[1] + ones[2]) : \E up \in SUBSET all :
             /\ Cardinality(up) = ones[1]
             /\ seeding' = [seeding EXCEPT
                  !.hit = [item |-> i, target |-> target,
                           rows |-> {[voter |-> v, item |-> i, madeUp |-> TRUE,
                                      value |-> IF v \in up THEN 1 ELSE -1] : v \in all}]]
  /\ UNCHANGED <<day, folk, anchor, stored, seedRuns, settled, loose, meddling>>

\* The item is not drawn.
PassItem ==
  /\ seeding.step = "voting" /\ seeding.left # {} /\ seeding.hit = NoHit
  /\ seeding' = [seeding EXCEPT !.left = @ \ {NextUp}]
  /\ UNCHANGED <<day, folk, anchor, stored, seedRuns, settled, loose, meddling>>

\* The flush before the next item, or the commit: a voter who voted there since or
\* is gone breaks it off, and the batch with it.
FlushItem ==
  /\ seeding.step = "voting" /\ seeding.hit # NoHit
  /\ IF \E v \in seeding.hit.rows :
          folk[v.voter] = "none"
            \/ \E b \in BallotsFor(ballot, v.item) : b.voter = v.voter
     THEN BreaksOff
     ELSE seeding' = [seeding EXCEPT !.batch = @ \cup {seeding.hit}, !.hit = NoHit,
                                     !.left = @ \ {seeding.hit.item}]
  /\ UNCHANGED <<day, folk, anchor, stored, seedRuns, settled, loose, meddling>>

\* From the first flush to the commit the writer's lock is held.
Blocking == seeding.batch # {}

\* A full batch, or the last one: scores are set to their targets.
CommitBatch ==
  /\ seeding.step = "voting" /\ seeding.hit = NoHit
  /\ Cardinality(seeding.batch) >= SeedBatch \/ seeding.left = {}
  /\ ballot' = ballot \cup UNION {h.rows : h \in seeding.batch}
  /\ mark' = [i \in DOMAIN mark |->
                IF \E h \in seeding.batch : h.item = i
                THEN (CHOOSE h \in seeding.batch : h.item = i).target ELSE mark[i]]
  /\ loose' = (loose \/ seeding.batch # {})
  /\ seeding' = [seeding EXCEPT !.batch = {},
                                !.step = IF seeding.left = {} THEN "repair" ELSE @]
  /\ UNCHANGED <<day, folk, anchor, seeded, fame, seedRuns, settled, meddling>>

\* recompute_scores_and_karma, over everything there is.
RepairAll ==
  /\ seeding.step = "repair"
  /\ mark' = [i \in DOMAIN mark |-> Total(ballot, i)]
  /\ fame' = [n \in Usernames |-> Earned(mark', n)]
  /\ settled' = settled \cup {ThisRun} /\ loose' = FALSE
  /\ seeding' = NotSeeding
  /\ UNCHANGED <<day, folk, anchor, seeded, ballot, seedRuns, meddling>>

SeedingDies ==
  /\ seeding.step # "idle"
  /\ BreaksOff
  /\ UNCHANGED <<day, folk, anchor, stored, seedRuns, settled, loose, meddling>>

-----------------------------------------------------------------------------
(* The live site *)

Meddles == Len(seedRuns) + meddling < MaxSeedEvents /\ meddling' = meddling + 1

\* cast_vote, by a persona's visit or a person.
LiveVote(n, i, value) ==
  /\ folk[n] # "none" /\ seeded[i].by # n /\ ~Blocking
  /\ \A b \in BallotsFor(ballot, i) : b.voter # n
  /\ Meddles
  /\ ballot' = ballot \cup {[voter |-> n, item |-> i, value |-> value, madeUp |-> FALSE]}
  /\ mark' = [mark EXCEPT ![i] = @ + value]
  /\ fame' = [fame EXCEPT ![seeded[i].by] = @ + value]
  /\ UNCHANGED <<day, folk, anchor, seeded, seeding, seedRuns, settled, loose>>

\* The administrator gives a persona a password, or deletes one without a trace
\* (module Moderation has the deletes that take something along).
ChangeFolk(n, into) ==
  /\ folk[n] = "persona" /\ ~Blocking
  /\ into = "none" => ItemsOf(n) = {} /\ \A b \in ballot : b.voter # n
  /\ Meddles
  /\ folk' = [folk EXCEPT ![n] = into]
  /\ UNCHANGED <<day, anchor, stored, seeding, seedRuns, settled, loose>>

\* Someone registers a name of the bank.
RegisterPlanned(n) ==
  /\ folk[n] = "none" /\ ~Blocking
  /\ Meddles
  /\ folk' = [folk EXCEPT ![n] = "human"]
  /\ UNCHANGED <<day, anchor, stored, seeding, seedRuns, settled, loose>>

\* A run is shorter than a day.
DayPasses ==
  /\ day < MaxSeedDay /\ seeding.step = "idle"
  /\ day' = day + 1
  /\ UNCHANGED <<folk, anchor, stored, seeding, seedRuns, settled, loose, meddling>>

SeedNext ==
  \/ StartSeeding \/ PersistUser \/ PeopleDone \/ ContentDone \/ CountVoters \/ ReadPool \/ PassItem
  \/ FlushItem \/ CommitBatch \/ RepairAll \/ SeedingDies \/ DayPasses
  \/ \E n \in Planned : RegisterPlanned(n)
  \/ \E n \in seeding.authors :
       \/ \E at \in (-Window)..day : PersistPost(n, at)
       \/ \E under \in {0} \cup DOMAIN seeded, at \in (-Window)..(day + 3) :
            PersistComment(n, under, at)
  \/ \E target \in (-SeedVoteMax)..SeedVoteMax, k \in 0..SeedVoteMax : VoteItem(target, k)
  \/ \E n \in Usernames, i \in DOMAIN seeded, value \in {-1, 1} : LiveVote(n, i, value)
  \/ \E n \in Planned, into \in {"human", "none"} : ChangeFolk(n, into)

SeedSpec == SeedInit /\ [][SeedNext]_seedVars

-----------------------------------------------------------------------------
(* Properties *)

\* The types of the tables and the run.
SeedTypeOK ==
  /\ day \in 0..MaxSeedDay /\ anchor \in {Never} \cup 0..day
  /\ folk \in [Usernames -> {"none", "persona", "human"}]
  /\ \A i \in DOMAIN seeded : seeded[i].by \in Usernames /\ seeded[i].on \in 1..i
  /\ Len(mark) = Len(seeded) /\ fame \in [Usernames -> Int]
  /\ \A b \in ballot : b.item \in DOMAIN seeded /\ b.voter \in Usernames /\ b.value \in {-1, 1}
  /\ Len(seedRuns) <= MaxSeedEvents /\ settled \subseteq DOMAIN seedRuns
  /\ seeding.step \in {"idle", "people", "content", "votes", "pool", "voting", "repair"}

\* Wherever a run breaks off, an item's score is the sum of its votes, except an item
\* of an unfinished run on which somebody had really voted before its made-up votes
\* were committed; and karma follows the scores once the last votes were repaired.
TotalsExplained ==
  /\ \A i \in DOMAIN seeded :
       mark[i] # Total(ballot, i) =>
         /\ seeded[i].run \notin settled
         /\ \E b \in BallotsFor(ballot, i) : ~b.madeUp
  /\ ~loose => \A n \in Usernames : fame[n] = Earned(mark, n)

\* Made-up votes come from personas, never from the author or from someone who was a
\* person all along, never above the ceiling, and no more once the site has grown
\* old: however often the command is run again, the anchor stays where it was.
MadeUpVotesFade ==
  \A i \in DOMAIN seeded :
    LET made == {b \in BallotsFor(ballot, i) : b.madeUp}
    IN /\ Cardinality(made) <= SeedVoteMax
       /\ \A b \in made : b.voter # seeded[i].by /\ b.voter \notin Others
       /\ made # {} => seedRuns[seeded[i].run] - seedRuns[1] < DecayDays

\* Nothing is dated after the run that made it, and an answer comes later than what it
\* answers, on the same post.
ThreadsCausal ==
  \A i \in DOMAIN seeded :
    /\ seeded[i].at <= seedRuns[seeded[i].run] /\ seeded[i].at >= seedRuns[seeded[i].run] - Window
    /\ seeded[i].on # i => seeded[i].at > seeded[seeded[i].on].at
    /\ seeded[i].under # 0 => /\ seeded[i].at > seeded[seeded[i].under].at
                              /\ seeded[seeded[i].under].on = seeded[i].on

SeedingSound == TotalsExplained /\ MadeUpVotesFade /\ ThreadsCausal
=============================================================================
