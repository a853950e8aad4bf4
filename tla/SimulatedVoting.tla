---------------------------- MODULE SimulatedVoting ----------------------------
(***************************************************************************)
(* Simulated voting: the worker's engagement scheduler                     *)
(* (deaddit/runtime/engagement.py) drives the engine's tick                *)
(* (deaddit/dynamics/engagement.py) over the vote table, beside visitors   *)
(* who vote and clear, administrators who save policies, change the mode   *)
(* and delete content, and a worker that may die anywhere in a tick.       *)
(*                                                                         *)
(* A tick commits each cast alone, so it is a sequence of steps.  Budgets, *)
(* directions and the choice among eligible voters come from hashes: the   *)
(* budget is a constant of policy and item, the others are left open.      *)
(* Time is counted in ticks of a clock; directions are not recorded.       *)
(***************************************************************************)
EXTENDS Integers, FiniteSets, FiniteSetsExt

CONSTANTS
  Personas,         \* users without a password, whom the engine votes for
  Backers,          \* those of them history seeding backfilled votes of
  SimVisitors,      \* anonymous browsers
  Content,          \* posts and comments: their ids, positive numbers
  Writer,           \* Content -> Personas
  Thread,           \* Content -> the post a comment belongs to; a post's own id
  SimPolicies,      \* ids of the policies that may be saved, in order
  Cadence,          \* their configurations
  AnHour,           \* ticks of the clock in an hour
  Lookback,         \* age up to which a comment revives its thread
  PerItemLimit, GlobalLimit,
  MaxClock, MaxMishaps     \* bounds of the model

None == 0

ASSUME SimulatedAssumption ==
  /\ Writer \in [Content -> Personas] /\ Backers \subseteq Personas
  /\ Personas \cap SimVisitors = {} /\ IsFiniteSet(Backers)
  /\ IsFiniteSet(Content) /\ IsFiniteSet(SimPolicies)
  /\ Content \subseteq Nat \ {0} /\ SimPolicies \subseteq Nat \ {0}
  /\ Thread \in [Content -> Content]
  /\ Cadence \in [SimPolicies ->
       [draw : [Content -> Nat], most : Int, cap : Int, gap : Int, window : Int,
        grace : Int, tail : Int]]
  /\ {AnHour, Lookback, PerItemLimit, GlobalLimit, MaxClock, MaxMishaps} \subseteq Nat /\ MaxClock # 0

VARIABLES
  clock,
  mode,        \* the SIMULATED_VOTING_MODE setting
  policies,    \* policy id -> effective_at, for the rows that exist
  draft,       \* a policy being saved: <<id, effective_at>>, or none
  born,        \* Content -> created_at, or None; -1 once deleted
  rows,        \* the vote table
  tick,        \* the tick in progress
  missed,      \* history: simulated rows inserted, less inserted_votes of all
               \* hourly summaries
  mishaps      \* history: what happened beside the tick

simVars == <<clock, mode, policies, draft, born, rows, tick, missed, mishaps>>
world == <<clock, mode, policies, draft, born, mishaps>>

Live(i) == born[i] > 0
VotersOn(i) == {r.voter : r \in {x \in rows : x.item = i}}
SimulatedOn(i) == {r \in rows : r.item = i /\ r.source = "simulated"}

\* VoteCadencePolicy.resolve_for_content, resolve_for_exposure: the newest
\* policy in effect at a time; of two with one stamp the later id.
PoliciesAt(t) == {p \in DOMAIN policies : policies[p] <= t}
PolicyAt(t) ==
  IF PoliciesAt(t) = {} THEN None
  ELSE CHOOSE p \in PoliciesAt(t) : \A q \in PoliciesAt(t) :
         \/ policies[q] < policies[p]
         \/ policies[q] = policies[p] /\ q <= p

\* The attention an item is drawn for life, bounded by the policy.
sample_attention_budget(p, i) ==
  IF Cadence[p].most <= 0 THEN 0 ELSE Min({Cadence[p].most, Cadence[p].draw[i]})

\* D(a) of the engine, with a linear distribution of arrivals.
due_count(p, i, age) ==
  LET budget == sample_attention_budget(p, i) IN
  IF budget <= 0 \/ age <= 0 THEN 0
  ELSE IF age >= Cadence[p].window THEN budget
  ELSE (budget * age) \div Cadence[p].window

Idle == [pc |-> "idle", at |-> 0, dry |-> FALSE, hourly |-> [v \in Personas |-> 0],
         latest |-> [v \in Personas |-> -1], queue |-> {}, item |-> None,
         policy |-> None, held |-> {}, due |-> 0, selected |-> {}, used |-> 0,
         decided |-> [i \in Content |-> 0], counted |-> 0, voter |-> None,
         tail |-> "none", fresh |-> TRUE]

SimInit ==
  /\ clock = 1
  /\ mode = "off"
  /\ policies = <<>>
  /\ draft = <<>>
  /\ born = [i \in Content |-> 0]
  /\ rows = {}
  /\ tick = Idle
  /\ missed = 0
  /\ mishaps = 0

-----------------------------------------------------------------------------
(* The tick *)

\* _tick_once: the mode is read from the table, and a policy must exist.  The
\* counts come from every vote row of the last hour, whatever its source.
HourlyOf(t) == [v \in Personas |-> Cardinality({r \in rows : r.voter = v /\ r.at >= t - AnHour})]
LatestOf(t) ==
  [v \in Personas |->
     Max({-1} \cup {r.at : r \in {x \in rows : x.voter = v /\ x.at >= t - AnHour}})]

BeginTick ==
  /\ tick.pc = "idle"
  /\ mode \in {"shadow", "live"}
  /\ DOMAIN policies # {}
  /\ tick' = [Idle EXCEPT !.pc = "targets", !.at = clock, !.dry = mode = "shadow",
                !.hourly = HourlyOf(clock), !.latest = LatestOf(clock)]
  /\ UNCHANGED <<world, rows, missed>>

\* The candidates: as far back as the longest active window and grace.
Horizon(t) ==
  Max({0} \cup {Cadence[p].window + Cadence[p].grace : p \in PoliciesAt(t)})

ReadTargets ==
  /\ tick.pc = "targets"
  /\ tick' = [tick EXCEPT !.pc = "active",
                !.queue = {i \in Content : Live(i) /\ born[i] >= tick.at - Horizon(tick.at)
                                                  /\ born[i] <= tick.at}]
  /\ UNCHANGED <<world, rows, missed>>

\* Posts come before comments, each oldest first.
Before(i, j) ==
  LET rank(k) == IF Thread[k] = k THEN 0 ELSE 1 IN
  \/ rank(i) < rank(j)
  \/ rank(i) = rank(j) /\ born[i] < born[j]
  \/ rank(i) = rank(j) /\ born[i] = born[j] /\ i < j
Oldest(S) == CHOOSE i \in S : \A j \in S \ {i} : Before(i, j)

\* After a commit the session reloads what it holds: a deleted item raises.
Vanished(i) == ~ tick.fresh /\ ~ Live(i)

\* Mutant: what earlier ticks have cast is due again.
DueAgain(p, i) == due_count(p, i, tick.at - born[i])
Due(p, i) == due_count(p, i, tick.at - born[i]) - Cardinality(SimulatedOn(i))

\* One target: its policy and its votes are read anew.
Examine ==
  /\ tick.pc = "active" /\ tick.queue # {}
  /\ LET i == Oldest(tick.queue)
         p == PolicyAt(born[i])
         age == tick.at - born[i]
     IN  /\ ~ Vanished(i)
         /\ IF \/ p = None
               \/ age > Cadence[p].window + Cadence[p].grace
            THEN tick' = [tick EXCEPT !.queue = @ \ {i}]
            ELSE tick' = [tick EXCEPT !.pc = "ordinals", !.queue = @ \ {i}, !.item = i,
                            !.policy = p, !.held = VotersOn(i), !.selected = {},
                            !.due = Due(p, i)]
  /\ UNCHANGED <<world, rows, missed>>

\* _select_voter: not the author, no prior voter, within the cap and the gap.
\* Mutant: the gap is not looked at.
EligibleNoGap(p, i, prior) ==
  {v \in Personas : /\ v # Writer[i] /\ v \notin prior
                    /\ tick.hourly[v] < Cadence[p].cap}
Eligible(p, i, prior) ==
  {v \in Personas : /\ v # Writer[i] /\ v \notin prior
                    /\ tick.hourly[v] < Cadence[p].cap
                    /\ tick.latest[v] < tick.at - Cadence[p].gap}

\* The voter is booked in the tick's own counts before the vote is cast.
Booked(v, i) == [tick EXCEPT !.pc = "cast", !.voter = v, !.item = i,
                   !.hourly[v] = @ + 1, !.latest[v] = tick.at, !.decided[i] = @ + 1]

Pool == Eligible(tick.policy, tick.item, tick.held \cup tick.selected)

\* The votes the session holds are reloaded too.
HeldVanished == ~ tick.fresh /\ (~ Live(tick.item) \/ ~ tick.held \subseteq VotersOn(tick.item))

MoreOrdinals ==
  tick.due > 0 /\ tick.used < GlobalLimit /\ Cardinality(tick.selected) < PerItemLimit

SelectVoter ==
  /\ tick.pc = "ordinals" /\ MoreOrdinals /\ ~ HeldVanished
  /\ \E v \in Pool : tick' = 
       [Booked(v, tick.item) EXCEPT !.due = @ - 1, !.selected = @ \cup {v}]
  /\ UNCHANGED <<world, rows, missed>>

\* What remains is skipped: over a limit, or no voter.
TargetDone ==
  /\ tick.pc = "ordinals" /\ (MoreOrdinals => (~ HeldVanished /\ Pool = {}))
  /\ tick' = [tick EXCEPT !.pc = "active", !.item = None, !.policy = None,
                !.held = {}, !.due = 0, !.selected = {}]
  /\ UNCHANGED <<world, rows, missed>>

\* cast_vote in its own transaction.  A pair that has a vote keeps it; the
\* item may be gone, and a downvote may be refused.
AfterCast == IF tick.tail = "none" THEN "ordinals" ELSE "exposures"

CastLands ==
  /\ tick.pc = "cast" /\ ~ tick.dry
  /\ Live(tick.item) /\ tick.voter \notin VotersOn(tick.item)
  /\ rows' = rows \cup {[voter |-> tick.voter, item |-> tick.item,
                          source |-> "simulated", at |-> clock]}
  /\ missed' = missed + 1
  /\ tick' = [tick EXCEPT !.pc = AfterCast, !.voter = None,
                !.item = IF tick.tail = "none" THEN @ ELSE None, !.used = @ + 1,
                !.counted = @ + 1, !.fresh = FALSE]
  /\ UNCHANGED world

\* Mutant: every cast is counted as an inserted vote.
CastRefusedCounted ==
  /\ tick.pc = "cast" /\ ~ tick.dry
  /\ tick' = [tick EXCEPT !.pc = AfterCast, !.voter = None,
                !.item = IF tick.tail = "none" THEN @ ELSE None, !.used = @ + 1,
                !.counted = @ + 1, !.fresh = FALSE]
  /\ UNCHANGED <<world, rows, missed>>

CastRefused ==
  /\ tick.pc = "cast" /\ ~ tick.dry
  /\ tick' = [tick EXCEPT !.pc = AfterCast, !.voter = None,
                !.item = IF tick.tail = "none" THEN @ ELSE None, !.used = @ + 1,
                !.fresh = FALSE]
  /\ UNCHANGED <<world, rows, missed>>

CastDry ==
  /\ tick.pc = "cast" /\ tick.dry
  /\ tick' = [tick EXCEPT !.pc = AfterCast, !.voter = None,
                !.item = IF tick.tail = "none" THEN @ ELSE None, !.used = @ + 1]
  /\ UNCHANGED <<world, rows, missed>>

-----------------------------------------------------------------------------
(* _run_tail: archive exposures, then revivals *)

Ended == [Idle EXCEPT !.pc = "summary", !.counted = tick.counted]

ActiveDone ==
  /\ tick.pc = "active" /\ tick.queue = {}
  /\ LET p == PolicyAt(tick.at) IN
     tick' = IF p = None THEN Ended
             ELSE [tick EXCEPT !.pc = "archive", !.policy = p]
  /\ UNCHANGED <<world, rows, missed>>

\* Posts past their active phase; the counts are read again.
ReadArchive ==
  /\ tick.pc = "archive"
  /\ LET c == Cadence[tick.policy] IN
     tick' = [tick EXCEPT !.pc = "exposures", !.tail = "archive", !.fresh = TRUE,
                !.hourly = HourlyOf(tick.at), !.latest = LatestOf(tick.at),
                !.queue = {i \in Content : /\ Live(i) /\ Thread[i] = i
                                           /\ born[i] >= tick.at - c.tail
                                           /\ born[i] < tick.at - (c.window + c.grace)}]
  /\ UNCHANGED <<world, rows, missed>>

\* Comments of the last minutes: their post, parent and visible comments.
Revived(t) ==
  {i \in Content : Live(i) /\ \E k \in Content :
     /\ Live(k) /\ Thread[k] # k /\ Thread[k] = Thread[i]
     /\ born[k] >= t - Lookback /\ born[k] <= t}

ReadRevival ==
  /\ tick.pc = "exposures" /\ tick.tail = "archive" /\ tick.queue = {}
  /\ tick' = [tick EXCEPT !.tail = "revival", !.queue = Revived(tick.at), !.fresh = TRUE]
  /\ UNCHANGED <<world, rows, missed>>

\* _tail_opportunity.  The exposure converts by chance, never past the
\* maximum age; an item with a simulated vote is passed over; the voter is
\* picked as if nobody had voted, and dropped if it had.
Exposable(i) ==
  /\ tick.decided[i] < PerItemLimit /\ tick.used < GlobalLimit
  /\ tick.at - born[i] < Cadence[tick.policy].tail
  /\ SimulatedOn(i) = {}

Expose ==
  /\ tick.pc = "exposures"
  /\ \E i \in tick.queue : ~ Vanished(i) /\
       \/ tick' = [tick EXCEPT !.queue = @ \ {i}]
       \/ /\ Exposable(i)
          /\ \E v \in Eligible(tick.policy, i, {}) \ VotersOn(i) :
               tick' = [Booked(v, i) EXCEPT !.queue = @ \ {i}]
  /\ UNCHANGED <<world, rows, missed>>

TailDone ==
  /\ tick.pc = "exposures" /\ tick.tail = "revival" /\ tick.queue = {}
  /\ tick' = Ended
  /\ UNCHANGED <<world, rows, missed>>

\* _record_summary: an upsert of its own, which may fail and is then only logged.
RecordSummary ==
  /\ tick.pc = "summary"
  /\ missed' \in {missed, missed - tick.counted}
  /\ tick' = Idle
  /\ UNCHANGED <<world, rows>>

\* A row the session held is gone: the tick is rolled back, and only an error
\* is counted for it.
TickFails ==
  /\ \/ tick.pc = "active" /\ tick.queue # {} /\ Vanished(Oldest(tick.queue))
     \/ tick.pc = "ordinals" /\ MoreOrdinals /\ HeldVanished
     \/ tick.pc = "exposures" /\ \E i \in tick.queue : Vanished(i)
  /\ tick' = Idle
  /\ UNCHANGED <<world, rows, missed>>

-----------------------------------------------------------------------------
(* Beside the tick *)

Mishap == mishaps < MaxMishaps /\ mishaps' = mishaps + 1

WorkerDies ==
  /\ Mishap
  /\ tick.pc # "idle"
  /\ tick' = Idle
  /\ UNCHANGED <<clock, mode, policies, draft, born, rows, missed>>

\* An item appears, perhaps with a vote that history seeding backfilled.
Create(i, backers) ==
  /\ born[i] = 0 /\ Writer[i] \notin backers
  /\ Thread[i] # i => Live(Thread[i])
  /\ born' = [born EXCEPT ![i] = clock]
  /\ rows' = rows \cup {[voter |-> v, item |-> i, source |-> "backfill", at |-> clock] : v \in backers}
  /\ UNCHANGED <<clock, mode, policies, draft, tick, missed, mishaps>>

\* Mutant: the item goes, its votes stay.
DeleteContentOnly(i) ==
  /\ Mishap
  /\ Live(i)
  /\ born' = [k \in Content |-> IF i \in {k, Thread[k]} THEN -1 ELSE born[k]]
  /\ UNCHANGED <<clock, mode, policies, draft, rows, tick, missed>>

\* An administrator's delete takes the thread and its votes.
DeleteContent(i) ==
  /\ Mishap
  /\ Live(i)
  /\ LET gone == {k \in Content : Live(k) /\ i \in {k, Thread[k]}} IN
     /\ born' = [k \in Content |-> IF k \in gone THEN -1 ELSE born[k]]
     /\ rows' = {r \in rows : r.item \notin gone}
  /\ UNCHANGED <<clock, mode, policies, draft, tick, missed>>

\* A visitor votes, or takes the vote back.
VisitorVotes(v, i) ==
  /\ Mishap
  /\ Live(i) /\ v \notin VotersOn(i)
  /\ rows' = rows \cup {[voter |-> v, item |-> i, source |-> "human", at |-> clock]}
  /\ UNCHANGED <<clock, mode, policies, draft, born, tick, missed>>

VisitorClears(v, i) ==
  /\ v \in SimVisitors /\ v \in VotersOn(i)
  /\ rows' = {r \in rows : ~ (r.voter = v /\ r.item = i)}
  /\ UNCHANGED <<clock, mode, policies, draft, born, tick, missed, mishaps>>

\* voting_mode_api: no mode but off before a policy exists.
SetMode(m) ==
  /\ m # mode
  /\ m # "off" => DOMAIN policies # {}
  /\ IF mode = "off" THEN UNCHANGED mishaps ELSE Mishap
  /\ mode' = m
  /\ UNCHANGED <<clock, policies, draft, born, rows, tick, missed>>

\* voting_policy_api: effective_at is stamped, the row is committed later.
\* The configuration was validated, and rows are never updated.
ValidPolicy(c) ==
  /\ c.window > 0 /\ c.grace >= 0 /\ c.tail > 0
  /\ c.cap >= 0 /\ c.gap >= 0
  /\ c.most >= 0

StampPolicy(p) ==
  /\ draft = <<>> /\ p \notin DOMAIN policies /\ ValidPolicy(Cadence[p])
  /\ \A q \in SimPolicies : q < p /\ ValidPolicy(Cadence[q]) => q \in DOMAIN policies
  /\ draft' = <<p, clock>>
  /\ UNCHANGED <<clock, mode, policies, born, rows, tick, missed, mishaps>>

CommitPolicy ==
  /\ draft # <<>>
  /\ policies' = [q \in DOMAIN policies \cup {draft[1]} |->
                    IF q = draft[1] THEN draft[2] ELSE policies[q]]
  /\ draft' = <<>>
  /\ UNCHANGED <<clock, mode, born, rows, tick, missed, mishaps>>

\* A tick works with the time it began at; the clock itself only dates rows,
\* so within a tick it moves while a cast waits for the writer's lock.
ClockTicks ==
  /\ clock < MaxClock /\ tick.pc \in {"idle", "cast"}
  /\ clock' = clock + 1
  /\ UNCHANGED <<mode, policies, draft, born, rows, tick, missed, mishaps>>

TickStep ==
  \/ BeginTick \/ ReadTargets \/ Examine \/ SelectVoter \/ TargetDone
  \/ CastLands \/ CastRefused \/ CastDry
  \/ ActiveDone \/ ReadArchive \/ ReadRevival \/ Expose \/ TailDone
  \/ RecordSummary \/ TickFails

SimNext ==
  \/ TickStep
  \/ WorkerDies
  \/ \E i \in Content : DeleteContent(i)
  \/ \E i \in Content, b \in SUBSET Backers : Create(i, b)
  \/ \E i \in Content, v \in SimVisitors : VisitorVotes(v, i) \/ VisitorClears(v, i)
  \/ \E m \in {"off", "shadow", "live"} : SetMode(m)
  \/ \E p \in SimPolicies : StampPolicy(p)
  \/ CommitPolicy
  \/ ClockTicks

SimSpec == SimInit /\ [][SimNext]_simVars

-----------------------------------------------------------------------------
(* Properties *)

\* Types: one vote per voter and item, policies and rows no later than now.
SimTypeOK ==
  /\ clock \in 1..MaxClock /\ mode \in {"off", "shadow", "live"}
  /\ \A p \in DOMAIN policies : p \in SimPolicies /\ policies[p] \in 1..clock
  /\ born \in [Content -> -1..clock]
  /\ \A r \in rows : Live(r.item) /\ r.at \in born[r.item]..clock
  /\ \A r, s \in rows : r.voter = s.voter /\ r.item = s.item => r = s
  /\ tick.at \in 0..clock /\ tick.used \in 0..GlobalLimit

\* An item never has more simulated votes than its lifetime attention, or the
\* one vote of a rediscovery: through restarts, failed ticks, revivals of items
\* that are still active, and a policy that was stamped before the item was
\* created but committed after (then the larger of both budgets).
WithinAttention ==
  \A i \in Content : Live(i) =>
    Cardinality(SimulatedOn(i)) <=
      Max({1} \cup {sample_attention_budget(p, i) : p \in PoliciesAt(born[i])})

\* However ticks, restarts and policies fall, a persona's simulated votes of
\* an hour stay within the largest cap ever saved, and two of them are further
\* apart than the smallest gap, or than the hour of votes a tick looks at.
SimulatedOf(v) == {r \in rows : r.voter = v /\ r.source = "simulated"}
PersonasPaced ==
  \A v \in Personas :
    /\ SimulatedOf(v) # {} =>
         Cardinality({r \in SimulatedOf(v) : r.at >= clock - AnHour})
           <= Max({Cadence[p].cap : p \in DOMAIN policies})
    /\ \A r, s \in SimulatedOf(v) : r # s =>
         LET far == IF r.at > s.at THEN r.at - s.at ELSE s.at - r.at IN
         far > Min({AnHour} \cup {Cadence[p].gap : p \in DOMAIN policies})

\* The health page may miss votes (a tick that failed, died, or whose summary
\* could not be written), but never claims one that was not inserted.
SummaryNeverOverstates ==
  tick.counted <= missed

\* The two bounds of a thread and of a persona together.
AttentionKept == WithinAttention /\ PersonasPaced
=============================================================================
