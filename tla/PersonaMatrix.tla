----------------------------- MODULE PersonaMatrix -----------------------------
(***************************************************************************)
(* The assignment matrix of a persona request                              *)
(* (deaddit/services/persona_options.py) and what the generator plans from *)
(* it (deaddit/services/persona_generator.py): seats by age band and       *)
(* sector, the repair of the pairing, a card, a context, an education and  *)
(* an age for each row, the community each row is steered to, and the       *)
(* batches.                                                                *)
(*                                                                         *)
(* Random draws, and the weights that only favour some of their outcomes,  *)
(* are choices.  Traits, styles, interests and wording are left out.  The  *)
(* planner is one call; each loop of it takes a step per iteration here.   *)
(***************************************************************************)
EXTENDS Integers, Sequences, FiniteSets, FiniteSetsExt, Functions

CONSTANTS
  Bands,        \* age bands: a sequence of [low, high]
  Sectors,      \* a sequence of sectors
  BandWeights,  \* the weights of the bands, and of the sectors, that their shares
  SectorWeights,\*   and the personas already there may come to
  Cards,        \* occupation cards
  Card,         \* Cards -> [sector, min, max, levels, contexts]
  Levels,       \* education levels -> minimum age
  Contexts,     \* employment contexts -> [min, max]
  Student,      \* the current-student level, and the context of that name
  SmallRequest, \* below it the sector cap is the request itself (20)
  BatchOf,      \* PERSONA_BATCH_SIZE
  Forums,       \* eligible communities
  Counts        \* sizes of the requests tried

Compatible(c, b) ==
  /\ Card[c].min <= Bands[b].high /\ Card[c].max >= Bands[b].low
  /\ \E l \in Card[c].levels : Levels[l] <= Bands[b].high

Low(c, b, x) == Max({Bands[b].low, Card[c].min, Contexts[x].min})
High(c, b, x) == Min({Bands[b].high, Card[c].max, Contexts[x].max})

\* The contexts a card can have in a band.
ContextsOf(c, b) ==
  {x \in Card[c].contexts :
     /\ x = Student => Student \in Card[c].levels
     /\ Low(c, b, x) <= High(c, b, x)}

\* The student level and the student context come together.
LevelsOf(c, b, x) ==
  {l \in Card[c].levels : Levels[l] <= High(c, b, x) /\ (l = Student <=> x = Student)}

\* What the catalogs promise: a compatible card can always be completed.
ASSUME CatalogAssumption ==
  /\ \A c \in Cards, b \in DOMAIN Bands :
       Compatible(c, b) =>
         /\ ContextsOf(c, b) # {}
         /\ \A x \in ContextsOf(c, b) : LevelsOf(c, b, x) # {}
  /\ \A s \in DOMAIN Sectors : \E c \in Cards : Card[c].sector = Sectors[s]

\* What they are made of.
ASSUME MatrixAssumption ==
  /\ Bands \in Seq([low : Int, high : Int]) /\ Bands # << >>
  /\ Sectors \in Seq(Range(Sectors)) /\ Sectors # << >>
  /\ BandWeights \subseteq [DOMAIN Bands -> Nat] /\ SectorWeights \subseteq [DOMAIN Sectors -> Nat]
  /\ IsFiniteSet(Cards)
  /\ \A c \in Cards :
       /\ Card[c].min \in Int /\ Card[c].max \in Int
       /\ Card[c].levels \subseteq DOMAIN Levels /\ Card[c].contexts \subseteq DOMAIN Contexts
  /\ \A l \in DOMAIN Levels : Levels[l] \in Int
  /\ \A x \in DOMAIN Contexts : Contexts[x].min \in Int /\ Contexts[x].max \in Int
  /\ IsFiniteSet(Forums)
  /\ Counts \subseteq Nat \ {0} /\ SmallRequest \in Nat /\ BatchOf \in Nat \ {0}

VARIABLES
  stage,
  size,         \* personas asked for
  history,      \* cards of personas already there
  pull,         \* weights of the bands and of the sectors
  seats,        \* per band
  place,        \* of the loop over the bands, then over the sectors
  specs,        \* <<band, sector>> of each row
  filled,      \* history: the sectors with a seat when covering ended
  bag,          \* cards left of each sector
  uses,         \* times each card was drawn
  drawn,        \* rows completed
  latest,       \* the last of them
  before,       \* history: uses before it
  turns,        \* history: iterations of the balance loop
  tally,        \* subscribers of each forum
  steered         \* rows steered to each forum

matrixVars == <<stage, size, history, pull, seats, place, specs, filled, bag, uses,
                drawn, latest, before, turns, tally, steered>>
drawVars == <<bag, uses, drawn, latest, before>>
steerVars == <<tally, steered>>
dealVars == <<seats, place, specs, filled, turns>>

NoLatest == [band |-> 0]

SectorCards(s) == {c \in Cards : Card[c].sector = s}
CompatCount(b, s) == Cardinality({c \in SectorCards(s) : Compatible(c, b)})
SeatsOf(sp, s) == Cardinality({i \in DOMAIN sp : sp[i][2] = s})
CeilDiv(n, d) == (n + d - 1) \div d

-----------------------------------------------------------------------------
(* Seats *)

\* The seats of an allocation, one by one, and how many.
Places(f) == UNION {{i} \X (1..f[i]) : i \in DOMAIN f}
Dealt(f) == Cardinality(Places(f))

\* _quota: shares rounded down, within the caps; what remains goes round by round to
\* those below their cap: r whole rounds and, the largest fraction first, one seat for
\* each of T.  No outcome when the caps cannot hold the count.
Quotas(weight, n, cap) ==
  LET total == Dealt(weight)
      share(i) == IF total = 0 THEN 0 ELSE (weight[i] * n) \div total
      fraction(i) == IF total = 0 THEN 0 ELSE (weight[i] * n) % total
      after(r) == [i \in DOMAIN weight |-> Min({share(i) + r, cap[i]})]
      open(r) == {i \in DOMAIN weight : after(r)[i] < cap[i]}
      favoured(T, r) == \A i \in T, j \in open(r) \ T : fraction(i) >= fraction(j)
      rest(r) == {T \in SUBSET open(r) :
                    Dealt(after(r)) + Cardinality(T) = n /\ favoured(T, r)}
  IN UNION {{[i \in DOMAIN weight |-> after(r)[i] + (IF i \in T THEN 1 ELSE 0)] : T \in rest(r)} :
              r \in 0..n}

\* _deficit_weights: what shares and deficits come to.
Pulls == [bands : BandWeights, sectors : SectorWeights]

MatrixInit ==
  /\ stage = "bands"
  /\ size \in Counts
  /\ history \in {H \in SUBSET Cards : Cardinality(H) <= 1}
  /\ pull \in Pulls
  /\ seats = << >> /\ place = 1 /\ specs = << >> /\ filled = {} /\ turns = 0
  /\ bag = [s \in Range(Sectors) |-> SectorCards(s)]
  /\ uses = [c \in Cards |-> 0]
  /\ drawn = 0 /\ latest = NoLatest /\ before = uses
  /\ tally = [f \in Forums |-> 0] /\ steered = tally

SeatBands ==
  /\ stage = "bands"
  /\ seats' \in Quotas(pull.bands, size, [b \in DOMAIN Bands |-> size])
  /\ stage' = "sectors"
  /\ UNCHANGED <<size, history, pull, place, specs, filled, turns, drawVars, steerVars>>

SectorCap == IF size < SmallRequest THEN size
             ELSE Max({size \div 5, CeilDiv(size, Len(Sectors))})

\* What a sector may get of a band's seats: nothing when no card of it suits the band.
\* Mutant: the cap alone.
CapAny(b, s) == Max({0, SectorCap - SeatsOf(specs, s)})
Cap(b, s) ==
  IF CompatCount(b, s) = 0 THEN 0 ELSE Max({0, SectorCap - SeatsOf(specs, s)})

\* What the sectors may get of a band's seats, by their cards for it.
SectorQuotas(b) ==
  Quotas([k \in DOMAIN Sectors |-> pull.sectors[k] * CompatCount(b, Sectors[k])], seats[b],
         [k \in DOMAIN Sectors |-> Cap(b, Sectors[k])])

\* The sectors of a band's rows: an allocation, shuffled.
Shuffled(b, a) ==
  {row \in [1..seats[b] -> Range(Sectors)] :
     \A k \in DOMAIN Sectors : Cardinality({i \in DOMAIN row : row[i] = Sectors[k]}) = a[k]}

\* The loop goes on to the next of n, or to what comes after it.
Onward(n, following) ==
  /\ place' = IF place < n THEN place + 1 ELSE 1
  /\ stage' = IF place < n THEN stage ELSE following

\* The rows of one band.
SeatSectors ==
  LET b == place
  IN /\ stage = "sectors"
     /\ \/ /\ seats[b] = 0
           /\ Onward(Len(Bands), "cover") /\ UNCHANGED specs
        \/ /\ seats[b] > 0
           /\ \E a \in SectorQuotas(b) : \E row \in Shuffled(b, a) :
                specs' = specs \o [i \in 1..seats[b] |-> <<b, row[i]>>]
           /\ Onward(Len(Bands), "cover")
        \/ /\ seats[b] > 0 /\ SectorQuotas(b) = {}
           /\ stage' = "raised" /\ UNCHANGED <<place, specs>>
     /\ UNCHANGED <<size, history, pull, seats, filled, turns, drawVars, steerVars>>

-----------------------------------------------------------------------------
(* Repair of the pairing *)

\* Whether a row may move to a sector.
\* Mutant: whatever its band.
SuitsAny(i, s) == TRUE
Suits(i, s) == CompatCount(specs[i][1], s) > 0

Moved(i, s) == [specs EXCEPT ![i] = <<@[1], s>>]

\* The rows a sector may take, and the first from a fullest sector.
Donors(s) == {i \in DOMAIN specs : SeatsOf(specs, specs[i][2]) > 1 /\ Suits(i, s)}
Donor(s) ==
  Min({i \in Donors(s) :
         \A j \in Donors(s) : SeatsOf(specs, specs[i][2]) >= SeatsOf(specs, specs[j][2])})

\* A sector without a seat takes one that can be spared.
Cover ==
  LET s == Sectors[place]
  IN /\ stage = "cover"
     /\ specs' = IF SeatsOf(specs, s) > 0 \/ Donors(s) = {} THEN specs ELSE Moved(Donor(s), s)
     /\ Onward(Len(Sectors), "balance")
     /\ filled' = IF place < Len(Sectors) THEN filled
                   ELSE {t \in Range(Sectors) : SeatsOf(specs', t) > 0}
     /\ UNCHANGED <<size, history, pull, seats, turns, drawVars, steerVars>>

SectorLimit == CeilDiv(size, Len(Sectors))
Crowded(i) == SeatsOf(specs, specs[i][2]) > SectorLimit
Room(i) == {k \in DOMAIN Sectors : Suits(i, Sectors[k]) /\ SeatsOf(specs, Sectors[k]) < SectorLimit}
Movable == {i \in DOMAIN specs : Crowded(i) /\ Room(i) # {}}

\* One turn of the loop: the first row of a sector that is too full moves.
Balance ==
  /\ stage = "balance" /\ Movable # {}
  /\ LET i == Min(Movable) IN specs' = Moved(i, Sectors[Min(Room(i))])
  /\ turns' = turns + 1
  /\ UNCHANGED <<stage, size, history, pull, seats, place, filled, drawVars, steerVars>>

Balanced ==
  /\ stage = "balance" /\ Movable = {}
  /\ stage' = "rows"
  /\ UNCHANGED <<size, history, pull, dealVars, drawVars, steerVars>>

-----------------------------------------------------------------------------
(* Rows *)

\* pop_compatible: fresh cards before historical ones.
InBag(B, b) ==
  LET fit == {c \in B : Compatible(c, b)}
  IN IF fit \ history # {} THEN fit \ history ELSE fit

\* _least_used of the compatible cards, when the bag has none.
LeastUsed(s, b) ==
  LET fit == {c \in SectorCards(s) : Compatible(c, b)}
      fresh == fit \ history
      pool == IF fresh # {} THEN fresh ELSE IF fit # {} THEN fit ELSE SectorCards(s)
  IN {c \in pool : \A d \in pool : uses[c] <= uses[d]}

\* The bag a card is drawn from: refilled when it is empty.
Filled(s) == IF bag[s] = {} THEN SectorCards(s) ELSE bag[s]

\* The cards _draw_card may come up with.
\* Mutant: the bag does not matter.
DrawableAny(s, b) == {c \in SectorCards(s) : Compatible(c, b)}
Drawable(s, b) == IF InBag(Filled(s), b) # {} THEN InBag(Filled(s), b) ELSE LeastUsed(s, b)

\* The ages a row may get.
\* Mutant: the level's minimum is forgotten.
AgesAbove(c, b, x, l) == Low(c, b, x)..High(c, b, x)
Ages(c, b, x, l) == Max({Low(c, b, x), Levels[l]})..High(c, b, x)

DrawRow ==
  LET b == specs[drawn + 1][1]
      s == specs[drawn + 1][2]
  IN /\ stage = "rows" /\ drawn < Len(specs)
     /\ \E c \in Drawable(s, b) :
          /\ bag' = [bag EXCEPT ![s] = Filled(s) \ ({c} \cap InBag(Filled(s), b))]
          /\ uses' = [uses EXCEPT ![c] = @ + 1]
          /\ \E x \in ContextsOf(c, b) : \E l \in LevelsOf(c, b, x) :
               \E age \in Ages(c, b, x, l) :
                 latest' = [band |-> b, sector |-> s, card |-> c, context |-> x,
                            level |-> l, age |-> age]
     /\ drawn' = drawn + 1 /\ before' = uses
     /\ UNCHANGED <<stage, size, history, pull, dealVars, steerVars>>

-----------------------------------------------------------------------------
(* What the generator plans from it *)

\* The planner returns; _subscriber_counts has read the agent_state of all users.
PlanNudges ==
  /\ stage = "rows" /\ drawn = Len(specs)
  /\ stage' = "nudging"
  /\ tally' \in [Forums -> 0..2]
  /\ seats' = << >> /\ place' = 1 /\ specs' = << >> /\ filled' = {} /\ turns' = 0
  /\ bag' = [s \in Range(Sectors) |-> SectorCards(s)]
  /\ uses' = [c \in Cards |-> 0] /\ before' = uses'
  /\ drawn' = 0 /\ latest' = NoLatest
  /\ UNCHANGED <<size, history, pull, steered>>

\* Times the number of forums, the fair share of one: of all subscribers or of the
\* request, and at least one each.
FairTotal == Max({SumFunction(tally), size, Cardinality(Forums)})
Planned(f) == tally[f] + steered[f]

\* A forum below its share.
\* Mutant: by what it had.
BelowBefore(f) == tally[f] * Cardinality(Forums) < FairTotal
Below(f) == Planned(f) * Cardinality(Forums) < FairTotal

\* _subscription_targets: the next row is steered to one of them, if there is one.
Nudge(f) ==
  /\ stage = "nudging" /\ SumFunction(steered) < size /\ Below(f)
  /\ steered' = [steered EXCEPT ![f] = @ + 1]
  /\ UNCHANGED <<stage, size, history, pull, dealVars, drawVars, tally>>

\* _batch_plan: how many batches each kind fills, and the slots of the troll batches.
TrollSlots(trolls) ==
  LET t == CeilDiv(trolls, BatchOf)
      all == t + CeilDiv(size - trolls, BatchOf)
  IN {((k + 1) * all) \div t - 1 : k \in 0..t - 1}

MatrixNext ==
  \/ SeatBands \/ SeatSectors \/ Cover \/ Balance \/ Balanced \/ DrawRow
  \/ PlanNudges \/ \E f \in Forums : Nudge(f)

MatrixSpec == MatrixInit /\ [][MatrixNext]_matrixVars

-----------------------------------------------------------------------------
(* Properties *)

\* The types of the plan's parts.
MatrixTypeOK ==
  /\ stage \in {"bands", "sectors", "cover", "balance", "rows", "nudging", "raised"}
  /\ size \in Counts /\ history \subseteq Cards /\ pull \in Pulls
  /\ place \in Nat \ {0} /\ turns \in Nat /\ filled \subseteq Range(Sectors)
  /\ stage # "bands" /\ stage # "nudging" => seats \in [DOMAIN Bands -> Nat]
  /\ \A i \in DOMAIN specs : specs[i][1] \in DOMAIN Bands /\ specs[i][2] \in Range(Sectors)
  /\ \A s \in Range(Sectors) : \A c \in bag[s] : c \in Cards /\ Card[c].sector = s
  /\ uses \in [Cards -> Nat] /\ drawn \in 0..Len(specs)
  /\ tally \in [Forums -> Nat] /\ steered \in [Forums -> Nat]

\* However the seats are dealt and repaired, every band keeps its quota, the request
\* gets all its rows, and no row pairs a band with a sector that has no card for it.
SeatsKept ==
  stage \in {"cover", "balance", "rows"} =>
    /\ Len(specs) = size
    /\ \A b \in DOMAIN Bands : Cardinality({i \in DOMAIN specs : specs[i][1] = b}) = seats[b]
    /\ \A i \in DOMAIN specs : CompatCount(specs[i][1], specs[i][2]) > 0

\* The loop ends: no more turns than rows.
BalanceEnds == turns <= size

\* When covering ends, a sector goes without a seat only if no row that suits it can
\* be spared, and balancing neither empties a sector nor fills an empty one.
CoverLasts ==
  stage \in {"balance", "rows"} =>
    /\ filled = {s \in Range(Sectors) : SeatsOf(specs, s) > 0}
    /\ turns = 0 => \A s \in Range(Sectors) \ filled : Donors(s) = {}

\* A completed row passes validate_assignment.
RowValid ==
  latest # NoLatest =>
    LET c == Card[latest.card]
    IN /\ latest.age >= Bands[latest.band].low /\ latest.age <= Bands[latest.band].high
       /\ c.sector = latest.sector /\ latest.age >= c.min /\ latest.age <= c.max
       /\ latest.context \in c.contexts /\ latest.level \in c.levels
       /\ latest.age >= Contexts[latest.context].min
       /\ latest.age <= Contexts[latest.context].max
       /\ latest.age >= Levels[latest.level]
       /\ latest.context = Student <=> latest.level = Student

\* A card comes a second time only when every card of its sector that fits the row
\* has come once, and a card of the history only when every fresh one has.
RepeatsLast ==
  latest # NoLatest =>
    LET fit == {c \in SectorCards(latest.sector) : Compatible(c, latest.band)}
        c == latest.card
    IN /\ before[c] > 0 => \A d \in fit : before[d] > 0
       /\ c \in history => \A d \in fit \ history : before[d] > 0

\* One request spreads over the forums that lack members: none is steered past its
\* share by a whole member.
NudgesSpread ==
  \A f \in Forums :
    steered[f] > 0 => (Planned(f) - 1) * Cardinality(Forums) < FairTotal

\* Every troll batch finds a slot of its own in the schedule.
SlotsDistinct ==
  \A trolls \in 1..size : Cardinality(TrollSlots(trolls)) = CeilDiv(trolls, BatchOf)

MatrixSound ==
  SeatsKept /\ BalanceEnds /\ CoverLasts /\ RowValid /\ RepeatsLast /\ NudgesSpread /\ SlotsDistinct
=============================================================================
