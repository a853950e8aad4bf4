----------------------------- MODULE VisitProfiles -----------------------------
(***************************************************************************)
(* The stored versions of agent.visit_profile and the pins that choose     *)
(* one for an agent, a cohort or everybody (deaddit/llm/prompts.py), with  *)
(* the seven migrations that rewrote or cloned them, up and down.          *)
(*                                                                         *)
(* A body is what the migrations and parse_visit_profile look at: the      *)
(* scale of its length weights, whether it knows the backstage intent,     *)
(* its comment lengths, whether it has the catalogs of one direction per   *)
(* visit, and its intent mix.  Requests name the profile template, as the  *)
(* page does.  Nothing in the program audits a render.                     *)
(***************************************************************************)
EXTENDS Integers, FiniteSets, FiniteSetsExt

CONSTANTS
  Targets,          \* pin targets: an agent, a cohort, the global one
  Legacy,           \* versions of agent.system_prompt
  Authored,         \* bodies an administrator may store
  Editors,          \* administrator's requests
  MaxEdits,         \* bound of the model: requests
  MaxMigrations     \* bound of the model: revisions applied or undone

Bodies ==
  [scale : {"percent", "fraction"}, backstage : BOOLEAN,
   comment : {"legacy", "four", "five", "own"}, once : BOOLEAN, mix : {"old", "new", "own"}]

ASSUME VisitProfilesAssumption ==
  /\ "global" \in Targets /\ IsFiniteSet(Targets) /\ Legacy \subseteq Nat \ {0}
  /\ Authored \subseteq Bodies
  /\ MaxEdits \in Nat /\ MaxMigrations \in Nat

VARIABLES
  revision,         \* how many of the seven revisions are applied
  settings,         \* the retired intent settings
  system,           \* version of agent.system_prompt a target is pinned to, or 0
  bodies,           \* the stored versions of the profile
  origin,           \* created_by of each
  pinned,           \* version a target is pinned to, or 0
  edit,             \* what each request has read
  edits, migrations,
  trail             \* history: the pins before each revision now applied

profileVars == <<revision, settings, system, bodies, origin, pinned, edit, edits,
                 migrations, trail>>

LastRevision == 7
Versions == DOMAIN bodies
Unpinned == [t \in Targets |-> 0]
NoTrail == [k \in 1..LastRevision |-> Unpinned]
ByHand == [revision |-> 0, source |-> 0]
NoEdit == [does |-> "nothing"]

-----------------------------------------------------------------------------
(* Bodies *)

\* d4f9's _profile_body: a legacy system template, or none.
Converted(mix) ==
  [scale |-> "percent", backstage |-> TRUE, comment |-> "legacy", once |-> FALSE,
   mix |-> mix]

\* What the first edition of d4f9 wrote.
FirstEdition ==
  [Converted("old") EXCEPT !.scale = "fraction", !.backstage = FALSE]

\* parse_visit_profile.
Parses(body) == body.scale = "percent" /\ body.backstage /\ body.once

\* Revisions 2 and 3 rewrite every version where it stands.
Rescaled(body) == [body EXCEPT !.scale = "percent"]
WithBackstage(body) == [body EXCEPT !.backstage = TRUE]
WithoutBackstage(body) == [body EXCEPT !.backstage = FALSE]

\* Revisions 4 to 7: the _canonicalize of each; an operator's tuning stays.
Canonical(k, body) ==
  CASE k = 4 -> [body EXCEPT !.comment = IF @ = "legacy" THEN "four" ELSE @]
    [] k = 5 -> [body EXCEPT !.once = TRUE]
    [] k = 6 -> [body EXCEPT !.comment = IF @ = "four" THEN "five" ELSE @]
    [] k = 7 -> [body EXCEPT !.mix = IF @ = "old" THEN "new" ELSE @]

Top == Max(Versions \cup {0})

-----------------------------------------------------------------------------
(* Databases the revisions start from *)

ProfilesInit ==
  /\ edit = [e \in Editors |-> NoEdit]
  /\ edits = 0 /\ migrations = 0
  /\ trail = NoTrail
  /\ settings \in {"absent", "default", "own"}
  /\ \/ /\ revision = 0
        /\ system \in [Targets -> Legacy \cup {0}]
        /\ bodies = << >> /\ origin = << >> /\ pinned = Unpinned
     \/ /\ revision = 1 /\ settings = "absent"
        /\ system = Unpinned
        /\ bodies = <<FirstEdition, FirstEdition>>
        /\ origin = <<ByHand, ByHand>>
        /\ pinned \in [Targets -> {0, 2}]

-----------------------------------------------------------------------------
(* Migrations.  A deployment runs them with the application stopped. *)

Recorded(k, pins) ==
  [j \in 1..LastRevision |-> IF j < k THEN trail[j] ELSE IF j = k THEN pins ELSE Unpinned]

Migrates(step) ==
  /\ \A e \in Editors : edit[e] = NoEdit
  /\ migrations < MaxMigrations
  /\ migrations' = migrations + 1
  /\ revision' = revision + step
  /\ UNCHANGED <<edit, edits>>

\* d4f9: the template with a first version, a version for each legacy version
\* that is pinned, and one for the settings, which everybody is pinned to.
\* Undone, it leaves them all.
Persist ==
  LET first == IF Versions = {} THEN 1 ELSE Top
      legacy == {system[t] : t \in Targets} \ {0}
      number(v) == first + Cardinality({w \in legacy : w <= v})
      last == first + Cardinality(legacy)
      final == IF settings = "absent" THEN last ELSE last + 1
      moved == [t \in Targets |-> IF system[t] = 0 THEN pinned[t] ELSE number(system[t])]
  IN /\ revision = 0 /\ Migrates(1)
     /\ bodies' = [v \in Versions \cup first..final |->
                     IF v \in Versions THEN bodies[v]
                     ELSE Converted(IF v > last /\ settings = "own" THEN "own" ELSE "old")]
     /\ origin' = [v \in Versions \cup first..final |-> IF v \in Versions THEN origin[v] ELSE ByHand]
     /\ pinned' = IF settings = "absent" THEN moved ELSE [moved EXCEPT !["global"] = final]
     /\ system' = Unpinned
     /\ settings' = "absent"
     /\ trail' = Recorded(1, pinned')

\* b5c7 and c6d8, over all stored versions, which become the given ones.
Rewrite(k, step, rewritten) ==
  /\ Migrates(step)
  /\ bodies' = rewritten
  /\ trail' = Recorded(k, pinned)
  /\ UNCHANGED <<settings, system, origin, pinned>>

\* f4c8, f5c8, a7d3 and c3a9: pinned versions they would change are cloned, a
\* clone that is there already is taken again.
Sources(k) ==
  {v \in {pinned[t] : t \in Targets} \ {0} : Canonical(k, bodies[v]) # bodies[v]}
CloneOf(k, v) == {w \in Versions : origin[w] = [revision |-> k, source |-> v]}

\* All pins of a source move together.
\* Mutant: the global pin does not follow.
FollowsUnlessGlobal(t, sources) == pinned[t] \in sources /\ t # "global"
Follows(t, sources) == pinned[t] \in sources

Clone(k) ==
  LET sources == Sources(k)
      fresh == {v \in sources : CloneOf(k, v) = {}}
      number(v) ==
        IF v \in fresh THEN Top + Cardinality({w \in fresh : w <= v})
        ELSE CHOOSE w \in CloneOf(k, v) : TRUE
      added == [w \in {number(v) : v \in fresh} |-> CHOOSE v \in fresh : number(v) = w]
  IN /\ revision = k - 1 /\ Migrates(1)
     /\ bodies' = [w \in Versions \cup DOMAIN added |->
                     IF w \in Versions THEN bodies[w] ELSE Canonical(k, bodies[added[w]])]
     /\ origin' = [w \in Versions \cup DOMAIN added |->
                     IF w \in Versions THEN origin[w]
                     ELSE [revision |-> k, source |-> added[w]]]
     /\ pinned' = [t \in Targets |->
                     IF Follows(t, sources) THEN number(pinned[t]) ELSE pinned[t]]
     /\ trail' = Recorded(k, pinned)
     /\ UNCHANGED <<settings, system>>

Clones(k) == {w \in Versions : origin[w].revision = k}

\* Undone, every pin of a clone goes back to its source and the clone, of which
\* nothing is left to say, goes.
\* Mutant: the clone is deleted with pins still on it.
ReturnsToClone(t, k) == pinned[t]
Returns(t, k) == IF pinned[t] \in Clones(k) THEN origin[pinned[t]].source ELSE pinned[t]

UndoClone(k) ==
  /\ revision = k /\ Migrates(-1)
  /\ pinned' = [t \in Targets |-> Returns(t, k)]
  /\ bodies' = [v \in Versions \ Clones(k) |-> bodies[v]]
  /\ origin' = [v \in Versions \ Clones(k) |-> origin[v]]
  /\ UNCHANGED <<settings, system, trail>>

UndoPersist ==
  /\ revision = 1 /\ Migrates(-1)
  /\ UNCHANGED <<settings, system, bodies, origin, pinned, trail>>

Migrate ==
  \/ Persist
  \/ revision = 1 /\ Rewrite(2, 1, [v \in Versions |-> Rescaled(bodies[v])])
  \/ revision = 2 /\ Rewrite(3, 1, [v \in Versions |-> WithBackstage(bodies[v])])
  \/ \E k \in 4..LastRevision : Clone(k)

Undo ==
  \/ UndoPersist
  \/ revision = 2 /\ Rewrite(2, -1, bodies)
  \/ revision = 3 /\ Rewrite(3, -1, [v \in Versions |-> WithoutBackstage(bodies[v])])
  \/ \E k \in 4..LastRevision : UndoClone(k)

-----------------------------------------------------------------------------
(* Requests to the application, which runs at the head *)

Asks(e, what) ==
  /\ revision = LastRevision /\ edit[e] = NoEdit /\ edits < MaxEdits
  /\ edits' = edits + 1
  /\ edit' = [edit EXCEPT ![e] = what]
  /\ UNCHANGED <<revision, settings, system, bodies, origin, pinned, migrations, trail>>

Commits(e) ==
  /\ edit' = [edit EXCEPT ![e] = NoEdit]
  /\ trail' = [k \in 1..LastRevision |-> IF pinned' = pinned THEN trail[k] ELSE Unpinned]
  /\ UNCHANGED <<revision, settings, system, edits, migrations>>

\* create_version: the next number, read before the row is written.
ReadLast(e, body) == Parses(body) /\ Asks(e, [does |-> "create", number |-> Top + 1, body |-> body])

\* The pair of template and version is unique: of two, the second fails.
CreateVersion(e) ==
  /\ edit[e].does = "create"
  /\ LET n == edit[e].number IN
     IF n \in Versions THEN UNCHANGED <<bodies, origin>>
     ELSE /\ bodies' = [v \in Versions \cup {n} |-> IF v = n THEN edit[e].body ELSE bodies[v]]
          /\ origin' = [v \in Versions \cup {n} |-> IF v = n THEN ByHand ELSE origin[v]]
  /\ UNCHANGED pinned
  /\ Commits(e)

\* set_pin: a version that is there and parses.
\* Mutant: any version that is there.
MayPinStored(v) == v \in Versions
MayPin(v) == v \in Versions /\ Parses(bodies[v])

CheckPin(e, t, v) ==
  /\ MayPin(v)
  /\ Asks(e, [does |-> "pin", target |-> t, number |-> v])

SetPin(e) ==
  /\ edit[e].does = "pin"
  /\ pinned' = [pinned EXCEPT ![edit[e].target] = edit[e].number]
  /\ UNCHANGED <<bodies, origin>>
  /\ Commits(e)

ClearPin(e, t) ==
  /\ revision = LastRevision /\ edit[e] = NoEdit /\ edits < MaxEdits /\ pinned[t] # 0
  /\ edits' = edits + 1
  /\ pinned' = [pinned EXCEPT ![t] = 0]
  /\ trail' = NoTrail
  /\ UNCHANGED <<revision, settings, system, bodies, origin, edit, migrations>>

ProfilesNext ==
  \/ Migrate
  \/ Undo
  \/ \E e \in Editors :
       \/ \E body \in Authored : ReadLast(e, body)
       \/ \E t \in Targets, v \in Versions : CheckPin(e, t, v)
       \/ \E t \in Targets : ClearPin(e, t)
       \/ CreateVersion(e)
       \/ SetPin(e)

ProfilesSpec == ProfilesInit /\ [][ProfilesNext]_profileVars

-----------------------------------------------------------------------------
(* Resolution: the pins a visit asks in turn, else the profile of the source *)

Order == <<"agent", "cohort", "global">>

\* _profile_pin_version, which raises for any other pin.
PinHolds(t) == pinned[t] \in Versions /\ Parses(bodies[pinned[t]])

Resolution ==
  LET found == {i \in DOMAIN Order : Order[i] \in Targets /\ pinned[Order[i]] # 0} IN
  IF found = {} THEN "default"
  ELSE IF PinHolds(Order[Min(found)]) THEN "found" ELSE "error"

-----------------------------------------------------------------------------
(* Properties *)

ProfilesTypeOK ==
  /\ revision \in 0..LastRevision
  /\ settings \in {"absent", "default", "own"}
  /\ system \in [Targets -> Legacy \cup {0}]
  /\ DOMAIN origin = Versions /\ Versions \subseteq Nat \ {0}
  /\ pinned \in [Targets -> Nat]

\* Whatever database the revisions started from, and however they were undone
\* and applied again around requests, no pin names a version that is gone, and
\* the pins that the application sees are documents that it takes: no visit
\* ends before it began because of a pin.
PinsResolve ==
  /\ \A t \in Targets : pinned[t] # 0 => pinned[t] \in Versions
  /\ revision = LastRevision =>
       Resolution # "error" /\ \A t \in Targets : pinned[t] # 0 => PinHolds(t)

\* "and moves every pin for that source together" and back: pins nobody moved
\* in between stand, after a revision was undone, where they stood before it.
PinsReturn ==
  revision < LastRevision /\ trail[revision + 1] # Unpinned /\ migrations > 0
    => pinned = trail[revision + 1]

ProfilesSound == PinsResolve /\ PinsReturn
=============================================================================
