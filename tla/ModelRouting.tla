----------------------------- MODULE ModelRouting -----------------------------
(***************************************************************************)
(* Which model a generation request goes to (llm/routing.py): a process's  *)
(* override, else the best route of the persona's tier, else the best one  *)
(* of the default tier, else the default provider's model, else the        *)
(* configured one.  A route of the default tier is seeded when there is    *)
(* none; a flag of the process spares it that look.                        *)
(*                                                                         *)
(* The routes are one table of several processes; every query is a         *)
(* transaction of its own, and so is every commit.  No code deactivates a  *)
(* route, so a row is an active one.                                       *)
(***************************************************************************)
EXTENDS Integers, SequencesExt

CONSTANTS
  Hosts,          \* processes
  RouteTiers,     \* of personas, "default" among them
  RouteModels,    \* that an administrator may set
  Priorities,
  MaxSets         \* bound of the model: tableChanges of the table, and resolutions

Unset == "unset"

ASSUME ModelRoutingAssumption ==
  /\ "default" \in RouteTiers /\ Unset \notin RouteModels
  /\ Priorities \subseteq Nat /\ MaxSets \in Nat

VARIABLES
  routes,         \* model_route rows, by id
  checked,        \* host -> _routes_checked
  forced,         \* host -> whether _override names a model
  standard,       \* the model of the default provider, or of the configuration
  search,         \* host -> its call of resolve
  tableChanges, searches,
  asSet,         \* history: tier -> what set_route last put there, for certain
  lately          \* history: hosts whose search saw a change of the table

routingVars == <<routes, checked, forced, standard, search, tableChanges, searches, asSet, lately>>

NoSearch == [step |-> "none", tier |-> "default", fallback |-> Unset, found |-> Unset,
             due |-> Unset]

RoutingInit ==
  /\ routes = << >>
  /\ checked = [h \in Hosts |-> FALSE]
  /\ forced = [h \in Hosts |-> FALSE]
  /\ standard = "standard"
  /\ search = [h \in Hosts |-> NoSearch]
  /\ tableChanges = 0 /\ searches = 0
  /\ asSet = [t \in RouteTiers |-> Unset]
  /\ lately = {}

OfTier(t) == {i \in DOMAIN routes : routes[i].tier = t}

\* order_by(priority.desc(), id.desc()).first()
Best(ids) ==
  CHOOSE i \in ids : \A j \in ids :
    \/ routes[i].priority > routes[j].priority
    \/ routes[i].priority = routes[j].priority /\ i >= j

-----------------------------------------------------------------------------
(* resolve *)

\* What was set for the tier, or else for the default one.
Due(t) == IF asSet[t] # Unset THEN asSet[t] ELSE asSet["default"]

Found(h, model) ==
  search' = [search EXCEPT ![h].step = "done", ![h].found = model, ![h].due = Due(search[h].tier)]

StartSearch(h, t) ==
  /\ search[h].step \in {"none", "done"} /\ searches < MaxSets
  /\ search' = [search EXCEPT ![h] =
       [step |-> IF forced[h] THEN "done" ELSE IF checked[h] THEN "tier" ELSE "check",
        tier |-> t, fallback |-> standard, found |-> IF forced[h] THEN "forced" ELSE Unset,
        due |-> Unset]]
  /\ searches' = searches + 1
  /\ lately' = lately \ {h}
  /\ UNCHANGED <<routes, checked, forced, standard, tableChanges, asSet>>

\* ensure_seeded: the look, and then the row.  A route that was set in between is
\* overtaken by the row, which is the newer of equals.
CheckSeeded(h) ==
  /\ search[h].step = "check"
  /\ IF OfTier("default") = {}
     THEN search' = [search EXCEPT ![h].step = "seed"] /\ UNCHANGED checked
     ELSE search' = [search EXCEPT ![h].step = "tier"] /\ checked' = [checked EXCEPT ![h] = TRUE]
  /\ UNCHANGED <<routes, forced, standard, tableChanges, searches, asSet, lately>>

Seed(h) ==
  /\ search[h].step = "seed"
  /\ routes' = Append(routes, [tier |-> "default", model |-> standard, priority |-> 0])
  /\ checked' = [checked EXCEPT ![h] = TRUE]
  /\ search' = [search EXCEPT ![h].step = "tier"]
  /\ asSet' = IF OfTier("default") = {} THEN asSet ELSE [asSet EXCEPT !["default"] = Unset]
  /\ UNCHANGED <<forced, standard, tableChanges, searches, lately>>

\* Mutant: the default tier first.
FirstTierDefault(t) == "default"
FirstTier(t) == t

LookUpTier(h) ==
  LET ids == OfTier(FirstTier(search[h].tier)) IN
  /\ search[h].step = "tier"
  /\ IF ids # {} THEN Found(h, routes[Best(ids)].model)
     ELSE IF search[h].tier = "default" THEN Found(h, search[h].fallback)
     ELSE search' = [search EXCEPT ![h].step = "default"]
  /\ UNCHANGED <<routes, checked, forced, standard, tableChanges, searches, asSet, lately>>

LookUpDefaultTier(h) ==
  LET ids == OfTier("default") IN
  /\ search[h].step = "default"
  /\ Found(h, IF ids # {} THEN routes[Best(ids)].model ELSE search[h].fallback)
  /\ UNCHANGED <<routes, checked, forced, standard, tableChanges, searches, asSet, lately>>

-----------------------------------------------------------------------------
(* Changes *)

Changed ==
  /\ tableChanges < MaxSets /\ tableChanges' = tableChanges + 1
  /\ lately' = lately \cup {h \in Hosts : search[h].step \notin {"none", "done"}}

\* A lower priority for one of two rows may leave the other one the best.
Demotes(t, p) == Cardinality(OfTier(t)) > 1 /\ p < routes[Best(OfTier(t))].priority

\* Mutant: the tier's first row.
RewrittenFirst(t) == CHOOSE i \in OfTier(t) : \A j \in OfTier(t) : i <= j
Rewritten(t) == Best(OfTier(t))

\* set_route, by a host: the best row of the tier is rewritten, or one is made.
SetRoute(h, t, m, p) ==
  LET row == [tier |-> t, model |-> m, priority |-> p] IN
  /\ search[h].step \in {"none", "done"} /\ Changed
  /\ routes' = IF OfTier(t) = {} THEN Append(routes, row)
               ELSE [routes EXCEPT ![Rewritten(t)] = row]
  /\ checked' = [checked EXCEPT ![h] = FALSE]
  /\ asSet' = [asSet EXCEPT ![t] = IF Demotes(t, p) THEN Unset ELSE m]
  /\ UNCHANGED <<forced, standard, search, searches>>

\* clear_routes.
ClearRoutes(h) ==
  /\ search[h].step \in {"none", "done"} /\ Changed
  /\ routes' = << >>
  /\ checked' = [checked EXCEPT ![h] = FALSE]
  /\ asSet' = [t \in RouteTiers |-> Unset]
  /\ UNCHANGED <<forced, standard, search, searches>>

\* Another provider becomes the default one.
StandardChanges ==
  /\ Changed /\ standard = "standard"
  /\ standard' = "other"
  /\ UNCHANGED <<routes, checked, forced, search, searches, asSet>>

\* set_models_override, by the process's own command.
ForceModel(h) ==
  /\ search[h].step \in {"none", "done"} /\ Changed
  /\ forced' = [forced EXCEPT ![h] = ~ @]
  /\ UNCHANGED <<routes, checked, standard, search, searches, asSet>>

RoutingNext ==
  \/ StandardChanges
  \/ \E h \in Hosts :
       \/ CheckSeeded(h) \/ Seed(h) \/ LookUpTier(h) \/ LookUpDefaultTier(h)
       \/ ClearRoutes(h) \/ ForceModel(h)
       \/ \E t \in RouteTiers :
            \/ StartSearch(h, t)
            \/ \E m \in RouteModels, p \in Priorities : SetRoute(h, t, m, p)

RoutingSpec == RoutingInit /\ [][RoutingNext]_routingVars

-----------------------------------------------------------------------------
(* Properties *)

RoutingTypeOK ==
  /\ \A i \in DOMAIN routes : routes[i].tier \in RouteTiers /\ routes[i].priority \in Nat
  /\ \A h \in Hosts : search[h].step \in {"none", "check", "seed", "tier", "default", "done"}

\* "Route tableChanges take effect on the very next call": what was set for a tier is the
\* best route of that tier from then on, although two processes may have seeded two
\* rows for the default tier: unless one was seeded over it, or it was given a lower
\* priority beside a second row.
LastSetWins ==
  \A t \in RouteTiers :
    asSet[t] # Unset => OfTier(t) # {} /\ routes[Best(OfTier(t))].model = asSet[t]

\* A call during which nothing was changed answers with what its tier was set to, or
\* else the default tier, in every process and whatever its flag says.
AnswersAsSet ==
  \A h \in Hosts \ lately :
    LET s == search[h] IN
    s.step = "done" /\ s.found # "forced" /\ s.due # Unset => s.found = s.due

RoutesSound == LastSetWins /\ AnswersAsSet
=============================================================================
