----------------------------- MODULE AgentAdmin -----------------------------
(***************************************************************************)
(* How agents are set up: the admin pages' agent routes (create, update,   *)
(* toggle, bulk actions, start all, pause all, setup from personas) and    *)
(* the command line's create.                                              *)
(*                                                                         *)
(* A request loads rows, decides, and commits what it changed: a column    *)
(* whose value differs from the one it loaded is written, the others are   *)
(* left to whoever wrote them; the configuration is one column.  A request *)
(* that names a model without a verdict probes it first, and the probe     *)
(* commits the session it shares with the request.  A run is here only as  *)
(* the status and the strikes it leaves.                                   *)
(***************************************************************************)
EXTENDS Integers, FiniteSets

CONSTANTS
  Clerks,       \* requests and commands that may be under way at once
  Personas,     \* users without a password
  AgentIds,     \* row ids, in order of creation
  Enrolled,     \* agents there at the start: id -> row
  Updates,      \* payloads of the update route
  Knobs,        \* configurations a create may ask for
  Unprobed,     \* models without a stored verdict
  MaxAsks,      \* bound of the model: requests
  MaxStrikes    \* MAX_CONSECUTIVE_FAILURES

NoUser == "random"
RowColumns == {"user", "tier", "enabled", "due", "strikes", "status", "config"}
ConfigKeys == {"image", "website", "min", "max", "model"}

\* Payloads and configurations have their columns, and the agents there are at the
\* start are set up as the requests leave them.
ASSUME AgentAdminAssumption ==
  /\ AgentIds \subseteq Nat /\ DOMAIN Enrolled \subseteq AgentIds /\ MaxAsks \in Nat
  /\ \A c \in Knobs : DOMAIN c = ConfigKeys
  /\ \A u \in Updates : "enabled" \in DOMAIN u => u.enabled \in BOOLEAN
  /\ \A i \in DOMAIN Enrolled :
       LET row == Enrolled[i]
       IN /\ DOMAIN row = RowColumns /\ DOMAIN row.config = ConfigKeys
          /\ row.user \in Personas \cup {NoUser} /\ row.enabled \in BOOLEAN
          /\ row.due \in {"none", "set"} /\ (row.enabled => row.due = "set")
          /\ row.strikes \in Nat /\ row.status \in {"idle", "running", "disabled"}
          /\ row.config.min <= row.config.max
          /\ ~(row.config.image = "only" /\ row.config.website = "only")
          /\ \A j \in DOMAIN Enrolled :
               Enrolled[j].user = row.user /\ i # j => row.user = NoUser

NoAgent == [none |-> TRUE]
Free == [step |-> "free"]

VARIABLES
  agents,       \* id -> row of the agent table, or NoAgent
  ask,          \* clerk -> the request it serves
  asks,
  byShell,      \* history: agents whose switch the command line set last
  shellRows     \* history: rows the command line has stored

adminVars == <<agents, ask, asks, byShell, shellRows>>

Existing == {i \in AgentIds : agents[i] # NoAgent}

AdminInit ==
  /\ agents = [i \in AgentIds |-> IF i \in DOMAIN Enrolled THEN Enrolled[i] ELSE NoAgent]
  /\ ask = [k \in Clerks |-> Free]
  /\ asks = 0 /\ byShell = {} /\ shellRows = {}

-----------------------------------------------------------------------------
(* What a session writes *)

\* The columns that changed, and the configuration where flag_modified forces it.
\* A wake set to now differs from any that was loaded.
Columns(row, old, new, forced) ==
  [c \in DOMAIN row |->
     IF c = "due" /\ new.due = "now" THEN "set"
     ELSE IF new[c] # old[c] \/ (c = "config" /\ forced) THEN new[c] ELSE row[c]]

\* A row that is gone fails the whole flush.
Writable(q) == \A i \in DOMAIN q.new : agents[i] # NoAgent

Flushed(q) ==
  [i \in AgentIds |->
     CASE i \in q.deleted -> NoAgent
       [] i \notin q.deleted /\ i \in DOMAIN q.new ->
            Columns(agents[i], q.old[i], q.new[i], q.forced)
       [] OTHER -> agents[i]]

Serve(k, q) ==
  /\ ask[k] = Free /\ asks < MaxAsks
  /\ asks' = asks + 1
  /\ ask' = [ask EXCEPT ![k] = q]
  /\ UNCHANGED <<agents, byShell, shellRows>>

InSession(ids) == [i \in ids |-> agents[i]]

Change(new) ==
  [step |-> "saving", old |-> InSession(DOMAIN new), new |-> new, deleted |-> {},
   forced |-> FALSE, shell |-> FALSE, missing |-> 0, max |-> 1]

-----------------------------------------------------------------------------
(* Switches *)

\* Mutant: enabling leaves the wake to the scheduler.
EnabledUndue(row) == [row EXCEPT !.enabled = TRUE, !.strikes = 0]

Enabled(row) == [row EXCEPT !.enabled = TRUE, !.strikes = 0, !.due = "now"]
Disabled(row) == [row EXCEPT !.enabled = FALSE, !.due = "none", !.status = "idle"]

Toggle(k) == \E i \in Existing :
  Serve(k, Change([j \in {i} |->
    IF agents[j].enabled THEN Disabled(agents[j]) ELSE Enabled(agents[j])]))

\* start-all, pause-all, and the bulk actions on a selection: who is there already
\* is skipped.
SwitchMany(k) == \E on \in BOOLEAN, picked \in SUBSET Existing \ {{}} :
  LET ids == {i \in picked : agents[i].enabled # on}
  IN Serve(k, Change([i \in ids |-> IF on THEN Enabled(agents[i]) ELSE Disabled(agents[i])]))

\* Enabling resolves an optional configuration for those without one; a lurker is
\* skipped.
Flippable(i, key, on) ==
  IF on THEN agents[i].config[key] = "off" /\ agents[i].tier # "lurker"
        ELSE agents[i].config[key] # "off"

BulkPosts(k) == \E key \in {"image", "website"}, on \in BOOLEAN,
                   picked \in SUBSET Existing \ {{}} :
  LET new == [i \in {j \in picked : Flippable(j, key, on)} |->
                [agents[i] EXCEPT !.config[key] = IF on THEN "optional" ELSE "off"]]
  IN Serve(k, [Change(new) EXCEPT !.forced = TRUE])

BulkDelete(k) == \E picked \in SUBSET Existing \ {{}} :
  LET ids == {i \in picked : agents[i].status # "running"}
  IN Serve(k, [Change(InSession(ids)) EXCEPT !.deleted = ids])

\* The oldest random agents get the new delays and are enabled, without clearing
\* their strikes; the missing ones are created, in the same commit.
SetUp(row, max) ==
  LET paced == [row EXCEPT !.config.min = 1, !.config.max = max]
  IN IF row.enabled /\ row.due # "none" THEN paced
     ELSE [paced EXCEPT !.enabled = TRUE, !.due = "now"]

SetupFromPersonas(k) == \E count \in 1..Cardinality(AgentIds), max \in 1..2 :
  LET random == {i \in Existing : agents[i].user = NoUser}
      ids == {i \in random : Cardinality({j \in random : j < i}) < count}
  IN Serve(k, [Change([i \in ids |-> SetUp(agents[i], max)])
               EXCEPT !.missing = count - Cardinality(ids), !.max = max])

-----------------------------------------------------------------------------
(* Update *)

\* A payload names what it changes.
Given(u, f, current) == IF f \in DOMAIN u THEN u[f] ELSE current

\* The configuration an update asks for.
Merged(u, config) == [c \in DOMAIN config |-> Given(u, c, config[c])]

\* Mutant: a payload is checked by itself, not as what it is merged into.
MayStoreAlone(u, m) ==
  /\ {"min", "max"} \subseteq DOMAIN u => u.min <= u.max
  /\ ~(Given(u, "image", "off") = "only" /\ Given(u, "website", "off") = "only")

\* Whether it may be stored: the delays are compared when one of them is given.
MayStore(u, m) ==
  /\ {"min", "max"} \cap DOMAIN u # {} => m.min <= m.max
  /\ ~(m.image = "only" /\ m.website = "only")

\* The tier and the switch are set on the row at once, the configuration is set
\* after the checks and the probe.
Switched(row, u) ==
  LET tiered == [row EXCEPT !.tier = Given(u, "tier", @)]
      on == Given(u, "enabled", row.enabled)
  IN IF on = row.enabled THEN tiered
     ELSE IF on THEN Enabled(tiered)
     ELSE [tiered EXCEPT !.enabled = FALSE, !.due = "none",
                         !.status = IF @ = "running" THEN @ ELSE "idle"]

Posts(config) == config.image # "off" \/ config.website # "off"

Update(k) == \E i \in Existing, u \in Updates :
  LET row == Switched(agents[i], u)
      m == Merged(u, row.config)
  IN /\ MayStore(u, m) /\ ~(row.tier = "lurker" /\ Posts(m))
     /\ Serve(k, [step |-> IF "model" \in DOMAIN u /\ m.model \in Unprobed
                           THEN "probing" ELSE "updating",
                  old |-> InSession({i}), new |-> [j \in {i} |-> row], deleted |-> {},
                  forced |-> TRUE, config |-> m, reset |-> "reset" \in DOMAIN u])

\* The probe stores its verdict, or its request in the ledger, with a commit: the
\* row's tier and switch go with it, the configuration does not.
Probe(k, allowed) ==
  /\ ask[k].step = "probing"
  /\ LET q == ask[k]
     IN IF Writable(q)
        THEN /\ agents' = [i \in AgentIds |-> IF i \in DOMAIN q.new
                 THEN Columns(agents[i], q.old[i], q.new[i], FALSE) ELSE agents[i]]
             /\ ask' = [ask EXCEPT ![k] = IF allowed
                  THEN [q EXCEPT !.step = "updating",
                                 !.old = [i \in DOMAIN q.new |-> agents'[i]],
                                 !.new = [i \in DOMAIN q.new |-> agents'[i]]]
                  ELSE Free]
             /\ byShell' = byShell \ {i \in DOMAIN q.new : q.new[i].due = "now"}
        ELSE ask' = [ask EXCEPT ![k] = Free] /\ UNCHANGED <<agents, byShell>>
  /\ UNCHANGED <<asks, shellRows>>

Reset(row) ==
  [row EXCEPT !.strikes = 0, !.status = IF @ = "running" THEN @ ELSE "idle",
              !.due = IF row.enabled THEN "now" ELSE @]

SaveUpdate(k) ==
  /\ ask[k].step = "updating"
  /\ LET q == ask[k]
         done == [i \in DOMAIN q.new |->
           LET row == [q.new[i] EXCEPT !.config = q.config]
           IN IF q.reset THEN Reset(row) ELSE row]
     IN /\ agents' = IF Writable(q) THEN Flushed([q EXCEPT !.new = done]) ELSE agents
        /\ byShell' = IF Writable(q) THEN byShell \ {i \in DOMAIN done : done[i].due = "now"}
                      ELSE byShell
  /\ ask' = [ask EXCEPT ![k] = Free]
  /\ UNCHANGED <<asks, shellRows>>

-----------------------------------------------------------------------------
(* Create *)

Vacant == {i \in AgentIds : agents[i] = NoAgent}

Agent(user, tier, enable, due, config) ==
  [user |-> user, tier |-> tier, enabled |-> enable,
   due |-> IF due THEN "set" ELSE "none", strikes |-> 0, status |-> "idle",
   config |-> config]

HasAgent(user) == \E i \in Existing : agents[i].user = user

\* Mutant: the table has no unique key on the persona.
CollidesNever(user) == FALSE

Collides(user) == user # NoUser /\ HasAgent(user)

\* The checks, and the probe of a model nobody knows, come before the row.
AskCreate(k) == \E user \in Personas \cup {NoUser}, tier \in {"regular", "lurker"},
                   enable \in BOOLEAN, config \in Knobs :
  /\ ~HasAgent(user) \/ user = NoUser
  /\ config.min <= config.max
  /\ ~(config.image = "only" /\ config.website = "only")
  /\ ~(tier = "lurker" /\ Posts(config))
  /\ Serve(k, [step |-> "creating", shell |-> FALSE,
               row |-> Agent(user, tier, enable, enable, config)])

SaveCreate(k) ==
  /\ ask[k].step = "creating"
  /\ LET row == ask[k].row
         i == CHOOSE j \in Vacant : \A n \in Vacant : j <= n
     IN IF Collides(row.user) \/ Vacant = {} THEN UNCHANGED <<agents, byShell, shellRows>>
        ELSE /\ agents' = [agents EXCEPT ![i] = row]
             /\ byShell' = IF ask[k].shell THEN byShell \cup {i} ELSE byShell \ {i}
             /\ shellRows' = IF ask[k].shell THEN shellRows \cup {i} ELSE shellRows
  /\ ask' = [ask EXCEPT ![k] = Free]
  /\ UNCHANGED asks

\* The command line looks for the persona's agent after the probe: it takes over
\* tier, switch and the whole configuration, does not compare the delays, and never
\* schedules a wake.
AskUpsert(k) == \E user \in Personas \cup {NoUser}, tier \in {"regular", "lurker"},
                   enable \in BOOLEAN, config \in {c \in Knobs : ~Posts(c)} :
  LET theirs == {i \in Existing : agents[i].user = user /\ user # NoUser}
  IN IF theirs = {}
     THEN Serve(k, [step |-> "creating", shell |-> TRUE,
                    row |-> Agent(user, tier, enable, FALSE, config)])
     ELSE Serve(k, [Change([i \in theirs |->
            [agents[i] EXCEPT !.tier = tier, !.config = config, !.enabled = enable]])
          EXCEPT !.shell = TRUE])

\* The commit of what a request changed; setup adds the agents that are missing.
Save(k) ==
  /\ ask[k].step = "saving"
  /\ LET q == ask[k]
         added == {i \in Vacant : Cardinality({j \in Vacant : j < i}) < q.missing}
         fresh == Agent(NoUser, "regular", TRUE, TRUE,
           [image |-> "off", website |-> "off", min |-> 1, max |-> q.max,
            model |-> "default"])
     IN /\ agents' = IF Writable(q)
                     THEN [i \in AgentIds |-> IF i \in added THEN fresh ELSE Flushed(q)[i]]
                     ELSE agents
        /\ byShell' = IF ~Writable(q) THEN byShell
                      ELSE IF q.shell THEN byShell \cup DOMAIN q.new
                      ELSE byShell \ (added \cup {i \in DOMAIN q.new : q.new[i].due = "now"})
        /\ shellRows' = IF Writable(q) /\ q.shell THEN shellRows \cup DOMAIN q.new
                        ELSE shellRows
  /\ ask' = [ask EXCEPT ![k] = Free]
  /\ UNCHANGED asks

-----------------------------------------------------------------------------
(* Runs, as far as the rows show them *)

RunStarts == \E i \in Existing :
  /\ agents[i].enabled /\ agents[i].due = "set" /\ agents[i].status = "idle"
  /\ agents' = [agents EXCEPT ![i].status = "running"]
  /\ UNCHANGED <<ask, asks, byShell, shellRows>>

\* Too many failures in a row turn the agent off.
RunEnds(failed) == \E i \in Existing :
  /\ agents[i].status = "running"
  /\ LET strikes == IF failed THEN agents[i].strikes + 1 ELSE 0
         row == [agents[i] EXCEPT !.strikes = strikes, !.status = "idle", !.due = "set"]
     IN agents' = [agents EXCEPT ![i] =
          IF failed /\ strikes >= MaxStrikes
          THEN [row EXCEPT !.enabled = FALSE, !.status = "disabled", !.due = "none"] ELSE row]
  /\ UNCHANGED <<ask, asks, byShell, shellRows>>

\* recover: a worker's start arms enabled agents that have no wake.
WorkerStarts ==
  /\ \E i \in Existing : agents[i].enabled /\ agents[i].due = "none"
  /\ agents' = [i \in AgentIds |-> IF i \in Existing /\ agents[i].enabled
                                   THEN [agents[i] EXCEPT !.due = "set"] ELSE agents[i]]
  /\ UNCHANGED <<ask, asks, byShell, shellRows>>

AdminNext ==
  \/ \E k \in Clerks :
       \/ Toggle(k) \/ SwitchMany(k) \/ BulkPosts(k) \/ BulkDelete(k)
       \/ SetupFromPersonas(k) \/ Update(k) \/ AskCreate(k) \/ AskUpsert(k)
       \/ \E allowed \in BOOLEAN : Probe(k, allowed)
       \/ SaveUpdate(k) \/ SaveCreate(k) \/ Save(k)
  \/ RunStarts \/ WorkerStarts \/ \E failed \in BOOLEAN : RunEnds(failed)

AdminSpec == AdminInit /\ [][AdminNext]_adminVars

-----------------------------------------------------------------------------
(* Properties *)

AdminTypeOK ==
  /\ \A i \in Existing :
       /\ agents[i].user \in Personas \cup {NoUser}
       /\ agents[i].enabled \in BOOLEAN /\ agents[i].due \in {"none", "set"}
       /\ agents[i].strikes \in Nat
       /\ agents[i].status \in {"idle", "running", "disabled"}
  /\ asks \in 0..MaxAsks /\ byShell \cup shellRows \subseteq AgentIds

\* Whatever two requests interleave, a stored configuration is one that a request
\* has checked as a whole: not two forced kinds of post, and delays in order unless
\* the command line, which does not compare them, has stored the row.
ConfigChecked ==
  \A i \in Existing :
    LET c == agents[i].config
    IN (i \in shellRows \/ c.min <= c.max) /\ ~(c.image = "only" /\ c.website = "only")

\* An agent that is on has a wake the poller can find, unless the command line
\* turned it on: that one waits for the next start of a worker.
EnabledHasWake ==
  \A i \in Existing : agents[i].enabled /\ agents[i].due = "none" => i \in byShell

\* A fixed persona is driven by one agent, however its agents were created.
OneAgentPerPersona ==
  \A i, j \in Existing : agents[i].user = agents[j].user /\ i # j => agents[i].user = NoUser

\* The three together: what an administrator sees switched on will run, as one
\* agent per persona, under a configuration someone checked.
AgentsWellSet == ConfigChecked /\ EnabledHasWake /\ OneAgentPerPersona

=============================================================================
