--------------------------- MODULE Services_proofs ---------------------------
(***************************************************************************)
(* Proofs about the services an administrator sets up and the agents use:  *)
(* the agent pages (AgentAdmin) for any number of requests, agents and     *)
(* personas, the provider tables (Providers) for any number of threads and *)
(* rows, the generated pages (Websites) for any number of calls, and the   *)
(* calls to the models themselves (Calls): the routes they take, completed *)
(* chats, streamed ones and images, for any number of attempts and callers.*)
(*                                                                         *)
(* AdminInv says of each request under way that what it will write may be  *)
(* written over whatever the others have stored since it loaded its rows;  *)
(* ProviderInv says, as long as requests come one after another, which     *)
(* defaults there are at each place of the one that is under way;          *)
(* WebsiteInv says where the files of a call are at each of its steps, and *)
(* what a delete, a sweep and a reader still know of them; LedgerInv,      *)
(* StreamInv, ImagesInv and RoutingInv say what each kind of call has      *)
(* written, told and spent at each of its attempts; PumpInv says, of the   *)
(* live ticker's room (ActivityPump), what a join has read when it comes   *)
(* to set the watermark, and what the thread has counted from; PeopleInv   *)
(* says, of the user table (Accounts), which rows of its matrix a run of   *)
(* the persona generator has made, and which provenance is still to come;  *)
(* MatrixInv says, of that matrix (PersonaMatrix), which rows are there at *)
(* each place of its loops, what those that were moved have freed, and     *)
(* what the bags and the counts of the cards know of each other.           *)
(***************************************************************************)
EXTENDS AgentAdmin, Providers, Websites, Calls, ActivityPump, Personas,
        NaturalsInduction, WellFoundedInduction, FiniteSetTheorems, TLAPS

-----------------------------------------------------------------------------
(* Numbers *)

\* A set of ids has a least one.
LEMMA LeastOfNat ==
  ASSUME NEW S \in SUBSET Nat, S # {}
  PROVE  \E n \in S : \A m \in S : n <= m
<1> DEFINE R == {ss \in Nat \X Nat : ss[1] < ss[2]}
<1>1. IsWellFoundedOn(R, Nat)
  BY NatLessThanWellFounded DEF OpToRel
<1> HIDE DEF R
<1>2. PICK n \in S : \A m \in S : ~ (<<m, n>> \in R)
  BY <1>1, WFMin
<1>3. \A m \in S : ~ (m < n)
  BY <1>2 DEF R
<1> QED
  BY <1>3

-----------------------------------------------------------------------------
(* Agents: the inductive invariant *)

\* A configuration as a request checks it: one forced kind of post at most, and the
\* delays in order, unless its row is one the command line has stored.
WellFormed(c) == DOMAIN c = ConfigKeys /\ ~(c.image = "only" /\ c.website = "only")
Vetted(c, i, loose) == WellFormed(c) /\ (i \in loose \/ c.min <= c.max)

\* The columns of a row, loaded or edited.
RowShape(row, dues) ==
  /\ DOMAIN row = RowColumns
  /\ row.user \in Personas \cup {NoUser} /\ row.enabled \in BOOLEAN /\ row.due \in dues
  /\ row.strikes \in Nat /\ row.status \in {"idle", "running", "disabled"}

RowsShaped ==
  \A i \in Existing :
    RowShape(agents[i], {"none", "set"}) /\ Vetted(agents[i].config, i, shellRows)

\* An edited row beside the one that was loaded: the persona stays; a wake is taken
\* away only by switching off, and switching on sets one, but from the command line.
Edited(old, new, shell) ==
  /\ RowShape(old, {"none", "set"}) /\ RowShape(new, {"none", "set", "now"})
  /\ new.user = old.user
  /\ new.due \in {old.due, "now"} \/ (old.enabled /\ ~new.enabled)
  /\ new.enabled /\ ~old.enabled => new.due = "now" \/ shell

\* The rows stored by the command line once it has saved q.
Loose(q, shell, stored) == IF shell THEN stored \cup DOMAIN q.new ELSE stored

\* The rows a request has loaded and edited.
RowsLoaded(q, shell, stored) ==
  /\ DOMAIN q.new \subseteq AgentIds /\ DOMAIN q.old = DOMAIN q.new
  /\ q.deleted \subseteq DOMAIN q.new /\ q.forced \in BOOLEAN
  /\ \A i \in DOMAIN q.new :
       /\ Edited(q.old[i], q.new[i], shell)
       /\ Vetted(q.new[i].config, i, Loose(q, shell, stored))

Saving(q, stored) ==
  /\ \E shell \in BOOLEAN : q.shell = shell /\ RowsLoaded(q, shell, stored)
  /\ q.max \in 1..2

Updating(q, stored) ==
  /\ DOMAIN q = {"step", "old", "new", "deleted", "forced", "config", "reset"}
  /\ RowsLoaded(q, FALSE, stored)
  /\ \A i \in DOMAIN q.new : Vetted(q.config, i, stored)

Creating(q) ==
  /\ q.shell \in BOOLEAN /\ RowShape(q.row, {"none", "set"})
  /\ WellFormed(q.row.config) /\ (q.shell \/ q.row.config.min <= q.row.config.max)
  /\ q.row.enabled => q.row.due = "set" \/ q.shell

Asked(q, stored) ==
  \/ q = Free
  \/ q.step = "saving" /\ Saving(q, stored)
  \/ q.step \in {"probing", "updating"} /\ Updating(q, stored)
  \/ q.step = "creating" /\ Creating(q)

AdminInv ==
  /\ DOMAIN agents = AgentIds
  /\ DOMAIN ask = Clerks /\ \A k \in Clerks : Asked(ask[k], shellRows)
  /\ asks \in 0..MaxAsks /\ byShell \subseteq AgentIds /\ shellRows \subseteq AgentIds
  /\ RowsShaped /\ EnabledHasWake /\ OneAgentPerPersona

-----------------------------------------------------------------------------
(* Agents: what a request stores *)

\* A row as an edit of several columns, merged into what is stored by now.
LEMMA ColumnsOf ==
  ASSUME NEW row, NEW old, NEW new, NEW force \in BOOLEAN, NEW shell \in BOOLEAN,
         NEW i, NEW loose,
         RowShape(row, {"none", "set"}), Edited(old, new, shell),
         Vetted(row.config, i, loose), Vetted(new.config, i, loose)
  PROVE  /\ RowShape(Columns(row, old, new, force), {"none", "set"})
         /\ Columns(row, old, new, force).user = row.user
         /\ Vetted(Columns(row, old, new, force).config, i, loose)
         /\ Columns(row, old, new, force).enabled
              /\ Columns(row, old, new, force).due = "none" =>
              shell \/ (row.enabled /\ row.due = "none" /\ new.due # "now")
<1> DEFINE stored == Columns(row, old, new, force)
<1>1. /\ DOMAIN stored = RowColumns
      /\ \A c \in RowColumns : stored[c] =
           IF c = "due" /\ new.due = "now" THEN "set"
           ELSE IF new[c] # old[c] \/ (c = "config" /\ force) THEN new[c] ELSE row[c]
  BY DEF Columns, RowShape
<1>2. /\ stored.user = IF new.user # old.user THEN new.user ELSE row.user
      /\ stored.enabled = IF new.enabled # old.enabled THEN new.enabled ELSE row.enabled
      /\ stored.due = IF new.due = "now" THEN "set"
                      ELSE IF new.due # old.due THEN new.due ELSE row.due
      /\ stored.strikes = IF new.strikes # old.strikes THEN new.strikes ELSE row.strikes
      /\ stored.status = IF new.status # old.status THEN new.status ELSE row.status
      /\ stored.config \in {new.config, row.config}
  BY <1>1 DEF RowColumns
<1> HIDE DEF stored
<1>3. RowShape(stored, {"none", "set"}) /\ stored.user = row.user
  BY <1>1, <1>2 DEF RowShape, Edited
<1>4. Vetted(stored.config, i, loose)
  BY <1>2
<1>5. stored.enabled /\ stored.due = "none" =>
        shell \/ (row.enabled /\ row.due = "none" /\ new.due # "now")
  BY <1>2 DEF Edited, RowShape
<1> QED
  BY <1>3, <1>4, <1>5 DEF stored

\* A stored row is sound after a flush: it is an old one, or an edit merged into one.
LEMMA FlushedRow ==
  ASSUME RowsShaped, EnabledHasWake, NEW q, NEW shell \in BOOLEAN,
         RowsLoaded(q, shell, shellRows), Writable(q), NEW i \in AgentIds,
         Flushed(q)[i] # NoAgent
  PROVE  /\ agents[i] # NoAgent /\ Flushed(q)[i].user = agents[i].user
         /\ RowShape(Flushed(q)[i], {"none", "set"})
         /\ Vetted(Flushed(q)[i].config, i, Loose(q, shell, shellRows))
         /\ Flushed(q)[i].enabled /\ Flushed(q)[i].due = "none" =>
              \/ shell /\ i \in DOMAIN q.new
              \/ i \in byShell /\ ~(i \in DOMAIN q.new /\ q.new[i].due = "now")
<1> DEFINE row == Flushed(q)[i]
           loose == Loose(q, shell, shellRows)
<1>1. i \notin q.deleted
  BY DEF Flushed
<1>2. ASSUME NEW c, Vetted(c, i, shellRows) PROVE Vetted(c, i, loose)
  BY <1>2 DEF Vetted, Loose
<1>3. CASE i \in DOMAIN q.new
  <2>1. row = Columns(agents[i], q.old[i], q.new[i], q.forced)
    BY <1>1, <1>3 DEF Flushed
  <2>2. agents[i] # NoAgent /\ i \in Existing
    BY <1>3 DEF Writable, Existing
  <2>3. /\ RowShape(agents[i], {"none", "set"})
        /\ Vetted(agents[i].config, i, loose)
    BY <1>2, <2>2 DEF RowsShaped
  <2>4. /\ Edited(q.old[i], q.new[i], shell) /\ q.forced \in BOOLEAN
        /\ Vetted(q.new[i].config, i, loose)
    BY <1>3 DEF RowsLoaded
  <2> HIDE DEF row, loose
  <2>5. /\ RowShape(row, {"none", "set"}) /\ row.user = agents[i].user
        /\ Vetted(row.config, i, loose)
        /\ row.enabled /\ row.due = "none" =>
             \/ shell
             \/ agents[i].enabled /\ agents[i].due = "none" /\ q.new[i].due # "now"
    BY <2>1, <2>3, <2>4, ColumnsOf
  <2>6. agents[i].enabled /\ agents[i].due = "none" => i \in byShell
    BY <2>2 DEF EnabledHasWake
  <2> QED
    BY <1>3, <2>2, <2>5, <2>6 DEF row, loose
<1>4. CASE i \notin DOMAIN q.new
  <2>1. row = agents[i]
    BY <1>1, <1>4 DEF Flushed
  <2>2. agents[i] # NoAgent /\ i \in Existing
    BY <2>1 DEF Existing
  <2>3. /\ RowShape(agents[i], {"none", "set"}) /\ Vetted(agents[i].config, i, loose)
        /\ agents[i].enabled /\ agents[i].due = "none" => i \in byShell
    BY <1>2, <2>2 DEF RowsShaped, EnabledHasWake
  <2> QED
    BY <1>4, <2>1, <2>2, <2>3
<1> QED
  BY <1>3, <1>4

\* What the rows are after a step follows from each of them.
LEMMA RowsStored ==
  ASSUME OneAgentPerPersona, DOMAIN agents' = AgentIds,
         \A i \in AgentIds : agents'[i] # NoAgent =>
           /\ RowShape(agents'[i], {"none", "set"})
           /\ Vetted(agents'[i].config, i, shellRows')
           /\ agents'[i].enabled /\ agents'[i].due = "none" => i \in byShell'
           /\ \/ agents[i] # NoAgent /\ agents'[i].user = agents[i].user
              \/ agents'[i].user = NoUser
  PROVE  RowsShaped' /\ EnabledHasWake' /\ OneAgentPerPersona'
<1>1. RowsShaped' /\ EnabledHasWake'
  BY DEF RowsShaped, EnabledHasWake, Existing
<1>2. OneAgentPerPersona'
  <2> SUFFICES ASSUME NEW i \in Existing', NEW j \in Existing',
                      agents'[i].user = agents'[j].user, i # j
               PROVE  agents'[i].user = NoUser
    BY DEF OneAgentPerPersona
  <2>1. i \in AgentIds /\ j \in AgentIds /\ agents'[i] # NoAgent /\ agents'[j] # NoAgent
    BY DEF Existing
  <2>2. CASE agents'[i].user # NoUser
    <3>1. /\ agents[i] # NoAgent /\ agents'[i].user = agents[i].user
          /\ agents[j] # NoAgent /\ agents'[j].user = agents[j].user
      BY <2>1, <2>2
    <3> QED
      BY <2>1, <3>1 DEF OneAgentPerPersona, Existing
  <2> QED
    BY <2>2
<1> QED
  BY <1>1, <1>2

\* What is known of a request stays known when the command line stores rows.
LEMMA AskedKept ==
  ASSUME NEW q, NEW stored, NEW later, stored \subseteq later, Asked(q, stored)
  PROVE  Asked(q, later)
<1>1. ASSUME NEW c, NEW i, Vetted(c, i, stored) PROVE Vetted(c, i, later)
  BY <1>1 DEF Vetted
<1>2. ASSUME NEW shell \in BOOLEAN, RowsLoaded(q, shell, stored) PROVE RowsLoaded(q, shell, later)
  BY <1>2 DEF RowsLoaded, Vetted, Loose
<1>3. Saving(q, stored) => Saving(q, later)
  BY <1>2 DEF Saving
<1>4. Updating(q, stored) => Updating(q, later)
  BY <1>1, <1>2 DEF Updating
<1> QED
  BY <1>3, <1>4 DEF Asked

\* A request that has just loaded and edited rows which are there.
LEMMA LoadedNow ==
  ASSUME NEW q, NEW shell \in BOOLEAN,
         q.old = InSession(DOMAIN q.new), DOMAIN q.new \subseteq Existing,
         q.deleted \subseteq DOMAIN q.new, q.forced \in BOOLEAN,
         \A i \in DOMAIN q.new :
           /\ Edited(agents[i], q.new[i], shell)
           /\ Vetted(q.new[i].config, i, Loose(q, shell, shellRows))
  PROVE  RowsLoaded(q, shell, shellRows)
<1>1. DOMAIN q.old = DOMAIN q.new /\ \A i \in DOMAIN q.new : q.old[i] = agents[i]
  BY DEF InSession
<1> QED
  BY <1>1 DEF RowsLoaded, Existing

\* A clerk takes on a request, or answers it, and the others' stay as known.
LEMMA AskStep ==
  ASSUME AdminInv, NEW k \in Clerks, NEW q, ask' = [ask EXCEPT ![k] = q],
         shellRows \subseteq shellRows', Asked(q, shellRows')
  PROVE  DOMAIN ask' = Clerks /\ \A c \in Clerks : Asked(ask'[c], shellRows')
<1>1. DOMAIN ask' = Clerks /\ \A c \in Clerks : ask'[c] = IF c = k THEN q ELSE ask[c]
  BY DEF AdminInv
<1>2. \A c \in Clerks : Asked(ask[c], shellRows')
  BY AskedKept DEF AdminInv
<1> QED
  BY <1>1, <1>2

LEMMA ServeStep ==
  ASSUME AdminInv, NEW k \in Clerks, NEW q, Asked(q, shellRows), Serve(k, q)
  PROVE  AdminInv'
<1>1. /\ UNCHANGED <<agents, byShell, shellRows>> /\ asks < MaxAsks /\ asks' = asks + 1
      /\ ask' = [ask EXCEPT ![k] = q]
  BY DEF Serve
<1>2. asks' \in 0..MaxAsks
  BY <1>1, AgentAdminAssumption DEF AdminInv
<1>3. DOMAIN ask' = Clerks /\ \A c \in Clerks : Asked(ask'[c], shellRows')
  BY <1>1, AskStep
<1>4. RowsShaped' /\ EnabledHasWake' /\ OneAgentPerPersona'
  BY <1>1 DEF AdminInv, RowsShaped, EnabledHasWake, OneAgentPerPersona, Existing
<1> QED
  BY <1>1, <1>2, <1>3, <1>4 DEF AdminInv

-----------------------------------------------------------------------------
(* Agents: what a request asks for *)

\* Switching an agent on or off, and editing its configuration or its tier.
LEMMA RowEdits ==
  ASSUME NEW row, RowShape(row, {"none", "set"})
  PROVE  /\ Edited(row, row, FALSE)
         /\ Edited(row, Enabled(row), FALSE) /\ Enabled(row).config = row.config
         /\ row.enabled =>
              Edited(row, Disabled(row), FALSE) /\ Disabled(row).config = row.config
<1>1. Edited(row, row, FALSE)
  BY DEF Edited, RowShape
<1>2. Edited(row, Enabled(row), FALSE) /\ Enabled(row).config = row.config
  BY DEF Edited, RowShape, Enabled, RowColumns
<1>3. row.enabled => Edited(row, Disabled(row), FALSE) /\ Disabled(row).config = row.config
  BY DEF Edited, RowShape, Disabled, RowColumns
<1> QED
  BY <1>1, <1>2, <1>3

LEMMA ConfigEdit ==
  ASSUME NEW row, RowShape(row, {"none", "set"}), NEW c, NEW new,
         new = [row EXCEPT !.config = c]
  PROVE  Edited(row, new, FALSE) /\ new.config = c
BY DEF Edited, RowShape, RowColumns

\* A change of rows that are there, nothing deleted or added.
LEMMA PlainChange ==
  ASSUME RowsShaped, NEW new, DOMAIN new \subseteq Existing,
         \A i \in DOMAIN new :
           Edited(agents[i], new[i], FALSE) /\ Vetted(new[i].config, i, shellRows)
  PROVE  Asked(Change(new), shellRows) /\ Asked([Change(new) EXCEPT !.forced = TRUE], shellRows)
<1> DEFINE q == Change(new)
           p == [Change(new) EXCEPT !.forced = TRUE]
<1>1. /\ q.step = "saving" /\ q.shell = FALSE /\ q.old = InSession(DOMAIN q.new)
      /\ q.new = new /\ q.deleted = {} /\ q.forced = FALSE /\ q.missing = 0 /\ q.max = 1
  BY DEF Change
<1>2. /\ p.step = "saving" /\ p.shell = FALSE /\ p.old = InSession(DOMAIN p.new)
      /\ p.new = new /\ p.deleted = {} /\ p.forced = TRUE /\ p.missing = 0 /\ p.max = 1
  BY DEF Change
<1> HIDE DEF q, p
<1>3. Asked(q, shellRows)
  <2>1. \A i \in DOMAIN q.new : /\ Edited(agents[i], q.new[i], FALSE)
                                /\ Vetted(q.new[i].config, i, Loose(q, FALSE, shellRows))
    BY <1>1 DEF Loose
  <2>2. DOMAIN q.old = DOMAIN q.new /\ \A i \in DOMAIN q.new : q.old[i] = agents[i]
    BY <1>1 DEF InSession
  <2>3. RowsLoaded(q, FALSE, shellRows)
    BY <1>1, <2>1, <2>2 DEF RowsLoaded, Existing
  <2>4. q.max \in 1..2
    BY <1>1
  <2>5. \E shell \in BOOLEAN : q.shell = shell /\ RowsLoaded(q, shell, shellRows)
    BY <1>1, <2>3
  <2> QED
    BY <1>1, <2>4, <2>5 DEF Asked, Saving
<1>4. Asked(p, shellRows)
  <2>1. \A i \in DOMAIN p.new : /\ Edited(agents[i], p.new[i], FALSE)
                                /\ Vetted(p.new[i].config, i, Loose(p, FALSE, shellRows))
    BY <1>2 DEF Loose
  <2>2. DOMAIN p.old = DOMAIN p.new /\ \A i \in DOMAIN p.new : p.old[i] = agents[i]
    BY <1>2 DEF InSession
  <2>3. RowsLoaded(p, FALSE, shellRows)
    BY <1>2, <2>1, <2>2 DEF RowsLoaded, Existing
  <2>4. p.max \in 1..2
    BY <1>2
  <2>5. \E shell \in BOOLEAN : p.shell = shell /\ RowsLoaded(p, shell, shellRows)
    BY <1>2, <2>3
  <2> QED
    BY <1>2, <2>4, <2>5 DEF Asked, Saving
<1> QED
  BY <1>3, <1>4 DEF q, p

\* The switches.
LEMMA SwitchStep ==
  ASSUME AdminInv, NEW k \in Clerks, Toggle(k) \/ SwitchMany(k)
  PROVE  AdminInv'
<1>t. RowsShaped
  BY DEF AdminInv
<1>1. CASE Toggle(k)
  <2>1. PICK i \in Existing : Serve(k, Change([j \in {i} |->
          IF agents[j].enabled THEN Disabled(agents[j]) ELSE Enabled(agents[j])]))
    BY <1>1 DEF Toggle
  <2> DEFINE new == [j \in {i} |->
          IF agents[j].enabled THEN Disabled(agents[j]) ELSE Enabled(agents[j])]
  <2>2. DOMAIN new = {i} /\ new[i] =
          IF agents[i].enabled THEN Disabled(agents[i]) ELSE Enabled(agents[i])
    OBVIOUS
  <2>3. /\ RowShape(agents[i], {"none", "set"})
        /\ Vetted(agents[i].config, i, shellRows)
    BY <1>t DEF RowsShaped
  <2> HIDE DEF new
  <2>4. Edited(agents[i], new[i], FALSE) /\ Vetted(new[i].config, i, shellRows)
    BY <2>2, <2>3, RowEdits
  <2>5. Asked(Change(new), shellRows)
    BY <1>t, <2>2, <2>4, PlainChange
  <2> QED
    BY <2>1, <2>5, ServeStep DEF new
<1>2. CASE SwitchMany(k)
  <2>1. PICK on \in BOOLEAN, picked \in SUBSET Existing \ {{}} :
          Serve(k, Change([i \in {i \in picked : agents[i].enabled # on} |->
                             IF on THEN Enabled(agents[i]) ELSE Disabled(agents[i])]))
    BY <1>2 DEF SwitchMany
  <2> DEFINE ids == {i \in picked : agents[i].enabled # on}
             new == [i \in ids |-> IF on THEN Enabled(agents[i]) ELSE Disabled(agents[i])]
  <2>2. /\ DOMAIN new = ids /\ ids \subseteq Existing
        /\ \A i \in ids :
             /\ new[i] = IF on THEN Enabled(agents[i]) ELSE Disabled(agents[i])
             /\ agents[i].enabled # on
    OBVIOUS
  <2> HIDE DEF new, ids
  <2>3. ASSUME NEW i \in ids
        PROVE  Edited(agents[i], new[i], FALSE) /\ Vetted(new[i].config, i, shellRows)
    <3>1. /\ RowShape(agents[i], {"none", "set"})
          /\ Vetted(agents[i].config, i, shellRows)
      BY <1>t, <2>2 DEF RowsShaped
    <3>2. ~ on => agents[i].enabled
      BY <2>2, <3>1 DEF RowShape
    <3> QED
      BY <2>2, <3>1, <3>2, RowEdits
  <2>4. Asked(Change(new), shellRows)
    BY <1>t, <2>2, <2>3, PlainChange
  <2> QED
    BY <2>1, <2>4, ServeStep DEF new, ids
<1> QED
  BY <1>1, <1>2

\* Bulk deletes, and bulk settings of what is posted.
LEMMA BulkStep ==
  ASSUME AdminInv, NEW k \in Clerks, BulkPosts(k) \/ BulkDelete(k)
  PROVE  AdminInv'
<1>t. RowsShaped
  BY DEF AdminInv
<1>1. CASE BulkPosts(k)
  <2>1. PICK key \in {"image", "website"}, on \in BOOLEAN,
             picked \in SUBSET Existing \ {{}} :
          Serve(k, [Change([i \in {j \in picked : Flippable(j, key, on)} |->
                [agents[i] EXCEPT !.config[key] = IF on THEN "optional" ELSE "off"]])
              EXCEPT !.forced = TRUE])
    BY <1>1 DEF BulkPosts
  <2> DEFINE ids == {j \in picked : Flippable(j, key, on)}
             new == [i \in ids |->
                [agents[i] EXCEPT !.config[key] = IF on THEN "optional" ELSE "off"]]
             set(i) == [agents[i].config EXCEPT ![key] = IF on THEN "optional" ELSE "off"]
  <2>2. /\ DOMAIN new = ids /\ ids \subseteq Existing
        /\ \A i \in ids : new[i] = [agents[i] EXCEPT !.config = set(i)]
    OBVIOUS
  <2> HIDE DEF new, ids
  <2>3. ASSUME NEW i \in ids
        PROVE  Edited(agents[i], new[i], FALSE) /\ Vetted(new[i].config, i, shellRows)
    <3>1. /\ RowShape(agents[i], {"none", "set"})
          /\ Vetted(agents[i].config, i, shellRows)
      BY <1>t, <2>2 DEF RowsShaped
    <3>2. Vetted(set(i), i, shellRows)
      BY <3>1 DEF Vetted, WellFormed, ConfigKeys
    <3> HIDE DEF set
    <3>3. new[i] = [agents[i] EXCEPT !.config = set(i)]
      BY <2>2
    <3>4. Edited(agents[i], new[i], FALSE) /\ new[i].config = set(i)
      BY <3>1, <3>3, ConfigEdit
    <3> QED
      BY <3>2, <3>4
  <2>4. Asked([Change(new) EXCEPT !.forced = TRUE], shellRows)
    BY <1>t, <2>2, <2>3, PlainChange
  <2> QED
    BY <2>1, <2>4, ServeStep DEF new, ids
<1>2. CASE BulkDelete(k)
  <2>1. PICK picked \in SUBSET Existing \ {{}} :
          Serve(k, [Change(InSession({i \in picked : agents[i].status # "running"}))
                    EXCEPT !.deleted = {i \in picked : agents[i].status # "running"}])
    BY <1>2 DEF BulkDelete
  <2> DEFINE ids == {i \in picked : agents[i].status # "running"}
             q == [Change(InSession(ids)) EXCEPT !.deleted = ids]
  <2>2. ids \subseteq Existing
    OBVIOUS
  <2> HIDE DEF ids
  <2>3. /\ DOMAIN InSession(ids) = ids
        /\ \A i \in ids : InSession(ids)[i] = agents[i]
    BY DEF InSession
  <2>4. /\ q.step = "saving" /\ q.shell = FALSE /\ q.old = InSession(DOMAIN q.new)
        /\ q.new = InSession(ids) /\ q.deleted = ids /\ q.forced = FALSE
        /\ q.missing = 0 /\ q.max = 1
    BY <2>3 DEF Change
  <2> HIDE DEF q
  <2>5. \A i \in ids :
          Edited(agents[i], q.new[i], FALSE) /\ Vetted(q.new[i].config, i, shellRows)
    <3> TAKE i \in ids
    <3>1. RowShape(agents[i], {"none", "set"}) /\ Vetted(agents[i].config, i, shellRows)
      BY <1>t, <2>2 DEF RowsShaped
    <3> QED
      BY <2>3, <2>4, <3>1, RowEdits
  <2>6. \A i \in DOMAIN q.new : /\ Edited(agents[i], q.new[i], FALSE)
                                /\ Vetted(q.new[i].config, i, Loose(q, FALSE, shellRows))
    BY <2>3, <2>4, <2>5 DEF Loose
  <2>d. /\ DOMAIN q.new \subseteq Existing /\ q.deleted \subseteq DOMAIN q.new
        /\ q.forced \in BOOLEAN
    BY <2>2, <2>3, <2>4
  <2>7. RowsLoaded(q, FALSE, shellRows)
    <3>1. DOMAIN q.old = DOMAIN q.new /\ \A i \in DOMAIN q.new : q.old[i] = agents[i]
      BY <2>4 DEF InSession
    <3> QED
      BY <2>6, <2>d, <3>1 DEF RowsLoaded, Existing
  <2>8. Asked(q, shellRows)
    <3>1. q.max \in 1..2
      BY <2>4
    <3>2. \E shell \in BOOLEAN : q.shell = shell /\ RowsLoaded(q, shell, shellRows)
      BY <2>4, <2>7
    <3> QED
      BY <2>4, <3>1, <3>2 DEF Asked, Saving
  <2> QED
    BY <2>1, <2>8, ServeStep DEF q, ids
<1> QED
  BY <1>1, <1>2

\* The setup from personas.
LEMMA SetupStep ==
  ASSUME AdminInv, NEW k \in Clerks, SetupFromPersonas(k)
  PROVE  AdminInv'
<1>t. RowsShaped /\ Existing \subseteq AgentIds
  BY DEF AdminInv, Existing
<1> DEFINE random == {i \in Existing : agents[i].user = NoUser}
           ids(count) == {i \in random : Cardinality({j \in random : j < i}) < count}
           new(count, max) == [i \in ids(count) |-> SetUp(agents[i], max)]
<1>1. PICK count \in 1..Cardinality(AgentIds), max \in 1..2 :
        Serve(k, [Change(new(count, max))
                  EXCEPT !.missing = count - Cardinality(ids(count)), !.max = max])
  BY DEF SetupFromPersonas
<1> DEFINE edited == new(count, max)
           q == [Change(edited) EXCEPT !.missing = count - Cardinality(ids(count)),
                                       !.max = max]
<1>2. /\ DOMAIN edited \subseteq Existing
      /\ \A i \in DOMAIN edited : edited[i] = SetUp(agents[i], max)
  OBVIOUS
<1>3. /\ q.step = "saving" /\ q.shell = FALSE /\ q.old = InSession(DOMAIN q.new)
      /\ q.new = edited /\ q.deleted = {} /\ q.forced = FALSE /\ q.max = max
  BY DEF Change
<1>4. Serve(k, q)
  BY <1>1
<1> HIDE DEF edited, q
<1>5. ASSUME NEW i \in DOMAIN edited
      PROVE  Edited(agents[i], edited[i], FALSE) /\ Vetted(edited[i].config, i, shellRows)
  <2> DEFINE row == agents[i]
             paced == [row EXCEPT !.config.min = 1, !.config.max = max]
  <2>1. RowShape(row, {"none", "set"}) /\ Vetted(row.config, i, shellRows)
    BY <1>t, <1>2 DEF RowsShaped
  <2>2. /\ DOMAIN paced = RowColumns
        /\ \A c \in RowColumns \ {"config"} : paced[c] = row[c]
        /\ paced.config = [row.config EXCEPT !.min = 1, !.max = max]
    BY <2>1 DEF RowShape, RowColumns
  <2>3. edited[i] = IF row.enabled /\ row.due # "none" THEN paced
                    ELSE [paced EXCEPT !.enabled = TRUE, !.due = "now"]
    BY <1>2 DEF SetUp
  <2> HIDE DEF row, paced
  <2>4. Vetted(paced.config, i, shellRows)
    <3>1. DOMAIN row.config = ConfigKeys
      BY <2>1 DEF Vetted, WellFormed
    <3>2. /\ DOMAIN paced.config = ConfigKeys
          /\ paced.config.min = 1 /\ paced.config.max = max
          /\ paced.config.image = row.config.image
          /\ paced.config.website = row.config.website
      BY <2>2, <3>1 DEF ConfigKeys
    <3> QED
      BY <2>1, <3>2 DEF Vetted, WellFormed
  <2>5. /\ DOMAIN edited[i] = RowColumns
        /\ edited[i].user = row.user /\ edited[i].tier = row.tier
        /\ edited[i].strikes = row.strikes /\ edited[i].status = row.status
        /\ edited[i].config = paced.config
        /\ \/ row.enabled /\ edited[i].enabled = row.enabled /\ edited[i].due = row.due
           \/ edited[i].enabled = TRUE /\ edited[i].due = "now"
    BY <2>2, <2>3 DEF RowColumns
  <2>6. Edited(row, edited[i], FALSE)
    BY <2>1, <2>5 DEF Edited, RowShape
  <2> QED
    BY <2>4, <2>5, <2>6 DEF row
<1>6. \A i \in DOMAIN q.new : /\ Edited(agents[i], q.new[i], FALSE)
                              /\ Vetted(q.new[i].config, i, Loose(q, FALSE, shellRows))
  BY <1>3, <1>5 DEF Loose
<1>7. RowsLoaded(q, FALSE, shellRows)
  BY <1>2, <1>3, <1>6, LoadedNow
<1>8. Asked(q, shellRows)
  BY <1>3, <1>7 DEF Asked, Saving
<1> QED
  BY <1>4, <1>8, ServeStep

\* The update route's request: tier and switch now, the merged configuration later.
LEMMA SwitchedRow ==
  ASSUME NEW row, RowShape(row, {"none", "set"}), NEW u \in Updates
  PROVE  Edited(row, Switched(row, u), FALSE) /\ Switched(row, u).config = row.config
<1> DEFINE tiered == [row EXCEPT !.tier = Given(u, "tier", @)]
           on == Given(u, "enabled", row.enabled)
           next == Switched(row, u)
<1>1. on \in BOOLEAN
  BY AgentAdminAssumption DEF Given, RowShape
<1>2. /\ DOMAIN tiered = RowColumns
      /\ \A c \in RowColumns \ {"tier"} : tiered[c] = row[c]
  BY DEF RowShape, RowColumns
<1>3. next = IF on = row.enabled THEN tiered
             ELSE IF on THEN Enabled(tiered)
             ELSE [tiered EXCEPT !.enabled = FALSE, !.due = "none",
                                 !.status = IF @ = "running" THEN @ ELSE "idle"]
  BY DEF Switched
<1> HIDE DEF tiered, next, on
<1>4. CASE on = row.enabled
  BY <1>2, <1>3, <1>4 DEF Edited, RowShape, RowColumns, next
<1>5. CASE on # row.enabled /\ on
  <2>1. next = Enabled(tiered)
    BY <1>3, <1>5
  <2>2. ~row.enabled
    BY <1>1, <1>5 DEF RowShape
  <2> QED
    BY <1>2, <2>1, <2>2 DEF Edited, RowShape, RowColumns, Enabled, next
<1>6. CASE on # row.enabled /\ ~on
  <2>1. next = [tiered EXCEPT !.enabled = FALSE, !.due = "none",
                              !.status = IF @ = "running" THEN @ ELSE "idle"]
    BY <1>3, <1>6
  <2>2. row.enabled
    BY <1>1, <1>6 DEF RowShape
  <2> QED
    BY <1>2, <2>1, <2>2 DEF Edited, RowShape, RowColumns, next
<1> QED
  BY <1>4, <1>5, <1>6

\* What may be stored is well formed: delays it does not touch are those of the row.
LEMMA MergedChecked ==
  ASSUME NEW config, NEW i, NEW loose, Vetted(config, i, loose), NEW u \in Updates,
         MayStore(u, Merged(u, config))
  PROVE  Vetted(Merged(u, config), i, loose)
<1> DEFINE m == Merged(u, config)
<1>1. /\ DOMAIN m = ConfigKeys
      /\ \A c \in ConfigKeys : m[c] = Given(u, c, config[c])
  BY DEF Merged, Vetted, WellFormed
<1>2. /\ {"min", "max"} \cap DOMAIN u # {} => m.min <= m.max
      /\ ~(m.image = "only" /\ m.website = "only")
  BY DEF MayStore
<1> HIDE DEF m
<1>3. CASE {"min", "max"} \cap DOMAIN u # {}
  BY <1>1, <1>2, <1>3 DEF Vetted, WellFormed, m
<1>4. CASE {"min", "max"} \cap DOMAIN u = {}
  <2>1. m.min = config.min /\ m.max = config.max
    BY <1>1, <1>4 DEF Given, ConfigKeys
  <2> QED
    BY <1>1, <1>2, <2>1 DEF Vetted, WellFormed, m
<1> QED
  BY <1>3, <1>4

LEMMA UpdateStep ==
  ASSUME AdminInv, NEW k \in Clerks, Update(k)
  PROVE  AdminInv'
<1>t. RowsShaped
  BY DEF AdminInv
<1>1. PICK i \in Existing, u \in Updates :
        /\ MayStore(u, Merged(u, Switched(agents[i], u).config))
        /\ Serve(k, [step |-> IF "model" \in DOMAIN u
                                 /\ Merged(u, Switched(agents[i], u).config).model \in Unprobed
                              THEN "probing" ELSE "updating",
                     old |-> InSession({i}), new |-> [j \in {i} |-> Switched(agents[i], u)],
                     deleted |-> {}, forced |-> TRUE,
                     config |-> Merged(u, Switched(agents[i], u).config),
                     reset |-> "reset" \in DOMAIN u])
  BY DEF Update
<1> DEFINE row == Switched(agents[i], u)
           m == Merged(u, row.config)
           new == [j \in {i} |-> row]
           q == [step |-> IF "model" \in DOMAIN u /\ m.model \in Unprobed
                          THEN "probing" ELSE "updating",
                 old |-> InSession({i}), new |-> new, deleted |-> {}, forced |-> TRUE,
                 config |-> m, reset |-> "reset" \in DOMAIN u]
<1>2. RowShape(agents[i], {"none", "set"}) /\ Vetted(agents[i].config, i, shellRows)
  BY <1>t DEF RowsShaped
<1>3. Edited(agents[i], row, FALSE) /\ row.config = agents[i].config
  BY <1>2, SwitchedRow
<1>4. MayStore(u, m) /\ Serve(k, q)
  BY <1>1
<1>5. DOMAIN new = {i} /\ new[i] = row
  OBVIOUS
<1> HIDE DEF row, new
<1>6. Vetted(m, i, shellRows) /\ Vetted(row.config, i, shellRows)
  BY <1>2, <1>3, <1>4, MergedChecked
<1> HIDE DEF m
<1>7. /\ DOMAIN q = {"step", "old", "new", "deleted", "forced", "config", "reset"}
      /\ q.step \in {"probing", "updating"} /\ q.old = InSession(DOMAIN q.new)
      /\ q.new = new /\ q.deleted = {} /\ q.forced = TRUE /\ q.config = m
  BY <1>5
<1> HIDE DEF q
<1>8. \A j \in DOMAIN q.new : /\ Edited(agents[j], q.new[j], FALSE)
                              /\ Vetted(q.new[j].config, j, Loose(q, FALSE, shellRows))
  BY <1>3, <1>5, <1>6, <1>7 DEF Loose
<1>9. RowsLoaded(q, FALSE, shellRows)
  <2>1. /\ DOMAIN q.new \subseteq Existing /\ q.deleted \subseteq DOMAIN q.new
        /\ q.forced \in BOOLEAN
    BY <1>5, <1>7
  <2> QED
    BY <1>7, <1>8, <2>1, LoadedNow
<1>10. Asked(q, shellRows)
  BY <1>5, <1>6, <1>7, <1>9 DEF Asked, Updating
<1> QED
  BY <1>4, <1>10, ServeStep

-----------------------------------------------------------------------------
(* Agents: the commits *)

\* An agent as the setup adds it.
FreshRow(row) ==
  /\ RowShape(row, {"none", "set"}) /\ row.user = NoUser /\ row.due = "set"
  /\ WellFormed(row.config) /\ row.config.min <= row.config.max

\* A commit of edited rows, and of fresh ones, leaves the table sound.
LEMMA FlushStored ==
  ASSUME RowsShaped, EnabledHasWake, OneAgentPerPersona,
         NEW q, NEW shell \in BOOLEAN, RowsLoaded(q, shell, shellRows), Writable(q),
         DOMAIN agents' = AgentIds,
         \A i \in AgentIds : agents'[i] = Flushed(q)[i] \/ FreshRow(agents'[i]),
         shellRows' = Loose(q, shell, shellRows),
         \A i \in byShell : i \in byShell' \/ (i \in DOMAIN q.new /\ q.new[i].due = "now")
                                           \/ FreshRow(agents'[i]),
         shell => DOMAIN q.new \subseteq byShell'
  PROVE  RowsShaped' /\ EnabledHasWake' /\ OneAgentPerPersona'
<1> SUFFICES ASSUME NEW i \in AgentIds, agents'[i] # NoAgent
             PROVE  /\ RowShape(agents'[i], {"none", "set"})
                    /\ Vetted(agents'[i].config, i, shellRows')
                    /\ agents'[i].enabled /\ agents'[i].due = "none" => i \in byShell'
                    /\ \/ agents[i] # NoAgent /\ agents'[i].user = agents[i].user
                       \/ agents'[i].user = NoUser
  BY RowsStored
<1>1. CASE FreshRow(agents'[i])
  BY <1>1 DEF FreshRow, Vetted
<1>2. CASE agents'[i] = Flushed(q)[i] /\ ~FreshRow(agents'[i])
  <2>1. /\ agents[i] # NoAgent /\ agents'[i].user = agents[i].user
        /\ RowShape(agents'[i], {"none", "set"})
        /\ Vetted(agents'[i].config, i, Loose(q, shell, shellRows))
        /\ agents'[i].enabled /\ agents'[i].due = "none" =>
             \/ shell /\ i \in DOMAIN q.new
             \/ i \in byShell /\ ~(i \in DOMAIN q.new /\ q.new[i].due = "now")
    BY <1>2, FlushedRow
  <2> QED
    BY <1>2, <2>1
<1> QED
  BY <1>1, <1>2

\* A row that was there and is not deleted is there after the commit.
LEMMA FlushedThere ==
  ASSUME RowsShaped, NEW q, NEW shell, RowsLoaded(q, shell, shellRows), Writable(q),
         NEW i \in DOMAIN q.new, i \notin q.deleted
  PROVE  Flushed(q)[i] # NoAgent
<1>1. i \in AgentIds /\ agents[i] # NoAgent /\ i \in Existing
  BY DEF RowsLoaded, Writable, Existing
<1>2. Flushed(q)[i] = Columns(agents[i], q.old[i], q.new[i], q.forced)
  BY <1>1 DEF Flushed
<1>3. DOMAIN Flushed(q)[i] = RowColumns
  BY <1>1, <1>2 DEF Columns, RowsShaped, RowShape
<1>4. "user" \in RowColumns /\ "user" \notin DOMAIN NoAgent
  BY DEF RowColumns, NoAgent
<1> QED
  BY <1>3, <1>4

\* The probe commits the tier and the switch, and loads the rows again.
LEMMA ProbeStep ==
  ASSUME AdminInv, NEW k \in Clerks, NEW allowed \in BOOLEAN, Probe(k, allowed)
  PROVE  AdminInv'
<1> DEFINE q == ask[k]
           p == [old |-> q.old, new |-> q.new, deleted |-> {}, forced |-> FALSE]
           r == [q EXCEPT !.step = "updating", !.old = [i \in DOMAIN q.new |-> agents'[i]],
                          !.new = [i \in DOMAIN q.new |-> agents'[i]]]
<1>t. /\ RowsShaped /\ EnabledHasWake /\ OneAgentPerPersona /\ Asked(q, shellRows)
      /\ q.step = "probing" /\ UNCHANGED <<asks, shellRows>> /\ asks' \in 0..MaxAsks
      /\ shellRows' \subseteq AgentIds /\ byShell' \subseteq AgentIds
  BY DEF AdminInv, Probe
<1>1. Updating(q, shellRows)
  BY <1>t DEF Asked, Free
<1>2. RowsLoaded(p, FALSE, shellRows)
  BY <1>1 DEF Updating, RowsLoaded, Loose
<1>3. CASE ~Writable(q)
  <2>1. ask' = [ask EXCEPT ![k] = Free] /\ UNCHANGED <<agents, byShell>>
    BY <1>3 DEF Probe
  <2>2. DOMAIN ask' = Clerks /\ \A c \in Clerks : Asked(ask'[c], shellRows')
    <3>1. Asked(Free, shellRows')
      BY DEF Asked
    <3> QED
      BY <1>t, <2>1, <3>1, AskStep
  <2>3. RowsShaped' /\ EnabledHasWake' /\ OneAgentPerPersona'
    BY <1>t, <2>1 DEF RowsShaped, EnabledHasWake, OneAgentPerPersona, Existing
  <2> QED
    BY <1>t, <2>1, <2>2, <2>3 DEF AdminInv
<1>4. CASE Writable(q)
  <2>1. /\ agents' = [i \in AgentIds |-> IF i \in DOMAIN q.new
               THEN Columns(agents[i], q.old[i], q.new[i], FALSE) ELSE agents[i]]
        /\ ask' = [ask EXCEPT ![k] = IF allowed THEN r ELSE Free]
        /\ byShell' = byShell \ {i \in DOMAIN q.new : q.new[i].due = "now"}
    BY <1>4 DEF Probe
  <2>2. DOMAIN agents' = AgentIds /\ Writable(p)
        /\ \A i \in AgentIds : agents'[i] = Flushed(p)[i]
    BY <1>4, <2>1 DEF Flushed, Writable
  <2>3. p.new = q.new /\ p.deleted = {}
    OBVIOUS
  <2> HIDE DEF p
  <2>4. RowsShaped' /\ EnabledHasWake' /\ OneAgentPerPersona'
    <3>1. shellRows' = Loose(p, FALSE, shellRows)
      BY <1>t DEF Loose
    <3>2. \A i \in byShell : i \in byShell' \/ (i \in DOMAIN p.new /\ p.new[i].due = "now")
      BY <2>1, <2>3
    <3> QED
      BY <1>t, <1>2, <2>2, <3>1, <3>2, FlushStored
  <2>5. Asked(r, shellRows')
    <3>1. /\ DOMAIN r = {"step", "old", "new", "deleted", "forced", "config", "reset"}
          /\ r.step = "updating" /\ r.deleted = q.deleted /\ r.forced = q.forced
          /\ r.config = q.config /\ r.old = [i \in DOMAIN q.new |-> agents'[i]]
          /\ r.new = [i \in DOMAIN q.new |-> agents'[i]]
      BY <1>1 DEF Updating
    <3> HIDE DEF r
    <3>2. ASSUME NEW i \in DOMAIN q.new
          PROVE  /\ Edited(agents'[i], agents'[i], FALSE)
                 /\ Vetted(agents'[i].config, i, shellRows')
      <4>1. Flushed(p)[i] # NoAgent
        BY <1>t, <1>2, <2>2, <2>3, FlushedThere
      <4>2. i \in Existing'
        BY <1>2, <2>2, <2>3, <4>1 DEF Existing, RowsLoaded
      <4> QED
        BY <2>4, <4>2, RowEdits DEF RowsShaped
    <3>3. RowsLoaded(r, FALSE, shellRows')
      BY <1>1, <3>1, <3>2 DEF Updating, RowsLoaded, Loose
    <3>4. \A i \in DOMAIN r.new : Vetted(r.config, i, shellRows')
      BY <1>1, <1>t, <3>1 DEF Updating
    <3> QED
      BY <3>1, <3>3, <3>4 DEF Asked, Updating
  <2>6. DOMAIN ask' = Clerks /\ \A c \in Clerks : Asked(ask'[c], shellRows')
    <3> DEFINE next == IF allowed THEN r ELSE Free
    <3>1. Asked(next, shellRows')
      BY <2>5 DEF Asked
    <3>2. ask' = [ask EXCEPT ![k] = next] /\ shellRows \subseteq shellRows'
      BY <1>t, <2>1
    <3> HIDE DEF next
    <3> QED
      BY <3>1, <3>2, AskStep
  <2> QED
    BY <1>t, <2>2, <2>4, <2>6 DEF AdminInv
<1> QED
  BY <1>3, <1>4

\* The update's last commit: the reset, if one was asked for.
LEMMA ResetRow ==
  ASSUME NEW old, NEW row, Edited(old, row, FALSE)
  PROVE  Edited(old, Reset(row), FALSE) /\ Reset(row).config = row.config
<1>1. /\ DOMAIN Reset(row) = RowColumns /\ Reset(row).config = row.config
      /\ Reset(row).user = row.user /\ Reset(row).enabled = row.enabled
      /\ Reset(row).strikes = 0
      /\ Reset(row).status = IF row.status = "running" THEN row.status ELSE "idle"
      /\ Reset(row).due = IF row.enabled THEN "now" ELSE row.due
  BY DEF Reset, Edited, RowShape, RowColumns
<1> QED
  BY <1>1 DEF Edited, RowShape

LEMMA SaveUpdateStep ==
  ASSUME AdminInv, NEW k \in Clerks, SaveUpdate(k)
  PROVE  AdminInv'
<1> DEFINE q == ask[k]
           done == [i \in DOMAIN q.new |->
                      LET row == [q.new[i] EXCEPT !.config = q.config]
                      IN IF q.reset THEN Reset(row) ELSE row]
           p == [old |-> q.old, new |-> done, deleted |-> q.deleted, forced |-> q.forced]
<1>t. /\ RowsShaped /\ EnabledHasWake /\ OneAgentPerPersona /\ Asked(q, shellRows)
      /\ q.step = "updating" /\ UNCHANGED <<asks, shellRows>> /\ asks' \in 0..MaxAsks
      /\ shellRows' \subseteq AgentIds /\ byShell' \subseteq AgentIds
      /\ ask' = [ask EXCEPT ![k] = Free] /\ DOMAIN agents = AgentIds
  BY DEF AdminInv, SaveUpdate
<1>1. Updating(q, shellRows)
  BY <1>t DEF Asked, Free
<1>2. DOMAIN ask' = Clerks /\ \A c \in Clerks : Asked(ask'[c], shellRows')
  <2>1. Asked(Free, shellRows')
    BY DEF Asked
  <2> QED
    BY <1>t, <2>1, AskStep
<1>3. CASE ~Writable(q)
  <2>1. UNCHANGED <<agents, byShell>>
    BY <1>3 DEF SaveUpdate
  <2>2. RowsShaped' /\ EnabledHasWake' /\ OneAgentPerPersona'
    BY <1>t, <2>1 DEF RowsShaped, EnabledHasWake, OneAgentPerPersona, Existing
  <2> QED
    BY <1>t, <1>2, <2>1, <2>2 DEF AdminInv
<1>4. CASE Writable(q)
  <2>1. /\ agents' = Flushed([q EXCEPT !.new = done])
        /\ byShell' = byShell \ {i \in DOMAIN done : done[i].due = "now"}
    BY <1>4 DEF SaveUpdate
  <2>2. /\ [q EXCEPT !.new = done].new = done /\ [q EXCEPT !.new = done].old = q.old
        /\ [q EXCEPT !.new = done].deleted = q.deleted
        /\ [q EXCEPT !.new = done].forced = q.forced
    BY <1>1 DEF Updating
  <2>3. DOMAIN done = DOMAIN q.new
    OBVIOUS
  <2>4. ASSUME NEW i \in DOMAIN q.new
        PROVE  /\ Edited(q.old[i], done[i], FALSE)
               /\ Vetted(done[i].config, i, shellRows)
    <3> DEFINE row == [q.new[i] EXCEPT !.config = q.config]
    <3>1. done[i] = IF q.reset THEN Reset(row) ELSE row
      OBVIOUS
    <3>2. Edited(q.old[i], q.new[i], FALSE) /\ Vetted(q.config, i, shellRows)
      BY <1>1 DEF Updating, RowsLoaded
    <3>3. row = [q.new[i] EXCEPT !.config = q.config]
      OBVIOUS
    <3> HIDE DEF done, row
    <3>4. /\ Edited(q.old[i], row, FALSE) /\ row.config = q.config
          /\ Edited(q.old[i], Reset(row), FALSE) /\ Reset(row).config = q.config
      <4>1. /\ DOMAIN row = RowColumns /\ row.config = q.config
            /\ row.user = q.new[i].user /\ row.enabled = q.new[i].enabled
            /\ row.due = q.new[i].due /\ row.strikes = q.new[i].strikes
            /\ row.status = q.new[i].status
        BY <3>2, <3>3 DEF Edited, RowShape, RowColumns
      <4>2. Edited(q.old[i], row, FALSE)
        BY <3>2, <4>1 DEF Edited, RowShape
      <4> QED
        BY <4>1, <4>2, ResetRow
    <3>5. done[i] = row \/ done[i] = Reset(row)
      BY <3>1
    <3> QED
      BY <3>2, <3>4, <3>5
  <2> HIDE DEF done
  <2>5. /\ p.new = done /\ p.old = q.old /\ p.deleted = q.deleted /\ p.forced = q.forced
    OBVIOUS
  <2>6. DOMAIN agents' = AgentIds /\ \A i \in AgentIds : agents'[i] = Flushed(p)[i]
    BY <2>1, <2>2, <2>5 DEF Flushed
  <2> HIDE DEF p
  <2>7. RowsLoaded(p, FALSE, shellRows) /\ Writable(p)
    BY <1>1, <1>4, <2>3, <2>4, <2>5 DEF Updating, RowsLoaded, Loose, Writable
  <2>8. RowsShaped' /\ EnabledHasWake' /\ OneAgentPerPersona'
    <3>1. shellRows' = Loose(p, FALSE, shellRows)
      BY <1>t DEF Loose
    <3>2. \A i \in byShell : i \in byShell' \/ (i \in DOMAIN p.new /\ p.new[i].due = "now")
      BY <2>1, <2>5
    <3> QED
      BY <1>t, <2>6, <2>7, <3>1, <3>2, FlushStored
  <2> QED
    BY <1>t, <1>2, <2>6, <2>8 DEF AdminInv
<1> QED
  BY <1>3, <1>4

\* The commit of a change, with the agents the setup adds.
LEMMA SaveStep ==
  ASSUME AdminInv, NEW k \in Clerks, Save(k)
  PROVE  AdminInv'
<1> DEFINE q == ask[k]
           added == {i \in Vacant : Cardinality({j \in Vacant : j < i}) < q.missing}
           fresh == Agent(NoUser, "regular", TRUE, TRUE,
             [image |-> "off", website |-> "off", min |-> 1, max |-> q.max,
              model |-> "default"])
<1>t. /\ RowsShaped /\ EnabledHasWake /\ OneAgentPerPersona /\ Asked(q, shellRows)
      /\ q.step = "saving" /\ UNCHANGED asks /\ asks' \in 0..MaxAsks
      /\ ask' = [ask EXCEPT ![k] = Free] /\ DOMAIN agents = AgentIds
      /\ byShell \subseteq AgentIds /\ shellRows \subseteq AgentIds
  BY DEF AdminInv, Save
<1>1. Saving(q, shellRows)
  BY <1>t DEF Asked, Free
<1>2. PICK shell \in BOOLEAN : q.shell = shell /\ RowsLoaded(q, shell, shellRows)
  BY <1>1 DEF Saving
<1>3. ASSUME shellRows \subseteq shellRows'
      PROVE  DOMAIN ask' = Clerks /\ \A c \in Clerks : Asked(ask'[c], shellRows')
  <2>1. Asked(Free, shellRows')
    BY DEF Asked
  <2> QED
    BY <1>t, <1>3, <2>1, AskStep
<1>4. CASE ~Writable(q)
  <2>1. UNCHANGED <<agents, byShell, shellRows>>
    BY <1>4 DEF Save
  <2>2. RowsShaped' /\ EnabledHasWake' /\ OneAgentPerPersona'
    BY <1>t, <2>1 DEF RowsShaped, EnabledHasWake, OneAgentPerPersona, Existing
  <2> QED
    BY <1>t, <1>3, <2>1, <2>2 DEF AdminInv
<1>5. CASE Writable(q)
  <2>1. /\ agents' = [i \in AgentIds |-> IF i \in added THEN fresh ELSE Flushed(q)[i]]
        /\ byShell' = IF q.shell THEN byShell \cup DOMAIN q.new
                      ELSE byShell \ (added \cup {i \in DOMAIN q.new : q.new[i].due = "now"})
        /\ shellRows' = IF q.shell THEN shellRows \cup DOMAIN q.new ELSE shellRows
    BY <1>5 DEF Save
  <2>2. FreshRow(fresh)
    <3>1. q.max \in 1..2
      BY <1>1 DEF Saving
    <3> QED
      BY <3>1 DEF FreshRow, Agent, RowShape, RowColumns, WellFormed, ConfigKeys
  <2>3. added \subseteq AgentIds
    BY DEF Vacant
  <2> HIDE DEF added, fresh
  <2>4. /\ DOMAIN agents' = AgentIds
        /\ \A i \in AgentIds : agents'[i] = Flushed(q)[i] \/ FreshRow(agents'[i])
    BY <2>1, <2>2
  <2>5. shellRows' = Loose(q, shell, shellRows)
    BY <1>2, <2>1 DEF Loose
  <2>6. /\ \A i \in byShell : i \in byShell' \/ (i \in DOMAIN q.new /\ q.new[i].due = "now")
                              \/ FreshRow(agents'[i])
        /\ shell => DOMAIN q.new \subseteq byShell'
    BY <1>2, <2>1, <2>2, <2>3
  <2>7. RowsShaped' /\ EnabledHasWake' /\ OneAgentPerPersona'
    BY <1>t, <1>2, <1>5, <2>4, <2>5, <2>6, FlushStored
  <2>8. shellRows \subseteq shellRows' /\ shellRows' \subseteq AgentIds
        /\ byShell' \subseteq AgentIds
    BY <1>t, <1>2, <2>1 DEF RowsLoaded
  <2> QED
    BY <1>t, <1>3, <2>4, <2>7, <2>8 DEF AdminInv
<1> QED
  BY <1>4, <1>5

\* A create that is asked for has passed the checks, but for the order of the delays
\* at the command line; what the command line takes over has passed the same ones.
LEMMA AskCreateStep ==
  ASSUME AdminInv, NEW k \in Clerks, AskCreate(k)
  PROVE  AdminInv'
<1>1. PICK user \in Personas \cup {NoUser}, tier \in {"regular", "lurker"},
           enable \in BOOLEAN, config \in Knobs :
        /\ config.min <= config.max
        /\ ~(config.image = "only" /\ config.website = "only")
        /\ Serve(k, [step |-> "creating", shell |-> FALSE,
                     row |-> Agent(user, tier, enable, enable, config)])
  BY DEF AskCreate
<1> DEFINE row == Agent(user, tier, enable, enable, config)
           q == [step |-> "creating", shell |-> FALSE, row |-> row]
<1>2. /\ RowShape(row, {"none", "set"}) /\ row.config = config /\ row.enabled = enable
      /\ row.due = IF enable THEN "set" ELSE "none"
  BY DEF Agent, RowShape, RowColumns
<1>3. WellFormed(config)
  BY <1>1, AgentAdminAssumption DEF WellFormed
<1>4. Serve(k, q)
  BY <1>1
<1> HIDE DEF row
<1>5. Creating(q)
  BY <1>1, <1>2, <1>3 DEF Creating
<1>6. Asked(q, shellRows)
  BY <1>5 DEF Asked
<1> HIDE DEF q
<1> QED
  BY <1>4, <1>6, ServeStep

LEMMA AskUpsertStep ==
  ASSUME AdminInv, NEW k \in Clerks, AskUpsert(k)
  PROVE  AdminInv'
<1>t. RowsShaped
  BY DEF AdminInv
<1>1. PICK user \in Personas \cup {NoUser}, tier \in {"regular", "lurker"},
           enable \in BOOLEAN, config \in {c \in Knobs : ~Posts(c)} :
        LET theirs == {i \in Existing : agents[i].user = user /\ user # NoUser}
        IN IF theirs = {}
           THEN Serve(k, [step |-> "creating", shell |-> TRUE,
                          row |-> Agent(user, tier, enable, FALSE, config)])
           ELSE Serve(k, [Change([i \in theirs |->
                  [agents[i] EXCEPT !.tier = tier, !.config = config, !.enabled = enable]])
                EXCEPT !.shell = TRUE])
  BY DEF AskUpsert
<1> DEFINE theirs == {i \in Existing : agents[i].user = user /\ user # NoUser}
<1>2. WellFormed(config)
  BY AgentAdminAssumption DEF WellFormed, Posts
<1>3. CASE theirs = {}
  <2> DEFINE row == Agent(user, tier, enable, FALSE, config)
             q == [step |-> "creating", shell |-> TRUE, row |-> row]
  <2>1. RowShape(row, {"none", "set"}) /\ row.config = config
    BY DEF Agent, RowShape, RowColumns
  <2>2. Serve(k, q)
    BY <1>1, <1>3
  <2> HIDE DEF row
  <2>3. Creating(q)
    BY <1>2, <2>1 DEF Creating
  <2>4. Asked(q, shellRows)
    BY <2>3 DEF Asked
  <2> HIDE DEF q
  <2> QED
    BY <2>2, <2>4, ServeStep
<1>4. CASE theirs # {}
  <2> DEFINE new == [i \in theirs |->
               [agents[i] EXCEPT !.tier = tier, !.config = config, !.enabled = enable]]
             q == [Change(new) EXCEPT !.shell = TRUE]
  <2>1. Serve(k, q)
    BY <1>1, <1>4
  <2>2. /\ DOMAIN new = theirs /\ theirs \subseteq Existing
        /\ \A i \in theirs : new[i] =
             [agents[i] EXCEPT !.tier = tier, !.config = config, !.enabled = enable]
    OBVIOUS
  <2>3. /\ q.step = "saving" /\ q.shell = TRUE /\ q.old = InSession(DOMAIN q.new)
        /\ q.new = new /\ q.deleted = {} /\ q.forced = FALSE /\ q.max = 1
    BY DEF Change
  <2> HIDE DEF new, theirs, q
  <2>4. ASSUME NEW i \in theirs
        PROVE  /\ Edited(agents[i], new[i], TRUE)
               /\ Vetted(new[i].config, i, Loose(q, TRUE, shellRows))
    <3>1. RowShape(agents[i], {"none", "set"})
      BY <1>t, <2>2 DEF RowsShaped
    <3>2. /\ DOMAIN new[i] = RowColumns /\ new[i].config = config
          /\ new[i].enabled = enable /\ new[i].user = agents[i].user
          /\ new[i].due = agents[i].due /\ new[i].strikes = agents[i].strikes
          /\ new[i].status = agents[i].status
      BY <2>2, <3>1 DEF RowShape, RowColumns
    <3>3. Edited(agents[i], new[i], TRUE)
      BY <3>1, <3>2 DEF Edited, RowShape
    <3>4. Vetted(new[i].config, i, Loose(q, TRUE, shellRows))
      BY <1>2, <2>2, <2>3, <3>2 DEF Vetted, Loose
    <3> QED
      BY <3>3, <3>4
  <2>5. RowsLoaded(q, TRUE, shellRows)
    <3>1. /\ DOMAIN q.new = theirs /\ DOMAIN q.new \subseteq Existing
          /\ q.deleted \subseteq DOMAIN q.new /\ q.forced \in BOOLEAN
      BY <2>2, <2>3
    <3>2. DOMAIN q.old = DOMAIN q.new /\ \A i \in DOMAIN q.new : q.old[i] = agents[i]
      BY <2>3 DEF InSession
    <3>3. \A i \in DOMAIN q.new : /\ Edited(q.old[i], q.new[i], TRUE)
                                  /\ Vetted(q.new[i].config, i, Loose(q, TRUE, shellRows))
      BY <2>3, <2>4, <3>1, <3>2
    <3> QED
      BY <3>1, <3>2, <3>3 DEF RowsLoaded, Existing
  <2>6. Asked(q, shellRows)
    <3>1. q.max \in 1..2
      BY <2>3
    <3>2. \E shell \in BOOLEAN : q.shell = shell /\ RowsLoaded(q, shell, shellRows)
      BY <2>3, <2>5
    <3> QED
      BY <2>3, <3>1, <3>2 DEF Asked, Saving
  <2> QED
    BY <2>1, <2>6, ServeStep
<1> QED
  BY <1>3, <1>4

\* The row of a create takes the least vacant id, unless its persona has an agent.
LEMMA SaveCreateStep ==
  ASSUME AdminInv, NEW k \in Clerks, SaveCreate(k)
  PROVE  AdminInv'
<1> DEFINE q == ask[k]
           row == ask[k].row
           i == CHOOSE j \in Vacant : \A n \in Vacant : j <= n
<1>t. /\ RowsShaped /\ EnabledHasWake /\ OneAgentPerPersona /\ Asked(q, shellRows)
      /\ q.step = "creating" /\ UNCHANGED asks /\ asks' \in 0..MaxAsks
      /\ ask' = [ask EXCEPT ![k] = Free] /\ DOMAIN agents = AgentIds
      /\ byShell \subseteq AgentIds /\ shellRows \subseteq AgentIds
  BY DEF AdminInv, SaveCreate
<1>1. Creating(q)
  BY <1>t DEF Asked, Free
<1>2. ASSUME shellRows \subseteq shellRows'
      PROVE  DOMAIN ask' = Clerks /\ \A c \in Clerks : Asked(ask'[c], shellRows')
  <2>1. Asked(Free, shellRows')
    BY DEF Asked
  <2> QED
    BY <1>t, <1>2, <2>1, AskStep
<1>3. CASE Collides(row.user) \/ Vacant = {}
  <2>1. UNCHANGED <<agents, byShell, shellRows>>
    BY <1>3 DEF SaveCreate
  <2>2. RowsShaped' /\ EnabledHasWake' /\ OneAgentPerPersona'
    BY <1>t, <2>1 DEF RowsShaped, EnabledHasWake, OneAgentPerPersona, Existing
  <2> QED
    BY <1>t, <1>2, <2>1, <2>2 DEF AdminInv
<1>4. CASE ~Collides(row.user) /\ Vacant # {}
  <2>1. /\ agents' = [agents EXCEPT ![i] = row]
        /\ byShell' = IF q.shell THEN byShell \cup {i} ELSE byShell \ {i}
        /\ shellRows' = IF q.shell THEN shellRows \cup {i} ELSE shellRows
    BY <1>4 DEF SaveCreate
  <2>2. i \in Vacant
    <3>1. Vacant \subseteq Nat
      BY AgentAdminAssumption DEF Vacant
    <3>2. \E j \in Vacant : \A n \in Vacant : j <= n
      BY <1>4, <3>1, LeastOfNat
    <3> QED
      BY <3>2
  <2> HIDE DEF i
  <2>3. /\ i \in AgentIds /\ agents[i] = NoAgent /\ agents'[i] = row
        /\ DOMAIN agents' = AgentIds
        /\ \A j \in AgentIds \ {i} : agents'[j] = agents[j]
    BY <1>t, <2>1, <2>2 DEF Vacant
  <2>4. /\ RowShape(row, {"none", "set"}) /\ WellFormed(row.config)
        /\ q.shell \/ row.config.min <= row.config.max
        /\ row.enabled => row.due = "set" \/ q.shell
    BY <1>1 DEF Creating
  <2>5. row # NoAgent
    BY <2>4 DEF RowShape, RowColumns, NoAgent
  <2> HIDE DEF row
  <2>6. shellRows \subseteq shellRows' /\ shellRows' \subseteq AgentIds
        /\ byShell' \subseteq AgentIds
    BY <1>t, <2>1, <2>3
  <2>7. RowsShaped'
    <3> SUFFICES ASSUME NEW j \in Existing'
                 PROVE  /\ RowShape(agents'[j], {"none", "set"})
                        /\ Vetted(agents'[j].config, j, shellRows')
      BY DEF RowsShaped
    <3>1. CASE j = i
      BY <2>1, <2>3, <2>4, <3>1 DEF Vetted
    <3>2. CASE j # i
      BY <1>t, <2>3, <2>6, <3>2 DEF RowsShaped, Existing, Vetted
    <3> QED
      BY <3>1, <3>2
  <2>8. EnabledHasWake'
    BY <1>t, <2>1, <2>3, <2>4 DEF EnabledHasWake, Existing
  <2>9. OneAgentPerPersona'
    <3>1. row.user = NoUser \/ \A j \in Existing : agents[j].user # row.user
      BY <1>4 DEF Collides, HasAgent, row
    <3>2. \A j \in Existing' : j = i \/ (j \in Existing /\ agents'[j] = agents[j])
      BY <2>3 DEF Existing
    <3> QED
      BY <1>t, <2>3, <3>1, <3>2 DEF OneAgentPerPersona
  <2> QED
    BY <1>t, <1>2, <2>3, <2>6, <2>7, <2>8, <2>9 DEF AdminInv
<1> QED
  BY <1>3, <1>4

\* The runs leave a wake with whoever they leave on, and a worker's start gives one.
LEMMA RunSteps ==
  ASSUME AdminInv,
         RunStarts \/ WorkerStarts \/ \E failed \in BOOLEAN : RunEnds(failed)
  PROVE  AdminInv'
<1>t. /\ RowsShaped /\ EnabledHasWake /\ OneAgentPerPersona /\ DOMAIN agents = AgentIds
      /\ UNCHANGED <<ask, asks, byShell, shellRows>>
  BY DEF AdminInv, RunStarts, WorkerStarts, RunEnds
<1>1. ASSUME NEW i \in Existing
      PROVE  /\ i \in AgentIds /\ RowShape(agents[i], {"none", "set"})
             /\ Vetted(agents[i].config, i, shellRows')
             /\ agents[i].enabled /\ agents[i].due = "none" => i \in byShell'
  BY <1>t, <1>1 DEF RowsShaped, EnabledHasWake, Existing
<1>2. \A i \in AgentIds : i \in Existing <=> agents[i] # NoAgent
  BY DEF Existing
<1>3. DOMAIN agents' = AgentIds
      /\ \A i \in AgentIds : agents'[i] # NoAgent =>
           /\ RowShape(agents'[i], {"none", "set"})
           /\ Vetted(agents'[i].config, i, shellRows')
           /\ agents'[i].enabled /\ agents'[i].due = "none" => i \in byShell'
           /\ agents[i] # NoAgent /\ agents'[i].user = agents[i].user
  <2>1. CASE RunStarts
    <3>1. PICK i \in Existing : agents' = [agents EXCEPT ![i].status = "running"]
      BY <2>1 DEF RunStarts
    <3>2. /\ DOMAIN agents' = AgentIds /\ \A j \in AgentIds \ {i} : agents'[j] = agents[j]
          /\ agents'[i] = [agents[i] EXCEPT !.status = "running"]
      BY <1>t, <1>1, <3>1
    <3>3. /\ RowShape(agents'[i], {"none", "set"}) /\ agents'[i].user = agents[i].user
          /\ agents'[i].config = agents[i].config /\ agents'[i].due = agents[i].due
          /\ agents'[i].enabled = agents[i].enabled
      BY <1>1, <3>2 DEF RowShape, RowColumns
    <3> SUFFICES ASSUME NEW j \in AgentIds, agents'[j] # NoAgent
                 PROVE  /\ RowShape(agents'[j], {"none", "set"})
                        /\ Vetted(agents'[j].config, j, shellRows')
                        /\ agents'[j].enabled /\ agents'[j].due = "none" => j \in byShell'
                        /\ agents[j] # NoAgent /\ agents'[j].user = agents[j].user
      BY <3>2
    <3>4. CASE j = i
      BY <1>1, <1>2, <3>3, <3>4
    <3>5. CASE j # i
      <4>1. agents'[j] = agents[j] /\ j \in Existing
        BY <1>2, <3>2, <3>5
      <4> QED
        BY <1>1, <1>2, <4>1
    <3> QED
      BY <3>4, <3>5
  <2>2. CASE WorkerStarts
    <3>1. agents' = [i \in AgentIds |-> IF i \in Existing /\ agents[i].enabled
                                        THEN [agents[i] EXCEPT !.due = "set"] ELSE agents[i]]
      BY <2>2 DEF WorkerStarts
    <3>2. ASSUME NEW i \in Existing, agents'[i] = [agents[i] EXCEPT !.due = "set"]
          PROVE  /\ RowShape(agents'[i], {"none", "set"}) /\ agents'[i].user = agents[i].user
                 /\ agents'[i].config = agents[i].config /\ agents'[i].due = "set"
      BY <1>1, <3>2 DEF RowShape, RowColumns
    <3> QED
      BY <1>1, <1>2, <3>1, <3>2
  <2>3. CASE \E failed \in BOOLEAN : RunEnds(failed)
    <3>1. PICK failed \in BOOLEAN, i \in Existing :
            LET strikes == IF failed THEN agents[i].strikes + 1 ELSE 0
                row == [agents[i] EXCEPT !.strikes = strikes, !.status = "idle",
                                         !.due = "set"]
            IN agents' = [agents EXCEPT ![i] =
                 IF failed /\ strikes >= MaxStrikes
                 THEN [row EXCEPT !.enabled = FALSE, !.status = "disabled", !.due = "none"]
                 ELSE row]
      BY <2>3 DEF RunEnds
    <3> DEFINE strikes == IF failed THEN agents[i].strikes + 1 ELSE 0
               row == [agents[i] EXCEPT !.strikes = strikes, !.status = "idle",
                                        !.due = "set"]
    <3>2. /\ DOMAIN agents' = AgentIds /\ \A j \in AgentIds \ {i} : agents'[j] = agents[j]
          /\ \/ agents'[i] = row
             \/ agents'[i] = [row EXCEPT !.enabled = FALSE, !.status = "disabled",
                                         !.due = "none"]
      BY <1>t, <1>1, <3>1
    <3>3. strikes \in Nat
      BY <1>1 DEF RowShape
    <3> HIDE DEF strikes
    <3>4. /\ RowShape(row, {"none", "set"}) /\ row.user = agents[i].user
          /\ row.config = agents[i].config /\ row.due = "set"
      BY <1>1, <3>3 DEF RowShape, RowColumns
    <3> HIDE DEF row
    <3>5. /\ RowShape(agents'[i], {"none", "set"}) /\ agents'[i].user = agents[i].user
          /\ agents'[i].config = agents[i].config
          /\ agents'[i].due = "set" \/ ~agents'[i].enabled
      BY <3>2, <3>4 DEF RowShape, RowColumns
    <3> QED
      BY <1>1, <1>2, <3>2, <3>5
  <2> QED
    BY <2>1, <2>2, <2>3
<1>4. RowsShaped' /\ EnabledHasWake' /\ OneAgentPerPersona'
  BY <1>3, <1>t, RowsStored
<1> QED
  BY <1>t, <1>3, <1>4 DEF AdminInv

\* Every step keeps the invariant.
LEMMA AdminStep ==
  ASSUME AdminInv, [AdminNext]_adminVars
  PROVE  AdminInv'
<1>1. ASSUME NEW k \in Clerks,
             \/ Toggle(k) \/ SwitchMany(k) \/ BulkPosts(k) \/ BulkDelete(k)
             \/ SetupFromPersonas(k) \/ Update(k) \/ AskCreate(k) \/ AskUpsert(k)
             \/ \E allowed \in BOOLEAN : Probe(k, allowed)
             \/ SaveUpdate(k) \/ SaveCreate(k) \/ Save(k)
      PROVE  AdminInv'
  BY <1>1, SwitchStep, BulkStep, SetupStep, UpdateStep, AskCreateStep, AskUpsertStep,
     ProbeStep, SaveUpdateStep, SaveCreateStep, SaveStep
<1>2. CASE UNCHANGED adminVars
  BY <1>2 DEF adminVars, AdminInv, RowsShaped, EnabledHasWake, OneAgentPerPersona, Existing
<1> QED
  BY <1>1, <1>2, RunSteps DEF AdminNext

LEMMA AdminStart ==
  ASSUME AdminInit
  PROVE  AdminInv
<1>1. /\ DOMAIN agents = AgentIds /\ DOMAIN ask = Clerks
      /\ \A k \in Clerks : Asked(ask[k], shellRows)
      /\ asks \in 0..MaxAsks /\ byShell \subseteq AgentIds /\ shellRows \subseteq AgentIds
  BY AgentAdminAssumption DEF AdminInit, Asked
<1>2. \A i \in Existing : i \in DOMAIN Enrolled /\ agents[i] = Enrolled[i]
  BY DEF AdminInit, Existing
<1>3. ASSUME NEW i \in Existing
      PROVE  /\ RowShape(agents[i], {"none", "set"})
             /\ Vetted(agents[i].config, i, shellRows)
             /\ agents[i].enabled => agents[i].due # "none"
             /\ \A j \in Existing : agents[j].user = agents[i].user /\ i # j
                                      => agents[i].user = NoUser
  <2>1. i \in DOMAIN Enrolled /\ agents[i] = Enrolled[i]
    BY <1>2
  <2>2. /\ DOMAIN agents[i] = RowColumns /\ DOMAIN agents[i].config = ConfigKeys
        /\ agents[i].user \in Personas \cup {NoUser} /\ agents[i].enabled \in BOOLEAN
        /\ agents[i].due \in {"none", "set"} /\ (agents[i].enabled => agents[i].due = "set")
        /\ agents[i].strikes \in Nat /\ agents[i].status \in {"idle", "running", "disabled"}
        /\ agents[i].config.min <= agents[i].config.max
        /\ ~(agents[i].config.image = "only" /\ agents[i].config.website = "only")
    BY <2>1, AgentAdminAssumption
  <2>3. \A j \in Existing : agents[j].user = agents[i].user /\ i # j
                              => agents[i].user = NoUser
    BY <1>2, <2>1, AgentAdminAssumption
  <2> QED
    BY <2>2, <2>3 DEF RowShape, Vetted, WellFormed
<1>4. RowsShaped /\ EnabledHasWake /\ OneAgentPerPersona
  BY <1>3 DEF RowsShaped, EnabledHasWake, OneAgentPerPersona
<1> QED
  BY <1>1, <1>4 DEF AdminInv

-----------------------------------------------------------------------------
(* Agents: the theorems *)

\* The rows and the histories keep their types.
THEOREM AdminTypes == AdminSpec => []AdminTypeOK
<1>1. AdminInv => AdminTypeOK
  BY DEF AdminInv, AdminTypeOK, RowsShaped, RowShape
<1> QED
  BY <1>1, AdminStart, AdminStep, PTL DEF AdminSpec

\* Whatever requests, probes and runs interleave: every stored configuration is one
\* that was checked as a whole, an agent that is on has a wake unless the command line
\* turned it on, and a persona is driven by one agent.
THEOREM AgentsStayWellSet == AdminSpec => []AgentsWellSet
<1>1. AdminInv => AgentsWellSet
  BY DEF AdminInv, AgentsWellSet, ConfigChecked, RowsShaped, Vetted, WellFormed
<1> QED
  BY <1>1, AdminStart, AdminStep, PTL DEF AdminSpec

-----------------------------------------------------------------------------
(* Providers: the inductive invariant *)

ProvidersSpec == ProvidersInit({"llm", "image"}) /\ [][ProvidersNext]_providerVars

\* One default as long as there is a row.
Even == (providers = {} /\ defaults = {}) \/ \E d \in providers : defaults = {d}

\* What a request has read, while nothing else has changed the table since.
Fits(c, rows, on) ==
  /\ c.op = "create" => /\ rows = {} => c.mark
                        /\ c.clear <=> c.mark /\ rows # {}
  /\ c.op \in {"mark", "unmark"} => c.id \in rows /\ c.seen = [at |-> rows, on |-> on]
  /\ c.op = "delete" => (c.was <=> c.id \in on)
  /\ c.op = "heir" => on = {}
  /\ c.op = "promote" => on = {} /\ c.id \in rows

\* Requests come one after another: at most one is under way, and there is one
\* default but between the two transactions of a delete.
InTurn ==
  /\ \A r, s \in ProviderThreads : call[r] # NoCall /\ call[s] # NoCall => r = s
  /\ \A r \in ProviderThreads : Fits(call[r], providers, defaults)
  /\ Even \/ \E r \in ProviderThreads : call[r].op \in {"heir", "promote"}

\* Nobody wants an image provider that is about to go, but who was configured since.
GoingUnwanted ==
  table = "image" =>
    \A r \in ProviderThreads, a \in ProviderAgents \ lateWant :
      call[r].op = "delete" => wanted[a] # call[r].id

ProviderInv ==
  /\ ProvidersTypeOK /\ DOMAIN call = ProviderThreads /\ overlapped \in BOOLEAN
  /\ ~overlapped => InTurn
  /\ GoingUnwanted /\ ConfiguredProviderExists

-----------------------------------------------------------------------------
(* Providers: the steps *)

LEMMA MinOfIds ==
  ASSUME NEW S \in SUBSET ProviderIds, S # {}
  PROVE  Min(S) \in S
<1>1. PICK n \in S : \A m \in S : n <= m
  BY LeastOfNat, ProvidersAssumption DEF ProviderIds
<1> QED
  BY <1>1 DEF Min

LEMMA MaxOfIds ==
  ASSUME NEW S \in SUBSET ProviderIds
  PROVE  Max(S \cup {0}) \in 0..MaxProviders /\ \A n \in S : n <= Max(S \cup {0})
<1> DEFINE T == {n \in 0..MaxProviders : MaxProviders - n \in S \cup {0}}
<1>1. T \in SUBSET Nat /\ MaxProviders \in T
  BY ProvidersAssumption
<1>2. PICK t \in T : \A m \in T : t <= m
  BY <1>1, LeastOfNat
<1> DEFINE x == MaxProviders - t
<1>3. x \in S \cup {0} /\ x \in 0..MaxProviders
  BY <1>2, ProvidersAssumption
<1>4. ASSUME NEW n \in S \cup {0} PROVE n <= x
  <2>1. n \in 0..MaxProviders
    BY ProvidersAssumption DEF ProviderIds
  <2>2. MaxProviders - n \in T
    BY <2>1, ProvidersAssumption
  <2> QED
    BY <1>2, <2>1, <2>2, ProvidersAssumption
<1>5. Max(S \cup {0}) \in S \cup {0} /\ \A n \in S \cup {0} : Max(S \cup {0}) >= n
  <2> HIDE DEF x
  <2>1. \E y \in S \cup {0} : \A n \in S \cup {0} : y >= n
    <3>1. S \cup {0} \subseteq Nat
      BY ProvidersAssumption DEF ProviderIds
    <3> QED
      BY <1>3, <1>4, <3>1
  <2> QED
    BY <2>1 DEF Max
<1> HIDE DEF T, x
<1>6. S \cup {0} \subseteq 0..MaxProviders
  BY ProvidersAssumption DEF ProviderIds
<1>7. Max(S \cup {0}) \in 0..MaxProviders
  BY <1>5, <1>6
<1>8. ASSUME NEW n \in S PROVE n <= Max(S \cup {0})
  BY <1>5, <1>6, <1>7, ProvidersAssumption
<1> QED
  BY <1>7, <1>8

\* The first step of a request changes nothing in the tables; what it has read fits.
LEMMA BeginStep ==
  ASSUME ProviderInv, NEW r \in ProviderThreads, NEW c, Begin(r, c),
         InTurn /\ Even => Fits(c, providers, defaults),
         c.op \notin {"heir", "promote"} \/ defaults = {},
         table = "image" /\ c.op = "delete" => \A a \in ProviderAgents : wanted[a] # c.id,
         c.op \in {"heir", "promote"} => providers # {}
  PROVE  ProviderInv'
<1>t. /\ call[r] = NoCall /\ call' = [call EXCEPT ![r] = c]
      /\ overlapped' = (overlapped \/ \E s \in ProviderThreads : call[s] # NoCall)
      /\ UNCHANGED <<table, providers, defaults, model, wanted, lateWant>>
      /\ DOMAIN call = ProviderThreads
  BY DEF Begin, providerRows, ProviderInv
<1>1. /\ DOMAIN call' = ProviderThreads /\ call'[r] = c
      /\ \A s \in ProviderThreads \ {r} : call'[s] = call[s]
  BY <1>t
<1>2. overlapped' \in BOOLEAN /\ ProvidersTypeOK' /\ ConfiguredProviderExists'
  BY <1>t DEF ProviderInv, ProvidersTypeOK, ConfiguredProviderExists
<1>3. GoingUnwanted'
  BY <1>t, <1>1 DEF ProviderInv, GoingUnwanted
<1>4. ASSUME ~overlapped' PROVE InTurn'
  <2>1. /\ \A s \in ProviderThreads : call[s] = NoCall
        /\ InTurn
    BY <1>t, <1>4 DEF ProviderInv
  <2>2. Even
    BY <2>1 DEF InTurn, NoCall
  <2>3. c.op \notin {"heir", "promote"}
    BY <2>2 DEF Even
  <2>4. Even' /\ Fits(c, providers', defaults') /\ Fits(NoCall, providers', defaults')
    BY <1>t, <2>1, <2>2 DEF Even, Fits, Seen, NoCall
  <2> QED
    BY <1>1, <2>1, <2>4 DEF InTurn
<1> QED
  BY <1>1, <1>2, <1>3, <1>4 DEF ProviderInv

LEMMA BeginSteps ==
  ASSUME ProviderInv, NEW r \in ProviderThreads,
         \/ \E mark \in BOOLEAN : CreateProvider(r, mark)
         \/ \E i \in ProviderIds : \/ SetDefault(r, i) \/ UnsetDefault(r, i)
                                   \/ DeleteProvider(r, i) \/ FetchModels(r, i)
         \/ HealDefault(r)
  PROVE  ProviderInv'
<1>1. ASSUME NEW mark \in BOOLEAN, CreateProvider(r, mark) PROVE ProviderInv'
  <2> DEFINE c == [op |-> "create", mark |-> mark \/ providers = {},
                   clear |-> mark /\ providers # {}]
  <2>1. Begin(r, c) /\ c.op = "create"
    BY <1>1 DEF CreateProvider
  <2>2. Fits(c, providers, defaults)
    BY DEF Fits
  <2> HIDE DEF c
  <2> QED
    BY <2>1, <2>2, BeginStep
<1>2. ASSUME NEW i \in ProviderIds, SetDefault(r, i) PROVE ProviderInv'
  <2> DEFINE c == [op |-> "mark", id |-> i, seen |-> Seen]
  <2>1. Begin(r, c) /\ c.op = "mark" /\ Fits(c, providers, defaults)
    BY <1>2 DEF SetDefault, Fits, Seen
  <2> HIDE DEF c
  <2> QED
    BY <2>1, BeginStep
<1>3. ASSUME NEW i \in ProviderIds, UnsetDefault(r, i) PROVE ProviderInv'
  <2> DEFINE c == [op |-> "unmark", id |-> i, seen |-> Seen]
  <2>1. Begin(r, c) /\ c.op = "unmark" /\ Fits(c, providers, defaults)
    BY <1>3 DEF UnsetDefault, Fits, Seen
  <2> HIDE DEF c
  <2> QED
    BY <2>1, BeginStep
<1>4. ASSUME NEW i \in ProviderIds, DeleteProvider(r, i) PROVE ProviderInv'
  <2> DEFINE c == [op |-> "delete", id |-> i, was |-> i \in defaults]
  <2>1. Begin(r, c) /\ c.op = "delete" /\ c.id = i /\ Fits(c, providers, defaults)
    BY <1>4 DEF DeleteProvider, Fits
  <2>2. table = "image" => \A a \in ProviderAgents : wanted[a] # i
    BY <1>4 DEF DeleteProvider, Deletable
  <2> HIDE DEF c
  <2> QED
    BY <2>1, <2>2, BeginStep
<1>5. ASSUME NEW i \in ProviderIds, FetchModels(r, i) PROVE ProviderInv'
  <2> DEFINE c == [op |-> "fetch", id |-> i]
  <2>1. Begin(r, c) /\ c.op = "fetch" /\ Fits(c, providers, defaults)
    BY <1>5 DEF FetchModels, Fits
  <2> HIDE DEF c
  <2> QED
    BY <2>1, BeginStep
<1>6. ASSUME HealDefault(r) PROVE ProviderInv'
  <2> DEFINE c == [op |-> "promote", id |-> Min(providers)]
  <2>1. Begin(r, c) /\ c.op = "promote" /\ providers # {} /\ defaults = {}
    BY <1>6 DEF HealDefault
  <2>2. Fits(c, providers, defaults)
    <3>1. Min(providers) \in providers
      BY <2>1, MinOfIds DEF ProviderInv, ProvidersTypeOK
    <3> QED
      BY <2>1, <3>1 DEF Fits
  <2> HIDE DEF c
  <2> QED
    BY <2>1, <2>2, BeginStep
<1> QED
  BY <1>1, <1>2, <1>3, <1>4, <1>5, <1>6

\* A commit of the request of r, which goes on as c.
LEMMA CommitStep ==
  ASSUME ProviderInv, NEW r \in ProviderThreads, NEW c, Advance(r, c), Settled,
         call[r] # NoCall, ProvidersTypeOK', ConfiguredProviderExists', c.op # "delete",
         InTurn => Fits(c, providers', defaults') /\ (Even' \/ c.op \in {"heir", "promote"})
  PROVE  ProviderInv'
<1>t. /\ call' = [call EXCEPT ![r] = c] /\ DOMAIN call = ProviderThreads
      /\ UNCHANGED <<table, wanted, calls, overlapped, lateWant>>
  BY DEF Advance, Settled, ProviderInv
<1>1. /\ DOMAIN call' = ProviderThreads /\ call'[r] = c
      /\ \A s \in ProviderThreads \ {r} : call'[s] = call[s]
  BY <1>t
<1>2. GoingUnwanted'
  BY <1>t, <1>1 DEF ProviderInv, GoingUnwanted
<1>3. ASSUME ~overlapped' PROVE InTurn'
  <2>1. InTurn
    BY <1>t, <1>3 DEF ProviderInv
  <2>2. \A s \in ProviderThreads \ {r} : call'[s] = NoCall
    BY <1>1, <2>1 DEF InTurn
  <2>3. Fits(NoCall, providers', defaults')
    BY DEF Fits, NoCall
  <2> QED
    BY <1>1, <2>1, <2>2, <2>3 DEF InTurn
<1> QED
  BY <1>t, <1>1, <1>2, <1>3 DEF ProviderInv

\* While one is under way, there is one default but in the midst of a delete.
LEMMA EvenBefore ==
  ASSUME InTurn, NEW r \in ProviderThreads, call[r] # NoCall,
         call[r].op \notin {"heir", "promote"}
  PROVE  Even
<1>1. \A s \in ProviderThreads : s = r \/ call[s] = NoCall
  BY DEF InTurn
<1>2. \A s \in ProviderThreads : call[s].op \notin {"heir", "promote"}
  BY <1>1 DEF NoCall
<1> QED
  BY <1>2 DEF InTurn

LEMMA CreateCommit ==
  ASSUME ProviderInv, NEW r \in ProviderThreads, CommitCreate(r)
  PROVE  ProviderInv'
<1> DEFINE c == call[r]
           i == Max(providers \cup {0}) + 1
           next == IF table = "llm" THEN [op |-> "fetch", id |-> i] ELSE NoCall
<1>1. /\ c.op = "create" /\ i <= MaxProviders /\ providers' = providers \cup {i}
      /\ defaults' = (IF Cleared(c) THEN {} ELSE defaults) \cup (IF c.mark THEN {i} ELSE {})
      /\ model' = [model EXCEPT ![i] = ""] /\ Advance(r, next) /\ Settled
  BY DEF CommitCreate
<1>2. i \in ProviderIds
  <2>1. providers \in SUBSET ProviderIds
    BY DEF ProviderInv, ProvidersTypeOK
  <2>2. Max(providers \cup {0}) \in 0..MaxProviders
    BY <2>1, MaxOfIds
  <2>3. i <= MaxProviders
    BY <1>1
  <2> QED
    BY <2>2, <2>3, ProvidersAssumption DEF ProviderIds
<1> HIDE DEF i
<1>3. c # NoCall /\ next.op \in {"fetch", "none"}
  <2>1. c # NoCall
    <3>1. c.op = "create"
      BY <1>1
    <3> QED
      BY <3>1 DEF NoCall
  <2>2. next.op \in {"fetch", "none"}
    BY DEF NoCall
  <2> QED
    BY <2>1, <2>2
<1> HIDE DEF next
<1>4. ProvidersTypeOK' /\ ConfiguredProviderExists'
  BY <1>1, <1>2 DEF ProviderInv, ProvidersTypeOK, ConfiguredProviderExists, Settled
<1>5. InTurn => Even'
  <2> SUFFICES ASSUME InTurn PROVE Even'
    OBVIOUS
  <2>1. Even
    BY <1>1, <1>3, EvenBefore
  <2>2. /\ providers = {} => c.mark
        /\ c.clear <=> c.mark /\ providers # {}
    BY <1>1 DEF InTurn, Fits
  <2>3. CASE c.mark
    <3>1. defaults' = {i}
      BY <1>1, <2>1, <2>2, <2>3 DEF Even, Cleared
    <3> QED
      BY <1>1, <3>1 DEF Even
  <2>4. CASE ~c.mark
    <3>1. defaults' = defaults
      BY <1>1, <2>2, <2>4 DEF Cleared
    <3> QED
      BY <1>1, <2>1, <2>2, <2>4, <3>1 DEF Even
  <2> QED
    BY <2>3, <2>4
<1>6. Fits(next, providers', defaults')
  BY <1>3 DEF Fits
<1> QED
  BY <1>1, <1>3, <1>4, <1>5, <1>6, CommitStep

LEMMA MarkCommit ==
  ASSUME ProviderInv, NEW r \in ProviderThreads, CommitMark(r)
  PROVE  ProviderInv'
<1> DEFINE c == call[r]
           off == c.seen.on \ {c.id}
           on == (c.seen.at \cap {c.id}) \ c.seen.on
<1>1. /\ c.op = "mark" /\ off \cup on \subseteq providers
      /\ defaults' = (defaults \ off) \cup on /\ Advance(r, NoCall)
      /\ UNCHANGED <<providers, model>> /\ Settled
  BY DEF CommitMark, Done
<1>2. c # NoCall /\ NoCall.op = "none" /\ Fits(NoCall, providers', defaults')
  BY <1>1 DEF NoCall, Fits
<1>3. ProvidersTypeOK' /\ ConfiguredProviderExists'
  BY <1>1 DEF ProviderInv, ProvidersTypeOK, ConfiguredProviderExists, Settled
<1>4. InTurn => Even'
  <2> SUFFICES ASSUME InTurn PROVE Even'
    OBVIOUS
  <2>1. Even
    BY <1>1, <1>2, EvenBefore
  <2>2. c.id \in providers /\ c.seen.at = providers /\ c.seen.on = defaults
    BY <1>1 DEF InTurn, Fits, Seen
  <2>3. defaults' = {c.id}
    BY <1>1, <2>1, <2>2 DEF Even
  <2> QED
    BY <1>1, <2>2, <2>3 DEF Even
<1> QED
  BY <1>1, <1>2, <1>3, <1>4, CommitStep

LEMMA UnmarkCommit ==
  ASSUME ProviderInv, NEW r \in ProviderThreads, CommitUnmark(r)
  PROVE  ProviderInv'
<1> DEFINE c == call[r]
           had == c.seen.on \cap {c.id}
           heir == Heir(c.id, IF had # {} THEN Seen ELSE c.seen)
<1>1. /\ c.op = "unmark" /\ {c.id} \cup heir \subseteq providers
      /\ defaults' = IF c.seen.at = {c.id} THEN defaults \cup ({c.id} \ had)
                     ELSE (defaults \ had) \cup heir
      /\ Advance(r, NoCall) /\ UNCHANGED <<providers, model>> /\ Settled
  BY DEF CommitUnmark, Done
<1>2. c # NoCall /\ NoCall.op = "none" /\ Fits(NoCall, providers', defaults')
  BY <1>1 DEF NoCall, Fits
<1>3. ProvidersTypeOK' /\ ConfiguredProviderExists'
  <2> HIDE DEF heir, had
  <2> QED
    BY <1>1 DEF ProviderInv, ProvidersTypeOK, ConfiguredProviderExists, Settled
<1>4. InTurn => Even'
  <2> SUFFICES ASSUME InTurn PROVE Even'
    OBVIOUS
  <2>1. Even
    BY <1>1, <1>2, EvenBefore
  <2>2. c.id \in providers /\ c.seen = Seen /\ Seen.at = providers /\ Seen.on = defaults
    BY <1>1 DEF InTurn, Fits, Seen
  <2>3. heir = IF defaults \subseteq {c.id} /\ providers \ {c.id} # {}
               THEN {Min(providers \ {c.id})} ELSE {}
    BY <2>2 DEF Heir
  <2>4. had = defaults \cap {c.id}
    BY <2>2
  <2> HIDE DEF heir, had
  <2>5. PICK d \in providers : defaults = {d}
    BY <2>1, <2>2 DEF Even
  <2>6. CASE providers = {c.id}
    <3>1. defaults' = {c.id}
      BY <1>1, <2>2, <2>4, <2>5, <2>6
    <3> QED
      BY <1>1, <2>2, <3>1 DEF Even
  <2>7. CASE providers # {c.id} /\ d = c.id
    <3>1. providers \ {c.id} # {}
      BY <2>2, <2>7
    <3>2. Min(providers \ {c.id}) \in providers \ {c.id}
      BY <3>1, MinOfIds DEF ProviderInv, ProvidersTypeOK
    <3>3. defaults' = {Min(providers \ {c.id})}
      BY <1>1, <2>2, <2>3, <2>4, <2>5, <2>7, <3>1
    <3> QED
      BY <1>1, <3>2, <3>3 DEF Even
  <2>8. CASE providers # {c.id} /\ d # c.id
    <3>1. defaults' = {d}
      BY <1>1, <2>2, <2>3, <2>4, <2>5, <2>8
    <3> QED
      BY <1>1, <2>5, <3>1 DEF Even
  <2> QED
    BY <2>6, <2>7, <2>8
<1> QED
  BY <1>1, <1>2, <1>3, <1>4, CommitStep

\* The other agents do not want the row that goes; its default is handed on next.
LEMMA DeleteCommits ==
  ASSUME ProviderInv, NEW r \in ProviderThreads,
         CommitDelete(r) \/ FindHeir(r) \/ CommitPromote(r)
  PROVE  ProviderInv'
<1>1. CASE CommitDelete(r)
  <2> DEFINE c == call[r]
             next == IF c.was THEN [op |-> "heir"] ELSE NoCall
  <2>1. /\ c.op = "delete" /\ providers' = providers \ {c.id}
        /\ defaults' = defaults \ {c.id} /\ Advance(r, next) /\ UNCHANGED model /\ Settled
    BY <1>1 DEF CommitDelete
  <2>2. c # NoCall /\ next.op \notin {"delete", "create", "mark", "unmark", "promote"}
    BY <2>1 DEF NoCall
  <2>3. next.op = "heir" <=> c.was
    BY DEF NoCall
  <2> HIDE DEF next
  <2>4. ProvidersTypeOK'
    BY <2>1 DEF ProviderInv, ProvidersTypeOK, Settled
  <2>5. ConfiguredProviderExists'
    BY <2>1 DEF ProviderInv, ConfiguredProviderExists, GoingUnwanted, Settled
  <2>6. InTurn => Fits(next, providers', defaults') /\ (Even' \/ next.op \in {"heir", "promote"})
    <3> SUFFICES ASSUME InTurn
                 PROVE  Fits(next, providers', defaults') /\ (Even' \/ next.op \in {"heir", "promote"})
      OBVIOUS
    <3>1. Even /\ (c.was <=> c.id \in defaults)
      BY <2>1, <2>2, EvenBefore DEF InTurn, Fits
    <3>2. CASE c.was
      <4>1. defaults' = {}
        BY <2>1, <3>1, <3>2 DEF Even
      <4> QED
        BY <2>2, <2>3, <3>2, <4>1 DEF Fits
    <3>3. CASE ~c.was
      <4>1. defaults' = defaults /\ Even'
        BY <2>1, <3>1, <3>3 DEF Even
      <4> QED
        BY <2>2, <2>3, <3>3, <4>1 DEF Fits
    <3> QED
      BY <3>2, <3>3
  <2> QED
    BY <2>1, <2>2, <2>4, <2>5, <2>6, CommitStep
<1>2. CASE FindHeir(r)
  <2> DEFINE next == IF providers = {} THEN NoCall
                     ELSE [op |-> "promote", id |-> Min(providers)]
  <2>1. /\ call[r].op = "heir" /\ Advance(r, next)
        /\ UNCHANGED <<providers, defaults, model>> /\ Settled
    BY <1>2 DEF FindHeir
  <2>2. call[r] # NoCall /\ next.op \notin {"delete", "create", "mark", "unmark", "heir"}
    BY <2>1 DEF NoCall
  <2>3. IF providers = {} THEN next = NoCall
        ELSE next.op = "promote" /\ next.id \in providers
    BY MinOfIds DEF ProviderInv, ProvidersTypeOK
  <2> HIDE DEF next
  <2>4. ProvidersTypeOK' /\ ConfiguredProviderExists'
    BY <2>1 DEF ProviderInv, ProvidersTypeOK, ConfiguredProviderExists, Settled
  <2>5. InTurn => Fits(next, providers', defaults') /\ (Even' \/ next.op \in {"heir", "promote"})
    <3> SUFFICES ASSUME InTurn
                 PROVE  Fits(next, providers', defaults') /\ (Even' \/ next.op \in {"heir", "promote"})
      OBVIOUS
    <3>1. defaults = {}
      BY <2>1 DEF InTurn, Fits
    <3>2. CASE providers = {}
      BY <2>1, <2>3, <3>1, <3>2 DEF Even, Fits, NoCall
    <3>3. CASE providers # {}
      BY <2>1, <2>3, <3>1, <3>3 DEF Fits
    <3> QED
      BY <3>2, <3>3
  <2> QED
    BY <2>1, <2>2, <2>4, <2>5, CommitStep
<1>3. CASE CommitPromote(r)
  <2>1. /\ call[r].op = "promote" /\ call[r].id \in providers
        /\ defaults' = defaults \cup {call[r].id} /\ Advance(r, NoCall)
        /\ UNCHANGED <<providers, model>> /\ Settled
    BY <1>3 DEF CommitPromote, Done
  <2>2. call[r] # NoCall /\ NoCall.op = "none" /\ Fits(NoCall, providers', defaults')
    BY <2>1 DEF NoCall, Fits
  <2>3. ProvidersTypeOK' /\ ConfiguredProviderExists'
    BY <2>1 DEF ProviderInv, ProvidersTypeOK, ConfiguredProviderExists, Settled
  <2>4. InTurn => Even'
    <3> SUFFICES ASSUME InTurn PROVE Even'
      OBVIOUS
    <3>1. defaults = {}
      BY <2>1 DEF InTurn, Fits
    <3> QED
      BY <2>1, <3>1 DEF Even
  <2> QED
    BY <2>1, <2>2, <2>3, <2>4, CommitStep
<1> QED
  BY <1>1, <1>2, <1>3

\* An answer of the endpoint, a failure, and the single transactions.
LEMMA OtherSteps ==
  ASSUME ProviderInv,
         \/ \E r \in ProviderThreads : ModelsFetched(r) \/ CallFails(r)
         \/ \E i \in ProviderIds : ChooseModel(i)
         \/ \E a \in ProviderAgents, i \in ProviderIds \cup {0} : ConfigureAgent(a, i)
  PROVE  ProviderInv'
<1>1. ASSUME NEW r \in ProviderThreads, ModelsFetched(r) PROVE ProviderInv'
  <2>1. /\ call[r].op = "fetch" /\ call[r].id \in providers
        /\ model' = [model EXCEPT ![call[r].id] = Fill(call[r].id)] /\ Advance(r, NoCall)
        /\ UNCHANGED <<providers, defaults>> /\ Settled
    BY <1>1 DEF ModelsFetched, Done
  <2>2. call[r] # NoCall /\ NoCall.op = "none" /\ Fits(NoCall, providers', defaults')
    BY <2>1 DEF NoCall, Fits
  <2>3. ProvidersTypeOK' /\ ConfiguredProviderExists'
    <3>1. Fill(call[r].id) \in {"", "fetched", "chosen"}
      BY <2>1 DEF Fill, ProviderInv, ProvidersTypeOK
    <3> QED
      BY <2>1, <3>1 DEF ProviderInv, ProvidersTypeOK, ConfiguredProviderExists, Settled
  <2>4. InTurn => Even'
    <3> SUFFICES ASSUME InTurn PROVE Even'
      OBVIOUS
    <3>1. Even
      BY <2>1, <2>2, EvenBefore
    <3> QED
      BY <2>1, <3>1 DEF Even
  <2> QED
    BY <2>1, <2>2, <2>3, <2>4, CommitStep
<1>2. ASSUME NEW r \in ProviderThreads, CallFails(r) PROVE ProviderInv'
  <2>1. /\ call[r] # NoCall /\ call' = [call EXCEPT ![r] = NoCall]
        /\ overlapped' = (overlapped \/ call[r].op \in {"heir", "promote"})
        /\ UNCHANGED <<table, providers, defaults, model, wanted, lateWant>>
    BY <1>2 DEF CallFails, Done, Advance, providerRows
  <2>2. /\ DOMAIN call' = ProviderThreads /\ call'[r] = NoCall
        /\ \A s \in ProviderThreads \ {r} : call'[s] = call[s]
    BY <2>1 DEF ProviderInv
  <2>3. ProvidersTypeOK' /\ ConfiguredProviderExists' /\ overlapped' \in BOOLEAN
    BY <2>1 DEF ProviderInv, ProvidersTypeOK, ConfiguredProviderExists
  <2>4. GoingUnwanted'
    BY <2>1, <2>2 DEF ProviderInv, GoingUnwanted, NoCall
  <2>5. ASSUME ~overlapped' PROVE InTurn'
    <3>1. InTurn /\ call[r].op \notin {"heir", "promote"}
      BY <2>1, <2>5 DEF ProviderInv
    <3>2. Even
      BY <2>1, <3>1, EvenBefore
    <3>3. Even' /\ Fits(NoCall, providers', defaults')
      BY <2>1, <3>2 DEF Even, Fits, NoCall
    <3>4. \A s \in ProviderThreads : call'[s] = NoCall
      BY <2>1, <2>2, <3>1 DEF InTurn
    <3> QED
      BY <3>3, <3>4 DEF InTurn
  <2> QED
    BY <2>2, <2>3, <2>4, <2>5 DEF ProviderInv
<1>3. ASSUME NEW i \in ProviderIds, ChooseModel(i) PROVE ProviderInv'
  <2>1. /\ i \in providers /\ model' = [model EXCEPT ![i] = "chosen"]
        /\ UNCHANGED <<table, providers, defaults, wanted, call, overlapped, lateWant>>
    BY <1>3 DEF ChooseModel
  <2>2. ProvidersTypeOK' /\ ConfiguredProviderExists' /\ GoingUnwanted'
    BY <2>1 DEF ProviderInv, ProvidersTypeOK, ConfiguredProviderExists, GoingUnwanted
  <2>3. InTurn => InTurn'
    BY <2>1 DEF InTurn, Fits, Even, Seen
  <2> QED
    BY <2>1, <2>2, <2>3 DEF ProviderInv
<1>4. ASSUME NEW a \in ProviderAgents, NEW i \in ProviderIds \cup {0}, ConfigureAgent(a, i)
      PROVE  ProviderInv'
  <2>1. /\ i \in providers \cup {0} /\ wanted' = [wanted EXCEPT ![a] = i]
        /\ lateWant' = (IF \E r \in ProviderThreads :
                             call[r].op = "delete" /\ call[r].id = i
                        THEN lateWant \cup {a} ELSE lateWant \ {a})
        /\ UNCHANGED <<table, providers, defaults, model, call, overlapped>>
    BY <1>4 DEF ConfigureAgent, providerRows
  <2>2. /\ wanted' \in [ProviderAgents -> ProviderIds \cup {0}] /\ wanted'[a] = i
        /\ \A b \in ProviderAgents \ {a} : wanted'[b] = wanted[b]
    BY <2>1 DEF ProviderInv, ProvidersTypeOK
  <2>3. \A b \in ProviderAgents \ lateWant' :
          b = a \/ (b \in ProviderAgents \ lateWant /\ wanted'[b] = wanted[b])
    BY <2>1, <2>2
  <2>4. ProvidersTypeOK' /\ ConfiguredProviderExists'
    BY <2>1, <2>2, <2>3 DEF ProviderInv, ProvidersTypeOK, ConfiguredProviderExists
  <2>5. GoingUnwanted'
    <3>1. a \notin lateWant' =>
            \A r \in ProviderThreads : call[r].op = "delete" => call[r].id # i
      BY <2>1
    <3> QED
      BY <2>1, <2>2, <2>3, <3>1 DEF ProviderInv, GoingUnwanted
  <2>6. InTurn => InTurn'
    BY <2>1 DEF InTurn, Fits, Even, Seen
  <2> QED
    BY <2>1, <2>4, <2>5, <2>6 DEF ProviderInv
<1> QED
  BY <1>1, <1>2, <1>3, <1>4

LEMMA ProviderStep ==
  ASSUME ProviderInv, [ProvidersNext]_providerVars
  PROVE  ProviderInv'
<1>1. CASE UNCHANGED providerVars
  <2>1. ProvidersTypeOK' /\ DOMAIN call' = ProviderThreads /\ overlapped' \in BOOLEAN
    BY <1>1 DEF providerVars, ProviderInv, ProvidersTypeOK
  <2>2. InTurn => InTurn'
    BY <1>1 DEF providerVars, InTurn, Fits, Even
  <2>3. GoingUnwanted' /\ ConfiguredProviderExists'
    BY <1>1 DEF providerVars, ProviderInv, GoingUnwanted, ConfiguredProviderExists
  <2> QED
    BY <1>1, <2>1, <2>2, <2>3 DEF providerVars, ProviderInv
<1> QED
  BY <1>1, BeginSteps, CreateCommit, MarkCommit, UnmarkCommit, DeleteCommits, OtherSteps
     DEF ProvidersNext

LEMMA ProviderStart ==
  ASSUME ProvidersInit({"llm", "image"})
  PROVE  ProviderInv
BY DEF ProvidersInit, ProviderInv, ProvidersTypeOK, InTurn, Fits, Even, NoCall,
       GoingUnwanted, ConfiguredProviderExists

-----------------------------------------------------------------------------
(* Providers: the theorem *)

\* In either table, whatever the requests and however many: those that come one after
\* another leave exactly one default, and an agent's image provider exists unless the
\* agent was configured while that provider was being deleted.
THEOREM ProvidersStaySound == ProvidersSpec => [](ProvidersTypeOK /\ ProvidersSound)
<1>1. ProviderInv => ProvidersTypeOK /\ ProvidersSound
  <2> SUFFICES ASSUME ProviderInv PROVE OneDefault
    BY DEF ProviderInv, ProvidersSound
  <2> SUFFICES ASSUME ~overlapped, \A r \in ProviderThreads : call[r] = NoCall,
                      providers # {}
               PROVE  Cardinality(defaults) = 1
    BY DEF OneDefault
  <2>1. PICK d \in providers : defaults = {d}
    BY DEF ProviderInv, InTurn, Even, NoCall
  <2> QED
    BY <2>1, FS_Singleton
<1> QED
  BY <1>1, ProviderStart, ProviderStep, PTL DEF ProvidersSpec

-----------------------------------------------------------------------------
(* Websites: the invariant *)

\* The steps of a call: before a row is there, and from the row on.
Calling == {"idle", "generating", "addressing", "storing", "renaming", "stored", "failed"}
Posted == {"posted", "rendered", "done", "died"}
Whole(doc) == Valid(doc) /\ doc.finish # "length"

\* The calls, the tables and the directories.
SiteShape ==
  site \in [Writers -> [step : Calling \cup Posted, doc : Documents \cup {NoDocument},
                        host : {h.host : h \in Hints} \cup {"none", Rejected},
                        billed : BOOLEAN]]
TablesShape ==
  /\ addressOf = [w \in Writers |-> addressOf[w]]
  /\ siteRows \subseteq Writers /\ tmpDir \subseteq Writers /\ shots \subseteq Writers

\* What a call holds at each of its steps: a document from its receipt to its file, the
\* bill from the receipt on, a file in tmp/ between writing and renaming.
CallsHold ==
  \A w \in Writers :
    /\ site[w].step \in {"addressing", "storing", "renaming", "stored"} =>
         site[w].doc \in Documents /\ Whole(site[w].doc)
    /\ site[w].step \notin {"idle", "generating", "died"} => site[w].billed
    /\ w \in tmpDir => site[w].step \in {"renaming", "died"}
    /\ w \in siteRows => site[w].step \in Posted

\* A file in pages/ bears the name that its writer drew, and holds a whole document.
FilesNamed ==
  \A f \in pagesDir : f.by \in Writers /\ f.name = FileOf(f.by)
                        /\ f.doc \in Documents /\ Whole(f.doc)

\* A call that has stored its page, or posted it, finds it there, or a sweep took it that
\* had read the rows before.
PagesKept ==
  \A w \in Writers :
    site[w].step = "stored" \/ w \in siteRows =>
      (\E f \in pagesDir : f.by = w) \/ w \in sweptUnseen

\* A delete under way knows the file of its post, and the screenshot unless it came late.
Deleting ==
  \A r \in removing :
    /\ r.of \in Writers /\ r.file = FileOf(r.of) /\ site[r.of].step \in Posted
    /\ r.shot \in BOOLEAN
    /\ ~r.shot /\ r.of \in shots => r.of \in missed \/ site[r.of].step \in {"rendered", "died"}

\* A sweep has no file on its list that a row it read names; a reader has its row's file.
Sweeping == \A r \in sweep : r.scanned => \A w \in r.seen : FileOf(w) \notin r.orphans
Reading == \A r \in reader : r.file = FileOf(r.row)

WebsiteInv ==
  /\ SiteShape /\ TablesShape /\ CallsHold /\ FilesNamed /\ PagesKept /\ Deleting
  /\ Sweeping /\ Reading /\ ServedAsNamed /\ PagesAccounted /\ ShotsAccounted

\* Two writers never draw one name.
LEMMA NamesDiffer ==
  \A v, w : FileOf(v) = FileOf(w) => v = w
BY DEF FileOf

\* What Put and Closes do to the calls.
LEMMA PutStep ==
  ASSUME SiteShape, NEW w \in Writers, NEW step \in Calling \cup Posted, Put(w, step)
  PROVE  /\ SiteShape' /\ site'[w].step = step
         /\ site'[w].doc = site[w].doc /\ site'[w].billed = site[w].billed
         /\ \A v \in Writers \ {w} : site'[v] = site[v]
BY DEF SiteShape, Put, Calling, Posted

LEMMA ClosesStep ==
  ASSUME SiteShape, NEW w \in Writers, NEW step \in Calling \cup Posted, Closes(w, step)
  PROVE  /\ SiteShape' /\ site'[w].step = step /\ site'[w].billed
         /\ \A v \in Writers \ {w} : site'[v] = site[v]
BY DEF SiteShape, Closes, Calling, Posted, Proposal

-----------------------------------------------------------------------------
(* Websites: the steps of a call up to its row *)

\* A call that moves on before it has a row and holds no file of its own in pages/.
LEMMA CallMoves ==
  ASSUME WebsiteInv, NEW w \in Writers, SiteShape',
         site[w].step \notin Posted \cup {"stored"},
         site'[w].step \notin {"stored"},
         \A v \in Writers \ {w} : site'[v] = site[v],
         UNCHANGED <<siteRows, pagesDir, media, removing, sweepVars, reading>>
  PROVE  /\ FilesNamed' /\ PagesKept' /\ Deleting' /\ Sweeping' /\ Reading'
         /\ PagesAccounted' /\ ShotsAccounted'
<1>1. /\ w \notin siteRows /\ \A r \in removing : r.of # w
      /\ \A v \in Writers \ {w} : site'[v] = site[v]
      /\ UNCHANGED <<siteRows, pagesDir, shots, shotRows, missed, removing, sweep, sweptUnseen,
                     reader, shown>>
  BY DEF WebsiteInv, CallsHold, Deleting, media, sweepVars, reading
<1>2. FilesNamed' /\ Sweeping' /\ Reading'
  BY <1>1 DEF WebsiteInv, FilesNamed, Sweeping, Reading
<1>3. PagesKept'
  BY <1>1 DEF WebsiteInv, PagesKept
<1>4. Deleting'
  BY <1>1 DEF WebsiteInv, Deleting
<1>5. \A f \in pagesDir : f.by # w
  BY <1>1 DEF WebsiteInv, PagesAccounted, FilesNamed, Posted
<1>6. PagesAccounted'
  BY <1>1, <1>5 DEF WebsiteInv, PagesAccounted, FilesNamed
<1>7. w \notin shots \/ w \in shotRows \cup missed
  BY <1>1 DEF WebsiteInv, ShotsAccounted, Posted
<1>8. ShotsAccounted'
  BY <1>1, <1>7 DEF WebsiteInv, ShotsAccounted, TablesShape
<1> QED
  BY <1>2, <1>3, <1>4, <1>6, <1>8

LEMMA ProposeStep ==
  ASSUME WebsiteInv, NEW w \in Writers, Propose(w)
  PROVE  WebsiteInv'
<1>1. /\ site[w].step = "idle" /\ Put(w, "generating")
      /\ UNCHANGED <<siteRows, addressOf, pagesDir, tmpDir, media, removing, sweepVars,
                     reading, doings>>
  BY DEF Propose
<1>2. /\ SiteShape' /\ site'[w].step = "generating"
      /\ \A v \in Writers \ {w} : site'[v] = site[v]
  BY <1>1, PutStep DEF WebsiteInv, Calling
<1>3. /\ FilesNamed' /\ PagesKept' /\ Deleting' /\ Sweeping' /\ Reading'
      /\ PagesAccounted' /\ ShotsAccounted'
  BY <1>1, <1>2, CallMoves DEF Posted
<1>4. CallsHold'
  BY <1>1, <1>2 DEF WebsiteInv, CallsHold, Posted
<1>5. TablesShape' /\ ServedAsNamed'
  BY <1>1 DEF WebsiteInv, TablesShape, ServedAsNamed, media, reading
<1> QED
  BY <1>2, <1>3, <1>4, <1>5 DEF WebsiteInv

LEMMA ReceiveStep ==
  ASSUME WebsiteInv, NEW w \in Writers, NEW doc \in Documents, NEW h \in Hints,
         NEW late \in BOOLEAN, Receive(w, doc, h, late)
  PROVE  WebsiteInv'
<1>1. /\ site[w].step = "generating"
      /\ UNCHANGED <<siteRows, addressOf, pagesDir, tmpDir, media, removing, sweepVars,
                     reading, doings>>
  BY DEF Receive
<1>2. \/ Closes(w, "failed")
      \/ /\ Whole(doc)
         /\ site' = [site EXCEPT ![w] = [step |-> "addressing", doc |-> doc,
                                         host |-> NormalHost(h), billed |-> TRUE]]
  BY DEF Receive, FailsBilled, Whole
<1>3. NormalHost(h) \in {g.host : g \in Hints} \cup {"none", Rejected}
  BY DEF NormalHost
<1>4. /\ SiteShape' /\ site'[w].step \in {"failed", "addressing"} /\ site'[w].billed
      /\ site'[w].step = "addressing" => site'[w].doc = doc /\ Whole(doc)
      /\ \A v \in Writers \ {w} : site'[v] = site[v]
  <2>1. CASE Closes(w, "failed")
    BY <2>1, ClosesStep DEF WebsiteInv, Calling
  <2>2. CASE /\ Whole(doc)
             /\ site' = [site EXCEPT ![w] = [step |-> "addressing", doc |-> doc,
                                             host |-> NormalHost(h), billed |-> TRUE]]
    BY <1>3, <2>2 DEF WebsiteInv, SiteShape, Calling
  <2> QED
    BY <1>2, <2>1, <2>2
<1>5. /\ FilesNamed' /\ PagesKept' /\ Deleting' /\ Sweeping' /\ Reading'
      /\ PagesAccounted' /\ ShotsAccounted'
  BY <1>1, <1>4, CallMoves DEF Posted
<1>6. CallsHold'
  BY <1>1, <1>4 DEF WebsiteInv, CallsHold, Posted
<1>7. TablesShape' /\ ServedAsNamed'
  BY <1>1 DEF WebsiteInv, TablesShape, ServedAsNamed, media, reading
<1> QED
  BY <1>4, <1>5, <1>6, <1>7 DEF WebsiteInv

LEMMA AllocateStep ==
  ASSUME WebsiteInv, NEW w \in Writers, Allocate(w)
  PROVE  WebsiteInv'
<1>1. /\ site[w].step = "addressing"
      /\ UNCHANGED <<siteRows, pagesDir, tmpDir, media, removing, sweepVars, reading, doings>>
  BY DEF Allocate
<1>2. \/ Put(w, "storing") /\ \E p : addressOf' = [addressOf EXCEPT ![w] = p]
      \/ Closes(w, "failed") /\ UNCHANGED addressOf
  BY DEF Allocate, FailsBilled
<1>3. /\ SiteShape' /\ site'[w].step \in {"failed", "storing"}
      /\ site'[w].step = "storing" => site'[w].doc = site[w].doc
      /\ site'[w].billed
      /\ \A v \in Writers \ {w} : site'[v] = site[v]
  BY <1>1, <1>2, PutStep, ClosesStep DEF WebsiteInv, Calling, CallsHold
<1>4. /\ FilesNamed' /\ PagesKept' /\ Deleting' /\ Sweeping' /\ Reading'
      /\ PagesAccounted' /\ ShotsAccounted'
  BY <1>1, <1>3, CallMoves DEF Posted
<1>5. CallsHold'
  BY <1>1, <1>3 DEF WebsiteInv, CallsHold, Posted
<1>6. w \notin siteRows
  BY <1>1 DEF WebsiteInv, CallsHold, Posted
<1>7. TablesShape' /\ \A v \in Writers \ {w} : addressOf'[v] = addressOf[v]
  BY <1>1, <1>2 DEF WebsiteInv, TablesShape, media
<1>8. ServedAsNamed'
  BY <1>1, <1>6, <1>7 DEF WebsiteInv, TablesShape, ServedAsNamed, reading
<1> QED
  BY <1>3, <1>4, <1>5, <1>7, <1>8 DEF WebsiteInv

LEMMA WriteTemporaryStep ==
  ASSUME WebsiteInv, NEW w \in Writers, WriteTemporary(w)
  PROVE  WebsiteInv'
<1>1. /\ site[w].step = "storing"
      /\ UNCHANGED <<siteRows, addressOf, pagesDir, media, removing, sweepVars, reading, doings>>
  BY DEF WriteTemporary
<1>2. \/ Put(w, "renaming") /\ tmpDir' = tmpDir \cup {w}
      \/ Closes(w, "failed") /\ UNCHANGED tmpDir
  BY DEF WriteTemporary, FailsBilled
<1>3. /\ SiteShape' /\ site'[w].step \in {"failed", "renaming"}
      /\ site'[w].step = "renaming" => site'[w].doc = site[w].doc
      /\ site'[w].billed
      /\ \A v \in Writers \ {w} : site'[v] = site[v]
      /\ site'[w].step = "failed" => tmpDir' = tmpDir
  BY <1>1, <1>2, PutStep, ClosesStep DEF WebsiteInv, Calling, CallsHold
<1>4. /\ FilesNamed' /\ PagesKept' /\ Deleting' /\ Sweeping' /\ Reading'
      /\ PagesAccounted' /\ ShotsAccounted'
  BY <1>1, <1>3, CallMoves DEF Posted
<1>5. CallsHold'
  BY <1>1, <1>2, <1>3 DEF WebsiteInv, CallsHold, Posted
<1>6. TablesShape' /\ ServedAsNamed'
  BY <1>1, <1>2 DEF WebsiteInv, TablesShape, ServedAsNamed, media, reading
<1> QED
  BY <1>3, <1>4, <1>5, <1>6 DEF WebsiteInv

\* The page comes into its place, or nowhere.
LEMMA ReplaceStep ==
  ASSUME WebsiteInv, NEW w \in Writers, Replace(w)
  PROVE  WebsiteInv'
<1>1. /\ site[w].step = "renaming" /\ tmpDir' = tmpDir \ {w}
      /\ UNCHANGED <<siteRows, addressOf, media, removing, sweepVars, reading, doings>>
  BY DEF Replace
<1>2. CASE Closes(w, "failed") /\ UNCHANGED pagesDir
  <2>1. /\ SiteShape' /\ site'[w].step = "failed" /\ site'[w].billed
        /\ \A v \in Writers \ {w} : site'[v] = site[v]
    BY <1>2, ClosesStep DEF WebsiteInv, Calling
  <2>2. /\ FilesNamed' /\ PagesKept' /\ Deleting' /\ Sweeping' /\ Reading'
        /\ PagesAccounted' /\ ShotsAccounted'
    BY <1>1, <1>2, <2>1, CallMoves DEF Posted
  <2>3. CallsHold'
    BY <1>1, <2>1 DEF WebsiteInv, CallsHold, Posted
  <2>4. TablesShape' /\ ServedAsNamed'
    BY <1>1 DEF WebsiteInv, TablesShape, ServedAsNamed, media, reading
  <2> QED
    BY <2>1, <2>2, <2>3, <2>4 DEF WebsiteInv
<1>3. CASE /\ pagesDir' = {f \in pagesDir : f.name # FileOf(w)}
                            \cup {[name |-> FileOf(w), by |-> w, doc |-> site[w].doc]}
           /\ Put(w, "stored")
  <2>1. /\ SiteShape' /\ site'[w].step = "stored" /\ site'[w].billed = site[w].billed
        /\ site'[w].doc = site[w].doc
        /\ \A v \in Writers \ {w} : site'[v] = site[v]
    BY <1>3, PutStep DEF WebsiteInv, Calling
  <2>2. /\ site[w].doc \in Documents /\ Whole(site[w].doc) /\ w \notin siteRows
        /\ site[w].billed /\ \A r \in removing : r.of # w
    BY <1>1 DEF WebsiteInv, CallsHold, Posted, Deleting
  <2>3. PICK g : /\ g.by = w /\ g.name = FileOf(w) /\ g.doc = site[w].doc
                 /\ pagesDir' = {f \in pagesDir : f.name # FileOf(w)} \cup {g}
    BY <1>3
  <2>4. \A f \in pagesDir : f.by # w => f \in pagesDir'
    BY <2>3, NamesDiffer DEF WebsiteInv, FilesNamed
  <2>5. \A f \in pagesDir' : f = g \/ (f \in pagesDir /\ f.by # w)
    BY <2>3 DEF WebsiteInv, FilesNamed
  <2>6. FilesNamed'
    BY <2>2, <2>3, <2>5 DEF WebsiteInv, FilesNamed
  <2>7. PagesKept'
    <3> SUFFICES ASSUME NEW v \in Writers, site'[v].step = "stored" \/ v \in siteRows'
                 PROVE  (\E f \in pagesDir' : f.by = v) \/ v \in sweptUnseen'
      BY DEF PagesKept
    <3>1. CASE v = w
      BY <2>3, <3>1
    <3>2. CASE v # w
      BY <1>1, <2>1, <2>4, <3>2 DEF WebsiteInv, PagesKept, sweepVars
    <3> QED
      BY <3>1, <3>2
  <2>8. Deleting' /\ Sweeping' /\ Reading'
    BY <1>1, <2>1, <2>2 DEF WebsiteInv, Deleting, Sweeping, Reading, media, sweepVars, reading
  <2>9. PagesAccounted'
    <3> SUFFICES ASSUME NEW f \in pagesDir'
                 PROVE  \/ f.by \in siteRows' \/ site'[f.by].step \in {"stored", "died"}
                        \/ \E r \in removing' : r.of = f.by
      BY DEF PagesAccounted
    <3>1. CASE f = g
      BY <2>1, <2>3, <3>1
    <3>2. CASE f \in pagesDir /\ f.by # w
      BY <1>1, <2>1, <3>2 DEF WebsiteInv, PagesAccounted, FilesNamed
    <3> QED
      BY <2>5, <3>1, <3>2
  <2>10. ShotsAccounted'
    BY <1>1, <2>1 DEF WebsiteInv, ShotsAccounted, TablesShape, media
  <2>11. CallsHold'
    BY <1>1, <2>1, <2>2 DEF WebsiteInv, CallsHold, Posted
  <2>12. TablesShape' /\ ServedAsNamed'
    BY <1>1 DEF WebsiteInv, TablesShape, ServedAsNamed, media, reading
  <2> QED
    BY <2>1, <2>6, <2>7, <2>8, <2>9, <2>10, <2>11, <2>12 DEF WebsiteInv
<1> QED
  BY <1>2, <1>3 DEF Replace, FailsBilled

\* The row goes in under an address nobody has, or the page goes.
LEMMA CommitSiteStep ==
  ASSUME WebsiteInv, NEW w \in Writers, CommitSite(w)
  PROVE  WebsiteInv'
<1>1. /\ site[w].step = "stored"
      /\ UNCHANGED <<addressOf, tmpDir, media, removing, sweepVars, reading, doings>>
  BY DEF CommitSite
<1>2. w \notin siteRows /\ w \notin tmpDir /\ site[w].billed /\ \A r \in removing : r.of # w
  BY <1>1 DEF WebsiteInv, CallsHold, Posted, Deleting
<1>3. CASE /\ ~IsTaken(addressOf[w]) /\ siteRows' = siteRows \cup {w}
           /\ Put(w, "posted") /\ UNCHANGED pagesDir
  <2>1. /\ SiteShape' /\ site'[w].step = "posted" /\ site'[w].billed = site[w].billed
        /\ \A v \in Writers \ {w} : site'[v] = site[v]
    BY <1>3, PutStep DEF WebsiteInv, Posted
  <2>2. FilesNamed' /\ Deleting' /\ Sweeping' /\ Reading'
    BY <1>1, <1>2, <1>3, <2>1 DEF WebsiteInv, FilesNamed, Deleting, Sweeping, Reading, media,
                                  sweepVars, reading
  <2>3. PagesKept'
    BY <1>1, <1>3, <2>1 DEF WebsiteInv, PagesKept, sweepVars
  <2>4. PagesAccounted'
    <3>1. \A f \in pagesDir : f.by = w \/ site'[f.by] = site[f.by]
      BY <2>1 DEF WebsiteInv, FilesNamed
    <3> QED
      BY <1>1, <1>3, <3>1 DEF WebsiteInv, PagesAccounted
  <2>5. ShotsAccounted'
    BY <1>1, <2>1 DEF WebsiteInv, ShotsAccounted, TablesShape, media
  <2>6. CallsHold'
    BY <1>1, <1>2, <1>3, <2>1 DEF WebsiteInv, CallsHold, Posted
  <2>7. TablesShape'
    BY <1>1, <1>3 DEF WebsiteInv, TablesShape, media
  <2>8. ServedAsNamed'
    BY <1>1, <1>3 DEF WebsiteInv, ServedAsNamed, IsTaken, reading
  <2> QED
    BY <2>1, <2>2, <2>3, <2>4, <2>5, <2>6, <2>7, <2>8 DEF WebsiteInv
<1>4. CASE /\ Closes(w, "failed") /\ pagesDir' = Cleaned(w) /\ UNCHANGED siteRows
  <2>1. /\ SiteShape' /\ site'[w].step = "failed" /\ site'[w].billed
        /\ \A v \in Writers \ {w} : site'[v] = site[v]
    BY <1>4, ClosesStep DEF WebsiteInv, Calling
  <2>2. /\ \A f \in pagesDir' : f \in pagesDir /\ f.by # w
        /\ \A f \in pagesDir : f.by # w => f \in pagesDir'
    BY <1>4, NamesDiffer DEF WebsiteInv, FilesNamed, Cleaned
  <2>3. FilesNamed' /\ Deleting' /\ Sweeping' /\ Reading'
    BY <1>1, <1>2, <2>1, <2>2 DEF WebsiteInv, FilesNamed, Deleting, Sweeping, Reading, media,
                                  sweepVars, reading
  <2>4. PagesKept'
    BY <1>1, <1>2, <1>4, <2>1, <2>2 DEF WebsiteInv, PagesKept, sweepVars
  <2>5. PagesAccounted'
    <3>1. \A f \in pagesDir' : f \in pagesDir /\ site'[f.by] = site[f.by]
      BY <2>1, <2>2 DEF WebsiteInv, FilesNamed
    <3> QED
      BY <1>1, <1>4, <3>1 DEF WebsiteInv, PagesAccounted
  <2>6. ShotsAccounted'
    BY <1>1, <2>1 DEF WebsiteInv, ShotsAccounted, TablesShape, media
  <2>7. CallsHold'
    BY <1>1, <1>2, <1>4, <2>1 DEF WebsiteInv, CallsHold, Posted
  <2>8. TablesShape' /\ ServedAsNamed'
    BY <1>1, <1>4 DEF WebsiteInv, TablesShape, ServedAsNamed, media, reading
  <2> QED
    BY <2>1, <2>3, <2>4, <2>5, <2>6, <2>7, <2>8 DEF WebsiteInv
<1> QED
  BY <1>3, <1>4 DEF CommitSite, FailsBilled

-----------------------------------------------------------------------------
(* Websites: the steps of a call from its row on *)

\* A call that is posted, and whose step changes to another of Posted.
LEMMA PostedMoves ==
  ASSUME WebsiteInv, NEW w \in Writers, SiteShape',
         site[w].step \in Posted \ {"died"}, site'[w].step \in Posted, site'[w].billed,
         \A v \in Writers \ {w} : site'[v] = site[v],
         UNCHANGED <<siteRows, addressOf, pagesDir, tmpDir, removing, sweepVars, reading>>
  PROVE  /\ CallsHold' /\ FilesNamed' /\ PagesKept' /\ Sweeping' /\ Reading'
         /\ ServedAsNamed' /\ PagesAccounted'
<1>1. UNCHANGED <<sweep, sweptUnseen, reader, shown>> /\ w \notin tmpDir
  BY DEF WebsiteInv, CallsHold, Posted, sweepVars, reading
<1>2. CallsHold'
  BY <1>1 DEF WebsiteInv, CallsHold, Posted
<1>3. FilesNamed' /\ Sweeping' /\ Reading' /\ ServedAsNamed'
  BY <1>1 DEF WebsiteInv, FilesNamed, Sweeping, Reading, ServedAsNamed
<1>4. PagesKept'
  BY <1>1 DEF WebsiteInv, PagesKept, Posted
<1>5. PagesAccounted'
  <2>1. \A f \in pagesDir : f.by = w \/ site'[f.by] = site[f.by]
    BY DEF WebsiteInv, FilesNamed
  <2>2. \A f \in pagesDir : f.by = w => w \in siteRows \/ \E r \in removing : r.of = w
    BY DEF WebsiteInv, PagesAccounted, Posted
  <2> QED
    BY <2>1, <2>2 DEF WebsiteInv, PagesAccounted
<1> QED
  BY <1>2, <1>3, <1>4, <1>5

LEMMA RenderStep ==
  ASSUME WebsiteInv, NEW w \in Writers, Render(w)
  PROVE  WebsiteInv'
<1>1. /\ site[w].step = "posted"
      /\ UNCHANGED <<siteRows, addressOf, pagesDir, tmpDir, shotRows, missed, removing,
                     sweepVars, reading, doings>>
  BY DEF Render
<1>2. \/ shots' = shots \cup {w} /\ Put(w, "rendered")
      \/ UNCHANGED shots /\ Closes(w, "done")
  BY DEF Render
<1>3. /\ SiteShape' /\ site'[w].step \in {"rendered", "done"} /\ site'[w].billed
      /\ \A v \in Writers \ {w} : site'[v] = site[v]
      /\ \/ shots' = shots \cup {w} /\ site'[w].step = "rendered"
         \/ shots' = shots
  BY <1>1, <1>2, PutStep, ClosesStep DEF WebsiteInv, Posted, CallsHold
<1>4. /\ CallsHold' /\ FilesNamed' /\ PagesKept' /\ Sweeping' /\ Reading'
      /\ ServedAsNamed' /\ PagesAccounted'
  BY <1>1, <1>3, PostedMoves DEF Posted
<1>5. TablesShape'
  BY <1>1, <1>3 DEF WebsiteInv, TablesShape
<1>6. Deleting'
  BY <1>1, <1>3 DEF WebsiteInv, Deleting, Posted
<1>7. ShotsAccounted'
  BY <1>1, <1>3 DEF WebsiteInv, ShotsAccounted, TablesShape
<1> QED
  BY <1>3, <1>4, <1>5, <1>6, <1>7 DEF WebsiteInv

LEMMA CommitScreenshotStep ==
  ASSUME WebsiteInv, NEW w \in Writers, CommitScreenshot(w)
  PROVE  WebsiteInv'
<1>1. /\ site[w].step = "rendered" /\ Closes(w, "done")
      /\ UNCHANGED <<siteRows, addressOf, pagesDir, tmpDir, removing, sweepVars, reading, doings>>
      /\ \/ /\ shotRows' = shotRows \cup {w} /\ shots' = shots
            /\ missed' = IF \E r \in removing : r.of = w THEN missed \cup {w} ELSE missed
         \/ shots' = shots \ {w} /\ UNCHANGED <<shotRows, missed>>
  BY DEF CommitScreenshot, WithoutShot
<1>2. /\ SiteShape' /\ site'[w].step = "done" /\ site'[w].billed
      /\ \A v \in Writers \ {w} : site'[v] = site[v]
  BY <1>1, ClosesStep DEF WebsiteInv, Posted
<1>3. /\ CallsHold' /\ FilesNamed' /\ PagesKept' /\ Sweeping' /\ Reading'
      /\ ServedAsNamed' /\ PagesAccounted'
  BY <1>1, <1>2, PostedMoves DEF Posted
<1>4. TablesShape'
  BY <1>1 DEF WebsiteInv, TablesShape
<1>5. Deleting'
  BY <1>1, <1>2 DEF WebsiteInv, Deleting, Posted
<1>6. ShotsAccounted'
  BY <1>1, <1>2 DEF WebsiteInv, ShotsAccounted, TablesShape
<1> QED
  BY <1>2, <1>3, <1>4, <1>5, <1>6 DEF WebsiteInv

\* The process ends: what the call left stays where it is.
LEMMA WriterDiesStep ==
  ASSUME WebsiteInv, NEW w \in Writers, WriterDies(w)
  PROVE  WebsiteInv'
<1>1. /\ site[w].step \in {"generating", "addressing", "storing", "renaming", "stored",
                           "rendered"}
      /\ Put(w, "died")
      /\ UNCHANGED <<siteRows, addressOf, pagesDir, tmpDir, shots, shotRows, missed, removing,
                     sweep, sweptUnseen, reader, shown>>
  BY DEF WriterDies, media, sweepVars, reading
<1>2. /\ SiteShape' /\ site'[w].step = "died"
      /\ \A v \in Writers \ {w} : site'[v] = site[v]
  BY <1>1, PutStep DEF WebsiteInv, Posted
<1>3. TablesShape' /\ FilesNamed' /\ Sweeping' /\ Reading' /\ ServedAsNamed'
  BY <1>1 DEF WebsiteInv, TablesShape, FilesNamed, Sweeping, Reading, ServedAsNamed
<1>4. CallsHold' /\ PagesKept'
  BY <1>1, <1>2 DEF WebsiteInv, CallsHold, PagesKept, Posted
<1>5. Deleting'
  BY <1>1, <1>2 DEF WebsiteInv, Deleting, Posted
<1>6. PagesAccounted'
  <2>1. \A f \in pagesDir : f.by = w \/ site'[f.by] = site[f.by]
    BY <1>2 DEF WebsiteInv, FilesNamed
  <2> QED
    BY <1>1, <1>2, <2>1 DEF WebsiteInv, PagesAccounted
<1>7. ShotsAccounted'
  BY <1>1, <1>2 DEF WebsiteInv, ShotsAccounted, TablesShape
<1> QED
  BY <1>2, <1>3, <1>4, <1>5, <1>6, <1>7 DEF WebsiteInv

-----------------------------------------------------------------------------
(* Websites: deleting, sweeping and reading *)

LEMMA DeleteSteps ==
  ASSUME WebsiteInv, (\E w \in Writers : LookUpFiles(w)) \/ RemovePost \/ RemoveFiles
  PROVE  WebsiteInv'
<1>1. ASSUME NEW w \in Writers, LookUpFiles(w) PROVE WebsiteInv'
  <2>1. /\ w \in siteRows /\ removing = {}
        /\ UNCHANGED <<site, siteRows, addressOf, pagesDir, tmpDir, shots, shotRows, missed,
                       sweep, sweptUnseen, reader, shown>>
    BY <1>1 DEF LookUpFiles, media, sweepVars, reading
  <2> DEFINE listed == [of |-> w, file |-> FileOf(w), shot |-> w \in shotRows]
  <2>2. PICK r : /\ removing' = {r} /\ r.of = w /\ r.file = FileOf(w)
                 /\ r.shot \in BOOLEAN /\ (r.shot <=> w \in shotRows)
    <3>1. removing' = {listed}
      BY <1>1 DEF LookUpFiles
    <3>2. listed.of = w /\ listed.file = FileOf(w)
      OBVIOUS
    <3>3. listed.shot \in BOOLEAN /\ (listed.shot <=> w \in shotRows)
      <4>1. listed.shot = (w \in shotRows)
        BY Zenon
      <4>2. (w \in shotRows) \in BOOLEAN
        BY SMT
      <4> HIDE DEF listed
      <4> QED
        BY <4>1, <4>2, Zenon
    <3> HIDE DEF listed
    <3> QED
      BY <3>1, <3>2, <3>3
  <2>3. /\ SiteShape' /\ TablesShape' /\ CallsHold' /\ FilesNamed' /\ PagesKept' /\ Sweeping'
        /\ Reading' /\ ServedAsNamed'
    BY <2>1 DEF WebsiteInv, SiteShape, TablesShape, CallsHold, FilesNamed, PagesKept,
                Sweeping, Reading, ServedAsNamed
  <2>4. Deleting'
    <3>1. w \in shots /\ w \notin shotRows => w \in missed \/ site[w].step \in {"rendered", "died"}
      BY <2>1 DEF WebsiteInv, ShotsAccounted
    <3> QED
      BY <2>1, <2>2, <3>1 DEF WebsiteInv, Deleting, CallsHold
  <2>5. PagesAccounted' /\ ShotsAccounted'
    BY <2>1 DEF WebsiteInv, PagesAccounted, ShotsAccounted
  <2> QED
    BY <2>3, <2>4, <2>5 DEF WebsiteInv
<1>2. ASSUME RemovePost PROVE WebsiteInv'
  <2>1. /\ siteRows' = siteRows \ {r.of : r \in removing}
        /\ shotRows' = shotRows \ {r.of : r \in removing}
        /\ UNCHANGED <<site, addressOf, pagesDir, tmpDir, shots, missed, removing, sweep,
                       sweptUnseen, reader, shown>>
    BY <1>2 DEF RemovePost, sweepVars, reading
  <2>2. SiteShape' /\ TablesShape' /\ CallsHold' /\ FilesNamed' /\ Sweeping' /\ Reading'
    BY <2>1 DEF WebsiteInv, SiteShape, TablesShape, CallsHold, FilesNamed, Sweeping, Reading
  <2>3. PagesKept' /\ ServedAsNamed' /\ Deleting'
    BY <2>1 DEF WebsiteInv, PagesKept, ServedAsNamed, Deleting
  <2>4. PagesAccounted'
    BY <2>1 DEF WebsiteInv, PagesAccounted
  <2>5. ShotsAccounted'
    BY <2>1 DEF WebsiteInv, ShotsAccounted
  <2> QED
    BY <2>2, <2>3, <2>4, <2>5 DEF WebsiteInv
<1>3. ASSUME RemoveFiles PROVE WebsiteInv'
  <2>1. /\ \A r \in removing : r.of \notin siteRows
        /\ pagesDir' = {f \in pagesDir : \A r \in removing : f.name # r.file}
        /\ shots' = shots \ {r.of : r \in {q \in removing : q.shot}}
        /\ removing' = {}
        /\ UNCHANGED <<site, siteRows, addressOf, tmpDir, shotRows, missed, sweep,
                       sweptUnseen, reader, shown>>
    BY <1>3 DEF RemoveFiles, sweepVars, reading
  <2>2. \A f \in pagesDir : f \in pagesDir' <=> \A r \in removing : f.by # r.of
    BY <2>1, NamesDiffer DEF WebsiteInv, FilesNamed, Deleting
  <2>3. pagesDir' \subseteq pagesDir
    BY <2>1
  <2>4. SiteShape' /\ TablesShape' /\ CallsHold' /\ FilesNamed' /\ Sweeping' /\ Reading'
    BY <2>1, <2>3 DEF WebsiteInv, SiteShape, TablesShape, CallsHold, FilesNamed, Sweeping,
                      Reading
  <2>5. ServedAsNamed' /\ Deleting'
    BY <2>1 DEF WebsiteInv, ServedAsNamed, Deleting
  <2>6. PagesKept'
    <3>1. \A w \in Writers : site[w].step = "stored" \/ w \in siteRows =>
            \A r \in removing : r.of # w
      BY <2>1 DEF WebsiteInv, Deleting, Posted
    <3> QED
      BY <2>1, <2>2, <3>1 DEF WebsiteInv, PagesKept
  <2>7. PagesAccounted'
    BY <2>1, <2>2, <2>3 DEF WebsiteInv, PagesAccounted
  <2>8. ShotsAccounted'
    BY <2>1 DEF WebsiteInv, ShotsAccounted, Deleting
  <2> QED
    BY <2>4, <2>5, <2>6, <2>7, <2>8 DEF WebsiteInv
<1> QED
  BY <1>1, <1>2, <1>3

LEMMA SweepSteps ==
  ASSUME WebsiteInv, ReadRows \/ ScanPages \/ DeleteOrphans
  PROVE  WebsiteInv'
<1>1. ASSUME NEW newSweep, sweep' = newSweep,
             \A r \in newSweep : r.scanned => \A w \in r.seen : FileOf(w) \notin r.orphans,
             UNCHANGED <<site, siteRows, addressOf, pagesDir, tmpDir, media, removing,
                         sweptUnseen, reading>>
      PROVE  WebsiteInv'
  BY <1>1 DEF WebsiteInv, SiteShape, TablesShape, CallsHold, FilesNamed, PagesKept, Deleting,
              Sweeping, Reading, ServedAsNamed, PagesAccounted, ShotsAccounted, media, reading
<1>2. CASE ReadRows
  <2> DEFINE new == [seen |-> siteRows, scanned |-> FALSE, orphans |-> {}]
  <2>1. sweep' = {new}
    BY <1>2 DEF ReadRows
  <2>2. ~new.scanned
    OBVIOUS
  <2>3. \A r \in {new} : r.scanned => \A w \in r.seen : FileOf(w) \notin r.orphans
    BY <2>2
  <2> HIDE DEF new
  <2>4. UNCHANGED <<site, siteRows, addressOf, pagesDir, tmpDir, media, removing,
                    sweptUnseen, reading>>
    BY <1>2 DEF ReadRows
  <2> QED
    BY <1>1, <2>1, <2>3, <2>4
<1>3. CASE ScanPages
  <2> DEFINE Scanned(r) == [r EXCEPT !.scanned = TRUE, !.orphans = {f.name : f \in Orphans(r.seen)}]
  <2>1. sweep' = {Scanned(r) : r \in sweep}
    BY <1>3 DEF ScanPages
  <2>2. \A r \in sweep : \A w \in Scanned(r).seen : FileOf(w) \notin Scanned(r).orphans
    <3> SUFFICES ASSUME NEW r \in sweep, NEW w \in Scanned(r).seen,
                        FileOf(w) \in Scanned(r).orphans
                 PROVE  FALSE
      OBVIOUS
    <3> QED
      BY DEF Orphans
  <2> HIDE DEF Scanned
  <2>3. \A r \in {Scanned(q) : q \in sweep} :
          r.scanned => \A w \in r.seen : FileOf(w) \notin r.orphans
    BY <2>2
  <2>4. UNCHANGED <<site, siteRows, addressOf, pagesDir, tmpDir, media, removing,
                    sweptUnseen, reading>>
    BY <1>3 DEF ScanPages
  <2> QED
    BY <1>1, <2>1, <2>3, <2>4
<1>4. CASE DeleteOrphans
  <2>1. PICK r \in sweep :
          /\ r.scanned
          /\ pagesDir' = {f \in pagesDir : f.name \notin r.orphans}
          /\ sweptUnseen' = sweptUnseen
                              \cup {f.by : f \in {x \in pagesDir \ pagesDir' : x.by \notin r.seen}}
    BY <1>4 DEF DeleteOrphans
  <2>2. /\ sweep' = {}
        /\ UNCHANGED <<site, siteRows, addressOf, tmpDir, shots, shotRows, missed, removing,
                       reader, shown>>
    BY <1>4 DEF DeleteOrphans, media, reading
  <2>3. \A f \in pagesDir \ pagesDir' : f.by \in sweptUnseen'
    <3> SUFFICES ASSUME NEW f \in pagesDir, f \notin pagesDir' PROVE f.by \notin r.seen
      BY <2>1
    <3>1. f.name \in r.orphans /\ f.name = FileOf(f.by)
      BY <2>1 DEF WebsiteInv, FilesNamed
    <3> QED
      BY <2>1, <3>1 DEF WebsiteInv, Sweeping
  <2>4. pagesDir' \subseteq pagesDir /\ sweptUnseen \subseteq sweptUnseen'
    BY <2>1
  <2>5. SiteShape' /\ TablesShape' /\ CallsHold' /\ FilesNamed' /\ Sweeping' /\ Reading'
    BY <2>2, <2>4 DEF WebsiteInv, SiteShape, TablesShape, CallsHold, FilesNamed, Sweeping,
                      Reading
  <2>6. PagesKept'
    BY <2>2, <2>3, <2>4 DEF WebsiteInv, PagesKept
  <2>7. Deleting' /\ ServedAsNamed' /\ PagesAccounted' /\ ShotsAccounted'
    BY <2>2, <2>4 DEF WebsiteInv, Deleting, ServedAsNamed, PagesAccounted, ShotsAccounted
  <2> QED
    BY <2>5, <2>6, <2>7 DEF WebsiteInv
<1> QED
  BY <1>2, <1>3, <1>4

\* The file under the row's name is the row's, whichever rows there are by now.
LEMMA ReadSteps ==
  ASSUME WebsiteInv, (\E w \in Writers : FindRow(w)) \/ ServePage
  PROVE  WebsiteInv'
<1>1. UNCHANGED <<site, siteRows, addressOf, pagesDir, tmpDir, media, removing, sweepVars>>
  BY DEF FindRow, ServePage
<1>2. /\ SiteShape' /\ TablesShape' /\ CallsHold' /\ FilesNamed' /\ PagesKept' /\ Deleting'
      /\ Sweeping' /\ PagesAccounted' /\ ShotsAccounted'
  BY <1>1 DEF WebsiteInv, SiteShape, TablesShape, CallsHold, FilesNamed, PagesKept, Deleting,
              Sweeping, PagesAccounted, ShotsAccounted, media, sweepVars
<1>3. ASSUME NEW w \in Writers, FindRow(w) PROVE Reading' /\ ServedAsNamed'
  <2>1. reader' = {[row |-> w, file |-> FileOf(w)]} /\ UNCHANGED <<siteRows, addressOf, shown>>
    BY <1>3 DEF FindRow
  <2> QED
    BY <2>1 DEF WebsiteInv, Reading, ServedAsNamed
<1>4. ASSUME ServePage PROVE Reading' /\ ServedAsNamed'
  <2>1. \A s \in shown' : \E r \in reader : \E f \in pagesDir :
          f.name = r.file /\ s.row = r.row /\ s.by = f.by
    BY <1>4 DEF ServePage
  <2>2. \A s \in shown' : s.by = s.row
    BY <2>1, NamesDiffer DEF WebsiteInv, FilesNamed, Reading
  <2> QED
    BY <1>1, <1>4, <2>2 DEF ServePage, WebsiteInv, Reading, ServedAsNamed
<1> QED
  BY <1>2, <1>3, <1>4 DEF WebsiteInv

-----------------------------------------------------------------------------
(* Websites: the theorem *)

LEMMA WebsiteStep ==
  ASSUME WebsiteInv, [WebsitesNext]_siteVars
  PROVE  WebsiteInv'
<1>1. CASE UNCHANGED siteVars
  BY <1>1 DEF siteVars, WebsiteInv, SiteShape, TablesShape, CallsHold, FilesNamed, PagesKept,
              Deleting, Sweeping, Reading, ServedAsNamed, PagesAccounted, ShotsAccounted,
              media, sweepVars, reading
<1> QED
  BY <1>1, ProposeStep, ReceiveStep, AllocateStep, WriteTemporaryStep, ReplaceStep,
     CommitSiteStep, RenderStep, CommitScreenshotStep, WriterDiesStep, DeleteSteps, SweepSteps,
     ReadSteps DEF WebsitesNext

LEMMA WebsiteStart ==
  ASSUME WebsitesInit
  PROVE  WebsiteInv
<1>1. SiteShape
  BY DEF WebsitesInit, SiteShape, Proposal, Calling
<1> QED
  BY <1>1 DEF WebsitesInit, WebsiteInv, TablesShape, CallsHold, FilesNamed, PagesKept, Deleting,
              Sweeping, Reading, ServedAsNamed, PagesAccounted, ShotsAccounted, Proposal

\* What lies on the desks of the administrator, the sweep and the reader: one thing at
\* most, and of the writers.
OnDesk(S) == S = {} \/ \E r : S = {r}
DesksHold ==
  /\ shotRows \subseteq Writers /\ missed \subseteq Writers /\ sweptUnseen \subseteq Writers
  /\ OnDesk(removing) /\ OnDesk(reader) /\ OnDesk(sweep)
  /\ doings \in 0..MaxDoings

LEMMA DesksKept ==
  ASSUME WebsiteInv, DesksHold, [WebsitesNext]_siteVars
  PROVE  DesksHold'
<1>1. /\ shotRows \subseteq Writers /\ missed \subseteq Writers /\ sweptUnseen \subseteq Writers
      /\ OnDesk(removing) /\ OnDesk(reader) /\ OnDesk(sweep)
      /\ doings \in 0..MaxDoings /\ MaxDoings \in Nat
      /\ \A f \in pagesDir : f.by \in Writers
  BY WebsitesAssumption DEF DesksHold, WebsiteInv, FilesNamed
<1>2. Counted => doings' \in 0..MaxDoings
  BY <1>1 DEF Counted
<1>3. OnDesk({}) /\ \A r : OnDesk({r})
  BY DEF OnDesk
<1>4. CASE UNCHANGED <<shotRows, missed, sweptUnseen, removing, reader, sweep, doings>>
  BY <1>1, <1>4 DEF DesksHold, OnDesk
<1>5. ASSUME NEW w \in Writers, CommitScreenshot(w) PROVE DesksHold'
  <2>1. /\ UNCHANGED <<removing, reader, sweep, doings, sweptUnseen>>
        /\ shotRows' \subseteq shotRows \cup {w} /\ missed' \subseteq missed \cup {w}
    BY <1>5 DEF CommitScreenshot, sweepVars, reading
  <2> QED  BY <1>1, <2>1 DEF DesksHold, OnDesk
<1>6. ASSUME NEW w \in Writers, WriterDies(w) \/ LookUpFiles(w) \/ FindRow(w) PROVE DesksHold'
  <2>1. UNCHANGED <<shotRows, missed, sweptUnseen, sweep>> /\ Counted
    BY <1>6 DEF WriterDies, LookUpFiles, FindRow, media, sweepVars
  <2>2. OnDesk(removing') /\ OnDesk(reader')
    BY <1>1, <1>3, <1>6 DEF WriterDies, LookUpFiles, FindRow, reading
  <2> QED  BY <1>1, <1>2, <2>1, <2>2 DEF DesksHold, OnDesk
<1>7. CASE RemovePost
  <2>1. /\ UNCHANGED <<missed, sweptUnseen, removing, reader, sweep, doings>>
        /\ shotRows' \subseteq shotRows
    BY <1>7 DEF RemovePost, sweepVars, reading
  <2> QED  BY <1>1, <2>1 DEF DesksHold, OnDesk
<1>8. CASE RemoveFiles
  <2>1. UNCHANGED <<shotRows, missed, sweptUnseen, reader, sweep, doings>> /\ removing' = {}
    BY <1>8 DEF RemoveFiles, sweepVars, reading
  <2> QED  BY <1>1, <2>1 DEF DesksHold, OnDesk
<1>9. CASE ReadRows
  <2>1. /\ UNCHANGED <<shotRows, missed, sweptUnseen, removing, reader>> /\ Counted
        /\ \E r : sweep' = {r}
    BY <1>9 DEF ReadRows, media, reading
  <2> QED  BY <1>1, <1>2, <2>1 DEF DesksHold, OnDesk
<1>10. CASE ScanPages
  <2>1. /\ UNCHANGED <<shotRows, missed, sweptUnseen, removing, reader, doings>>
        /\ sweep' = {[r EXCEPT !.scanned = TRUE, !.orphans = {f.name : f \in Orphans(r.seen)}] :
                       r \in sweep}
    BY <1>10 DEF ScanPages, media, reading
  <2>2. OnDesk(sweep')
    <3>1. CASE sweep = {}
      BY <1>3, <2>1, <3>1
    <3>2. ASSUME NEW r, sweep = {r} PROVE OnDesk(sweep')
      <4> DEFINE scan == [r EXCEPT !.scanned = TRUE, !.orphans = {f.name : f \in Orphans(r.seen)}]
      <4>1. sweep' = {scan}
        BY <2>1, <3>2
      <4> HIDE DEF scan
      <4> QED  BY <1>3, <4>1
    <3> QED  BY <1>1, <3>1, <3>2 DEF OnDesk
  <2> QED  BY <1>1, <2>1, <2>2 DEF DesksHold, OnDesk
<1>11. CASE DeleteOrphans
  <2>1. UNCHANGED <<shotRows, missed, removing, reader, doings>> /\ sweep' = {}
    BY <1>11 DEF DeleteOrphans, media, reading
  <2>2. sweptUnseen' \subseteq Writers
    BY <1>1, <1>11 DEF DeleteOrphans
  <2> QED  BY <1>1, <2>1, <2>2 DEF DesksHold, OnDesk
<1>12. CASE ServePage
  <2>1. UNCHANGED <<shotRows, missed, sweptUnseen, removing, sweep, doings>> /\ reader' = {}
    BY <1>12 DEF ServePage, media, sweepVars
  <2> QED  BY <1>1, <2>1 DEF DesksHold, OnDesk
<1>13. ASSUME NEW w \in Writers,
              \/ Propose(w) \/ Allocate(w) \/ WriteTemporary(w) \/ Replace(w)
              \/ CommitSite(w) \/ Render(w)
              \/ \E doc \in Documents, h \in Hints, late \in BOOLEAN : Receive(w, doc, h, late)
       PROVE  DesksHold'
  <2>1. UNCHANGED <<shotRows, missed, sweptUnseen, removing, reader, sweep, doings>>
    BY <1>13 DEF Propose, Allocate, WriteTemporary, Replace, CommitSite, Render, Receive,
                 media, sweepVars, reading
  <2> QED  BY <1>4, <2>1
<1>14. CASE UNCHANGED siteVars
  BY <1>4, <1>14 DEF siteVars, media, sweepVars, reading
<1> QED
  BY <1>5, <1>6, <1>7, <1>8, <1>9, <1>10, <1>11, <1>12, <1>13, <1>14 DEF WebsitesNext

\* The types of the pages, from what the calls hold and what lies on the desks.
LEMMA WebsitesTyped ==
  ASSUME WebsiteInv, DesksHold
  PROVE  WebsitesTypeOK
<1>1. \A w \in Writers :
        /\ site[w].step \in Calling \cup Posted
        /\ site[w].doc \in Documents \cup {NoDocument} /\ site[w].billed \in BOOLEAN
  BY DEF WebsiteInv, SiteShape
<1>2. UNION {siteRows, tmpDir, shots, shotRows, missed, sweptUnseen} \subseteq Writers
  BY DEF WebsiteInv, TablesShape, DesksHold
<1>3. \A f \in pagesDir : f.by \in Writers /\ f.doc \in Documents
  BY DEF WebsiteInv, FilesNamed
<1>4. ASSUME NEW S, OnDesk(S) PROVE Cardinality(S) <= 1
  <2>1. Cardinality({}) = 0 /\ \A r : Cardinality({r}) = 1
    BY FS_EmptySet, FS_Singleton
  <2>2. CASE S = {}
    BY <2>1, <2>2
  <2>3. ASSUME NEW r, S = {r} PROVE Cardinality(S) <= 1
    BY <2>1, <2>3
  <2> QED  BY <1>4, <2>2, <2>3 DEF OnDesk
<1>5. Cardinality(removing) <= 1 /\ Cardinality(reader) <= 1 /\ Cardinality(sweep) <= 1
  BY <1>4 DEF DesksHold
<1> QED
  BY <1>1, <1>2, <1>3, <1>5 DEF WebsitesTypeOK, DesksHold, Calling, Posted

\* A document that passed the check asks for nothing from elsewhere.
LEMMA ValidStaysHere ==
  ASSUME NEW doc \in Documents, Valid(doc)
  PROVE  \A e \in doc.elements : ~Fetches(e)
<1> SUFFICES ASSUME NEW e \in doc.elements, Fetches(e) PROVE Breaks(e)
  BY DEF Valid
<1>1. CASE e.tag \in {"iframe", "object", "embed", "frame", "portal"}
  BY <1>1 DEF Breaks, BannedTags
<1>2. ASSUME e.tag # "a", NEW a \in Range(e.attrs), "away" \in Range(a.uris) PROVE Breaks(e)
  BY <1>2, WebsitesAssumption DEF Breaks, Checked, StaysHere
<1> QED
  BY <1>1, <1>2 DEF Fetches

\* However many calls, readers, deletes, sweeps and deaths: an address leads to one page
\* and a reader sees the page of the row, every file is whole and names no resource from
\* elsewhere in an attribute the check knows, no page or screenshot is left without an
\* owner, a post's page is there unless a sweep took it that had not seen the post, and a
\* spent generation is billed.
THEOREM WebsitesStaySound == WebsitesSpec => [](WebsitesTypeOK /\ WebsitesSound)
<1>1. WebsiteInv => WebsitesSound
  <2> SUFFICES ASSUME WebsiteInv PROVE WebsitesSound
    OBVIOUS
  <2>1. FilesSelfContained
    BY ValidStaysHere DEF WebsiteInv, FilesNamed, FilesSelfContained, Whole, Valid
  <2>2. RowsHavePages
    BY DEF WebsiteInv, TablesShape, PagesKept, RowsHavePages
  <2>3. AttemptsBilled
    BY DEF WebsiteInv, CallsHold, AttemptsBilled
  <2> QED
    BY <2>1, <2>2, <2>3 DEF WebsiteInv, WebsitesSound
<1>2. WebsitesInit => DesksHold
  BY WebsitesAssumption DEF WebsitesInit, DesksHold, OnDesk
<1>3. WebsiteInv /\ DesksHold => WebsitesTypeOK
  BY WebsitesTyped
<1>4. WebsiteInv /\ DesksHold /\ [WebsitesNext]_siteVars => DesksHold'
  BY DesksKept
<1> QED
  BY <1>1, <1>2, <1>3, <1>4, WebsiteStart, WebsiteStep, PTL DEF WebsitesSpec

-----------------------------------------------------------------------------
(* Completions: the inductive invariant *)

CapRows ==
  [row : BOOLEAN, tools : BOOLEAN, by : {"none", "probe", "manual"}, aged : BOOLEAN,
   vision : {"unknown", "yes", "no"}, visionBy : {"none", "probe", "manual"}]

Chats ==
  [pc : {"gate", "reprobe", "send", "wait", "backoff", "done"}, tools : BOOLEAN,
   left : 0..LlmBudget, attempt : 0..MaxAttempts,
   rows : SUBSET ((1..MaxAttempts) \X {"ok", "failed"}), lost : BOOLEAN,
   result : {"none", "answer", "refused", "transient", "permanent"}, seen : CapRows]

Probes ==
  {NoProbe} \cup [pc : {"tools", "vision"}, seen : CapRows, then : BOOLEAN]

\* The first n attempts failed, and have rows that say so unless one was lost.
FailedRows(n) == {<<k, "failed">> : k \in 1..n}
FailedBefore(c, n) ==
  c.rows \subseteq FailedRows(n) /\ (~ c.lost => c.rows = FailedRows(n))

\* A call under way.
Pending(c) ==
  /\ c.result = "none"
  /\ c.pc \in {"gate", "reprobe"} => c.attempt = 0 /\ ~ c.lost
  /\ c.pc \in {"gate", "reprobe", "send", "backoff"} => FailedBefore(c, c.attempt)
  /\ c.pc \in {"send", "backoff"} => c.attempt < MaxAttempts
  /\ c.pc = "wait" => c.attempt > 0 /\ FailedBefore(c, c.attempt - 1)

\* A call that is over: LedgerHonest of one call.
Honest(c) ==
  /\ \A r, s \in c.rows : r[1] = s[1] => r = s
  /\ (\E r \in c.rows : r[2] = "ok") => c.result = "answer"
  /\ c.result = "answer" /\ ~ c.lost =>
       c.rows = {<<n, IF n = c.attempt THEN "ok" ELSE "failed">> : n \in 1..c.attempt}
  /\ c.attempt = 0 /\ c.result = "refused" => c.rows = {}
  /\ c.attempt > 0 /\ ~ c.lost => c.rows # {}
  /\ c.result = "answer" => c.left > 0

LedgerInv ==
  /\ cap \in CapRows
  /\ chat \in [Callers -> {NoChat} \cup Chats]
  /\ prober \in [Probers -> Probes]
  /\ \A t \in Callers :
       chat[t] # NoChat => IF chat[t].pc = "done" THEN Honest(chat[t]) ELSE Pending(chat[t])

-----------------------------------------------------------------------------
(* Completions: the steps *)

\* A verdict that is written leaves a row.
LEMMA VerdictIsRow ==
  ASSUME cap \in CapRows, NEW seen \in CapRows, NEW tools \in BOOLEAN
  PROVE  Verdict(seen, tools) \in CapRows
<1>1. Written(seen, "tools", tools) \in BOOLEAN
  BY DEF CapRows, Written
<1>2. Written(seen, "by", "probe") \in {"none", "probe", "manual"}
  BY DEF CapRows, Written
<1>3. NoRow \in CapRows
  BY DEF NoRow, CapRows
<1>4. CASE ~ cap.row
  BY <1>3, <1>4 DEF Verdict, CapRows
<1>5. CASE cap.row
  BY <1>1, <1>2, <1>5 DEF Verdict, CapRows
<1> QED
  BY <1>4, <1>5

LEMMA NoneFailed == FailedRows(0) = {}
  BY DEF FailedRows

\* Before a call has ended, its attempts are those it has failed.
LEMMA FinalizedIsHonest ==
  ASSUME NEW c \in Chats, NEW written \in BOOLEAN,
         NEW result \in {"answer", "refused", "transient", "permanent"},
         \/ /\ c.attempt < MaxAttempts /\ FailedBefore(c, c.attempt) /\ result = "transient"
         \/ /\ c.attempt > 0 /\ result # "answer"
            /\ FailedBefore(c, c.attempt - 1) \/ FailedBefore(c, c.attempt)
         \/ /\ c.attempt > 0 /\ result = "answer" /\ c.left > 0
            /\ c.rows \subseteq FailedRows(c.attempt - 1) \cup {<<c.attempt, "ok">>}
            /\ ~ c.lost => c.rows = FailedRows(c.attempt - 1) \cup {<<c.attempt, "ok">>}
  PROVE  /\ Finalized(c, result, written) \in Chats
         /\ Finalized(c, result, written).pc = "done"
         /\ Honest(Finalized(c, result, written))
<1> DEFINE d == Finalized(c, result, written)
           status == IF result = "answer" THEN "ok" ELSE "failed"
<1>0. MaxAttempts \in Nat \ {0}
  BY LlmAssumption
<1>1. /\ d.pc = "done" /\ d.result = result /\ d.left = c.left /\ d.attempt = c.attempt
      /\ d \in Chats
  <2>1. <<1, status>> \in (1..MaxAttempts) \X {"ok", "failed"}
    BY <1>0
  <2> QED
    BY <2>1 DEF Finalized, Chats
<1>2. \/ c.rows # {} /\ d.rows = c.rows /\ d.lost = c.lost
      \/ c.rows = {} /\ d.rows = {<<1, status>>} /\ d.lost = c.lost
      \/ c.rows = {} /\ d.rows = {} /\ d.lost = TRUE
  BY DEF Finalized, Chats
<1>3. c.attempt \in Nat /\ c.left \in Nat /\ c.lost \in BOOLEAN
  BY LlmAssumption DEF Chats
<1> HIDE DEF d
<1>4. ASSUME result # "answer" PROVE Honest(d)
  <2>1. \A r \in c.rows : r[2] = "failed" /\ r = <<r[1], r[2]>>
    BY <1>4 DEF FailedBefore, FailedRows
  <2>2. \A r \in d.rows : r[2] = "failed" /\ r = <<r[1], r[2]>>
    BY <1>2, <1>4, <2>1
  <2>3. c.attempt > 0 /\ ~ d.lost => d.rows # {}
    BY <1>2
  <2>4. c.attempt = 0 => result = "transient"
    BY <1>3, <1>4
  <2> QED
    BY <1>1, <1>4, <2>2, <2>3, <2>4 DEF Honest
<1>5. ASSUME result = "answer" PROVE Honest(d)
  <2> DEFINE all == {<<n, IF n = c.attempt THEN "ok" ELSE "failed">> : n \in 1..c.attempt}
  <2>1. FailedRows(c.attempt - 1) \cup {<<c.attempt, "ok">>} = all
    BY <1>3, <1>5 DEF FailedRows
  <2>2. c.rows \subseteq all /\ (~ c.lost => c.rows = all)
    BY <1>5, <2>1
  <2>3. all # {}
    BY <1>3, <1>5, <2>1
  <2>4. \A r, s \in all : r[1] = s[1] => r = s
    OBVIOUS
  <2>5. \A r, s \in d.rows : r[1] = s[1] => r = s
    BY <1>2, <2>2, <2>4
  <2>6. ~ d.lost => d.rows = all
    BY <1>2, <1>3, <2>2, <2>3
  <2> QED
    BY <1>1, <1>3, <1>5, <2>3, <2>5, <2>6 DEF Honest
<1> QED
  BY <1>1, <1>4, <1>5 DEF d

\* The row of an attempt that failed.
LEMMA FailedRowKept ==
  ASSUME NEW c \in Chats, NEW written \in BOOLEAN, c.attempt > 0,
         FailedBefore(c, c.attempt - 1)
  PROVE  /\ Row(c, "failed", written) \in Chats
         /\ Row(c, "failed", written).attempt = c.attempt
         /\ Row(c, "failed", written).left = c.left
         /\ Row(c, "failed", written).result = c.result
         /\ FailedBefore(Row(c, "failed", written), c.attempt)
<1>1. c.attempt \in 1..MaxAttempts /\ c.attempt \in Nat
  BY LlmAssumption DEF Chats
<1>2. FailedRows(c.attempt) = FailedRows(c.attempt - 1) \cup {<<c.attempt, "failed">>}
  BY <1>1 DEF FailedRows
<1>3. <<c.attempt, "failed">> \in (1..MaxAttempts) \X {"ok", "failed"}
  BY <1>1
<1>4. CASE written
  <2>1. Row(c, "failed", written) = [c EXCEPT !.rows = @ \cup {<<c.attempt, "failed">>}]
    BY <1>4 DEF Row
  <2> QED
    BY <1>2, <1>3, <2>1 DEF Chats, FailedBefore
<1>5. CASE ~ written
  <2>1. Row(c, "failed", written) = [c EXCEPT !.lost = TRUE]
    BY <1>5 DEF Row
  <2> QED
    BY <1>2, <2>1 DEF Chats, FailedBefore
<1> QED
  BY <1>4, <1>5

\* The row of an attempt that was answered well.
LEMMA OkRowKept ==
  ASSUME NEW c \in Chats, NEW written \in BOOLEAN, c.attempt > 0,
         FailedBefore(c, c.attempt - 1)
  PROVE  LET d == Row(c, "ok", written) IN
         /\ d \in Chats /\ d.attempt = c.attempt /\ d.left = c.left
         /\ d.rows \subseteq FailedRows(c.attempt - 1) \cup {<<c.attempt, "ok">>}
         /\ ~ d.lost => d.rows = FailedRows(c.attempt - 1) \cup {<<c.attempt, "ok">>}
<1>1. c.attempt \in 1..MaxAttempts
  BY LlmAssumption DEF Chats
<1>2. <<c.attempt, "ok">> \in (1..MaxAttempts) \X {"ok", "failed"}
  BY <1>1
<1>3. CASE written
  <2>1. Row(c, "ok", written) = [c EXCEPT !.rows = @ \cup {<<c.attempt, "ok">>}]
    BY <1>3 DEF Row
  <2> QED
    BY <1>2, <2>1 DEF Chats, FailedBefore
<1>4. CASE ~ written
  <2>1. Row(c, "ok", written) = [c EXCEPT !.lost = TRUE]
    BY <1>4 DEF Row
  <2> QED
    BY <2>1 DEF Chats, FailedBefore
<1> QED
  BY <1>3, <1>4

\* A step of one call that leaves the table of the endpoints well formed.
LEMMA ChatMoves ==
  ASSUME LedgerInv, NEW t \in Callers, NEW c \in Chats, Goes(t, c), cap' \in CapRows,
         prober' \in [Probers -> Probes],
         IF c.pc = "done" THEN Honest(c) ELSE Pending(c)
  PROVE  LedgerInv'
<1>1. chat' \in [Callers -> {NoChat} \cup Chats]
  BY DEF LedgerInv, Goes
<1>2. ASSUME NEW u \in Callers, chat'[u] # NoChat
      PROVE  IF chat'[u].pc = "done" THEN Honest(chat'[u]) ELSE Pending(chat'[u])
  <2>1. CASE u = t
    BY <2>1 DEF LedgerInv, Goes
  <2>2. CASE u # t
    <3>1. chat'[u] = chat[u]
      BY <2>2 DEF LedgerInv, Goes
    <3> QED
      BY <1>2, <3>1 DEF LedgerInv
  <2> QED
    BY <2>1, <2>2
<1> QED
  BY <1>1, <1>2 DEF LedgerInv

\* What is known of a call in one of its places.
LEMMA CallUnderWay ==
  ASSUME LedgerInv, NEW t \in Callers,
         chat[t].pc \in {"gate", "reprobe", "send", "wait", "backoff"}
  PROVE  chat[t] \in Chats /\ Pending(chat[t])
<1>1. NoChat.pc = "idle"
  BY DEF NoChat
<1> QED
  BY <1>1 DEF LedgerInv

LEMMA StartChatStep ==
  ASSUME LedgerInv, NEW t \in Callers, NEW tools \in BOOLEAN, StartChat(t, tools)
  PROVE  LedgerInv'
<1> DEFINE c == [pc |-> IF tools THEN "gate" ELSE "send", tools |-> tools, left |-> LlmBudget,
                 attempt |-> 0, rows |-> {}, lost |-> FALSE, result |-> "none", seen |-> NoRow]
<1>1. c \in Chats
  BY LlmAssumption DEF Chats, NoRow, CapRows
<1>2. FailedBefore(c, c.attempt)
  BY DEF FailedBefore, FailedRows
<1>3. Pending(c) /\ c.pc # "done"
  BY <1>2, LlmAssumption DEF Pending
<1> QED
  <2> HIDE DEF c
  <2>1. Goes(t, c)
    BY DEF StartChat, Goes, c
  <2> QED
    BY <1>1, <1>3, <2>1, ChatMoves DEF StartChat, LedgerInv

LEMMA GateStep ==
  ASSUME LedgerInv, NEW t \in Callers, Gate(t)
  PROVE  LedgerInv'
<1> DEFINE c == chat[t]
           d == IF Stale THEN [c EXCEPT !.pc = "reprobe", !.seen = cap]
                ELSE IF cap.row /\ ~ cap.tools THEN Refusal(c)
                ELSE [c EXCEPT !.pc = "send"]
<1>1. c \in Chats /\ Pending(c) /\ c.pc = "gate"
  BY CallUnderWay DEF Gate
<1>2. /\ d \in Chats /\ d.attempt = 0 /\ d.rows = {} /\ d.lost = FALSE
      /\ \/ d.pc \in {"reprobe", "send"} /\ d.result = "none"
         \/ d.pc = "done" /\ d.result = "refused"
  <2>1. c.attempt = 0 /\ c.rows = {} /\ c.lost = FALSE /\ c.result = "none" /\ cap \in CapRows
    BY <1>1, NoneFailed DEF Chats, Pending, FailedBefore, LedgerInv
  <2> QED
    BY <1>1, <2>1 DEF Chats, Refusal
<1>3. Goes(t, d) /\ UNCHANGED <<cap, prober>>
  BY DEF Gate, Rest
<1> HIDE DEF d
<1>4. IF d.pc = "done" THEN Honest(d) ELSE Pending(d)
  BY <1>2, LlmAssumption DEF Honest, Pending, FailedBefore, FailedRows
<1> QED
  BY <1>2, <1>3, <1>4, ChatMoves DEF LedgerInv

LEMMA ReprobeSteps ==
  ASSUME LedgerInv, NEW t \in Callers,
         ReprobeFails(t) \/ \E tools \in BOOLEAN : Reprobed(t, tools)
  PROVE  LedgerInv'
<1> DEFINE c == chat[t]
<1>1. c \in Chats /\ Pending(c) /\ c.pc = "reprobe"
  BY CallUnderWay DEF ReprobeFails, Reprobed
<1>2. PICK d \in {Refusal(c), [c EXCEPT !.pc = "send"]} :
        Goes(t, d) /\ UNCHANGED prober /\ cap' \in CapRows
  BY <1>1, VerdictIsRow DEF ReprobeFails, Reprobed, Rest, LedgerInv, Chats
<1>3. /\ d \in Chats /\ d.attempt = 0 /\ d.rows = {} /\ d.lost = FALSE
      /\ \/ d.pc = "send" /\ d.result = "none"
         \/ d.pc = "done" /\ d.result = "refused"
  <2>1. c.attempt = 0 /\ c.rows = {} /\ c.lost = FALSE /\ c.result = "none"
    BY <1>1, NoneFailed DEF Chats, Pending, FailedBefore
  <2> QED
    BY <1>1, <2>1 DEF Chats, Refusal
<1>4. IF d.pc = "done" THEN Honest(d) ELSE Pending(d)
  BY <1>3, LlmAssumption DEF Honest, Pending, FailedBefore, FailedRows
<1> QED
  BY <1>2, <1>3, <1>4, ChatMoves DEF LedgerInv

\* An attempt, the end of a back-off, a tick.
LEMMA CallGoesOnSteps ==
  ASSUME LedgerInv, NEW t \in Callers, Attempt(t) \/ BackoffOver(t) \/ TimePasses(t)
  PROVE  LedgerInv'
<1> DEFINE c == chat[t]
<1>1. c \in Chats /\ Pending(c)
  BY CallUnderWay DEF Attempt, BackoffOver, TimePasses
<1>2. PICK d : /\ Goes(t, d) /\ UNCHANGED <<cap, prober>>
               /\ \/ c.pc = "send" /\ d = [c EXCEPT !.pc = "wait", !.attempt = @ + 1]
                  \/ c.pc = "backoff" /\ d = [c EXCEPT !.pc = "send"]
                  \/ /\ c.pc \in {"send", "wait", "backoff"} /\ c.left > 0
                     /\ d = [c EXCEPT !.left = @ - 1]
  BY DEF Attempt, BackoffOver, TimePasses, Rest
<1>3. /\ c.attempt \in 0..MaxAttempts /\ c.left \in 0..LlmBudget
      /\ c.pc = "send" => c.attempt + 1 \in 1..MaxAttempts
      /\ c.left > 0 => c.left - 1 \in 0..LlmBudget
      /\ c.attempt + 1 - 1 = c.attempt
  BY <1>1, LlmAssumption DEF Chats, Pending
<1> DEFINE Fine == d \in Chats /\ d.pc # "done" /\ Pending(d)
<1>4. ASSUME c.pc = "send" /\ d = [c EXCEPT !.pc = "wait", !.attempt = @ + 1]
      PROVE  Fine
  <2>1. c.attempt + 1 \in 0..MaxAttempts /\ c.attempt + 1 > 0
    BY <1>3, <1>4, LlmAssumption
  <2>2. /\ d \in Chats /\ d.pc = "wait" /\ d.attempt = c.attempt + 1 /\ d.rows = c.rows
        /\ d.lost = c.lost /\ d.result = c.result
    BY <1>1, <1>4, <2>1 DEF Chats
  <2>3. FailedBefore(c, c.attempt) /\ c.result = "none"
    BY <1>1, <1>4 DEF Pending
  <2> QED
    BY <1>3, <2>1, <2>2, <2>3 DEF Pending, FailedBefore
<1>5. ASSUME c.pc = "backoff" /\ d = [c EXCEPT !.pc = "send"]
      PROVE  Fine
  BY <1>1, <1>5 DEF Chats, Pending, FailedBefore
<1>6. ASSUME c.pc \in {"send", "wait", "backoff"} /\ c.left > 0 /\ d = [c EXCEPT !.left = @ - 1]
      PROVE  Fine
  BY <1>1, <1>3, <1>6 DEF Chats, Pending, FailedBefore
<1>7. Fine
  BY <1>2, <1>4, <1>5, <1>6
<1> HIDE DEF Fine
<1> QED
  BY <1>2, <1>7, ChatMoves DEF LedgerInv, Fine

\* The steps that end a call, and a failure that may be tried again.
LEMMA CallEndsSteps ==
  ASSUME LedgerInv, NEW t \in Callers, NEW written \in BOOLEAN, NEW again \in BOOLEAN,
         \/ DeadlineOver(t, written) \/ TooLate(t, written)
         \/ ToolsRejected(t, written, again)
         \/ \E answered \in BOOLEAN : AttemptFails(t, answered, written, again)
         \/ \E kind \in {"good", "malformed", "refusal"} : Answered(t, kind, written, again)
  PROVE  LedgerInv'
<1> DEFINE c == chat[t]
<1>1. c \in Chats /\ Pending(c)
  BY CallUnderWay DEF DeadlineOver, TooLate, ToolsRejected, AttemptFails, Answered
<1>2. UNCHANGED prober /\ cap' \in CapRows
  <2>1. NoRow \in CapRows
    BY DEF NoRow, CapRows
  <2>2. UNCHANGED prober /\ cap' \in {cap, NoRow}
    BY DEF DeadlineOver, TooLate, ToolsRejected, AttemptFails, Answered, Rest
  <2> QED
    BY <2>1, <2>2 DEF LedgerInv
<1>3. c.attempt \in Nat /\ c.left \in Nat
  BY <1>1, LlmAssumption DEF Chats
<1>4. SUFFICES \E d \in Chats : Goes(t, d) /\ IF d.pc = "done" THEN Honest(d) ELSE Pending(d)
  BY <1>2, ChatMoves DEF LedgerInv
<1>5. CASE DeadlineOver(t, written)
  BY <1>1, <1>5, FinalizedIsHonest DEF DeadlineOver, Pending
<1>6. CASE TooLate(t, written)
  BY <1>1, <1>6, FinalizedIsHonest DEF TooLate, Pending
<1>7. CASE ToolsRejected(t, written, again)
  <2>1. c.attempt > 0 /\ FailedBefore(c, c.attempt - 1)
    BY <1>1, <1>7 DEF ToolsRejected, Pending
  <2> QED
    BY <1>1, <1>7, <2>1, FailedRowKept, FinalizedIsHonest DEF ToolsRejected
<1>8. ASSUME NEW answered \in BOOLEAN, AttemptFails(t, answered, written, again)
      PROVE  \E d \in Chats : Goes(t, d) /\ IF d.pc = "done" THEN Honest(d) ELSE Pending(d)
  <2> DEFINE d == Row(c, "failed", written)
  <2>1. c.attempt > 0 /\ FailedBefore(c, c.attempt - 1) /\ c.result = "none"
    BY <1>1, <1>8 DEF AttemptFails, Pending
  <2>2. /\ d \in Chats /\ d.attempt = c.attempt /\ d.result = "none"
        /\ FailedBefore(d, c.attempt)
    BY <1>1, <2>1, FailedRowKept
  <2> HIDE DEF d
  <2>3. CASE MayRetry(c)
    <3> DEFINE e == [d EXCEPT !.pc = "backoff"]
    <3>1. e \in Chats /\ e.pc = "backoff" /\ e.result = "none" /\ e.attempt = c.attempt
          /\ e.rows = d.rows /\ e.lost = d.lost
      BY <2>2 DEF Chats
    <3>2. Goes(t, e)
      BY <1>8, <2>3 DEF AttemptFails, d
    <3> HIDE DEF e
    <3>3. Pending(e)
      BY <2>2, <2>3, <3>1 DEF Pending, FailedBefore, MayRetry
    <3> QED
      BY <3>1, <3>2, <3>3
  <2>4. CASE ~ MayRetry(c)
    <3>1. Goes(t, Finalized(d, "transient", again))
      BY <1>8, <2>4 DEF AttemptFails, d
    <3> QED
      BY <2>1, <2>2, <3>1, FinalizedIsHonest
  <2> QED
    BY <2>3, <2>4
<1>9. ASSUME NEW kind \in {"good", "malformed", "refusal"}, Answered(t, kind, written, again)
      PROVE  \E d \in Chats : Goes(t, d) /\ IF d.pc = "done" THEN Honest(d) ELSE Pending(d)
  <2>1. c.attempt > 0 /\ FailedBefore(c, c.attempt - 1) /\ c.left > 0
    BY <1>1, <1>3, <1>9 DEF Answered, Pending, Expired
  <2>2. CASE kind = "good"
    <3> DEFINE d == Row(c, "ok", written)
    <3>1. /\ d \in Chats /\ d.attempt = c.attempt /\ d.left = c.left
          /\ d.rows \subseteq FailedRows(c.attempt - 1) \cup {<<c.attempt, "ok">>}
          /\ ~ d.lost => d.rows = FailedRows(c.attempt - 1) \cup {<<c.attempt, "ok">>}
      BY <1>1, <2>1, OkRowKept
    <3>2. Goes(t, Finalized(d, "answer", again))
      BY <1>9, <2>2 DEF Answered, StatusOf
    <3> HIDE DEF d
    <3> QED
      BY <2>1, <3>1, <3>2, FinalizedIsHonest
  <2>3. CASE kind # "good"
    <3> DEFINE d == Row(c, "failed", written)
    <3>1. d \in Chats /\ d.attempt = c.attempt /\ FailedBefore(d, c.attempt)
      BY <1>1, <2>1, FailedRowKept
    <3>2. Goes(t, Finalized(d, "permanent", again))
      BY <1>9, <2>3 DEF Answered, StatusOf
    <3> HIDE DEF d
    <3> QED
      BY <2>1, <3>1, <3>2, FinalizedIsHonest
  <2> QED
    BY <2>2, <2>3
<1> QED
  BY <1>5, <1>6, <1>7, <1>8, <1>9

\* The steps of the administrator, of the clock and of the probes.
LEMMA VerdictSteps ==
  ASSUME LedgerInv,
         \/ VerdictAges
         \/ \E tools \in BOOLEAN : OverrideTools(tools)
         \/ \E vision \in {"yes", "no"} : OverrideVision(vision)
         \/ \E p \in Probers :
              \/ ProbeTools(p) \/ ProbeVision(p) \/ ProbeFails(p)
              \/ \E tools \in BOOLEAN : ToolsProbed(p, tools)
              \/ \E vision \in {"yes", "no"} : VisionProbed(p, vision)
  PROVE  LedgerInv'
<1> SUFFICES cap' \in CapRows /\ prober' \in [Probers -> Probes] /\ UNCHANGED chat
  BY DEF LedgerInv
<1>1. CASE VerdictAges
  BY <1>1 DEF VerdictAges, LedgerInv, CapRows
<1>2. ASSUME NEW tools \in BOOLEAN, OverrideTools(tools)
      PROVE  cap' \in CapRows /\ prober' \in [Probers -> Probes] /\ UNCHANGED chat
  BY <1>2 DEF OverrideTools, LedgerInv, CapRows
<1>3. ASSUME NEW vision \in {"yes", "no"}, OverrideVision(vision)
      PROVE  cap' \in CapRows /\ prober' \in [Probers -> Probes] /\ UNCHANGED chat
  BY <1>3 DEF OverrideVision, LedgerInv, CapRows
<1>4. ASSUME NEW p \in Probers, ProbeTools(p) \/ ProbeVision(p) \/ ProbeFails(p)
      PROVE  cap' \in CapRows /\ prober' \in [Probers -> Probes] /\ UNCHANGED chat
  <2>1. cap.row \in BOOLEAN /\ cap \in CapRows
    BY DEF LedgerInv, CapRows
  <2>2. \A pc \in {"tools", "vision"}, then \in BOOLEAN :
          [pc |-> pc, seen |-> cap, then |-> then] \in Probes
    BY <2>1 DEF Probes
  <2>3. NoProbe \in Probes
    BY DEF Probes
  <2>4. PICK q \in Probes : prober' = [prober EXCEPT ![p] = q]
    BY <1>4, <2>1, <2>2, <2>3 DEF ProbeTools, ProbeVision, ProbeFails
  <2> QED
    BY <1>4, <2>4 DEF ProbeTools, ProbeVision, ProbeFails, LedgerInv
<1>5. ASSUME NEW p \in Probers, NEW tools \in BOOLEAN, ToolsProbed(p, tools)
      PROVE  cap' \in CapRows /\ prober' \in [Probers -> Probes] /\ UNCHANGED chat
  <2>1. prober[p] \in Probes /\ prober[p] # NoProbe
    BY <1>5 DEF ToolsProbed, LedgerInv, NoProbe
  <2>2. prober[p].seen \in CapRows
    BY <2>1 DEF Probes
  <2>3. cap' \in CapRows
    BY <1>5, <2>2, VerdictIsRow DEF ToolsProbed, LedgerInv
  <2> QED
    BY <1>5, <2>3 DEF ToolsProbed, LedgerInv, Probes
<1>6. ASSUME NEW p \in Probers, NEW vision \in {"yes", "no"}, VisionProbed(p, vision)
      PROVE  cap' \in CapRows /\ prober' \in [Probers -> Probes] /\ UNCHANGED chat
  <2>1. prober[p] \in Probes /\ prober[p] # NoProbe
    BY <1>6 DEF VisionProbed, LedgerInv, NoProbe
  <2>2. prober[p].seen \in CapRows
    BY <2>1 DEF Probes
  <2>3. /\ Written(prober[p].seen, "vision", vision) \in {"unknown", "yes", "no"}
        /\ Written(prober[p].seen, "visionBy", "probe") \in {"none", "probe", "manual"}
    BY <2>2 DEF Written, LedgerInv, CapRows
  <2>4. cap' \in CapRows
    BY <1>6, <2>3 DEF VisionProbed, VisionVerdict, LedgerInv, CapRows
  <2> QED
    BY <1>6, <2>4 DEF VisionProbed, LedgerInv, Probes
<1> QED
  BY <1>1, <1>2, <1>3, <1>4, <1>5, <1>6

-----------------------------------------------------------------------------
(* Completions: the theorem *)

LEMMA LedgerStep ==
  ASSUME LedgerInv, [LlmNext]_llmVars
  PROVE  LedgerInv'
<1>1. CASE UNCHANGED llmVars
  BY <1>1 DEF llmVars, LedgerInv
<1> QED
  BY <1>1, StartChatStep, GateStep, ReprobeSteps, CallGoesOnSteps, CallEndsSteps, VerdictSteps
  DEF LlmNext

\* However many callers, probes and overrides, whatever the attempts, the deadlines and
\* the rows that could not be written: the ledger of a call that is over has one row
\* for an attempt at most, a success exactly where there was an answer, and an answer
\* was in time.
THEOREM LedgersStayHonest == LlmSpec => [](LlmTypeOK /\ LedgerHonest)
<1>1. LlmInit => LedgerInv
  BY DEF LlmInit, LedgerInv, NoRow, CapRows, Probes
<1>2. LedgerInv => LedgerHonest
  BY DEF LedgerInv, LedgerHonest, Honest, Ended, NoChat
<1>3. LedgerInv => LlmTypeOK
  BY DEF LedgerInv, LlmTypeOK, CapRows, Chats
<1> QED
  BY <1>1, <1>2, <1>3, LedgerStep, PTL DEF LlmSpec

-----------------------------------------------------------------------------
(* Images: the inductive invariant *)

TaskStates == {"none", "queued", "done", "failed", "cancelled"}

ImageRecords ==
  [at : Phases, service : Services, tries : 0..MaxTransport, wire : {"idle", "there", "lost"},
   task : 0..MaxTransport, known : BOOLEAN, hops : 0..MaxRedirects, stored : {0}]

EndedImages ==
  [at : {"over"}, why : {"timeout", "uncancelled", "exhausted", "refused", "stored"},
   service : Services, task : 0..MaxTransport, known : BOOLEAN, stored : Nat]

\* An attempt that is open leaves room for its task; a task that was learnt of is there.
OpenCall(c) ==
  /\ c.at = "submit" => Cardinality(Tasks) <= c.tries /\ ~ c.known
  /\ c.at = "submit" /\ c.wire = "idle" => c.tries < MaxTransport
  /\ c.at = "submit" => IF Tasks = {} THEN c.task = 0 ELSE c.task \in Tasks
  /\ c.at = "poll" /\ c.wire = "idle" => c.tries < MaxTransport
  /\ c.at = "fetch" /\ c.wire = "idle" => c.tries < MaxTransport
  /\ c.at # "submit" \/ c.wire = "there" => c.task \in Tasks
  /\ c.at \in {"fetch", "download"} => queue[c.task] \in {"done", "failed"}

\* What StoredInTime and StraysAccounted say of a call that is over.
ClosedCall(c) ==
  /\ c.why = "stored" => c.stored > 0
  /\ c.service = "fal" => \A i \in Tasks : queue[i] = "queued" =>
       ~ c.known \/ i # c.task \/ c.why \in {"uncancelled", "exhausted", "refused"}

\* The tasks of a call are numbered as they came.
ImagesInv ==
  /\ image \in {NoImage} \cup ImageRecords \cup EndedImages
  /\ spare \in 0..ImageTime
  /\ queue \in [TaskIds -> TaskStates]
  /\ \E k \in 0..MaxTransport : Tasks = 1..k
  /\ image.at \in Phases => OpenCall(image)
  /\ image.at = "over" => ClosedCall(image)
  /\ OneTaskAtRunware

-----------------------------------------------------------------------------
(* Images: the steps *)

\* The number of tasks.
LEMMA TasksCounted ==
  ASSUME ImagesInv
  PROVE  Cardinality(Tasks) \in 0..MaxTransport /\ Tasks = 1..Cardinality(Tasks)
<1>1. PICK k \in 0..MaxTransport : Tasks = 1..k
  BY DEF ImagesInv
<1>2. k \in Nat /\ Cardinality(1..k) = k
  BY FS_Interval, ImageTasksAssumption
<1> QED
  BY <1>1, <1>2

LEMMA UnderWay ==
  ASSUME ImagesInv, image.at \in Phases
  PROVE  image \in ImageRecords /\ OpenCall(image)
<1>1. NoImage.at = "none" /\ "none" \notin Phases /\ "over" \notin Phases
  BY DEF NoImage, Phases
<1> QED
  BY <1>1 DEF ImagesInv, EndedImages

\* A task that is there changes its state, and the tasks remain.
LEMMA TasksRemain ==
  ASSUME ImagesInv,
         UNCHANGED queue \/ \E i \in Tasks, after \in TaskStates \ {"none"} :
                              queue' = [queue EXCEPT ![i] = after]
  PROVE  queue' \in [TaskIds -> TaskStates] /\ Tasks' = Tasks
<1>1. CASE UNCHANGED queue
  BY <1>1 DEF ImagesInv, Tasks
<1>2. ASSUME NEW i \in Tasks, NEW after \in TaskStates \ {"none"},
             queue' = [queue EXCEPT ![i] = after]
      PROVE  queue' \in [TaskIds -> TaskStates] /\ Tasks' = Tasks
  BY <1>2 DEF ImagesInv, Tasks
<1> QED
  BY <1>1, <1>2

\* A call ends, with its tasks as they are or one of them cancelled.
LEMMA CallEnds ==
  ASSUME ImagesInv, image \in ImageRecords,
         NEW why \in {"timeout", "uncancelled", "exhausted", "refused", "stored"}, Over(why),
         UNCHANGED queue \/ \E i \in Tasks, after \in TaskStates \ {"none"} :
                              queue' = [queue EXCEPT ![i] = after],
         spare' \in 0..ImageTime, why # "stored",
         image.service = "fal" /\ why = "timeout" /\ image.known /\ image.task \in Tasks =>
           queue'[image.task] # "queued"
  PROVE  ImagesInv'
<1>1. image' \in EndedImages /\ image'.at = "over" /\ image'.why = why
      /\ image'.service = image.service /\ image'.task = image.task /\ image'.known = image.known
  <2>1. /\ image.service \in Services /\ image.task \in 0..MaxTransport
        /\ image.known \in BOOLEAN /\ image.stored = 0
    BY DEF ImageRecords
  <2>2. image' = [at |-> "over", why |-> why, service |-> image.service, task |-> image.task,
                  known |-> image.known, stored |-> image.stored]
    BY DEF Over
  <2> QED
    BY <2>1, <2>2 DEF EndedImages
<1>2. queue' \in [TaskIds -> TaskStates] /\ Tasks' = Tasks
  BY TasksRemain
<1>3. ClosedCall(image)'
  BY <1>1, <1>2 DEF ClosedCall
<1>4. OneTaskAtRunware'
  <2>1. image.at # "none"
    BY DEF ImageRecords, Phases
  <2> QED
    BY <1>1, <1>2, <2>1 DEF ImagesInv, OneTaskAtRunware
<1> QED
  BY <1>1, <1>2, <1>3, <1>4 DEF ImagesInv, Phases

LEMMA OutOfTimeEnds ==
  ASSUME ImagesInv, image.at \in Phases, OutOfTime, spare' \in 0..ImageTime
  PROVE  ImagesInv'
<1>1. image \in ImageRecords /\ OpenCall(image)
  BY UnderWay
<1>2. ASSUME Cancels,
             queue' = [queue EXCEPT ![image.task] = IF @ = "queued" THEN "cancelled" ELSE @],
             Over("timeout")
      PROVE  ImagesInv'
  <2>1. image.task \in Tasks /\ image.task \in TaskIds /\ queue[image.task] # "none"
    BY <1>1, <1>2 DEF Cancels, OpenCall, Tasks
  <2> DEFINE after == IF queue[image.task] = "queued" THEN "cancelled" ELSE queue[image.task]
  <2>2. after \in TaskStates \ {"none"} /\ after # "queued"
    BY <2>1 DEF ImagesInv, TaskStates
  <2>3. queue' = [queue EXCEPT ![image.task] = after] /\ queue'[image.task] = after
    BY <1>2, <2>1 DEF ImagesInv
  <2> HIDE DEF after
  <2> QED
    BY <1>1, <1>2, <2>1, <2>2, <2>3, CallEnds
<1>3. ASSUME UNCHANGED queue, Over("uncancelled")
      PROVE  ImagesInv'
  BY <1>1, <1>3, CallEnds
<1>4. ASSUME ~ Cancels, UNCHANGED queue, Over("timeout")
      PROVE  ImagesInv'
  <2>1. image.service = "fal" /\ image.known => queue[image.task] # "queued"
    BY <1>1, <1>4 DEF Cancels, OpenCall, ImageRecords, Phases
  <2> QED
    BY <1>1, <1>4, <2>1, CallEnds
<1> QED
  BY <1>2, <1>3, <1>4 DEF OutOfTime

\* The call ends with its tasks as they are, and not because of the time.
LEMMA GivenUp ==
  ASSUME ImagesInv, image.at \in Phases, NEW why \in {"exhausted", "refused"}, Over(why),
         UNCHANGED queue, spare' \in 0..ImageTime
  PROVE  ImagesInv'
BY UnderWay, CallEnds

\* A call goes on, with the tasks that are there.
LEMMA CallGoesOn ==
  ASSUME ImagesInv, image.at \in Phases, UNCHANGED queue, spare' \in 0..ImageTime,
         image' \in ImageRecords, OpenCall(image'), image'.service = image.service
  PROVE  ImagesInv'
<1>1. Tasks' = Tasks
  BY DEF Tasks
<1>2. OpenCall(image)'
  BY <1>1 DEF OpenCall
<1>3. image.at # "none" /\ image'.at # "none" /\ image'.at \in Phases /\ image'.at # "over"
  BY DEF Phases, ImageRecords
<1>4. OneTaskAtRunware'
  BY <1>1, <1>3 DEF ImagesInv, OneTaskAtRunware
<1> QED
  BY <1>1, <1>2, <1>3, <1>4 DEF ImagesInv

\* The next kind of request.
LEMMA Enters ==
  ASSUME ImagesInv, image.at \in Phases, NEW phase \in {"poll", "fetch", "download"},
         Enter(phase, TRUE), UNCHANGED queue, spare' \in 0..ImageTime, image.task \in Tasks,
         phase # "poll" => queue[image.task] \in {"done", "failed"}
  PROVE  ImagesInv'
<1>1. image \in ImageRecords
  BY UnderWay
<1>2. /\ image' \in ImageRecords /\ image'.at = phase /\ image'.tries = 0
      /\ image'.task = image.task /\ image'.service = image.service
  <2>1. phase \in Phases /\ 0 \in 0..MaxTransport
    BY ImageTasksAssumption DEF Phases
  <2>2. image' = [image EXCEPT !.at = phase, !.tries = 0, !.wire = "idle", !.known = TRUE]
    BY DEF Enter
  <2> QED
    BY <1>1, <2>1, <2>2 DEF ImageRecords
<1>3. OpenCall(image')
  BY <1>2, ImageTasksAssumption DEF OpenCall
<1> QED
  BY <1>2, <1>3, CallGoesOn

LEMMA GenerateStep ==
  ASSUME ImagesInv, NEW service \in Services, NEW time \in 1..ImageTime,
         GenerateImage(service, time)
  PROVE  ImagesInv'
<1>1. Tasks' = {} /\ queue' \in [TaskIds -> TaskStates]
  BY DEF GenerateImage, Tasks, NoTasks, TaskStates
<1>2. Cardinality({}) = 0 /\ {} = 1..0 /\ 0 \in 0..MaxTransport
  BY FS_EmptySet, ImageTasksAssumption
<1>3. /\ image' \in ImageRecords /\ image'.at = "submit" /\ image'.tries = 0 /\ ~ image'.known
      /\ image'.task = 0 /\ image'.wire = "idle"
  BY ImageTasksAssumption DEF GenerateImage, ImageRecords, Phases
<1>4. OpenCall(image)'
  BY <1>1, <1>2, <1>3, ImageTasksAssumption DEF OpenCall
<1>5. spare' \in 0..ImageTime
  BY ImageTasksAssumption DEF GenerateImage
<1>6. OneTaskAtRunware'
  BY <1>1, <1>2 DEF OneTaskAtRunware
<1> QED
  BY <1>1, <1>2, <1>3, <1>4, <1>5, <1>6 DEF ImagesInv, Phases

\* A submission arrives: a task of its own, unless Runware has it.
LEMMA SubmissionArrives ==
  ASSUME ImagesInv, image.at = "submit", image.wire = "idle", Arrives, UNCHANGED spare
  PROVE  ImagesInv'
<1> DEFINE n == Cardinality(Tasks)
           i == TaskOf(image.task)
<1>1. image \in ImageRecords /\ OpenCall(image)
  BY UnderWay DEF Phases
<1>2. n \in Nat /\ n <= image.tries /\ image.tries < MaxTransport /\ Tasks = 1..n
      /\ image.tries \in Nat /\ MaxTransport \in Nat
  BY <1>1, TasksCounted, ImageTasksAssumption DEF OpenCall, ImageRecords
<1>3. \/ image.service = "runware" /\ i = image.task /\ i \in Tasks
      \/ (image.service = "runware" => n = 0) /\ i = n + 1
  <2>1. Cardinality({}) = 0
    BY FS_EmptySet
  <2>2. image.task \in Nat
    BY <1>1, ImageTasksAssumption DEF ImageRecords
  <2>3. CASE image.service = "runware" /\ image.task # 0
    <3>1. Tasks # {} /\ i = image.task
      BY <1>1, <2>3 DEF OpenCall, TaskOf
    <3>2. i \in Tasks
      BY <1>1, <3>1 DEF OpenCall
    <3> QED
      BY <2>3, <3>1, <3>2
  <2>4. CASE ~ (image.service = "runware" /\ image.task # 0)
    <3>1. i = n + 1
      BY <2>4 DEF TaskOf
    <3>2. 0 \notin Tasks
      BY DEF Tasks, TaskIds
    <3>3. image.service = "runware" => Tasks = {}
      BY <1>1, <2>4, <3>2 DEF OpenCall
    <3> QED
      BY <2>1, <3>1, <3>3
  <2> QED
    BY <2>3, <2>4
<1> HIDE DEF i, n
<1>4. /\ image' = [image EXCEPT !.tries = @ + 1, !.wire = "there", !.task = i]
      /\ queue' = [queue EXCEPT ![i] = IF @ = "none" THEN "queued" ELSE @]
  BY DEF Arrives, i
<1>5. i \in 1..MaxTransport /\ image.tries + 1 \in 0..MaxTransport
  BY <1>2, <1>3
<1>6. /\ image' \in ImageRecords /\ image'.at = "submit" /\ image'.tries = image.tries + 1
      /\ image'.wire = "there" /\ image'.task = i /\ ~ image'.known
      /\ image'.service = image.service
  <2>1. i \in 0..MaxTransport
    BY <1>5
  <2>2. image'.at = "submit" /\ ~ image'.known /\ image' \in ImageRecords
    BY <1>1, <1>4, <1>5, <2>1 DEF ImageRecords, OpenCall
  <2> QED
    BY <1>1, <1>4, <2>2 DEF ImageRecords
<1>7. queue' \in [TaskIds -> TaskStates] /\ Tasks' = Tasks \cup {i}
  BY <1>4, <1>5 DEF ImagesInv, TaskStates, TaskIds, Tasks
<1>8. PICK k \in 0..MaxTransport :
        Tasks' = 1..k /\ k <= image.tries + 1 /\ (image.service = "runware" => k <= 1)
  <2>1. CASE i \in Tasks /\ image.service = "runware"
    <3>1. Tasks' = 1..n /\ n \in 0..MaxTransport /\ n <= image.tries + 1
      BY <1>2, <1>7, <2>1
    <3>2. n <= 1
      BY <2>1 DEF ImagesInv, OneTaskAtRunware, n
    <3> QED
      BY <3>1, <3>2
  <2>2. CASE i = n + 1 /\ (image.service = "runware" => n = 0)
    <3>1. Tasks' = 1..(n + 1)
      BY <1>2, <1>7, <2>2
    <3> QED
      BY <1>2, <2>2, <3>1
  <2> QED
    BY <1>3, <2>1, <2>2
<1>9. Cardinality(Tasks') = k /\ i \in Tasks'
  <2>1. Cardinality(1..k) = k
    BY FS_Interval, ImageTasksAssumption
  <2> QED
    BY <1>7, <1>8, <2>1
<1>10. OpenCall(image)'
  BY <1>6, <1>8, <1>9 DEF OpenCall
<1>11. OneTaskAtRunware'
  BY <1>6, <1>8, <1>9 DEF OneTaskAtRunware
<1> QED
  BY <1>6, <1>7, <1>8, <1>10, <1>11 DEF ImagesInv, Phases

\* An attempt: it is too late for it, it arrives, or it is lost.
LEMMA ImageAskStep ==
  ASSUME ImagesInv, Ask
  PROVE  ImagesInv'
<1>1. image.at \in Phases /\ spare' \in 0..ImageTime
  BY DEF Ask, Phases, ImagesInv
<1>2. image \in ImageRecords /\ OpenCall(image)
  BY <1>1, UnderWay
<1>3. image.tries \in Nat /\ image.tries < MaxTransport /\ image.tries + 1 \in 0..MaxTransport
  BY <1>2, ImageTasksAssumption DEF Ask, OpenCall, ImageRecords
<1>4. CASE OutOfTime
  BY <1>1, <1>4, OutOfTimeEnds
<1>5. ASSUME NEW wire \in {"there", "lost"}, UNCHANGED queue,
             wire = "lost" \/ image.at # "submit",
             image' = [image EXCEPT !.tries = @ + 1, !.wire = wire]
      PROVE  ImagesInv'
  <2>1. /\ image' \in ImageRecords /\ image'.at = image.at /\ image'.tries = image.tries + 1
        /\ image'.wire = wire /\ image'.task = image.task /\ image'.known = image.known
        /\ image'.service = image.service
    BY <1>2, <1>3, <1>5 DEF ImageRecords
  <2>2. Cardinality(Tasks) \in Nat
    BY TasksCounted, ImageTasksAssumption
  <2>3. OpenCall(image')
    BY <1>2, <1>3, <1>5, <2>1, <2>2 DEF OpenCall
  <2> QED
    BY <1>1, <1>5, <2>1, <2>3, CallGoesOn
<1>6. CASE Arrives /\ image.at = "submit"
  BY <1>6, SubmissionArrives DEF Ask
<1>7. CASE Arrives /\ image.at # "submit"
  BY <1>5, <1>7 DEF Arrives
<1>8. CASE IsLost
  BY <1>5, <1>8 DEF IsLost
<1> QED
  BY <1>4, <1>6, <1>7, <1>8 DEF Ask

\* A delay is no longer than what is left.
LEMMA DelayBounded ==
  ASSUME image.tries \in Nat, spare \in Nat
  PROVE  Delay \in 0..spare
<1> DEFINE n == IF image.tries < 3 THEN image.tries ELSE 4
<1>1. n \in Nat
  OBVIOUS
<1> HIDE DEF n
<1>2. \E x \in {n, spare} : \A y \in {n, spare} : x <= y
  BY <1>1
<1>3. Delay \in {n, spare} /\ \A y \in {n, spare} : Delay <= y
  BY <1>2 DEF Delay, Min, n
<1> QED
  BY <1>1, <1>3

LEMMA AskFailsStep ==
  ASSUME ImagesInv, AskFails
  PROVE  ImagesInv'
<1>1. image.at \in Phases /\ spare \in Nat /\ spare \in 0..ImageTime
  <2>1. image.at \in Phases
    BY DEF AskFails, Asking, Phases
  <2>2. spare \in 0..ImageTime
    BY DEF ImagesInv
  <2> QED
    BY <2>1, <2>2, ImageTasksAssumption
<1>2. image \in ImageRecords /\ OpenCall(image) /\ image.tries \in Nat
  BY <1>1, UnderWay, ImageTasksAssumption DEF ImageRecords
<1>3. CASE Late
  BY <1>1, <1>3, OutOfTimeEnds DEF AskFails
<1>4. CASE ~ Late /\ LastAttempt
  BY <1>1, <1>4, GivenUp DEF AskFails
<1>5. CASE ~ Late /\ ~ LastAttempt
  <2>1. spare' \in 0..ImageTime
    <3>1. spare' = spare - Delay
      BY <1>5 DEF AskFails
    <3>2. Delay \in 0..spare
      BY <1>1, <1>2, DelayBounded
    <3> QED
      BY <1>1, <3>1, <3>2, ImageTasksAssumption
  <2>2. CASE OutOfTime
    BY <1>1, <2>1, <2>2, OutOfTimeEnds
  <2>3. CASE UNCHANGED queue /\ image' = [image EXCEPT !.wire = "idle"]
    <3>1. /\ image' \in ImageRecords /\ image'.at = image.at /\ image'.tries = image.tries
          /\ image'.wire = "idle" /\ image'.task = image.task /\ image'.known = image.known
          /\ image'.service = image.service
      BY <1>2, <2>3 DEF ImageRecords
    <3>2. OpenCall(image')
      BY <1>2, <1>5, <3>1, ImageTasksAssumption DEF OpenCall, LastAttempt
    <3> QED
      BY <1>1, <2>1, <2>3, <3>1, <3>2, CallGoesOn
  <2> QED
    BY <1>5, <2>2, <2>3 DEF AskFails
<1> QED
  BY <1>3, <1>4, <1>5

LEMMA AnswerSteps ==
  ASSUME ImagesInv,
         AskRefused \/ Submitted \/ StillQueued \/ FalCompleted \/ FalResult \/ RunwareResult
  PROVE  ImagesInv'
<1>1. image.at \in Phases /\ image.wire = "there" /\ spare \in 0..ImageTime
  BY DEF AskRefused, Submitted, StillQueued, FalCompleted, FalResult, RunwareResult, HasAnswer,
         Asking, Phases, ImagesInv
<1>2. image.task \in Tasks
  BY <1>1, UnderWay DEF OpenCall
<1>3. CASE Late
  <2>1. OutOfTime /\ UNCHANGED spare
    BY <1>3 DEF AskRefused, Submitted, StillQueued, FalCompleted, FalResult, RunwareResult
  <2> QED
    BY <1>1, <2>1, OutOfTimeEnds
<1>4. CASE ~ Late
  <2>1. spare' \in 0..ImageTime /\ UNCHANGED queue
    <3>1. UNCHANGED queue /\ spare' \in {spare, spare - 1}
      BY <1>4
      DEF AskRefused, Submitted, StillQueued, FalCompleted, FalResult, RunwareResult
    <3> QED
      BY <1>1, <1>4, <3>1, ImageTasksAssumption DEF Late
  <2>2. CASE AskRefused
    BY <1>1, <1>4, <2>1, <2>2, GivenUp DEF AskRefused
  <2>3. CASE Submitted \/ StillQueued
    BY <1>1, <1>2, <1>4, <2>1, <2>3, Enters DEF Submitted, StillQueued
  <2>4. CASE FalCompleted \/ FalResult \/ RunwareResult
    <3>1. queue[image.task] \in {"done", "failed"}
      BY <2>4 DEF FalCompleted, FalResult, RunwareResult
    <3> QED
      BY <1>1, <1>2, <1>4, <2>1, <2>4, <3>1, Enters DEF FalCompleted, FalResult, RunwareResult
  <2> QED
    BY <2>2, <2>3, <2>4
<1> QED
  BY <1>3, <1>4

LEMMA DownloadSteps ==
  ASSUME ImagesInv, Redirected \/ DownloadFails \/ Stored
  PROVE  ImagesInv'
<1>1. image.at = "download" /\ image.at \in Phases /\ spare \in 0..ImageTime /\ UNCHANGED spare
      /\ UNCHANGED queue
  BY DEF Redirected, DownloadFails, Stored, Phases, ImagesInv
<1>2. image \in ImageRecords /\ OpenCall(image) /\ queue[image.task] \in {"done", "failed"}
  BY <1>1, UnderWay DEF OpenCall
<1>3. CASE Over("refused")
  BY <1>1, <1>3, GivenUp
<1>4. CASE Over("timeout")
  BY <1>1, <1>2, <1>4, CallEnds
<1>5. CASE image.hops < MaxRedirects /\ image' = [image EXCEPT !.hops = @ + 1]
  <2>1. image.hops + 1 \in 0..MaxRedirects
    BY <1>2, <1>5, ImageTasksAssumption DEF ImageRecords
  <2>2. /\ image' \in ImageRecords /\ image'.at = image.at /\ image'.tries = image.tries
        /\ image'.wire = image.wire /\ image'.task = image.task
        /\ image'.service = image.service
    BY <1>2, <1>5, <2>1 DEF ImageRecords
  <2>3. OpenCall(image')
    BY <1>1, <1>2, <2>2 DEF OpenCall
  <2> QED
    BY <1>1, <2>2, <2>3, CallGoesOn
<1>6. CASE Stored
  <2>1. /\ image' \in EndedImages /\ image'.at = "over" /\ image'.stored > 0
        /\ image'.task = image.task /\ image'.service = image.service
    BY <1>1, <1>2, <1>6, ImageTasksAssumption DEF Stored, Late, ImageRecords, EndedImages
  <2>2. Tasks' = Tasks
    BY <1>1 DEF Tasks
  <2>3. ClosedCall(image)'
    BY <1>1, <1>2, <2>1, <2>2 DEF ClosedCall
  <2>4. OneTaskAtRunware'
    BY <1>1, <2>1, <2>2 DEF ImagesInv, OneTaskAtRunware
  <2> QED
    BY <1>1, <2>1, <2>2, <2>3, <2>4 DEF ImagesInv, Phases
<1> QED
  BY <1>3, <1>4, <1>5, <1>6 DEF Redirected, DownloadFails

\* The provider works on a task.
LEMMA WorksStep ==
  ASSUME ImagesInv, NEW i \in TaskIds, NEW after \in {"done", "failed"}, Works(i, after)
  PROVE  ImagesInv'
<1>1. queue' = [queue EXCEPT ![i] = after] /\ i \in Tasks /\ queue[i] = "queued"
      /\ UNCHANGED <<image, spare>>
  BY DEF Works, Tasks
<1>2. queue' \in [TaskIds -> TaskStates] /\ Tasks' = Tasks
  BY <1>1, TasksRemain DEF TaskStates
<1>3. \A j \in TaskIds : queue'[j] = queue[j] \/ queue'[j] \in {"done", "failed"}
  BY <1>1 DEF ImagesInv
<1>4. image.at \in Phases => OpenCall(image)'
  <2> SUFFICES ASSUME image.at \in Phases PROVE OpenCall(image)'
    OBVIOUS
  <2>1. OpenCall(image)
    BY UnderWay
  <2>2. image.at \in {"fetch", "download"} => image.task \in TaskIds
    BY <2>1 DEF OpenCall, Tasks
  <2> QED
    BY <1>1, <1>2, <1>3, <2>1, <2>2 DEF OpenCall
<1>5. image.at = "over" => ClosedCall(image)'
  BY <1>1, <1>2, <1>3 DEF ImagesInv, ClosedCall, Tasks
<1> QED
  BY <1>1, <1>2, <1>4, <1>5 DEF ImagesInv, OneTaskAtRunware

LEMMA ImageTimeStep ==
  ASSUME ImagesInv, ImageTimePasses
  PROVE  ImagesInv'
<1>1. image.at \in Phases /\ UNCHANGED <<image, queue>> /\ spare' \in 0..ImageTime
  BY ImageTasksAssumption DEF ImageTimePasses, ImagesInv
<1> QED
  BY <1>1, UnderWay, CallGoesOn

-----------------------------------------------------------------------------
(* Images: the theorem *)

LEMMA ImagesStep ==
  ASSUME ImagesInv, [ImageNext]_imageVars
  PROVE  ImagesInv'
<1>1. CASE UNCHANGED imageVars
  BY <1>1 DEF imageVars, ImagesInv, OpenCall, ClosedCall, OneTaskAtRunware, Tasks
<1> QED
  BY <1>1, GenerateStep, ImageAskStep, AskFailsStep, AnswerSteps, DownloadSteps, WorksStep,
     ImageTimeStep DEF ImageNext

LEMMA ImagesStart ==
  ASSUME ImageInit
  PROVE  ImagesInv
<1>1. Tasks = {} /\ {} = 1..0 /\ 0 \in 0..MaxTransport
  BY ImageTasksAssumption DEF ImageInit, Tasks, NoTasks
<1> QED
  BY <1>1, ImageTasksAssumption
  DEF ImageInit, ImagesInv, NoImage, NoTasks, TaskStates, Phases, OneTaskAtRunware

\* However many images, attempts and losses: Runware has one task of a call at most, no
\* image is stored after the deadline of its visit, and what is left in fal's queue was
\* never learnt of, or its cancellation or its status did not come through.
THEOREM ImagesStayAccounted == ImageSpec => [](ImageTypeOK /\ ImagesAccounted)
<1>1. ImagesInv => ImagesAccounted
  BY DEF ImagesInv, ImagesAccounted, StoredInTime, StraysAccounted, ClosedCall
<1>2. ImagesInv => ImageTypeOK
  BY DEF ImagesInv, ImageTypeOK, NoImage, ImageRecords, EndedImages, TaskStates
<1> QED
  BY <1>1, <1>2, ImagesStart, ImagesStep, PTL DEF ImageSpec

-----------------------------------------------------------------------------
(* Routes: the best of a tier *)

Named == RouteModels \cup {"standard", "other"}
RouteRows == [tier : RouteTiers, model : Named, priority : Nat]
Searches ==
  [step : {"none", "check", "seed", "tier", "default", "done"}, tier : RouteTiers,
   fallback : Named \cup {Unset}, found : Named \cup {Unset, "forced"},
   due : RouteModels \cup {Unset}]

IdsOf(rows, t) == {i \in DOMAIN rows : rows[i].tier = t}

IsBest(i, ids, rows) ==
  /\ i \in ids
  /\ \A j \in ids : \/ rows[i].priority > rows[j].priority
                    \/ rows[i].priority = rows[j].priority /\ i >= j

BestIn(rows, ids) ==
  CHOOSE i \in ids : \A j \in ids : \/ rows[i].priority > rows[j].priority
                                    \/ rows[i].priority = rows[j].priority /\ i >= j

\* The best row of the tier names the model.
Leads(rows, t, named) ==
  \E i \in DOMAIN rows : IsBest(i, IdsOf(rows, t), rows) /\ rows[i].model = named

\* There is a best of any rows.
LEMMA BestExists ==
  ASSUME NEW rows \in Seq(RouteRows), NEW ids \in SUBSET DOMAIN rows, ids # {}
  PROVE  \E i \in DOMAIN rows : IsBest(i, ids, rows)
<1> DEFINE First(n) == ids \cap (1..n)
           Without == {n \in Nat : First(n) # {} /\ ~ \E i \in DOMAIN rows : IsBest(i, First(n), rows)}
<1>1. DOMAIN rows = 1..Len(rows) /\ Len(rows) \in Nat
  OBVIOUS
<1>2. \A i \in DOMAIN rows : rows[i].priority \in Nat /\ i \in Nat
  <2>1. \A i \in DOMAIN rows : rows[i] \in RouteRows
    OBVIOUS
  <2> QED
    BY <1>1, <2>1 DEF RouteRows
<1>3. First(Len(rows)) = ids
  BY <1>1
<1>4. Without = {}
  <2> SUFFICES ASSUME Without # {} PROVE FALSE
    OBVIOUS
  <2>0. Without \in SUBSET Nat
    OBVIOUS
  <2>1. PICK n \in Without : \A m \in Without : n <= m
    BY <2>0, LeastOfNat
  <2>2. n \in Nat /\ n # 0
    BY <2>1
  <2>3. n - 1 \in Nat /\ n - 1 \notin Without
    <3> HIDE DEF Without
    <3> QED
      BY <2>1, <2>2
  <2>4. n \in ids /\ First(n) = First(n - 1) \cup {n}
    <3>1. n \notin ids => First(n) = First(n - 1)
      BY <2>2
    <3>2. n \in ids => First(n) = First(n - 1) \cup {n}
      BY <2>2
    <3> QED
      BY <2>1, <2>3, <3>1, <3>2
  <2>5. n \in DOMAIN rows /\ \A j \in First(n - 1) : j < n /\ j \in DOMAIN rows
    BY <2>2, <2>4
  <2>6. CASE First(n - 1) = {}
    <3>1. IsBest(n, First(n), rows)
      BY <1>2, <2>4, <2>5, <2>6 DEF IsBest
    <3> QED
      BY <2>1, <2>5, <3>1
  <2>7. CASE First(n - 1) # {}
    <3>1. PICK b \in DOMAIN rows : IsBest(b, First(n - 1), rows)
      BY <2>3, <2>7
    <3> HIDE DEF First, Without
    <3>2. CASE rows[b].priority > rows[n].priority
      <4>1. IsBest(b, First(n), rows)
        BY <2>4, <3>1, <3>2 DEF IsBest
      <4> QED
        BY <2>1, <3>1, <4>1 DEF Without
    <3>3. CASE ~(rows[b].priority > rows[n].priority)
      <4>1. IsBest(n, First(n), rows)
        BY <1>2, <2>4, <2>5, <3>1, <3>3 DEF IsBest
      <4> QED
        BY <2>1, <2>5, <4>1 DEF Without
    <3> QED
      BY <3>2, <3>3
  <2> QED
    BY <2>6, <2>7
<1> QED
  BY <1>1, <1>3, <1>4

\* The best of some rows is one.
LEMMA BestIsOne ==
  ASSUME NEW rows \in Seq(RouteRows), NEW ids \in SUBSET DOMAIN rows, NEW i,
         IsBest(i, ids, rows)
  PROVE  BestIn(rows, ids) = i
<1>1. \A j \in ids : rows[j].priority \in Nat /\ j \in Nat
  <2>1. \A j \in ids : rows[j] \in RouteRows /\ j \in Nat
    OBVIOUS
  <2> QED
    BY <2>1 DEF RouteRows
<1>2. \A j \in ids : IsBest(j, ids, rows) => j = i
  BY <1>1 DEF IsBest
<1> QED
  BY <1>2 DEF BestIn, IsBest

\* A row of another tier at the end leaves the best of a tier.
LEMMA LeadsAfterAppend ==
  ASSUME NEW rows \in Seq(RouteRows), NEW t, NEW named, NEW row \in RouteRows, row.tier # t
  PROVE  /\ Leads(rows, t, named) => Leads(Append(rows, row), t, named)
         /\ IdsOf(Append(rows, row), t) = IdsOf(rows, t)
<1> DEFINE more == Append(rows, row)
<1>1. /\ DOMAIN more = DOMAIN rows \cup {Len(rows) + 1} /\ more[Len(rows) + 1] = row
      /\ \A i \in DOMAIN rows : more[i] = rows[i] /\ i \in DOMAIN more
  OBVIOUS
<1> HIDE DEF more
<1>2. IdsOf(more, t) = IdsOf(rows, t)
  BY <1>1 DEF IdsOf
<1>3. \A i : IsBest(i, IdsOf(rows, t), rows) => IsBest(i, IdsOf(rows, t), more)
  BY <1>1 DEF IsBest, IdsOf
<1>4. Leads(rows, t, named) => Leads(more, t, named)
  BY <1>1, <1>2, <1>3 DEF Leads
<1> QED
  BY <1>2, <1>4 DEF more

\* So does a row of another tier that is rewritten.
LEMMA LeadsAfterRewrite ==
  ASSUME NEW rows \in Seq(RouteRows), NEW t, NEW named, NEW row \in RouteRows, row.tier # t,
         NEW k \in DOMAIN rows, rows[k].tier # t
  PROVE  /\ Leads(rows, t, named) => Leads([rows EXCEPT ![k] = row], t, named)
         /\ IdsOf([rows EXCEPT ![k] = row], t) = IdsOf(rows, t)
<1> DEFINE new == [rows EXCEPT ![k] = row]
<1>1. /\ DOMAIN new = DOMAIN rows /\ new[k] = row
      /\ \A i \in DOMAIN rows : i # k => new[i] = rows[i]
  OBVIOUS
<1> HIDE DEF new
<1>2. IdsOf(new, t) = IdsOf(rows, t) /\ k \notin IdsOf(rows, t)
  BY <1>1 DEF IdsOf
<1>3. \A i : IsBest(i, IdsOf(rows, t), rows) => IsBest(i, IdsOf(rows, t), new)
  BY <1>1, <1>2 DEF IsBest, IdsOf
<1>4. Leads(rows, t, named) => Leads(new, t, named)
  BY <1>1, <1>2, <1>3 DEF Leads, IsBest, IdsOf
<1> QED
  BY <1>2, <1>4 DEF new

-----------------------------------------------------------------------------
(* Routes: the inductive invariant *)

\* What was set for a tier leads it; a tier but the default one has one row at most, and
\* it is what was set; a search of the default tier has found no route of its own.
RoutingInv ==
  /\ routes \in Seq(RouteRows)
  /\ standard \in {"standard", "other"}
  /\ asSet \in [RouteTiers -> RouteModels \cup {Unset}]
  /\ search \in [Hosts -> Searches]
  /\ \A t \in RouteTiers : asSet[t] # Unset => Leads(routes, t, asSet[t])
  /\ \A t \in RouteTiers \ {"default"} :
       /\ \A i, j \in IdsOf(routes, t) : i = j
       /\ asSet[t] = Unset => IdsOf(routes, t) = {}
  /\ \A h \in Hosts : search[h].step = "default" =>
       search[h].tier # "default" /\ (h \notin lately => IdsOf(routes, search[h].tier) = {})
  /\ AnswersAsSet

\* The best of a tier, as a lookup finds it.
LEMMA BestFound ==
  ASSUME RoutingInv, NEW t
  PROVE  /\ OfTier(t) = IdsOf(routes, t) /\ OfTier(t) \in SUBSET DOMAIN routes
         /\ OfTier(t) # {} =>
              /\ Best(OfTier(t)) \in OfTier(t)
              /\ IsBest(Best(OfTier(t)), OfTier(t), routes)
              /\ routes[Best(OfTier(t))] \in RouteRows
         /\ \A named : Leads(routes, t, named) =>
              OfTier(t) # {} /\ routes[Best(OfTier(t))].model = named
<1>1. OfTier(t) = IdsOf(routes, t) /\ OfTier(t) \in SUBSET DOMAIN routes
  BY DEF OfTier, IdsOf
<1>2. routes \in Seq(RouteRows)
  BY DEF RoutingInv
<1>3. Best(OfTier(t)) = BestIn(routes, OfTier(t))
  BY DEF Best, BestIn
<1>4. ASSUME NEW i, IsBest(i, OfTier(t), routes)
      PROVE  Best(OfTier(t)) = i
  BY <1>1, <1>2, <1>3, <1>4, BestIsOne
<1>5. ASSUME OfTier(t) # {}
      PROVE  /\ Best(OfTier(t)) \in OfTier(t)
             /\ IsBest(Best(OfTier(t)), OfTier(t), routes)
             /\ routes[Best(OfTier(t))] \in RouteRows
  <2>1. PICK i \in DOMAIN routes : IsBest(i, OfTier(t), routes)
    BY <1>1, <1>2, <1>5, BestExists
  <2>2. routes[i] \in RouteRows
    BY <1>2
  <2> QED
    BY <1>4, <2>1, <2>2 DEF IsBest
<1>6. ASSUME NEW named, Leads(routes, t, named)
      PROVE  OfTier(t) # {} /\ routes[Best(OfTier(t))].model = named
  BY <1>1, <1>4, <1>6 DEF Leads, IsBest
<1> QED
  BY <1>1, <1>5, <1>6

-----------------------------------------------------------------------------
(* Routes: the steps *)

\* A step of a search that leaves the routes.
LEMMA SearchMoves ==
  ASSUME RoutingInv, NEW h \in Hosts, NEW s \in Searches, search' = [search EXCEPT ![h] = s],
         UNCHANGED <<routes, standard, asSet>>,
         lately' \in {lately, lately \ {h}},
         s.step = "default" =>
           s.tier # "default" /\ (h \notin lately' => IdsOf(routes, s.tier) = {}),
         h \notin lately' =>
           (s.step = "done" /\ s.found # "forced" /\ s.due # Unset => s.found = s.due)
  PROVE  RoutingInv'
<1>1. search' \in [Hosts -> Searches] /\ search'[h] = s
  BY DEF RoutingInv
<1>2. \A g \in Hosts : g # h => search'[g] = search[g] /\ (g \in lately' <=> g \in lately)
  BY DEF RoutingInv
<1>3. AnswersAsSet'
  BY <1>1, <1>2 DEF RoutingInv, AnswersAsSet
<1>4. \A g \in Hosts : search'[g].step = "default" =>
        search'[g].tier # "default" /\ (g \notin lately' => IdsOf(routes', search'[g].tier) = {})
  BY <1>1, <1>2 DEF RoutingInv
<1> QED
  BY <1>1, <1>3, <1>4 DEF RoutingInv

\* The answer of a lookup that finds what is due.
LEMMA AnswerFound ==
  ASSUME RoutingInv, NEW h \in Hosts, NEW named \in Named \cup {Unset}, Found(h, named),
         UNCHANGED <<routes, standard, asSet, lately>>,
         h \notin lately /\ Due(search[h].tier) # Unset => named = Due(search[h].tier)
  PROVE  RoutingInv'
<1>1. search[h] \in Searches /\ search[h].tier \in RouteTiers
  BY DEF RoutingInv, Searches
<1>2. Due(search[h].tier) \in RouteModels \cup {Unset}
  BY <1>1, ModelRoutingAssumption DEF RoutingInv, Due
<1> DEFINE s == [search[h] EXCEPT !.step = "done", !.found = named, !.due = Due(search[h].tier)]
<1>3. s \in Searches /\ s.step = "done" /\ s.found = named /\ s.due = Due(search[h].tier)
  BY <1>1, <1>2 DEF Searches
<1>4. search' = [search EXCEPT ![h] = s]
  BY <1>1 DEF Found, RoutingInv
<1> HIDE DEF s
<1> QED
  BY <1>3, <1>4, SearchMoves

LEMMA StartSearchStep ==
  ASSUME RoutingInv, NEW h \in Hosts, NEW t \in RouteTiers, StartSearch(h, t)
  PROVE  RoutingInv'
<1> DEFINE s == [step |-> IF forced[h] THEN "done" ELSE IF checked[h] THEN "tier" ELSE "check",
                 tier |-> t, fallback |-> standard,
                 found |-> IF forced[h] THEN "forced" ELSE Unset, due |-> Unset]
<1>1. s \in Searches /\ s.step \in {"done", "tier", "check"} /\ s.due = Unset
  BY DEF RoutingInv, Searches, Named
<1>2. search' = [search EXCEPT ![h] = s] /\ lately' = lately \ {h}
      /\ UNCHANGED <<routes, standard, asSet>>
  BY DEF StartSearch
<1> HIDE DEF s
<1> QED
  BY <1>1, <1>2, SearchMoves

LEMMA CheckSeededStep ==
  ASSUME RoutingInv, NEW h \in Hosts, CheckSeeded(h)
  PROVE  RoutingInv'
<1>1. PICK step \in {"seed", "tier"} : search' = [search EXCEPT ![h].step = step]
  BY DEF CheckSeeded
<1> DEFINE s == [search[h] EXCEPT !.step = step]
<1>2. s \in Searches /\ s.step = step
  BY DEF RoutingInv, Searches
<1>3. search' = [search EXCEPT ![h] = s] /\ UNCHANGED <<routes, standard, asSet, lately>>
  BY <1>1 DEF CheckSeeded, RoutingInv
<1> HIDE DEF s
<1> QED
  BY <1>2, <1>3, SearchMoves

LEMMA LookUpTierStep ==
  ASSUME RoutingInv, NEW h \in Hosts, LookUpTier(h)
  PROVE  RoutingInv'
<1> DEFINE t == search[h].tier
           ids == OfTier(t)
<1>1. search[h] \in Searches /\ t \in RouteTiers /\ UNCHANGED <<routes, standard, asSet, lately>>
  BY DEF RoutingInv, Searches, LookUpTier
<1>2. asSet[t] # Unset => ids # {} /\ routes[Best(ids)].model = asSet[t]
  <2>1. asSet[t] # Unset => Leads(routes, t, asSet[t])
    BY <1>1 DEF RoutingInv
  <2> QED
    BY <2>1, BestFound
<1>3. t # "default" /\ asSet[t] = Unset => ids = {}
  BY <1>1, BestFound DEF RoutingInv
<1>4. CASE ids # {}
  <2>1. Found(h, routes[Best(ids)].model)
    BY <1>4 DEF LookUpTier, FirstTier
  <2>2. routes[Best(ids)].model \in Named
    BY <1>4, BestFound DEF RouteRows
  <2>3. Due(t) # Unset => routes[Best(ids)].model = Due(t)
    BY <1>2, <1>3, <1>4 DEF Due
  <2> QED
    BY <1>1, <2>1, <2>2, <2>3, AnswerFound
<1>5. CASE ids = {} /\ t = "default"
  <2>1. Found(h, search[h].fallback)
    BY <1>5 DEF LookUpTier, FirstTier
  <2>2. search[h].fallback \in Named \cup {Unset}
    BY <1>1 DEF Searches
  <2>3. Due(t) = Unset
    BY <1>2, <1>5 DEF Due
  <2> QED
    BY <1>1, <2>1, <2>2, <2>3, AnswerFound
<1>6. CASE ids = {} /\ t # "default"
  <2> DEFINE s == [search[h] EXCEPT !.step = "default"]
  <2>1. s \in Searches /\ s.step = "default" /\ s.tier = t
    BY <1>1 DEF Searches
  <2>2. search' = [search EXCEPT ![h] = s]
    BY <1>1, <1>6 DEF LookUpTier, FirstTier, RoutingInv
  <2>3. IdsOf(routes, t) = {}
    BY <1>6, BestFound
  <2> HIDE DEF s
  <2> QED
    BY <1>1, <1>6, <2>1, <2>2, <2>3, SearchMoves
<1> QED
  BY <1>4, <1>5, <1>6

LEMMA LookUpDefaultTierStep ==
  ASSUME RoutingInv, NEW h \in Hosts, LookUpDefaultTier(h)
  PROVE  RoutingInv'
<1> DEFINE t == search[h].tier
           ids == OfTier("default")
           named == IF ids # {} THEN routes[Best(ids)].model ELSE search[h].fallback
<1>1. /\ search[h] \in Searches /\ t \in RouteTiers /\ search[h].step = "default"
      /\ Found(h, named) /\ UNCHANGED <<routes, standard, asSet, lately>>
  BY DEF RoutingInv, Searches, LookUpDefaultTier
<1>2. named \in Named \cup {Unset}
  BY <1>1, BestFound DEF RouteRows, Searches
<1>3. h \notin lately => asSet[t] = Unset
  <2> SUFFICES ASSUME h \notin lately, asSet[t] # Unset PROVE FALSE
    OBVIOUS
  <2>1. IdsOf(routes, t) = {}
    BY <1>1 DEF RoutingInv
  <2>2. Leads(routes, t, asSet[t])
    BY <1>1 DEF RoutingInv
  <2> QED
    BY <2>1, <2>2, BestFound
<1>4. asSet["default"] # Unset => ids # {} /\ routes[Best(ids)].model = asSet["default"]
  BY BestFound, ModelRoutingAssumption DEF RoutingInv
<1>5. h \notin lately /\ Due(t) # Unset => named = Due(t)
  BY <1>3, <1>4 DEF Due
<1> QED
  BY <1>1, <1>2, <1>5, AnswerFound

\* A row is seeded over what was set for the default tier; the others are as they were.
LEMMA SeedStep ==
  ASSUME RoutingInv, NEW h \in Hosts, Seed(h)
  PROVE  RoutingInv'
<1> DEFINE row == [tier |-> "default", model |-> standard, priority |-> 0]
<1>1. row \in RouteRows /\ row.tier = "default"
  BY ModelRoutingAssumption DEF RoutingInv, RouteRows, Named
<1>2. routes' = Append(routes, row) /\ UNCHANGED <<standard, lately>>
  BY DEF Seed
<1> HIDE DEF row
<1>3. routes' \in Seq(RouteRows)
  BY <1>1, <1>2 DEF RoutingInv
<1>4. \A t \in RouteTiers \ {"default"} :
        /\ IdsOf(routes', t) = IdsOf(routes, t)
        /\ \A named : Leads(routes, t, named) => Leads(routes', t, named)
  BY <1>1, <1>2, LeadsAfterAppend DEF RoutingInv
<1>5. /\ asSet' \in [RouteTiers -> RouteModels \cup {Unset}]
      /\ asSet'["default"] = Unset
      /\ \A t \in RouteTiers \ {"default"} : asSet'[t] = asSet[t]
  <2>1. CASE OfTier("default") = {}
    <3>1. asSet["default"] = Unset
      BY <2>1, BestFound, ModelRoutingAssumption DEF RoutingInv
    <3> QED
      BY <2>1, <3>1 DEF Seed, RoutingInv
  <2>2. CASE OfTier("default") # {}
    BY <2>2, ModelRoutingAssumption DEF Seed, RoutingInv
  <2> QED
    BY <2>1, <2>2
<1> DEFINE s == [search[h] EXCEPT !.step = "tier"]
<1>6. s \in Searches /\ s.step = "tier" /\ search' = [search EXCEPT ![h] = s]
  BY DEF Seed, RoutingInv, Searches
<1> HIDE DEF s
<1>7. search' \in [Hosts -> Searches] /\ \A g \in Hosts : search'[g] \in {s, search[g]}
  BY <1>6 DEF RoutingInv
<1>8. \A g \in Hosts : search'[g].step = "default" =>
        search'[g].tier # "default" /\ (g \notin lately' => IdsOf(routes', search'[g].tier) = {})
  <2> SUFFICES ASSUME NEW g \in Hosts, search'[g].step = "default"
               PROVE  search'[g].tier # "default"
                      /\ (g \notin lately' => IdsOf(routes', search'[g].tier) = {})
    OBVIOUS
  <2>1. search'[g] = search[g] /\ search[g].tier \in RouteTiers
    BY <1>6, <1>7 DEF Searches
  <2> QED
    BY <1>2, <1>4, <2>1 DEF RoutingInv
<1>9. AnswersAsSet'
  BY <1>2, <1>6, <1>7 DEF RoutingInv, AnswersAsSet
<1> QED
  BY <1>2, <1>3, <1>4, <1>5, <1>7, <1>8, <1>9 DEF RoutingInv

\* A change of the table concerns every search under way.
LEMMA TableChanges ==
  ASSUME RoutingInv, Changed, UNCHANGED search, standard' \in {"standard", "other"},
         routes' \in Seq(RouteRows), asSet' \in [RouteTiers -> RouteModels \cup {Unset}],
         \A t \in RouteTiers : asSet'[t] # Unset => Leads(routes', t, asSet'[t]),
         \A t \in RouteTiers \ {"default"} :
           /\ \A i, j \in IdsOf(routes', t) : i = j
           /\ asSet'[t] = Unset => IdsOf(routes', t) = {}
  PROVE  RoutingInv'
<1>1. /\ \A h \in Hosts : search[h].step = "default" => h \in lately'
      /\ lately \subseteq lately'
  BY DEF Changed
<1>2. AnswersAsSet'
  BY <1>1 DEF RoutingInv, AnswersAsSet
<1> QED
  BY <1>1, <1>2 DEF RoutingInv

LEMMA SetRouteStep ==
  ASSUME RoutingInv, NEW h \in Hosts, NEW t \in RouteTiers, NEW m \in RouteModels,
         NEW p \in Priorities, SetRoute(h, t, m, p)
  PROVE  RoutingInv'
<1> DEFINE row == [tier |-> t, model |-> m, priority |-> p]
           ids == OfTier(t)
<1>1. row \in RouteRows /\ row.tier = t /\ row.model = m /\ row.priority = p /\ p \in Nat
  BY ModelRoutingAssumption DEF RouteRows, Named
<1>2. /\ routes' = IF ids = {} THEN Append(routes, row) ELSE [routes EXCEPT ![Best(ids)] = row]
      /\ asSet' = [asSet EXCEPT ![t] = IF Demotes(t, p) THEN Unset ELSE m]
      /\ Changed /\ UNCHANGED <<standard, search>>
  BY DEF SetRoute, Rewritten
<1> HIDE DEF row
<1>3. routes \in Seq(RouteRows) /\ m # Unset
  BY ModelRoutingAssumption DEF RoutingInv
<1>4. ids = IdsOf(routes, t) /\ ids \in SUBSET DOMAIN routes
  BY BestFound
<1>5. asSet' \in [RouteTiers -> RouteModels \cup {Unset}]
  BY <1>2 DEF RoutingInv
<1>6. \A u \in RouteTiers : u # t => asSet'[u] = asSet[u]
  BY <1>2 DEF RoutingInv
<1>7. asSet'[t] = IF Demotes(t, p) THEN Unset ELSE m
  BY <1>2 DEF RoutingInv
<1>8. CASE ids = {}
  <2>1. routes' = Append(routes, row)
    BY <1>2, <1>8
  <2>2. routes' \in Seq(RouteRows)
    BY <1>1, <1>3, <2>1
  <2>3. \A u \in RouteTiers : u # t =>
          /\ IdsOf(routes', u) = IdsOf(routes, u)
          /\ \A named : Leads(routes, u, named) => Leads(routes', u, named)
    BY <1>1, <1>3, <2>1, LeadsAfterAppend
  <2>4. IdsOf(routes', t) = {Len(routes) + 1} /\ routes'[Len(routes) + 1] = row
        /\ Len(routes) + 1 \in DOMAIN routes'
    BY <1>1, <1>3, <1>4, <1>8, <2>1 DEF IdsOf
  <2>5. Leads(routes', t, m)
    BY <1>1, <1>3, <2>4 DEF Leads, IsBest
  <2>6. ~ Demotes(t, p)
    BY <1>8, FS_EmptySet DEF Demotes
  <2>7. \A u \in RouteTiers : asSet'[u] # Unset => Leads(routes', u, asSet'[u])
    BY <1>6, <1>7, <2>3, <2>5 DEF RoutingInv
  <2>8. \A u \in RouteTiers \ {"default"} :
          /\ \A i, j \in IdsOf(routes', u) : i = j
          /\ asSet'[u] = Unset => IdsOf(routes', u) = {}
    <3> SUFFICES ASSUME NEW u \in RouteTiers \ {"default"}
                 PROVE  /\ \A i, j \in IdsOf(routes', u) : i = j
                        /\ asSet'[u] = Unset => IdsOf(routes', u) = {}
      OBVIOUS
    <3>1. CASE u = t
      BY <1>3, <1>7, <2>4, <2>6, <3>1
    <3>2. CASE u # t
      BY <1>6, <2>3, <3>2 DEF RoutingInv
    <3> QED
      BY <3>1, <3>2
  <2>9. standard' \in {"standard", "other"}
    BY <1>2 DEF RoutingInv
  <2> QED
    BY <1>2, <1>5, <2>2, <2>7, <2>8, <2>9, TableChanges
<1>9. CASE ids # {}
  <2> DEFINE b == Best(ids)
  <2>1. b \in ids /\ IsBest(b, ids, routes) /\ routes[b] \in RouteRows /\ b \in DOMAIN routes
        /\ routes[b].tier = t /\ b \in Nat
    <3>1. b \in ids /\ IsBest(b, ids, routes) /\ routes[b] \in RouteRows
      BY <1>9, BestFound
    <3>2. b \in DOMAIN routes /\ routes[b].tier = t
      BY <1>4, <3>1 DEF IdsOf
    <3> QED
      BY <1>3, <3>1, <3>2
  <2>2. routes' = [routes EXCEPT ![b] = row]
    BY <1>2, <1>9
  <2>3. /\ routes[b].priority \in Nat
        /\ Demotes(t, p) => Cardinality(ids) > 1
        /\ Cardinality(ids) > 1 /\ p < routes[b].priority => Demotes(t, p)
    BY <2>1 DEF Demotes, RouteRows
  <2> HIDE DEF b, ids
  <2>4. routes' \in Seq(RouteRows) /\ DOMAIN routes' = DOMAIN routes
        /\ routes'[b] = row /\ \A i \in DOMAIN routes : i # b => routes'[i] = routes[i]
    BY <1>1, <1>3, <2>1, <2>2
  <2>5. \A u \in RouteTiers : u # t =>
          /\ IdsOf(routes', u) = IdsOf(routes, u)
          /\ \A named : Leads(routes, u, named) => Leads(routes', u, named)
    BY <1>1, <1>3, <2>1, <2>2, LeadsAfterRewrite
  <2>6. IdsOf(routes', t) = ids
    BY <1>1, <1>4, <2>1, <2>4 DEF IdsOf
  <2>7. (\A j \in ids : j = b) => ~ Demotes(t, p)
    <3> SUFFICES ASSUME \A j \in ids : j = b PROVE ~ Demotes(t, p)
      OBVIOUS
    <3>1. ids = {b}
      BY <2>1
    <3>2. Cardinality(ids) = 1
      BY <3>1, FS_Singleton
    <3> QED
      BY <2>3, <3>2
  <2>8. ~ Demotes(t, p) => Leads(routes', t, m)
    <3> SUFFICES ASSUME ~ Demotes(t, p) PROVE IsBest(b, ids, routes')
      BY <1>1, <2>1, <2>4, <2>6 DEF Leads
    <3>1. CASE Cardinality(ids) > 1
      <4>1. p >= routes[b].priority
        BY <1>1, <2>3, <3>1
      <4>2. \A j \in ids : routes[j].priority \in Nat /\ j \in Nat
        <5>1. \A j \in ids : routes[j] \in RouteRows /\ j \in Nat
          BY <1>3, <1>4
        <5> QED
          BY <5>1 DEF RouteRows
      <4> QED
        BY <1>1, <1>4, <2>1, <2>3, <2>4, <4>1, <4>2 DEF IsBest
    <3>2. CASE ~(Cardinality(ids) > 1)
      <4>1. IsFiniteSet(ids)
        <5>1. IsFiniteSet(1..Len(routes))
          BY <1>3, FS_Interval
        <5> QED
          BY <1>3, <1>4, <5>1, FS_Subset
      <4>2. \A j \in ids : j = b
        <5> SUFFICES ASSUME NEW j \in ids, j # b PROVE FALSE
          OBVIOUS
        <5>1. IsFiniteSet({b}) /\ Cardinality({b}) = 1
          BY FS_Singleton
        <5>2. Cardinality({b} \cup {j}) = 2
          <6>1. j \notin {b}
            OBVIOUS
          <6>2. Cardinality({b} \cup {j}) = Cardinality({b}) + 1
            BY ONLY <5>1, <6>1, FS_AddElement
          <6> QED
            BY ONLY <5>1, <6>2
        <5>3. Cardinality({b} \cup {j}) <= Cardinality(ids)
          BY <2>1, <4>1, FS_Subset
        <5>4. Cardinality(ids) \in Nat
          BY <4>1, FS_CardinalityType
        <5> QED
          BY <3>2, <5>2, <5>3, <5>4
      <4> QED
        BY <1>1, <2>1, <2>4, <4>2 DEF IsBest
    <3> QED
      BY <3>1, <3>2
  <2>9. t # "default" => ~ Demotes(t, p)
    BY <1>4, <2>1, <2>7 DEF RoutingInv
  <2>10. \A u \in RouteTiers : asSet'[u] # Unset => Leads(routes', u, asSet'[u])
    BY <1>6, <1>7, <2>5, <2>8 DEF RoutingInv
  <2>11. \A u \in RouteTiers \ {"default"} :
           /\ \A i, j \in IdsOf(routes', u) : i = j
           /\ asSet'[u] = Unset => IdsOf(routes', u) = {}
    <3> SUFFICES ASSUME NEW u \in RouteTiers \ {"default"}
                 PROVE  /\ \A i, j \in IdsOf(routes', u) : i = j
                        /\ asSet'[u] = Unset => IdsOf(routes', u) = {}
      OBVIOUS
    <3>1. CASE u = t
      BY <1>3, <1>4, <1>7, <2>6, <2>9, <3>1 DEF RoutingInv
    <3>2. CASE u # t
      BY <1>6, <2>5, <3>2 DEF RoutingInv
    <3> QED
      BY <3>1, <3>2
  <2>12. standard' \in {"standard", "other"}
    BY <1>2 DEF RoutingInv
  <2> QED
    BY <1>2, <1>5, <2>4, <2>10, <2>11, <2>12, TableChanges
<1> QED
  BY <1>8, <1>9

LEMMA OtherChanges ==
  ASSUME RoutingInv,
         StandardChanges \/ \E h \in Hosts : ClearRoutes(h) \/ ForceModel(h)
  PROVE  RoutingInv'
<1>1. ASSUME NEW h \in Hosts, ClearRoutes(h)
      PROVE  RoutingInv'
  <2>1. routes' \in Seq(RouteRows) /\ \A t : IdsOf(routes', t) = {}
    BY <1>1 DEF ClearRoutes, IdsOf
  <2>2. asSet' \in [RouteTiers -> RouteModels \cup {Unset}] /\ \A t \in RouteTiers : asSet'[t] = Unset
    BY <1>1 DEF ClearRoutes
  <2>3. Changed /\ UNCHANGED <<standard, search>>
    BY <1>1 DEF ClearRoutes
  <2> QED
    BY <2>1, <2>2, <2>3, TableChanges DEF RoutingInv
<1>2. ASSUME StandardChanges \/ \E h \in Hosts : ForceModel(h)
      PROVE  RoutingInv'
  <2>1. Changed /\ UNCHANGED <<routes, asSet, search>> /\ standard' \in {"standard", "other"}
    BY <1>2 DEF StandardChanges, ForceModel, RoutingInv
  <2> QED
    BY <2>1, TableChanges DEF RoutingInv
<1> QED
  BY <1>1, <1>2

-----------------------------------------------------------------------------
(* Routes: the theorem *)

LEMMA RoutingStep ==
  ASSUME RoutingInv, [RoutingNext]_routingVars
  PROVE  RoutingInv'
<1>1. CASE UNCHANGED routingVars
  BY <1>1 DEF routingVars, RoutingInv, AnswersAsSet
<1> QED
  BY <1>1, StartSearchStep, CheckSeededStep, SeedStep, LookUpTierStep, LookUpDefaultTierStep,
     SetRouteStep, OtherChanges DEF RoutingNext

LEMMA RoutingStart ==
  ASSUME RoutingInit
  PROVE  RoutingInv
BY ModelRoutingAssumption
DEF RoutingInit, RoutingInv, NoSearch, Searches, IdsOf, AnswersAsSet, Named

\* However many processes, tiers and changes: what was set for a tier leads it until it is
\* overtaken, and a search beside which nothing changed is answered with what was due.
THEOREM RoutesStaySound == RoutingSpec => [](RoutingTypeOK /\ RoutesSound)
<1>1. RoutingInv => RoutesSound
  BY BestFound DEF RoutingInv, RoutesSound, LastSetWins
<1>2. RoutingInv => RoutingTypeOK
  <2> SUFFICES ASSUME RoutingInv PROVE RoutingTypeOK
    OBVIOUS
  <2>1. \A i \in DOMAIN routes : routes[i] \in RouteRows
    BY DEF RoutingInv
  <2>2. \A h \in Hosts : search[h] \in Searches
    BY DEF RoutingInv
  <2> QED  BY <2>1, <2>2 DEF RoutingTypeOK, RouteRows, Searches
<1> QED
  BY <1>1, <1>2, RoutingStart, RoutingStep, PTL DEF RoutingSpec

-----------------------------------------------------------------------------
(* Streams: the inductive invariant *)

CallNames == {"call1", "call2"}
Pieces == Nat \X Nat
ToolTexts == [CallNames -> Seq(Pieces)]
SentPieces == [kind : PieceKinds, piece : Pieces]
Events ==
  SentPieces \cup [kind : {"done"}, piece : Pieces, text : Seq(Pieces), tools : ToolTexts]

StreamPlaces == {"over", "resolve", "probe", "complete", "gate", "connect", "read", "closed"}
Good == {"streamed", "synthesized"}
Flows ==
  [pc : StreamPlaces, saw : BOOLEAN, attempt : 0..StreamAttempts, invoked : BOOLEAN,
   rows : SUBSET ((1..StreamAttempts) \X {"ok", "failed"}), lost : BOOLEAN,
   text : Seq(Pieces), tools : ToolTexts,
   result : {"none", "failed", "dropped"} \cup Good]

\* What the consumer was given and what the endpoint sent, beside what is remembered.
Remembered(f, given, came) ==
  /\ given \in Seq(Events) /\ came \in Seq(SentPieces)
  /\ \A i \in DOMAIN given : given[i].piece[1] = f.attempt
  /\ Tells(f.text, given, "text")
  /\ \A c \in CallNames : Tells(f.tools[c], came, c)
  /\ f.pc \notin {"over", "closed", "read"} => given = << >> /\ came = << >>
  /\ \A i \in DOMAIN given : given[i].kind = "done" =>
       /\ i = Len(given) /\ f.pc = "over" /\ f.result \in Good
       /\ given[i].text = f.text /\ given[i].tools = f.tools
  /\ f.pc = "over" /\ f.result \in Good => \E i \in DOMAIN given : given[i].kind = "done"

\* StreamLedger of a call.
Ledger(f) ==
  /\ \A r, s \in f.rows : r[1] = s[1] => r = s
  /\ (\E r \in f.rows : r[2] = "ok") => f.result \in {"streamed", "dropped"}
  /\ f.result = "streamed" /\ ~ f.lost =>
       f.rows = {<<n, IF n = f.attempt THEN "ok" ELSE "failed">> : n \in 1..f.attempt}
  /\ f.invoked /\ ~ f.lost => f.rows # {}

\* The rows of a call under way, and of one that is over or about to be.
RowsRecorded(f) ==
  /\ f.pc \notin {"over", "closed"} => f.result = "none"
  /\ f.pc = "closed" => f.result \in Good
  /\ f.pc \in {"resolve", "probe", "complete", "gate"} =>
       /\ f.attempt = 0 /\ ~ f.invoked /\ f.rows = {} /\ ~ f.lost
       /\ f.text = << >> /\ f.tools = NoTools
  /\ f.pc \in {"connect", "read"} =>
       f.attempt > 0 /\ f.invoked /\ FailedBefore(f, f.attempt - 1)
  /\ f.pc \in {"over", "closed"} => Ledger(f)

StreamRows ==
  [there : BOOLEAN, streaming : {"unknown", "yes", "no"}, manual : BOOLEAN]

StreamInv ==
  /\ streamRow \in StreamRows
  /\ flow \in Flows /\ RowsRecorded(flow) /\ Remembered(flow, emitted, sent)

-----------------------------------------------------------------------------
(* Streams: lists of pieces *)

LEMMA TellsNothing == ASSUME NEW kind PROVE Tells(<< >>, << >>, kind)
<1> DEFINE at == [i \in {} |-> i]
<1>1. at \in [DOMAIN << >> -> DOMAIN << >>] /\ DOMAIN << >> = {}
  OBVIOUS
<1> QED
  BY <1>1 DEF Tells

\* An event of another kind leaves the list; one of the kind is its last piece.
LEMMA TellsMore ==
  ASSUME NEW S, NEW T, NEW told \in Seq(S), NEW e \in S, NEW list \in Seq(T), NEW kind,
         e.piece \in T, Tells(list, told, kind)
  PROVE  /\ e.kind # kind => Tells(list, Append(told, e), kind)
         /\ e.kind = kind => Tells(Append(list, e.piece), Append(told, e), kind)
<1> DEFINE more == Append(told, e)
           longer == Append(list, e.piece)
           n == Len(told) + 1
           k == Len(list) + 1
<1>1. /\ n \in Nat \ {0} /\ DOMAIN told = 1..(n - 1) /\ DOMAIN more = 1..n /\ more[n] = e
      /\ \A i \in 1..(n - 1) : more[i] = told[i]
  OBVIOUS
<1>2. /\ k \in Nat \ {0} /\ DOMAIN list = 1..(k - 1) /\ DOMAIN longer = 1..k /\ longer[k] = e.piece
      /\ \A i \in 1..(k - 1) : longer[i] = list[i]
  OBVIOUS
<1>3. PICK at \in [1..(k - 1) -> 1..(n - 1)] :
        /\ \A i, j \in 1..(k - 1) : i < j => at[i] < at[j]
        /\ {at[i] : i \in 1..(k - 1)} = {i \in 1..(n - 1) : told[i].kind = kind}
        /\ \A i \in 1..(k - 1) : list[i] = told[at[i]].piece
  BY <1>1, <1>2 DEF Tells
<1> HIDE DEF more, longer, n, k
<1>4. ASSUME e.kind # kind PROVE Tells(list, more, kind)
  <2>1. at \in [DOMAIN list -> DOMAIN more]
    BY <1>1, <1>2, <1>3
  <2>2. {i \in DOMAIN more : more[i].kind = kind} = {i \in 1..(n - 1) : told[i].kind = kind}
    BY <1>1, <1>4
  <2>3. \A i \in DOMAIN list : list[i] = more[at[i]].piece
    BY <1>1, <1>2, <1>3
  <2> QED
    BY <1>2, <1>3, <2>1, <2>2, <2>3 DEF Tells
<1>5. ASSUME e.kind = kind PROVE Tells(longer, more, kind)
  <2> DEFINE to == [i \in 1..k |-> IF i = k THEN n ELSE at[i]]
  <2>1. to \in [DOMAIN longer -> DOMAIN more]
    BY <1>1, <1>2, <1>3
  <2>2. to[k] = n /\ \A i \in 1..(k - 1) : to[i] = at[i] /\ to[i] \in 1..(n - 1)
    BY <1>2, <1>3
  <2>3. 1..k = 1..(k - 1) \cup {k} /\ 1..n = 1..(n - 1) \cup {n}
    BY <1>1, <1>2, <2>2 DEF n, k
  <2> HIDE DEF to
  <2>4. \A i, j \in DOMAIN longer : i < j => to[i] < to[j]
    BY <1>1, <1>2, <1>3, <2>2, <2>3
  <2>5. {to[i] : i \in DOMAIN longer} = {i \in DOMAIN more : more[i].kind = kind}
    <3>1. {to[i] : i \in DOMAIN longer} = {at[i] : i \in 1..(k - 1)} \cup {n}
      <4>1. DOMAIN longer = 1..(k - 1) \cup {k}
        BY <1>2, <2>3
      <4>2. {to[i] : i \in 1..(k - 1)} = {at[i] : i \in 1..(k - 1)}
        BY <2>2
      <4>3. {to[i] : i \in 1..(k - 1) \cup {k}} = {to[i] : i \in 1..(k - 1)} \cup {to[k]}
        OBVIOUS
      <4> QED
        BY <2>2, <4>1, <4>2, <4>3
    <3>2. {i \in DOMAIN more : more[i].kind = kind}
            = {i \in 1..(n - 1) : told[i].kind = kind} \cup {n}
      <4>1. DOMAIN more = 1..(n - 1) \cup {n}
        BY <1>1, <2>3
      <4>2. more[n].kind = kind /\ \A i \in 1..(n - 1) : more[i].kind = told[i].kind
        BY <1>1, <1>5
      <4> QED
        BY ONLY <4>1, <4>2
    <3>3. {at[i] : i \in 1..(k - 1)} = {i \in 1..(n - 1) : told[i].kind = kind}
      BY ONLY <1>3
    <3> QED
      BY ONLY <3>1, <3>2, <3>3
  <2>6. \A i \in DOMAIN longer : longer[i] = more[to[i]].piece
    <3> SUFFICES ASSUME NEW i \in DOMAIN longer PROVE longer[i] = more[to[i]].piece
      OBVIOUS
    <3>1. i = k \/ i \in 1..(k - 1)
      BY <1>2, <2>3
    <3>2. CASE i = k
      BY <1>1, <1>2, <2>2, <3>2
    <3>3. CASE i \in 1..(k - 1)
      BY <1>1, <1>2, <1>3, <2>2, <3>3
    <3> QED
      BY <3>1, <3>2, <3>3
  <2> QED
    BY <2>1, <2>4, <2>5, <2>6 DEF Tells
<1> QED
  BY <1>4, <1>5 DEF more, longer

-----------------------------------------------------------------------------
(* Streams: the steps *)

\* What is remembered does not say how the rows were written.
LEMMA RowsApart ==
  ASSUME StreamInv, NEW f, f.attempt = flow.attempt, f.text = flow.text, f.tools = flow.tools,
         f.pc \notin {"over", "closed", "read"} =>
           flow.pc \notin {"over", "closed", "read"},
         flow.pc # "over", ~(f.pc = "over" /\ f.result \in Good)
  PROVE  Remembered(f, emitted, sent)
BY DEF StreamInv, Remembered

\* The row of an attempt.
LEMMA NotedRow ==
  ASSUME StreamInv, flow.pc \in {"connect", "read"}, NEW status \in {"ok", "failed"},
         NEW written \in BOOLEAN
  PROVE  LET f == Noted(flow, status, written)
             all == FailedRows(flow.attempt - 1) \cup {<<flow.attempt, status>>}
         IN  /\ f \in Flows /\ f.rows \subseteq all /\ (~ f.lost => f.rows = all)
             /\ f.attempt = flow.attempt /\ f.text = flow.text /\ f.tools = flow.tools
             /\ f.invoked /\ f.pc = flow.pc /\ f.result = "none"
<1>1. /\ flow \in Flows /\ flow.attempt > 0 /\ flow.invoked /\ flow.result = "none"
      /\ FailedBefore(flow, flow.attempt - 1)
  BY DEF StreamInv, RowsRecorded
<1>2. flow.attempt \in 1..StreamAttempts
  BY <1>1, LlmStreamsAssumption DEF Flows
<1>3. <<flow.attempt, status>> \in (1..StreamAttempts) \X {"ok", "failed"}
  BY <1>2
<1>4. CASE written
  <2>1. Noted(flow, status, written) = [flow EXCEPT !.rows = @ \cup {<<flow.attempt, status>>}]
    BY <1>4 DEF Noted
  <2> QED
    BY <1>1, <1>3, <2>1 DEF Flows, FailedBefore
<1>5. CASE ~ written
  <2>1. Noted(flow, status, written) = [flow EXCEPT !.lost = TRUE]
    BY <1>5 DEF Noted
  <2> QED
    BY <1>1, <2>1 DEF Flows, FailedBefore
<1> QED
  BY <1>4, <1>5

\* A call with its row, at its end.
EndedAs(f, status, written, pc, result) ==
  [FinalRow(f, status = "failed", written) EXCEPT !.pc = pc, !.result = result]

\* A call that failed, was dropped or ended has an honest ledger.
LEMMA LedgerCloses ==
  ASSUME NEW f \in Flows, f.attempt > 0, f.invoked, f.result = "none",
         NEW status \in {"failed", "ok"}, NEW written \in BOOLEAN, NEW pc \in {"over", "closed"},
         NEW result \in {"failed", "dropped", "streamed"},
         NEW d, d = EndedAs(f, status, written, pc, result),
         result = "failed" => status = "failed",
         result # "streamed" => FailedBefore(f, f.attempt - 1) \/ FailedBefore(f, f.attempt),
         result = "streamed" =>
            /\ status = "ok" /\ f.rows \subseteq FailedRows(f.attempt - 1) \cup {<<f.attempt, "ok">>}
            /\ ~ f.lost => f.rows = FailedRows(f.attempt - 1) \cup {<<f.attempt, "ok">>}
  PROVE  /\ d \in Flows /\ Ledger(d) /\ d.pc = pc /\ d.result = result
         /\ d.attempt = f.attempt /\ d.text = f.text /\ d.tools = f.tools
<1>0. d = [FinalRow(f, status = "failed", written) EXCEPT !.pc = pc, !.result = result]
  BY DEF EndedAs
<1>1. /\ d \in Flows /\ d.pc = pc /\ d.result = result /\ d.attempt = f.attempt
      /\ d.text = f.text /\ d.tools = f.tools
  <2>1. <<1, status>> \in (1..StreamAttempts) \X {"ok", "failed"}
    BY LlmStreamsAssumption
  <2>2. /\ FinalRow(f, status = "failed", written) \in Flows /\ FinalRow(f, status = "failed", written).attempt = f.attempt
        /\ FinalRow(f, status = "failed", written).text = f.text /\ FinalRow(f, status = "failed", written).tools = f.tools
    BY <2>1 DEF FinalRow, Flows
  <2>3. pc \in StreamPlaces /\ result \in {"none", "failed", "dropped"} \cup Good
    BY DEF StreamPlaces, Good
  <2> QED
    BY <1>0, <2>2, <2>3 DEF Flows
<1>2. \/ f.rows # {} /\ d.rows = f.rows /\ d.lost = f.lost
      \/ f.rows = {} /\ d.rows = {<<1, status>>} /\ d.lost = f.lost
      \/ f.rows = {} /\ d.rows = {} /\ d.lost = TRUE
  BY <1>0 DEF FinalRow, Flows
<1>3. f.attempt \in Nat /\ f.lost \in BOOLEAN
  BY LlmStreamsAssumption DEF Flows
<1>4. ASSUME result # "streamed" PROVE Ledger(d)
  <2>1. \A r \in f.rows : r[2] = "failed" /\ r = <<r[1], r[2]>>
    BY <1>4 DEF FailedBefore, FailedRows
  <2>2. \A r, s \in d.rows : r[1] = s[1] => r = s
    BY <1>2, <2>1
  <2>3. (\E r \in d.rows : r[2] = "ok") => result = "dropped"
    BY <1>2, <1>4, <2>1
  <2>4. ~ d.lost => d.rows # {}
    BY <1>2
  <2> QED
    BY <1>1, <1>4, <2>2, <2>3, <2>4 DEF Ledger
<1>5. ASSUME result = "streamed" PROVE Ledger(d)
  <2> DEFINE all == {<<n, IF n = f.attempt THEN "ok" ELSE "failed">> : n \in 1..f.attempt}
  <2>1. FailedRows(f.attempt - 1) \cup {<<f.attempt, "ok">>} = all
    BY <1>3 DEF FailedRows
  <2>2. f.rows \subseteq all /\ (~ f.lost => f.rows = all)
    BY <1>5, <2>1
  <2>3. all # {}
    BY <1>3, <2>1
  <2>4. \A r, s \in all : r[1] = s[1] => r = s
    OBVIOUS
  <2>5. \A r, s \in d.rows : r[1] = s[1] => r = s
    BY <1>2, <2>2, <2>4
  <2>6. ~ d.lost => d.rows = all
    BY <1>2, <1>3, <2>2, <2>3
  <2> QED
    BY <1>1, <1>3, <1>5, <2>3, <2>5, <2>6 DEF Ledger
<1> QED
  BY <1>1, <1>4, <1>5

LEMMA IdleFlow == NoFlow \in Flows
<1>1. 0 \in 0..StreamAttempts /\ << >> \in Seq(Pieces) /\ NoTools \in ToolTexts
  BY LlmStreamsAssumption DEF NoTools, ToolTexts, CallNames
<1> QED
  BY <1>1 DEF NoFlow, Flows, StreamPlaces

\* A call that starts has handed out nothing.
LEMMA StartStreamStep ==
  ASSUME StreamInv, StartStream
  PROVE  StreamInv'
<1>1. /\ flow' = [NoFlow EXCEPT !.pc = "resolve"] /\ emitted' = << >> /\ sent' = << >>
      /\ UNCHANGED streamRow
  BY DEF StartStream
<1>2. NoTools \in ToolTexts /\ \A c \in CallNames : NoTools[c] = << >>
  BY DEF NoTools, ToolTexts, CallNames
<1>3. flow' \in Flows /\ flow'.pc = "resolve" /\ flow'.text = << >> /\ flow'.tools = NoTools
  <2>1. NoFlow \in Flows
    BY IdleFlow
  <2> QED
    BY <1>1, <2>1 DEF NoFlow, Flows, StreamPlaces
<1>4. RowsRecorded(flow')
  BY <1>1, <1>3 DEF NoFlow, RowsRecorded
<1>5. Remembered(flow', emitted', sent')
  BY <1>1, <1>2, <1>3, TellsNothing DEF Remembered
<1> QED
  BY <1>1, <1>3, <1>4, <1>5 DEF StreamInv

\* Until the endpoint is asked, nothing comes of the call.
LEMMA BeforeSteps ==
  ASSUME StreamInv,
         \/ ResolveSupport
         \/ \E yes \in BOOLEAN : StreamProbed(yes) \/ StreamProbeFails(yes) \/ PassGate(yes)
         \/ CompletedInstead(FALSE)
  PROVE  StreamInv'
<1>1. flow \in Flows /\ RowsRecorded(flow) /\ UNCHANGED <<emitted, sent>>
  BY DEF StreamInv, ResolveSupport, StreamProbed, StreamProbeFails, PassGate, CompletedInstead
<1>2. streamRow \in StreamRows /\ streamRow.there \in BOOLEAN
  BY DEF StreamInv, StreamRows
<1>3. streamRow' \in StreamRows
  <2>1. CASE UNCHANGED streamRow
    BY <1>2, <2>1
  <2>2. ASSUME NEW yes \in BOOLEAN, StreamProbed(yes) \/ StreamProbeFails(yes)
        PROVE  streamRow' \in StreamRows
    BY <1>2, <2>2 DEF StreamProbed, StreamProbeFails, StreamRows
  <2> QED
    BY <2>1, <2>2 DEF ResolveSupport, PassGate, CompletedInstead
<1>4. /\ flow.pc \in {"resolve", "probe", "complete", "gate"}
      /\ \/ \E pc \in {"gate", "complete", "probe"}, saw \in BOOLEAN :
              flow' = [flow EXCEPT !.saw = saw, !.pc = pc]
         \/ flow' = [flow EXCEPT !.pc = "over", !.result = "failed"]
         \/ flow' = [flow EXCEPT !.pc = "connect", !.attempt = 1, !.invoked = TRUE]
  <2>1. ASSUME NEW pc \in {"gate", "complete", "probe"}, flow' = [flow EXCEPT !.pc = pc]
        PROVE  \E q \in {"gate", "complete", "probe"}, saw \in BOOLEAN :
                 flow' = [flow EXCEPT !.saw = saw, !.pc = q]
    <3>1. flow.saw \in BOOLEAN /\ flow' = [flow EXCEPT !.saw = flow.saw, !.pc = pc]
      BY <1>1, <2>1 DEF Flows
    <3> QED
      BY <3>1
  <2>2. CASE ResolveSupport
    BY <1>2, <2>2 DEF ResolveSupport
  <2>3. ASSUME NEW yes \in BOOLEAN, StreamProbed(yes) \/ StreamProbeFails(yes)
        PROVE  flow.pc = "probe" /\ \E pc \in {"gate", "complete"} : flow' = [flow EXCEPT !.pc = pc]
    BY <2>3 DEF StreamProbed, StreamProbeFails
  <2>4. ASSUME NEW yes \in BOOLEAN, PassGate(yes)
        PROVE  /\ flow.pc = "gate"
               /\ \/ flow' = [flow EXCEPT !.pc = "over", !.result = "failed"]
                  \/ flow' = [flow EXCEPT !.pc = "connect", !.attempt = 1, !.invoked = TRUE]
    BY <2>4 DEF PassGate
  <2>5. CASE CompletedInstead(FALSE)
    BY <2>5 DEF CompletedInstead
  <2> QED
    BY <2>1, <2>2, <2>3, <2>4, <2>5
<1>5. emitted = << >> /\ sent = << >> /\ flow.attempt = 0 /\ flow.rows = {} /\ ~ flow.lost
      /\ ~ flow.invoked /\ flow.result = "none" /\ flow.text = << >> /\ flow.tools = NoTools
  BY <1>1, <1>4 DEF StreamInv, Remembered, RowsRecorded
<1>6. \A c \in CallNames : NoTools[c] = << >>
  BY DEF NoTools, CallNames
<1>7. /\ flow' \in Flows /\ flow'.text = << >> /\ flow'.tools = NoTools
      /\ flow'.rows = {} /\ ~ flow'.lost
      /\ \/ /\ flow'.pc \in {"gate", "complete", "probe"} /\ flow'.result = "none"
            /\ flow'.attempt = 0 /\ ~ flow'.invoked
         \/ /\ flow'.pc = "over" /\ flow'.result = "failed" /\ ~ flow'.invoked
         \/ /\ flow'.pc = "connect" /\ flow'.result = "none"
            /\ flow'.attempt = 1 /\ flow'.invoked
  <2>1. 1 \in 0..StreamAttempts
    BY LlmStreamsAssumption
  <2>2. CASE flow' = [flow EXCEPT !.pc = "over", !.result = "failed"]
    BY <1>1, <1>5, <2>2 DEF Flows, StreamPlaces
  <2>3. CASE flow' = [flow EXCEPT !.pc = "connect", !.attempt = 1, !.invoked = TRUE]
    BY <1>1, <1>5, <2>1, <2>3 DEF Flows, StreamPlaces
  <2>4. ASSUME NEW pc \in {"gate", "complete", "probe"}, NEW saw \in BOOLEAN,
               flow' = [flow EXCEPT !.saw = saw, !.pc = pc]
        PROVE  /\ flow' \in Flows /\ flow'.text = << >> /\ flow'.tools = NoTools
               /\ flow'.rows = {} /\ ~ flow'.lost
               /\ flow'.pc = pc /\ flow'.result = "none" /\ flow'.attempt = 0 /\ ~ flow'.invoked
    BY <1>1, <1>5, <2>4 DEF Flows, StreamPlaces
  <2> QED
    BY <1>4, <2>2, <2>3, <2>4
<1>8. RowsRecorded(flow')
  BY <1>7, NoneFailed DEF RowsRecorded, Ledger, FailedBefore
<1>9. Remembered(flow', emitted', sent')
  BY <1>1, <1>5, <1>6, <1>7, TellsNothing DEF Remembered, Good
<1> QED
  BY <1>3, <1>7, <1>8, <1>9 DEF StreamInv

LEMMA RowChangesStep ==
  ASSUME StreamInv, RowChanges
  PROVE  StreamInv'
<1>1. streamRow' \in StreamRows /\ UNCHANGED <<flow, emitted, sent>>
  <2>1. streamRow \in StreamRows
    BY DEF StreamInv
  <2>2. CASE streamRow' = [streamRow EXCEPT !.manual = TRUE]
    BY <2>1, <2>2 DEF RowChanges, StreamRows
  <2>3. CASE streamRow' = [there |-> FALSE, streaming |-> "unknown", manual |-> FALSE]
    BY <2>3 DEF RowChanges, StreamRows
  <2> QED
    BY <2>2, <2>3 DEF RowChanges
<1> QED
  BY <1>1 DEF StreamInv

\* An ordinary completion is one piece of text.
LEMMA CompletedStep ==
  ASSUME StreamInv, CompletedInstead(TRUE)
  PROVE  StreamInv'
<1> DEFINE e == [kind |-> "text", piece |-> <<0, 1>>]
<1>1. /\ flow \in Flows /\ RowsRecorded(flow) /\ flow.pc = "complete"
      /\ UNCHANGED <<streamRow, sent>>
      /\ flow' = [flow EXCEPT !.pc = "closed", !.text = <<<<0, 1>>>>, !.result = "synthesized"]
      /\ emitted' = <<e>>
  BY DEF StreamInv, CompletedInstead
<1>2. emitted = << >> /\ sent = << >> /\ flow.attempt = 0 /\ flow.rows = {} /\ ~ flow.lost
      /\ ~ flow.invoked /\ flow.text = << >> /\ flow.tools = NoTools
  BY <1>1 DEF StreamInv, Remembered, RowsRecorded
<1>3. <<0, 1>> \in Pieces /\ <<<<0, 1>>>> \in Seq(Pieces) /\ e \in Events /\ e.kind = "text"
      /\ e.piece = <<0, 1>>
  BY DEF Pieces, Events, SentPieces, PieceKinds
<1> HIDE DEF e
<1>4. /\ flow' \in Flows /\ flow'.pc = "closed" /\ flow'.text = <<<<0, 1>>>>
      /\ flow'.result = "synthesized" /\ flow'.tools = NoTools /\ flow'.attempt = 0
      /\ flow'.rows = {} /\ ~ flow'.invoked
  BY <1>1, <1>2, <1>3 DEF Flows, StreamPlaces, Good
<1>5. RowsRecorded(flow')
  BY <1>4 DEF RowsRecorded, Ledger, Good
<1>6. emitted' = Append(<< >>, e) /\ <<<<0, 1>>>> = Append(<< >>, e.piece)
  BY <1>1, <1>3
<1>7. Tells(<<<<0, 1>>>>, emitted', "text")
  <2>1. << >> \in Seq(Events) /\ << >> \in Seq(Pieces) /\ e.piece \in Pieces
    BY <1>3
  <2> QED
    BY <1>3, <1>6, <2>1, TellsNothing, TellsMore
<1>8. \A c \in CallNames : Tells(NoTools[c], sent', c)
  BY <1>1, <1>2, TellsNothing DEF NoTools, CallNames
<1>9. Remembered(flow', emitted', sent')
  BY <1>1, <1>2, <1>3, <1>4, <1>7, <1>8 DEF Remembered
<1> QED
  BY <1>1, <1>4, <1>5, <1>9 DEF StreamInv

\* A call that ends, well or not, and one that connects anew.
LEMMA StreamCloses ==
  ASSUME StreamInv, flow.pc \in {"connect", "read"}, NEW d \in Flows, flow' = d,
         UNCHANGED <<streamRow, emitted, sent>>, Ledger(d),
         d.attempt = flow.attempt, d.text = flow.text, d.tools = flow.tools,
         \/ d.pc = "over" /\ d.result \in {"failed", "dropped"}
         \/ d.pc = "closed" /\ d.result = "streamed"
  PROVE  StreamInv'
<1>1. Remembered(d, emitted, sent)
  BY RowsApart DEF Good
<1>2. RowsRecorded(d)
  BY DEF RowsRecorded, Good
<1> QED
  BY <1>1, <1>2 DEF StreamInv

\* What is known of a call that was sent.
LEMMA SentOut ==
  ASSUME StreamInv, flow.pc \in {"connect", "read"}
  PROVE  /\ flow \in Flows /\ flow.attempt > 0 /\ flow.attempt \in Nat /\ flow.invoked
         /\ flow.result = "none" /\ FailedBefore(flow, flow.attempt - 1)
BY LlmStreamsAssumption DEF StreamInv, RowsRecorded, Flows

\* The attempt failed: its row, and that of the call.
LEMMA FailsAfterRow ==
  ASSUME StreamInv, flow.pc \in {"connect", "read"}, NEW written \in BOOLEAN,
         NEW again \in BOOLEAN, flow' = Fail(Noted(flow, "failed", written), again),
         UNCHANGED <<streamRow, emitted, sent>>
  PROVE  StreamInv'
<1> DEFINE f == Noted(flow, "failed", written)
<1>1. /\ f \in Flows /\ f.attempt = flow.attempt /\ f.text = flow.text /\ f.tools = flow.tools
      /\ f.invoked /\ f.result = "none"
      /\ f.rows \subseteq FailedRows(flow.attempt - 1) \cup {<<flow.attempt, "failed">>}
      /\ ~ f.lost => f.rows = FailedRows(flow.attempt - 1) \cup {<<flow.attempt, "failed">>}
  BY NotedRow
<1>2. flow.attempt \in Nat /\ flow.attempt > 0
  BY SentOut
<1> HIDE DEF f
<1>3. FailedRows(flow.attempt) = FailedRows(flow.attempt - 1) \cup {<<flow.attempt, "failed">>}
  BY <1>2 DEF FailedRows
<1>4. FailedBefore(f, f.attempt)
  BY <1>1, <1>3 DEF FailedBefore
<1>5. flow' = EndedAs(f, "failed", again, "over", "failed")
  BY DEF Fail, EndedAs, FinalRow, f
<1>6. /\ flow' \in Flows /\ Ledger(flow') /\ flow'.pc = "over" /\ flow'.result = "failed"
      /\ flow'.attempt = f.attempt /\ flow'.text = f.text /\ flow'.tools = f.tools
  BY <1>1, <1>2, <1>4, <1>5, LedgerCloses
<1> QED
  BY <1>1, <1>6, StreamCloses

LEMMA ConnectSteps ==
  ASSUME StreamInv,
         \/ Connected
         \/ \E written, again, retryable \in BOOLEAN : ConnectFails(retryable, written, again)
  PROVE  StreamInv'
<1>1. flow.pc = "connect" /\ UNCHANGED <<streamRow, emitted, sent>>
  BY DEF Connected, ConnectFails
<1>2. /\ flow \in Flows /\ flow.attempt > 0 /\ flow.attempt \in Nat /\ flow.invoked
      /\ flow.result = "none" /\ FailedBefore(flow, flow.attempt - 1)
  BY <1>1, SentOut
<1>3. emitted = << >> /\ sent = << >> /\ Remembered(flow, emitted, sent)
  BY <1>1 DEF StreamInv, Remembered
<1>4. CASE Connected
  <2>1. /\ flow' \in Flows /\ flow'.pc = "read" /\ flow'.attempt = flow.attempt
        /\ flow'.text = flow.text /\ flow'.tools = flow.tools /\ flow'.rows = flow.rows
        /\ flow'.lost = flow.lost /\ flow'.invoked = flow.invoked /\ flow'.result = flow.result
    BY <1>2, <1>4 DEF Connected, Flows, StreamPlaces
  <2>2. RowsRecorded(flow')
    BY <1>2, <2>1 DEF RowsRecorded, FailedBefore
  <2>3. Remembered(flow', emitted, sent)
    BY <1>1, <1>3, <2>1 DEF Remembered
  <2> QED
    BY <1>1, <2>1, <2>2, <2>3 DEF StreamInv
<1>5. ASSUME NEW written \in BOOLEAN, NEW again \in BOOLEAN, NEW retryable \in BOOLEAN,
             ConnectFails(retryable, written, again)
      PROVE  StreamInv'
  <2> DEFINE f == Noted(flow, "failed", written)
             g == [f EXCEPT !.attempt = @ + 1]
  <2>1. CASE flow' = Fail(f, again)
    BY <1>1, <2>1, FailsAfterRow
  <2>2. CASE TriesAgain(f) /\ flow' = g
    <3>1. /\ f \in Flows /\ f.attempt = flow.attempt /\ f.text = flow.text
          /\ f.tools = flow.tools /\ f.invoked /\ f.pc = "connect" /\ f.result = "none"
          /\ f.rows \subseteq FailedRows(flow.attempt - 1) \cup {<<flow.attempt, "failed">>}
          /\ ~ f.lost => f.rows = FailedRows(flow.attempt - 1) \cup {<<flow.attempt, "failed">>}
      BY <1>1, NotedRow
    <3> HIDE DEF f
    <3>2. flow.attempt + 1 \in 0..StreamAttempts
      BY <1>2, <2>2, <3>1, LlmStreamsAssumption DEF TriesAgain
    <3>3. /\ g \in Flows /\ g.attempt = flow.attempt + 1 /\ g.text = flow.text
          /\ g.tools = flow.tools /\ g.invoked /\ g.pc = "connect" /\ g.result = "none"
          /\ g.rows = f.rows /\ g.lost = f.lost
      BY <3>1, <3>2 DEF Flows
    <3> HIDE DEF g
    <3>4. FailedRows(flow.attempt)
            = FailedRows(flow.attempt - 1) \cup {<<flow.attempt, "failed">>}
      BY <1>2 DEF FailedRows
    <3>5. g.attempt - 1 = flow.attempt /\ g.attempt > 0
      BY <1>2, <3>3
    <3>6. RowsRecorded(g)
      BY <3>1, <3>3, <3>4, <3>5 DEF RowsRecorded, FailedBefore
    <3>7. Remembered(g, emitted, sent)
      BY <1>1, <1>3, <3>3 DEF Remembered
    <3> QED
      BY <1>1, <2>2, <3>3, <3>6, <3>7 DEF StreamInv
  <2> QED
    BY <1>5, <2>1, <2>2 DEF ConnectFails
<1> QED
  BY <1>4, <1>5

\* A chunk is remembered as it is handed out.
LEMMA ChunkStep ==
  ASSUME StreamInv, NEW kind \in PieceKinds, Chunk(kind)
  PROVE  StreamInv'
<1> DEFINE piece == <<flow.attempt, SentNow + 1>>
           e == [kind |-> kind, piece |-> piece]
<1>1. /\ flow.pc = "read" /\ UNCHANGED streamRow /\ sent' = Append(sent, e)
      /\ emitted' = IF kind = "usage" THEN emitted ELSE Append(emitted, e)
      /\ flow' = CASE kind = "text" -> [flow EXCEPT !.text = Append(@, piece)]
                   [] kind \in DOMAIN NoTools -> [flow EXCEPT !.tools = Assembled(kind, piece)]
                   [] OTHER -> flow
  BY DEF Chunk
<1>2. /\ flow \in Flows /\ flow.attempt > 0 /\ flow.attempt \in Nat /\ flow.invoked
      /\ flow.result = "none" /\ FailedBefore(flow, flow.attempt - 1)
  BY <1>1, SentOut
<1>3. Remembered(flow, emitted, sent) /\ emitted \in Seq(Events) /\ sent \in Seq(SentPieces)
      /\ flow.text \in Seq(Pieces) /\ flow.tools \in ToolTexts
  BY <1>2 DEF StreamInv, Remembered, Flows
<1>4. piece \in Pieces /\ piece[1] = flow.attempt
  <2>1. SentNow \in Nat
    <3>1. IsFiniteSet(DOMAIN sent)
      BY <1>3, FS_Interval
    <3>2. IsFiniteSet({i \in DOMAIN sent : sent[i].piece[1] = flow.attempt})
      BY <3>1, FS_Subset
    <3> QED
      BY <3>2, FS_CardinalityType DEF SentNow
  <2> QED
    BY <1>2, <2>1 DEF Pieces
<1> HIDE DEF piece
<1>5. e \in SentPieces /\ e \in Events /\ e.kind = kind /\ e.piece = piece /\ e.kind # "done"
  BY <1>4 DEF SentPieces, Events, PieceKinds
<1> HIDE DEF e
<1>6. emitted' \in Seq(Events) /\ sent' \in Seq(SentPieces)
  BY <1>1, <1>3, <1>5
<1>7. \A i \in DOMAIN emitted' :
        emitted'[i].piece[1] = flow.attempt /\ emitted'[i].kind # "done"
  <2>1. \A i \in DOMAIN emitted :
          emitted[i].piece[1] = flow.attempt /\ emitted[i].kind # "done"
    BY <1>1, <1>3 DEF Remembered
  <2>2. CASE kind = "usage"
    BY <1>1, <2>1, <2>2
  <2>3. CASE kind # "usage"
    <3>1. \A i \in DOMAIN emitted' : (i \in DOMAIN emitted /\ emitted'[i] = emitted[i])
                                     \/ emitted'[i] = e
      BY <1>1, <1>3, <2>3
    <3> QED
      BY <1>4, <1>5, <2>1, <3>1
  <2> QED
    BY <2>2, <2>3
<1>8. DOMAIN NoTools = CallNames
  BY DEF NoTools, CallNames
<1>9. /\ flow' \in Flows /\ flow'.pc = "read" /\ flow'.attempt = flow.attempt
      /\ flow'.rows = flow.rows /\ flow'.lost = flow.lost /\ flow'.invoked = flow.invoked
      /\ flow'.result = flow.result
      /\ flow'.text = IF kind = "text" THEN Append(flow.text, piece) ELSE flow.text
      /\ \A c \in CallNames :
           flow'.tools[c] = IF c = kind THEN Append(flow.tools[c], piece) ELSE flow.tools[c]
  <2>1. CASE kind = "text"
    <3>1. Append(flow.text, piece) \in Seq(Pieces)
      BY <1>3, <1>4
    <3>2. flow' = [flow EXCEPT !.text = Append(@, piece)]
      BY <1>1, <1>8, <2>1 DEF CallNames
    <3>3. /\ flow' \in Flows /\ flow'.tools = flow.tools
          /\ flow'.text = Append(flow.text, piece)
      BY <1>2, <3>1, <3>2 DEF Flows
    <3>4. "text" \notin CallNames
      BY DEF CallNames
    <3> QED
      BY <1>1, <1>2, <2>1, <3>2, <3>3, <3>4 DEF Flows
  <2>2. CASE kind \in CallNames
    <3> DEFINE tools == [flow.tools EXCEPT ![kind] = Append(@, piece)]
    <3>1. Append(flow.tools[kind], piece) \in Seq(Pieces)
      BY <1>3, <1>4, <2>2 DEF ToolTexts
    <3>2. /\ tools \in ToolTexts
          /\ \A c \in CallNames :
               tools[c] = IF c = kind THEN Append(flow.tools[c], piece) ELSE flow.tools[c]
      BY <1>3, <2>2, <3>1 DEF ToolTexts
    <3>3. kind # "text" /\ flow' = [flow EXCEPT !.tools = tools]
      BY <1>1, <1>8, <2>2 DEF CallNames, Assembled
    <3> HIDE DEF tools
    <3> QED
      BY <1>1, <1>2, <3>2, <3>3 DEF Flows
  <2>3. CASE kind \notin CallNames /\ kind # "text"
    <3>1. flow' = flow
      BY <1>1, <1>8, <2>3
    <3> QED
      BY <1>1, <1>2, <2>3, <3>1
  <2> QED
    BY <2>1, <2>2, <2>3
<1>10. Tells(flow'.text, emitted', "text")
  <2>1. Tells(flow.text, emitted, "text")
    BY <1>3 DEF Remembered
  <2>2. CASE kind = "usage"
    BY <1>1, <1>9, <2>1, <2>2
  <2>3. CASE kind # "usage"
    BY <1>1, <1>3, <1>4, <1>5, <1>9, <2>1, <2>3, TellsMore
  <2> QED
    BY <2>2, <2>3
<1>11. ASSUME NEW c \in CallNames PROVE Tells(flow'.tools[c], sent', c)
  <2>1. Tells(flow.tools[c], sent, c) /\ flow.tools[c] \in Seq(Pieces)
    BY <1>3 DEF Remembered, ToolTexts
  <2> QED
    BY <1>1, <1>3, <1>4, <1>5, <1>9, <2>1, TellsMore
<1>12. RowsRecorded(flow')
  BY <1>2, <1>9 DEF RowsRecorded, FailedBefore
<1>13. Remembered(flow', emitted', sent')
  BY <1>6, <1>7, <1>9, <1>10, <1>11 DEF Remembered
<1> QED
  BY <1>1, <1>9, <1>12, <1>13 DEF StreamInv

\* The stream ends, breaks, or is dropped.
LEMMA StreamEndSteps ==
  ASSUME StreamInv, NEW written \in BOOLEAN, NEW again \in BOOLEAN,
         \/ StreamEnds(written, again) \/ StreamBreaks(written, again)
         \/ BadChunk(written) \/ StreamDropped(written)
  PROVE  StreamInv'
<1>1. flow.pc = "read" /\ UNCHANGED <<streamRow, emitted, sent>>
  BY DEF StreamEnds, StreamBreaks, BadChunk, StreamDropped
<1>2. /\ flow \in Flows /\ flow.attempt > 0 /\ flow.attempt \in Nat /\ flow.invoked
      /\ flow.result = "none" /\ FailedBefore(flow, flow.attempt - 1)
  BY <1>1, SentOut
<1>3. CASE StreamEnds(written, again)
  <2> DEFINE f == Noted(flow, "ok", written)
  <2>1. /\ f \in Flows /\ f.attempt = flow.attempt /\ f.text = flow.text /\ f.tools = flow.tools
        /\ f.invoked /\ f.result = "none"
        /\ f.rows \subseteq FailedRows(flow.attempt - 1) \cup {<<flow.attempt, "ok">>}
        /\ ~ f.lost => f.rows = FailedRows(flow.attempt - 1) \cup {<<flow.attempt, "ok">>}
    BY <1>1, NotedRow
  <2>2. flow' = EndedAs(f, "ok", again, "closed", "streamed")
    BY <1>3 DEF StreamEnds, EndedAs, FinalRow
  <2> HIDE DEF f
  <2>3. /\ flow' \in Flows /\ Ledger(flow') /\ flow'.pc = "closed" /\ flow'.result = "streamed"
        /\ flow'.attempt = f.attempt /\ flow'.text = f.text /\ flow'.tools = f.tools
    BY <1>2, <2>1, <2>2, LedgerCloses
  <2> QED
    BY <1>1, <2>1, <2>3, StreamCloses
<1>4. CASE StreamBreaks(written, again)
  BY <1>1, <1>4, FailsAfterRow DEF StreamBreaks
<1>5. CASE BadChunk(written)
  <2>1. flow' = EndedAs(flow, "failed", written, "over", "failed")
    BY <1>5 DEF BadChunk, Fail, EndedAs, FinalRow
  <2>2. /\ flow' \in Flows /\ Ledger(flow') /\ flow'.pc = "over" /\ flow'.result = "failed"
        /\ flow'.attempt = flow.attempt /\ flow'.text = flow.text /\ flow'.tools = flow.tools
    BY <1>2, <2>1, LedgerCloses
  <2> QED
    BY <1>1, <2>2, StreamCloses
<1>6. CASE StreamDropped(written)
  <2>1. flow' = EndedAs(flow, "ok", written, "over", "dropped")
    BY <1>6 DEF StreamDropped, EndedAs, FinalRow
  <2>2. /\ flow' \in Flows /\ Ledger(flow') /\ flow'.pc = "over" /\ flow'.result = "dropped"
        /\ flow'.attempt = flow.attempt /\ flow'.text = flow.text /\ flow'.tools = flow.tools
    BY <1>2, <2>1, LedgerCloses
  <2> QED
    BY <1>1, <2>2, StreamCloses
<1> QED
  BY <1>3, <1>4, <1>5, <1>6

\* Done.
LEMMA FinishStep ==
  ASSUME StreamInv, Finish
  PROVE  StreamInv'
<1> DEFINE e == [kind |-> "done", piece |-> <<flow.attempt, 0>>,
                 text |-> flow.text, tools |-> flow.tools]
<1>1. /\ flow \in Flows /\ flow.pc = "closed" /\ flow' = [flow EXCEPT !.pc = "over"]
      /\ emitted' = Append(emitted, e) /\ UNCHANGED <<streamRow, sent>>
  BY DEF StreamInv, Finish
<1>2. Remembered(flow, emitted, sent) /\ RowsRecorded(flow) /\ emitted \in Seq(Events)
      /\ flow.text \in Seq(Pieces) /\ flow.tools \in ToolTexts /\ flow.attempt \in Nat
  BY <1>1, LlmStreamsAssumption DEF StreamInv, Remembered, Flows
<1>3. e \in Events /\ e.kind = "done" /\ e.piece[1] = flow.attempt /\ e.piece \in Pieces
      /\ e.text = flow.text /\ e.tools = flow.tools
  BY <1>2 DEF Events, Pieces
<1> HIDE DEF e
<1>4. /\ flow' \in Flows /\ flow'.pc = "over" /\ flow'.attempt = flow.attempt
      /\ flow'.rows = flow.rows /\ flow'.lost = flow.lost /\ flow'.invoked = flow.invoked
      /\ flow'.result = flow.result /\ flow'.text = flow.text /\ flow'.tools = flow.tools
  BY <1>1 DEF Flows, StreamPlaces
<1>5. flow.result \in Good /\ Ledger(flow)
  BY <1>1, <1>2 DEF RowsRecorded
<1>6. RowsRecorded(flow')
  BY <1>4, <1>5 DEF RowsRecorded, Ledger
<1>7. /\ emitted' \in Seq(Events) /\ Len(emitted') = Len(emitted) + 1
      /\ emitted'[Len(emitted')] = e /\ Len(emitted') \in DOMAIN emitted'
      /\ \A i \in DOMAIN emitted' : i # Len(emitted') =>
           i \in DOMAIN emitted /\ emitted'[i] = emitted[i]
  BY <1>1, <1>2, <1>3
<1>8. \A i \in DOMAIN emitted : emitted[i].kind # "done" /\ emitted[i].piece[1] = flow.attempt
  BY <1>1, <1>2 DEF Remembered
<1>9. Tells(flow.text, emitted', "text")
  BY <1>1, <1>2, <1>3, TellsMore DEF Remembered
<1>10. Remembered(flow', emitted', sent')
  BY <1>1, <1>2, <1>3, <1>4, <1>5, <1>7, <1>8, <1>9 DEF Remembered
<1> QED
  BY <1>1, <1>4, <1>6, <1>10 DEF StreamInv

-----------------------------------------------------------------------------
(* Streams: the theorem *)

LEMMA StreamStep ==
  ASSUME StreamInv, [StreamNext]_streamVars
  PROVE  StreamInv'
<1>1. CASE UNCHANGED streamVars
  BY <1>1 DEF streamVars, StreamInv
<1>2. ASSUME NEW yes \in BOOLEAN, CompletedInstead(yes) PROVE StreamInv'
  BY <1>2, BeforeSteps, CompletedStep
<1> QED
  BY <1>1, <1>2, StartStreamStep, BeforeSteps, RowChangesStep, ConnectSteps, ChunkStep,
     StreamEndSteps, FinishStep DEF StreamNext

LEMMA StreamStart ==
  ASSUME StreamInit
  PROVE  StreamInv
<1>1. NoTools \in ToolTexts /\ \A c \in CallNames : NoTools[c] = << >>
  BY DEF NoTools, ToolTexts, CallNames
<1>2. flow \in Flows /\ flow.pc = "over" /\ flow.result = "none" /\ flow.attempt = 0
      /\ flow.text = << >> /\ flow.tools = NoTools /\ flow.rows = {} /\ ~ flow.invoked
  BY IdleFlow DEF StreamInit, NoFlow
<1>3. RowsRecorded(flow)
  BY <1>2 DEF RowsRecorded, Ledger
<1>4. Remembered(flow, emitted, sent)
  BY <1>1, <1>2, TellsNothing DEF StreamInit, Remembered, Good
<1> QED
  BY <1>2, <1>3, <1>4 DEF StreamInit, StreamInv, StreamRows

\* However many streams, attempts and pieces, and wherever a stream breaks or is dropped:
\* Done is the last event of a call that ended well, and of no other, and tells all that
\* was handed out, in its order and once; the ledger has one row for an attempt, and a
\* success only where the stream ended or was dropped.
THEOREM StreamsStaySound == StreamSpec => [](StreamTypeOK /\ StreamsSound)
<1>1. StreamInv => StreamsSound
  <2> SUFFICES ASSUME StreamInv PROVE StreamsSound
    OBVIOUS
  <2>1. DOMAIN NoTools = CallNames
    BY DEF NoTools, CallNames
  <2>2. DoneTellsAll
    BY <2>1 DEF StreamInv, Remembered, DoneTellsAll, Good
  <2>3. StreamLedger
    BY DEF StreamInv, RowsRecorded, Ledger, StreamLedger
  <2> QED
    BY <2>2, <2>3 DEF StreamsSound
<1>2. StreamInv => StreamTypeOK
  BY DEF StreamInv, StreamTypeOK, StreamRows, Flows
<1> QED
  BY <1>1, <1>2, StreamStart, StreamStep, PTL DEF StreamSpec

-----------------------------------------------------------------------------
(* All calls *)

\* The calls together, in whatever order the steps of the four parts come: they share
\* no state, and what holds of each of them alone holds of them beside the others.
THEOREM CallsStayAccounted ==
  RoutingSpec /\ LlmSpec /\ StreamSpec /\ ImageSpec => []CallsAccounted
BY RoutesStaySound, LedgersStayHonest, StreamsStaySound, ImagesStayAccounted, PTL
DEF CallsAccounted

-----------------------------------------------------------------------------
(* The room of the live ticker *)

\* A watermark, or the word for none.
Marks == Nat \cup {Unknown}

\* A join that has read the newest event holds a timestamp, never "no state".
ReadsHold ==
  /\ watermark \in Marks /\ behind \in Marks
  /\ read \in [Clients -> Marks]
  /\ \A c \in Clients : joining[c] = "setting" => read[c] # Unknown

\* No mark is ahead of what has happened.
MarksAreOld ==
  /\ watermark <= events /\ behind <= events
  /\ \A c \in Clients : read[c] <= events

\* A thread that goes on polling has not yet been idle twice.
IdleCounted ==
  /\ pump = "waiting" => idle < 2
  /\ pump \in {"ticking", "counting"} => idle = 0

PumpInv == PumpTypeOK /\ ReadsHold /\ MarksAreOld /\ IdleCounted /\ MembersAreKnown

-----------------------------------------------------------------------------

LEMMA PumpStarts == PumpInit => PumpInv
BY DEF PumpInit, PumpInv, PumpTypeOK, ReadsHold, MarksAreOld, IdleCounted, MembersAreKnown,
       Marks, None, Unknown

\* The steps of a join.
LEMMA JoinStep ==
  ASSUME PumpInv, NEW c \in Clients,
         \/ JoinRoom(c) \/ CheckKnown(c) \/ SetWatermark(c) \/ EnsureStarted(c)
         \/ \E failed \in BOOLEAN : ReadNewest(c, failed)
  PROVE  PumpInv'
<1> USE PumpAssumption
        DEF PumpInv, PumpTypeOK, ReadsHold, MarksAreOld, IdleCounted, MembersAreKnown,
            Marks, None, Unknown, state, thread
<1>1. CASE JoinRoom(c)
  BY <1>1 DEF JoinRoom
<1>2. CASE CheckKnown(c)
  BY <1>2 DEF CheckKnown
<1>3. CASE SetWatermark(c)
  BY <1>3 DEF SetWatermark
<1>4. CASE EnsureStarted(c)
  BY <1>4 DEF EnsureStarted
<1>5. ASSUME NEW failed \in BOOLEAN, ReadNewest(c, failed) PROVE PumpInv'
  BY <1>5 DEF ReadNewest
<1> QED
  BY <1>1, <1>2, <1>3, <1>4, <1>5

\* The steps of a leave: the room's state goes only with its last member.
LEMMA LeaveStep ==
  ASSUME PumpInv, NEW c \in Clients, LeaveRoom(c) \/ NoteLeave(c)
  PROVE  PumpInv'
<1> USE DEF PumpInv, PumpTypeOK, ReadsHold, MarksAreOld, IdleCounted, MembersAreKnown,
            Marks, None, Unknown, state, thread
<1>1. CASE LeaveRoom(c)
  BY <1>1 DEF LeaveRoom
<1>2. CASE NoteLeave(c)
  BY <1>2 DEF NoteLeave, Drops
<1> QED
  BY <1>1, <1>2

\* An acknowledgement and the thread.
LEMMA ThreadStep ==
  ASSUME PumpInv,
         \/ \E ts \in 0..MaxEvents : ActivityLoaded(ts)
         \/ Tick \/ ReadWatermark \/ Count \/ CountFails \/ ThreadEnds
         \/ Happens \/ UNCHANGED pumpVars
  PROVE  PumpInv'
<1> USE PumpAssumption
        DEF PumpInv, PumpTypeOK, ReadsHold, MarksAreOld, IdleCounted, MembersAreKnown,
            Marks, None, Unknown, state, thread
<1>1. ASSUME NEW ts \in 0..MaxEvents, ActivityLoaded(ts) PROVE PumpInv'
  BY <1>1 DEF ActivityLoaded, Loaded
<1>2. CASE Tick
  BY <1>2 DEF Tick
<1>3. CASE ReadWatermark
  BY <1>3 DEF ReadWatermark
<1>4. CASE Count
  BY <1>4 DEF Count, Newer
<1>5. CASE CountFails
  BY <1>5 DEF CountFails
<1>6. CASE ThreadEnds
  BY <1>6 DEF ThreadEnds
<1>7. CASE Happens
  BY <1>7 DEF Happens
<1>8. CASE UNCHANGED pumpVars
  BY <1>8 DEF pumpVars
<1> QED
  BY <1>1, <1>2, <1>3, <1>4, <1>5, <1>6, <1>7, <1>8

LEMMA PumpInvariance == PumpSpec => []PumpInv
<1>1. PumpInv /\ [PumpNext]_pumpVars => PumpInv'
  BY JoinStep, LeaveStep, ThreadStep DEF PumpNext
<1> QED
  BY <1>1, PumpStarts, PTL DEF PumpSpec

\* Rooms, watermarks and the thread keep their domains (live_pump.py:60-110).
THEOREM PumpTypes == PumpSpec => []PumpTypeOK
<1>1. PumpInv => PumpTypeOK
  BY DEF PumpInv
<1> QED
  BY <1>1, PumpInvariance, PTL

\* Whoever is in the room when its join is over has a room the pump knows
\* (live_pump.py:126, websocket.py): joins, leaves and disconnects of any number of
\* sockets run beside each other.
THEOREM JoinedRoomsAreKnown == PumpSpec => []MembersAreKnown
<1>1. PumpInv => MembersAreKnown
  BY DEF PumpInv
<1> QED
  BY <1>1, PumpInvariance, PTL

\* While a room keeps its state its watermark never goes back, so no event that was
\* acknowledged is counted as new again (live_pump.py, activity_loaded).
THEOREM WatermarkNeverRecedes ==
  PumpSpec => [][watermark # Unknown /\ watermark' # Unknown => watermark' >= watermark]_pumpVars
<1>1. ASSUME PumpInv, [PumpNext]_pumpVars
      PROVE  watermark # Unknown /\ watermark' # Unknown => watermark' >= watermark
  <2>1. ASSUME NEW ts \in 0..MaxEvents, ActivityLoaded(ts) PROVE watermark' >= watermark
    BY <1>1, <2>1 DEF PumpInv, ReadsHold, Marks, ActivityLoaded, Loaded, Unknown
  <2>2. ASSUME NEW c \in Clients, NoteLeave(c)
        PROVE  watermark' = Unknown \/ watermark' = watermark
    BY <2>2 DEF NoteLeave, state
  <2>3. ASSUME NEW c \in Clients, SetWatermark(c)
        PROVE  watermark = Unknown \/ watermark' = watermark
    BY <2>3 DEF SetWatermark
  <2>4. \/ watermark' = watermark
        \/ \E ts \in 0..MaxEvents : ActivityLoaded(ts)
        \/ \E c \in Clients : NoteLeave(c) \/ SetWatermark(c)
    BY <1>1 DEF PumpNext, JoinRoom, CheckKnown, EnsureStarted, ReadNewest, LeaveRoom,
                Tick, ReadWatermark, Count, CountFails, ThreadEnds, Happens, pumpVars, state
  <2>5. watermark \in Int
    BY <1>1 DEF PumpInv, PumpTypeOK
  <2> QED
    BY <2>1, <2>2, <2>3, <2>4, <2>5
<1> QED
  BY <1>1, PumpInvariance, PTL DEF PumpSpec

-----------------------------------------------------------------------------
(* Accounts: the inductive invariant *)

JobSteps == {"none", "queued", "asking", "naming", "inserting", "reporting", "done", "failed"}
AtWork == {"asking", "naming", "inserting"}
Assigned == UNION {Batches[b] : b \in DOMAIN Batches}
AccountRows ==
  [from : {"visitor", "loader", "generator"}, human : BOOLEAN, run : Nat, row : Assigned \cup {0},
   seeded : BOOLEAN, capped : BOOLEAN, agent : BOOLEAN]
JobRecords ==
  [step : JobSteps, batch : Nat, attempt : Nat, pending : SUBSET Assigned, listed : SUBSET Assigned,
   resolved : SUBSET Assigned, row : Assigned \cup {0}, name : Names \cup {Nobody},
   last : Names \cup {Nobody}, seen : SUBSET Names, made : SUBSET Names, inBatch : Nat,
   skipped : SUBSET Assigned]

PeopleTypes ==
  /\ accounts \in [Names -> AccountRows \cup {NoAccount}]
  /\ admitting \in BOOLEAN
  /\ claims \in [Claimants -> Names \cup {Nobody}] /\ signed \in [Newcomers -> Names \cup {Nobody}]
  /\ editing \in {NoEditing} \cup [name : Names, seeded : BOOLEAN]
  /\ job \in JobRecords
  /\ runs \in 0..MaxTurns /\ aborts \in Nat /\ strokes \in Nat

\* The rows under way are of the batch under way, and each run can only break off once.
JobPlaces ==
  /\ aborts + (IF Working THEN 1 ELSE 0) <= runs
  /\ job.attempt <= BatchTries
  /\ job.listed \subseteq job.pending \ job.resolved
  /\ job.step \notin {"naming", "inserting"} => job.listed = {} /\ job.resolved = {} /\ job.last = Nobody
  /\ job.step \in AtWork =>
       /\ job.batch \in DOMAIN Batches /\ job.pending \subseteq Batches[job.batch]
       /\ \A r \in job.skipped : \E b \in 1..job.batch - 1 : r \in Batches[b]
  /\ job.step = "inserting" => job.row \in job.pending \cap job.resolved /\ job.name \in Names

\* What this run has made is of earlier batches, or of this one and no longer asked for.
RowsMade ==
  \A n \in Generated :
    /\ accounts[n].run <= runs
    /\ accounts[n].run = runs =>
         /\ accounts[n].row \notin job.skipped
         /\ job.step \in AtWork =>
              \E b \in 1..job.batch :
                /\ accounts[n].row \in Batches[b]
                /\ b = job.batch =>
                     /\ job.inBatch # 0
                     /\ accounts[n].row \in job.pending =>
                          /\ accounts[n].row \in job.resolved
                          /\ job.step = "inserting" => accounts[n].row # job.row

MadeOnce ==
  \A m, n \in Generated :
    accounts[m].run = accounts[n].run /\ accounts[m].row = accounts[n].row => m = n

\* Without its provenance is one for each run that broke off, besides the one of the
\* transaction that is open.
Unseeded == {n \in Generated : ~ accounts[n].seeded} \ crossed
UnseededFew == IsFiniteSet(Unseeded) /\ Cardinality(Unseeded \ {job.last}) <= aborts

PeopleInv ==
  PeopleTypes /\ JobPlaces /\ RowsMade /\ MadeOnce /\ UnseededFew /\ AgentsHaveSeeds /\ SessionsNamePeople

LEMMA PeopleAssumed ==
  /\ Nobody \notin Names /\ "loader" \notin Newcomers
  /\ Len(Batches) \in Nat /\ DOMAIN Batches = 1..Len(Batches)
  /\ \A b, c \in DOMAIN Batches : b # c => Batches[b] \cap Batches[c] = {}
  /\ BatchTries \in Nat /\ BatchTries >= 1 /\ MaxTurns \in Nat
BY AccountsAssumption

LEMMA EnrolsOrNot == Enrols \in BOOLEAN
BY AccountsAssumption, Zenon

LEMMA NewAccounts ==
  ASSUME NEW who \in {"visitor", "loader", "generator"}
  PROVE  Account(who) \in AccountRows /\ Account(who) # NoAccount /\ Account(who).from = who
<1>1. (who = "visitor") \in BOOLEAN
  BY Zenon
<1>2. Account(who) \in AccountRows
  BY <1>1 DEF Account, AccountRows
<1> QED  BY <1>2 DEF Account, NoAccount

LEMMA SomeAccount ==
  ASSUME PeopleTypes, NEW n \in Names
  PROVE  /\ accounts[n] \in AccountRows \/ accounts[n] = NoAccount
         /\ Taken(n) <=> accounts[n] \in AccountRows
         /\ n \in Generated => Taken(n) /\ accounts[n].from = "generator"
<1>1. accounts[n] \in AccountRows \/ accounts[n] = NoAccount
  BY DEF PeopleTypes
<1>2. NoAccount \notin AccountRows
  BY DEF NoAccount, AccountRows
<1>3. NoAccount.from # "generator"
  BY DEF NoAccount
<1> QED  BY <1>1, <1>2, <1>3 DEF Taken, Generated

LEMMA PeopleStart ==
  ASSUME AccountsInit
  PROVE  PeopleInv
<1>1. \A n \in Names : accounts[n] = NoAccount
  BY DEF AccountsInit
<1>2. Generated = {} /\ Unseeded = {}
  BY <1>1 DEF Generated, Unseeded, NoAccount
<1>3. job = NoJob /\ NoJob \in JobRecords
  <2>1. NoJob \in JobRecords
    BY DEF NoJob, JobRecords, JobSteps
  <2> QED  BY <2>1 DEF AccountsInit
<1>4. PeopleTypes
  <2>1. admitting \in BOOLEAN
    BY Zenon DEF AccountsInit
  <2>2. runs \in 0..MaxTurns /\ aborts \in Nat /\ strokes \in Nat
    BY PeopleAssumed DEF AccountsInit
  <2>3. /\ accounts \in [Names -> AccountRows \cup {NoAccount}]
        /\ claims \in [Claimants -> Names \cup {Nobody}] /\ signed \in [Newcomers -> Names \cup {Nobody}]
        /\ editing \in {NoEditing} \cup [name : Names, seeded : BOOLEAN]
    BY DEF AccountsInit
  <2> QED  BY <1>3, <2>1, <2>2, <2>3 DEF PeopleTypes
<1>5. JobPlaces
  BY <1>3, PeopleAssumed DEF JobPlaces, NoJob, Working, AtWork, AccountsInit
<1>6. RowsMade /\ MadeOnce
  BY <1>2 DEF RowsMade, MadeOnce
<1>7. UnseededFew
  <2>1. IsFiniteSet({}) /\ Cardinality({}) = 0
    BY FS_EmptySet
  <2>2. Unseeded \ {job.last} = {}
    BY <1>2
  <2>3. aborts = 0
    BY DEF AccountsInit
  <2> QED  BY <1>2, <2>1, <2>2, <2>3 DEF UnseededFew
<1>8. AgentsHaveSeeds
  BY <1>1 DEF AgentsHaveSeeds, Taken
<1>9. SessionsNamePeople
  BY DEF SessionsNamePeople, AccountsInit
<1> QED  BY <1>4, <1>5, <1>6, <1>7, <1>8, <1>9 DEF PeopleInv

-----------------------------------------------------------------------------
(* Accounts: the rows beside the job *)

\* Fewer personas without provenance, or one more than there are broken runs.
LEMMA FewerUnseeded ==
  ASSUME UnseededFew, aborts \in Nat, aborts' \in Nat, aborts <= aborts',
         \A n : n \in Unseeded' \ {job'.last} => n \in Unseeded \ {job.last},
         \A n : n \in Unseeded' => n \in Unseeded
  PROVE  UnseededFew'
<1> DEFINE S == Unseeded \ {job.last}
           T == Unseeded' \ {job'.last}
<1>1. IsFiniteSet(Unseeded) /\ IsFiniteSet(Unseeded') /\ IsFiniteSet(S)
  <2>1. Unseeded' \in SUBSET Unseeded /\ S \in SUBSET Unseeded /\ IsFiniteSet(Unseeded)
    BY DEF UnseededFew
  <2> HIDE DEF S
  <2> QED  BY <2>1, FS_Subset
<1>2. T \in SUBSET S /\ Cardinality(S) <= aborts
  BY DEF UnseededFew
<1> HIDE DEF S, T
<1>3. Cardinality(T) <= Cardinality(S) /\ Cardinality(T) \in Nat /\ Cardinality(S) \in Nat
  BY <1>1, <1>2, FS_Subset, FS_CardinalityType
<1>4. Cardinality(T) <= aborts'
  BY <1>2, <1>3
<1> QED  BY <1>1, <1>4 DEF UnseededFew, T

LEMMA UnseededByAbort ==
  ASSUME UnseededFew, aborts \in Nat, aborts' = aborts + 1, job'.last \notin Unseeded', Unseeded' = Unseeded
  PROVE  UnseededFew'
<1> DEFINE S == Unseeded \ {job.last}
<1>1. IsFiniteSet(Unseeded) /\ Cardinality(S) <= aborts /\ Unseeded' \ {job'.last} = Unseeded
  BY DEF UnseededFew
<1>2. Cardinality(S) \in Nat /\ Cardinality(Unseeded) <= Cardinality(S) + 1 /\ Cardinality(Unseeded) \in Nat
  <2>1. CASE job.last \in Unseeded
    <3>1. Cardinality(S) = Cardinality(Unseeded) - 1
      BY <1>1, <2>1, FS_RemoveElement
    <3>2. Cardinality(Unseeded) \in Nat /\ Cardinality(S) \in Nat
      <4>1. S \in SUBSET Unseeded
        OBVIOUS
      <4> HIDE DEF S
      <4> QED  BY <1>1, <4>1, FS_Subset, FS_CardinalityType
    <3> HIDE DEF S
    <3> QED  BY <3>1, <3>2
  <2>2. CASE job.last \notin Unseeded
    <3>1. S = Unseeded
      BY <2>2
    <3>2. Cardinality(Unseeded) \in Nat
      BY <1>1, FS_CardinalityType
    <3> HIDE DEF S
    <3> QED  BY <3>1, <3>2
  <2> QED  BY <2>1, <2>2
<1> HIDE DEF S
<1>3. Cardinality(Unseeded) <= aborts'
  BY <1>1, <1>2
<1> QED  BY <1>1, <1>3 DEF UnseededFew

\* A row that is inserted, edited or deleted beside the job leaves the personas the
\* runs have made as they were, or takes them away.
LEMMA RowsBeside ==
  ASSUME PeopleInv, UNCHANGED <<job, runs, aborts>>,
         \A n \in Generated' : n \in Generated /\ accounts'[n].run = accounts[n].run
                                 /\ accounts'[n].row = accounts[n].row,
         \A n \in Unseeded' : n \in Unseeded
  PROVE  JobPlaces' /\ RowsMade' /\ MadeOnce' /\ UnseededFew'
<1>1. JobPlaces'
  BY DEF PeopleInv, JobPlaces, Working
<1>2. RowsMade'
  BY DEF PeopleInv, RowsMade
<1>3. MadeOnce'
  BY DEF PeopleInv, MadeOnce
<1>4. UnseededFew'
  <2>1. aborts \in Nat /\ aborts' = aborts /\ job' = job
    BY DEF PeopleInv, PeopleTypes
  <2>2. UnseededFew /\ aborts' \in Nat /\ aborts <= aborts'
    BY <2>1 DEF PeopleInv
  <2> QED  BY <2>1, <2>2, FewerUnseeded
<1> QED  BY <1>1, <1>2, <1>3, <1>4

LEMMA PeopleQuiet ==
  ASSUME PeopleInv, UNCHANGED <<accounts, job, runs, aborts, crossed, freed>>,
         admitting' \in BOOLEAN, strokes' \in Nat,
         claims' \in [Claimants -> Names \cup {Nobody}], signed' \in [Newcomers -> Names \cup {Nobody}],
         editing' \in {NoEditing} \cup [name : Names, seeded : BOOLEAN],
         \A v \in Newcomers : signed'[v] = signed[v] \/ signed'[v] = Nobody \/ Human(signed'[v])
  PROVE  PeopleInv'
<1>1. /\ PeopleTypes /\ JobPlaces /\ RowsMade /\ MadeOnce /\ UnseededFew /\ AgentsHaveSeeds
      /\ SessionsNamePeople
  BY DEF PeopleInv
<1>2. PeopleTypes'
  <2>1. accounts' = accounts /\ job' = job /\ runs' = runs /\ aborts' = aborts
    OBVIOUS
  <2> QED  BY <1>1, <2>1 DEF PeopleTypes
<1>3. Generated' = Generated /\ Unseeded' = Unseeded
  BY DEF Generated, Unseeded
<1>4. JobPlaces' /\ RowsMade' /\ MadeOnce' /\ UnseededFew'
  BY <1>3, RowsBeside
<1>5. AgentsHaveSeeds'
  BY <1>1 DEF AgentsHaveSeeds, Taken
<1>6. SessionsNamePeople'
  <2>1. \A n : Human(n)' <=> Human(n)
    BY DEF Human, Taken
  <2> QED  BY <1>1, <2>1 DEF SessionsNamePeople
<1> QED  BY <1>2, <1>4, <1>5, <1>6 DEF PeopleInv

LEMMA Striking ==
  ASSUME PeopleTypes, Stroke
  PROVE  strokes' \in Nat
BY DEF PeopleTypes, Stroke

\* What people and the administrator do without writing a row.
LEMMA QuietPeopleSteps ==
  ASSUME PeopleInv,
         \/ \E v \in Newcomers : \/ \E n \in Names : FindFree(v, n) \/ Login(v, n)
                                 \/ Logout(v) \/ CurrentHuman(v)
         \/ \E n \in Names : LookUpDefault(n) \/ OpenUser(n)
         \/ SwitchAccounts \/ UNCHANGED accountVars
  PROVE  PeopleInv'
<1>1. /\ PeopleTypes
      /\ claims \in [Claimants -> Names \cup {Nobody}] /\ signed \in [Newcomers -> Names \cup {Nobody}]
      /\ editing \in {NoEditing} \cup [name : Names, seeded : BOOLEAN]
      /\ strokes \in Nat
  BY DEF PeopleInv, PeopleTypes
<1>2. admitting \in BOOLEAN
  BY DEF PeopleInv, PeopleTypes
<1>3. ASSUME NEW v \in Newcomers, NEW n \in Names, FindFree(v, n) PROVE PeopleInv'
  <2>1. claims' \in [Claimants -> Names \cup {Nobody}]
    BY <1>1, <1>3 DEF FindFree
  <2>2. admitting' \in BOOLEAN
    <3>1. admitting' = admitting
      BY <1>3 DEF FindFree
    <3> QED  BY <1>2, <3>1, Zenon
  <2> QED  BY <1>1, <1>3, <2>1, <2>2, Striking, PeopleQuiet DEF FindFree
<1>4. ASSUME NEW v \in Newcomers, NEW n \in Names, Login(v, n) PROVE PeopleInv'
  <2>1. signed' \in [Newcomers -> Names \cup {Nobody}]
        /\ \A w \in Newcomers : signed'[w] = signed[w] \/ Human(signed'[w])
    BY <1>1, <1>4 DEF Login
  <2>2. admitting' \in BOOLEAN
    <3>1. admitting' = admitting
      BY <1>4 DEF Login
    <3> QED  BY <1>2, <3>1, Zenon
  <2> QED  BY <1>1, <1>4, <2>1, <2>2, Striking, PeopleQuiet DEF Login
<1>5. ASSUME NEW v \in Newcomers, Logout(v) \/ CurrentHuman(v) PROVE PeopleInv'
  <2>1. signed' \in [Newcomers -> Names \cup {Nobody}]
        /\ \A w \in Newcomers : signed'[w] = signed[w] \/ signed'[w] = Nobody
    BY <1>1, <1>5 DEF Logout, CurrentHuman
  <2>2. admitting' \in BOOLEAN
    <3>1. admitting' = admitting
      BY <1>5 DEF Logout, CurrentHuman
    <3> QED  BY <1>2, <3>1, Zenon
  <2> QED  BY <1>1, <1>5, <2>1, <2>2, PeopleQuiet DEF Logout, CurrentHuman
<1>6. ASSUME NEW n \in Names, LookUpDefault(n) PROVE PeopleInv'
  <2>1. claims' \in [Claimants -> Names \cup {Nobody}]
    BY <1>1, <1>6 DEF LookUpDefault
  <2>2. admitting' \in BOOLEAN
    <3>1. admitting' = admitting
      BY <1>6 DEF LookUpDefault
    <3> QED  BY <1>2, <3>1, Zenon
  <2> QED  BY <1>1, <1>6, <2>1, <2>2, Striking, PeopleQuiet DEF LookUpDefault
<1>7. ASSUME NEW n \in Names, OpenUser(n) PROVE PeopleInv'
  <2>1. editing' \in [name : Names, seeded : BOOLEAN]
    <3>1. accounts[n] \in AccountRows
      BY <1>1, <1>7, SomeAccount DEF OpenUser
    <3>2. accounts[n].seeded \in BOOLEAN
      BY <3>1 DEF AccountRows
    <3>3. editing' = [name |-> n, seeded |-> accounts[n].seeded]
      BY <1>7 DEF OpenUser
    <3> QED  BY <3>2, <3>3
  <2>2. admitting' \in BOOLEAN
    <3>1. admitting' = admitting
      BY <1>7 DEF OpenUser
    <3> QED  BY <1>2, <3>1, Zenon
  <2> QED  BY <1>1, <1>7, <2>1, <2>2, Striking, PeopleQuiet DEF OpenUser
<1>8. CASE SwitchAccounts
  <2>1. admitting' \in BOOLEAN
    <3>1. admitting' = ~ admitting
      BY <1>8 DEF SwitchAccounts
    <3> QED  BY <1>2, <3>1, Zenon
  <2> QED  BY <1>1, <1>8, <2>1, Striking, PeopleQuiet DEF SwitchAccounts
<1>9. CASE UNCHANGED accountVars
  <2>1. admitting' \in BOOLEAN
    <3>1. admitting' = admitting
      BY <1>9 DEF accountVars
    <3> QED  BY <1>2, <3>1, Zenon
  <2> QED  BY <1>1, <1>9, <2>1, PeopleQuiet DEF accountVars
<1> QED  BY <1>3, <1>4, <1>5, <1>6, <1>7, <1>8, <1>9

\* A row somebody else inserts, or fails to.
LEMMA RowInserted ==
  ASSUME PeopleInv, UNCHANGED <<job, runs, aborts, crossed, freed, editing, admitting, strokes>>,
         NEW n \in Names, NEW who \in {"visitor", "loader"},
         accounts' = IF Taken(n) THEN accounts ELSE [accounts EXCEPT ![n] = Account(who)],
         claims' \in [Claimants -> Names \cup {Nobody}], signed' \in [Newcomers -> Names \cup {Nobody}],
         \A v \in Newcomers :
           signed'[v] = signed[v] \/ signed'[v] = Nobody \/ (~ Taken(n) /\ who = "visitor" /\ signed'[v] = n)
  PROVE  PeopleInv'
<1>1. PeopleTypes /\ AgentsHaveSeeds /\ SessionsNamePeople
  BY DEF PeopleInv
<1>2. Account(who) \in AccountRows /\ Account(who).from = who /\ ~ Account(who).agent
      /\ (who = "visitor" => Account(who).human) /\ Account(who) # NoAccount
  BY NewAccounts DEF Account
<1>3. accounts' \in [Names -> AccountRows \cup {NoAccount}]
  BY <1>1, <1>2 DEF PeopleTypes
<1>4. \A m \in Names : m # n \/ Taken(n) => accounts'[m] = accounts[m]
  BY <1>1 DEF PeopleTypes
<1>5. ~ Taken(n) => accounts'[n] = Account(who)
  BY <1>1 DEF PeopleTypes
<1>6. \A m \in Generated' : m \in Generated /\ accounts'[m] = accounts[m]
  BY <1>2, <1>4, <1>5 DEF Generated
<1>7. \A m \in Unseeded' : m \in Unseeded
  BY <1>6 DEF Unseeded
<1>8. JobPlaces' /\ RowsMade' /\ MadeOnce' /\ UnseededFew'
  BY <1>6, <1>7, RowsBeside
<1>9. PeopleTypes'
  <2>1. admitting' \in BOOLEAN
    <3>1. admitting' = admitting
      OBVIOUS
    <3> QED  BY <1>1, <3>1, Zenon DEF PeopleTypes
  <2> QED  BY <1>1, <1>3, <2>1 DEF PeopleTypes
<1>10. AgentsHaveSeeds'
  <2> SUFFICES ASSUME NEW m \in Names \ crossed, Taken(m)', accounts'[m].agent PROVE accounts'[m].seeded
    BY DEF AgentsHaveSeeds
  <2>1. accounts'[m] = accounts[m]
    BY <1>2, <1>4, <1>5
  <2> QED  BY <1>1, <2>1 DEF AgentsHaveSeeds, Taken
<1>11. SessionsNamePeople'
  <2> SUFFICES ASSUME NEW v \in Newcomers, signed'[v] # Nobody, signed'[v] \notin freed
               PROVE  accounts'[signed'[v]] # NoAccount /\ accounts'[signed'[v]].human
    BY DEF SessionsNamePeople, Human, Taken
  <2>1. signed'[v] \in Names
    OBVIOUS
  <2>2. CASE signed'[v] = signed[v]
    <3>1. Human(signed[v])
      BY <1>1, <2>2 DEF SessionsNamePeople
    <3> QED  BY <1>4, <2>1, <2>2, <3>1 DEF Human, Taken
  <2>3. CASE ~ Taken(n) /\ who = "visitor" /\ signed'[v] = n
    BY <1>2, <1>5, <2>3 DEF Human, Taken
  <2> QED  BY <2>2, <2>3
<1> QED  BY <1>8, <1>9, <1>10, <1>11 DEF PeopleInv

LEMMA InsertingSteps ==
  ASSUME PeopleInv, LoadDefault \/ \E v \in Newcomers : Register(v)
  PROVE  PeopleInv'
<1>1. claims \in [Claimants -> Names \cup {Nobody}] /\ signed \in [Newcomers -> Names \cup {Nobody}]
  BY DEF PeopleInv, PeopleTypes
<1>2. CASE LoadDefault
  <2>1. claims["loader"] \in Names
    BY <1>1, <1>2 DEF LoadDefault, Claimants
  <2>2. claims' \in [Claimants -> Names \cup {Nobody}]
    BY <1>1, <1>2 DEF LoadDefault
  <2> QED  BY <1>1, <1>2, <2>1, <2>2, RowInserted DEF LoadDefault
<1>3. ASSUME NEW v \in Newcomers, Register(v) PROVE PeopleInv'
  <2> DEFINE n == claims[v]
  <2>1. n \in Names
    BY <1>1, <1>3 DEF Register, Claimants
  <2>2. claims' \in [Claimants -> Names \cup {Nobody}]
    BY <1>1, <1>3 DEF Register
  <2>3. /\ signed' \in [Newcomers -> Names \cup {Nobody}]
        /\ \A w \in Newcomers :
             signed'[w] = signed[w] \/ signed'[w] = Nobody \/ (~ Taken(n) /\ signed'[w] = n)
    BY <1>1, <1>3, <2>1 DEF Register, SignedInAs
  <2>4. /\ UNCHANGED <<job, runs, aborts, crossed, freed, editing, admitting, strokes>>
        /\ accounts' = IF Taken(n) THEN accounts ELSE [accounts EXCEPT ![n] = Account("visitor")]
    BY <1>3 DEF Register
  <2> HIDE DEF n
  <2> QED  BY <2>1, <2>2, <2>3, <2>4, RowInserted
<1> QED  BY <1>2, <1>3

LEMMA DeleteUserStep ==
  ASSUME PeopleInv, NEW n \in Names, DeleteUser(n)
  PROVE  PeopleInv'
<1>1. PeopleTypes /\ AgentsHaveSeeds /\ SessionsNamePeople
  BY DEF PeopleInv
<1>2. /\ accounts' = [accounts EXCEPT ![n] = NoAccount] /\ freed' = freed \cup {n}
      /\ UNCHANGED <<admitting, claims, signed, editing, job, runs, aborts, crossed>>
      /\ strokes' \in Nat
  BY <1>1, Striking DEF DeleteUser
<1>3. accounts' \in [Names -> AccountRows \cup {NoAccount}]
  BY <1>1, <1>2 DEF PeopleTypes
<1>4. accounts'[n] = NoAccount /\ \A m \in Names : m # n => accounts'[m] = accounts[m]
  BY <1>1, <1>2 DEF PeopleTypes
<1>5. NoAccount.from # "generator"
  BY DEF NoAccount
<1>6. \A m \in Generated' : m \in Generated /\ accounts'[m] = accounts[m]
  BY <1>4, <1>5 DEF Generated
<1>7. \A m \in Unseeded' : m \in Unseeded
  BY <1>2, <1>6 DEF Unseeded
<1>8. JobPlaces' /\ RowsMade' /\ MadeOnce' /\ UnseededFew'
  BY <1>2, <1>6, <1>7, RowsBeside
<1>9. PeopleTypes'
  <2>1. admitting' \in BOOLEAN
    <3>1. admitting' = admitting
      BY <1>2
    <3> QED  BY <1>1, <3>1, Zenon DEF PeopleTypes
  <2> QED  BY <1>1, <1>2, <1>3, <2>1 DEF PeopleTypes
<1>10. AgentsHaveSeeds'
  <2> SUFFICES ASSUME NEW m \in Names \ crossed', Taken(m)', accounts'[m].agent PROVE accounts'[m].seeded
    BY DEF AgentsHaveSeeds
  <2>1. m # n /\ accounts'[m] = accounts[m]
    BY <1>4 DEF Taken
  <2> QED  BY <1>1, <1>2, <2>1 DEF AgentsHaveSeeds, Taken
<1>11. SessionsNamePeople'
  <2> SUFFICES ASSUME NEW v \in Newcomers, signed[v] # Nobody, signed[v] \notin freed \cup {n}
               PROVE  accounts'[signed[v]] # NoAccount /\ accounts'[signed[v]].human
    BY <1>2 DEF SessionsNamePeople, Human, Taken
  <2>1. Human(signed[v]) /\ signed[v] \in Names /\ signed[v] # n
    BY <1>1 DEF SessionsNamePeople, PeopleTypes
  <2> QED  BY <1>4, <2>1 DEF Human, Taken
<1> QED  BY <1>8, <1>9, <1>10, <1>11 DEF PeopleInv

LEMMA UpdateUserStep ==
  ASSUME PeopleInv, NEW caps \in BOOLEAN, NEW password \in BOOLEAN, UpdateUser(caps, password)
  PROVE  PeopleInv'
<1> DEFINE n == editing.name
           old == accounts[n]
           kept == IF caps THEN editing.seeded ELSE old.seeded
<1>1. PeopleTypes /\ AgentsHaveSeeds /\ SessionsNamePeople
  BY DEF PeopleInv
<1>2. n \in Names /\ editing.seeded \in BOOLEAN
  BY <1>1 DEF UpdateUser, PeopleTypes
<1>3. /\ IF Taken(n)
         THEN /\ accounts' = [accounts EXCEPT ![n].capped = @ \/ caps,
                                              ![n].seeded = kept,
                                              ![n].human = @ \/ password]
              /\ crossed' = IF kept # old.seeded THEN crossed \cup {n} ELSE crossed
         ELSE UNCHANGED <<accounts, crossed>>
      /\ editing' = NoEditing
      /\ UNCHANGED <<admitting, claims, signed, job, runs, aborts, freed, strokes>>
  BY DEF UpdateUser
<1>4. CASE ~ Taken(n)
  <2>1. UNCHANGED <<accounts, crossed>>
    BY <1>3, <1>4
  <2>2. admitting' \in BOOLEAN
    <3>1. admitting' = admitting
      BY <1>3
    <3> QED  BY <1>1, <3>1, Zenon DEF PeopleTypes
  <2> QED  BY <1>1, <1>3, <2>1, <2>2, PeopleQuiet DEF PeopleTypes
<1>5. CASE Taken(n)
  <2>1. old \in AccountRows /\ accounts \in [Names -> AccountRows \cup {NoAccount}]
    BY <1>1, <1>2, <1>5, SomeAccount DEF PeopleTypes
  <2>2. old.capped \in BOOLEAN /\ old.human \in BOOLEAN /\ old.seeded \in BOOLEAN
    BY <2>1 DEF AccountRows
  <2>3. (old.capped \/ caps) \in BOOLEAN /\ (old.human \/ password) \in BOOLEAN
    BY <2>2, Zenon
  <2>4. kept \in BOOLEAN
    <3>1. CASE caps
      BY <1>2, <3>1, Zenon
    <3>2. CASE ~ caps
      BY <2>2, <3>2, Zenon
    <3> QED  BY <3>1, <3>2, Zenon
  <2> DEFINE new == [old EXCEPT !.capped = old.capped \/ caps, !.seeded = kept,
                                !.human = old.human \/ password]
  <2>5. accounts' = [accounts EXCEPT ![n] = new]
    BY <1>2, <1>3, <1>5, <2>1
  <2>6. /\ new \in AccountRows /\ new.from = old.from /\ new.run = old.run /\ new.row = old.row
        /\ new.agent = old.agent /\ new # NoAccount
    <3> HIDE DEF kept
    <3>1. new \in AccountRows
      BY <2>1, <2>3, <2>4 DEF AccountRows
    <3>2. NoAccount \notin AccountRows
      BY DEF NoAccount, AccountRows
    <3>3. new.from = old.from /\ new.run = old.run /\ new.row = old.row /\ new.agent = old.agent
      BY <2>1 DEF AccountRows
    <3> QED  BY <3>1, <3>2, <3>3
  <2>7. (new.seeded <=> kept) /\ (old.human => new.human)
    <3> HIDE DEF kept
    <3>1. new.seeded = kept
      BY <2>1, <2>4 DEF AccountRows
    <3>2. new.human = (old.human \/ password)
      BY <2>1, <2>3 DEF AccountRows
    <3> QED  BY <3>1, <3>2
  <2>8. crossed' = IF kept # old.seeded THEN crossed \cup {n} ELSE crossed
    BY <1>3, <1>5
  <2>9. n \in crossed' \/ (kept <=> old.seeded)
    <3>1. CASE kept = old.seeded
      BY <3>1
    <3>2. CASE kept # old.seeded
      BY <2>8, <3>2
    <3> QED  BY <3>1, <3>2
  <2>10. crossed \in SUBSET crossed'
    BY <2>8
  <2> HIDE DEF new, kept
  <2>11. accounts'[n] = new /\ \A m \in Names : m # n => accounts'[m] = accounts[m]
    BY <1>2, <2>1, <2>5
  <2>12. \A m \in Generated' : m \in Generated /\ accounts'[m].run = accounts[m].run
                                 /\ accounts'[m].row = accounts[m].row
    BY <2>6, <2>11 DEF Generated
  <2>13. \A m \in Unseeded' : m \in Unseeded
    <3> SUFFICES ASSUME NEW m \in Unseeded' PROVE m \in Unseeded
      OBVIOUS
    <3>1. m \in Generated' /\ m \in Generated /\ ~ accounts'[m].seeded /\ m \notin crossed' /\ m \notin crossed
      BY <2>10, <2>12 DEF Unseeded
    <3>2. m \in Names
      BY <3>1 DEF Generated
    <3>3. ~ accounts[m].seeded
      BY <2>7, <2>9, <2>11, <3>1, <3>2
    <3> QED  BY <3>1, <3>3 DEF Unseeded
  <2>14. JobPlaces' /\ RowsMade' /\ MadeOnce' /\ UnseededFew'
    BY <1>3, <2>12, <2>13, RowsBeside
  <2>15. PeopleTypes'
    <3>1. accounts' \in [Names -> AccountRows \cup {NoAccount}]
      BY <1>2, <2>1, <2>5, <2>6
    <3>2. admitting' \in BOOLEAN
      <4>1. admitting' = admitting
        BY <1>3
      <4> QED  BY <1>1, <4>1, Zenon DEF PeopleTypes
    <3> QED  BY <1>1, <1>3, <3>1, <3>2 DEF PeopleTypes
  <2>16. AgentsHaveSeeds'
    <3> SUFFICES ASSUME NEW m \in Names \ crossed', Taken(m)', accounts'[m].agent PROVE accounts'[m].seeded
      BY DEF AgentsHaveSeeds
    <3>1. m \in Names \ crossed
      BY <2>10
    <3>2. CASE m = n
      <4>1. old.agent /\ Taken(m)
        BY <1>5, <2>6, <2>11, <3>2
      <4>2. old.seeded
        BY <1>1, <3>1, <3>2, <4>1 DEF AgentsHaveSeeds
      <4> QED  BY <2>7, <2>9, <2>11, <3>2, <4>2
    <3>3. CASE m # n
      <4>1. accounts'[m] = accounts[m]
        BY <2>11, <3>3
      <4> QED  BY <1>1, <3>1, <4>1 DEF AgentsHaveSeeds, Taken
    <3> QED  BY <3>2, <3>3
  <2>17. SessionsNamePeople'
    <3> SUFFICES ASSUME NEW v \in Newcomers, signed[v] # Nobody, signed[v] \notin freed
                 PROVE  accounts'[signed[v]] # NoAccount /\ accounts'[signed[v]].human
      BY <1>3 DEF SessionsNamePeople, Human, Taken
    <3>1. accounts[signed[v]] # NoAccount /\ accounts[signed[v]].human /\ signed[v] \in Names
      BY <1>1 DEF SessionsNamePeople, PeopleTypes, Human, Taken
    <3> QED  BY <2>6, <2>7, <2>11, <3>1
  <2> QED  BY <2>14, <2>15, <2>16, <2>17 DEF PeopleInv
<1> QED  BY <1>4, <1>5

-----------------------------------------------------------------------------
(* Accounts: the job *)

LEMMA JobFields ==
  ASSUME PeopleTypes
  PROVE  /\ job.step \in JobSteps /\ job.batch \in Nat /\ job.attempt \in Nat /\ job.inBatch \in Nat
         /\ job.pending \in SUBSET Assigned /\ job.listed \in SUBSET Assigned
         /\ job.resolved \in SUBSET Assigned /\ job.skipped \in SUBSET Assigned
         /\ job.seen \in SUBSET Names /\ job.made \in SUBSET Names
         /\ job.row \in Assigned \cup {0}
         /\ job.name \in Names \cup {Nobody} /\ job.last \in Names \cup {Nobody}
BY DEF PeopleTypes, JobRecords

\* What a job's step leaves alone.
LEMMA JobAlone ==
  ASSUME PeopleInv, UNCHANGED <<accounts, admitting, claims, signed, editing, freed, crossed, strokes>>,
         job' \in JobRecords, runs' \in 0..MaxTurns, aborts' \in Nat,
         JobPlaces', RowsMade', UnseededFew'
  PROVE  PeopleInv'
<1>1. PeopleTypes'
  <2>1. admitting' \in BOOLEAN
    <3>1. admitting' = admitting
      OBVIOUS
    <3> QED  BY <3>1, Zenon DEF PeopleInv, PeopleTypes
  <2> QED  BY <2>1 DEF PeopleInv, PeopleTypes
<1>2. MadeOnce'
  BY DEF PeopleInv, MadeOnce, Generated
<1>3. AgentsHaveSeeds' /\ SessionsNamePeople'
  BY DEF PeopleInv, AgentsHaveSeeds, SessionsNamePeople, Human, Taken
<1> QED  BY <1>1, <1>2, <1>3 DEF PeopleInv

\* The provenance that is missing is the same while the open transaction is.
LEMMA UnseededStays ==
  ASSUME PeopleInv, UNCHANGED <<accounts, crossed, aborts>>, job'.last = job.last
  PROVE  UnseededFew'
<1>1. Unseeded' = Unseeded
  BY DEF Unseeded, Generated
<1> QED  BY <1>1 DEF PeopleInv, UnseededFew

LEMMA QueueGenerationStep ==
  ASSUME PeopleInv, QueueGeneration
  PROVE  PeopleInv'
<1>1. PeopleTypes /\ JobPlaces /\ RowsMade
  BY DEF PeopleInv
<1>2. /\ job.step = "none" /\ job' = [NoJob EXCEPT !.step = "queued"]
      /\ UNCHANGED <<admitting, accounts, claims, signed, editing, runs, aborts, freed, crossed, strokes>>
  BY DEF QueueGeneration
<1>3. /\ job' \in JobRecords /\ job'.step = "queued" /\ job'.last = Nobody /\ job'.attempt = 0
      /\ job'.listed = {} /\ job'.pending = {} /\ job'.resolved = {} /\ job'.skipped = {}
  BY <1>2 DEF NoJob, JobRecords, JobSteps
<1>4. JobPlaces'
  <2>1. aborts + 0 <= runs
    BY <1>1, <1>2 DEF JobPlaces, Working
  <2>2. aborts' + (IF Working' THEN 1 ELSE 0) <= runs'
    BY <1>2, <1>3, <2>1 DEF Working
  <2> QED  BY <1>3, <2>2, PeopleAssumed DEF JobPlaces, AtWork
<1>5. RowsMade'
  BY <1>1, <1>2, <1>3 DEF RowsMade, Generated, AtWork
<1>6. job.last = Nobody
  BY <1>1, <1>2 DEF JobPlaces
<1>7. UnseededFew'
  BY <1>2, <1>3, <1>6, UnseededStays
<1> QED  BY <1>1, <1>2, <1>3, <1>4, <1>5, <1>7, JobAlone DEF PeopleTypes

\* The first attempt at a batch, or the end.
LEMMA AtBatchStarts ==
  ASSUME NEW j \in JobRecords, NEW b \in Nat \ {0}
  PROVE  LET k == AtBatch(j, b) IN
         /\ k \in JobRecords /\ k.last = j.last /\ k.listed = j.listed /\ k.resolved = j.resolved
         /\ k.skipped = j.skipped
         /\ \/ k.step = "asking" /\ b \in DOMAIN Batches /\ k.batch = b /\ k.pending = Batches[b]
               /\ k.attempt = 1 /\ k.inBatch = 0
            \/ k.step = "reporting" /\ k.pending = j.pending /\ k.attempt = j.attempt
<1>1. Len(Batches) \in Nat /\ DOMAIN Batches = 1..Len(Batches)
  BY PeopleAssumed
<1>2. CASE b > Len(Batches)
  <2>1. AtBatch(j, b) = [j EXCEPT !.step = "reporting"]
    BY <1>2 DEF AtBatch
  <2> QED  BY <2>1 DEF JobRecords, JobSteps
<1>3. CASE ~ (b > Len(Batches))
  <2>1. b \in DOMAIN Batches /\ Batches[b] \in SUBSET Assigned
    BY <1>1, <1>3 DEF Assigned
  <2>2. AtBatch(j, b) = [j EXCEPT !.step = "asking", !.batch = b, !.attempt = 1,
                                  !.pending = Batches[b], !.inBatch = 0]
    BY <1>3 DEF AtBatch
  <2> DEFINE B == Batches[b]
             k == [j EXCEPT !.step = "asking", !.batch = b, !.attempt = 1, !.pending = B, !.inBatch = 0]
  <2>3. B \in SUBSET Assigned /\ "asking" \in JobSteps
    BY <2>1 DEF JobSteps
  <2> HIDE DEF B
  <2>4. k \in JobRecords
    BY <2>3 DEF JobRecords
  <2>5. /\ k.step = "asking" /\ k.batch = b /\ k.attempt = 1 /\ k.pending = B /\ k.inBatch = 0
        /\ k.last = j.last /\ k.listed = j.listed /\ k.resolved = j.resolved /\ k.skipped = j.skipped
    BY DEF JobRecords
  <2>6. AtBatch(j, b) = k
    BY <2>2 DEF B
  <2> HIDE DEF k
  <2> QED  BY <2>1, <2>4, <2>5, <2>6 DEF B
<1> QED  BY <1>2, <1>3

LEMMA GenerationStarts ==
  ASSUME PeopleInv, Generate
  PROVE  PeopleInv'
<1>1. PeopleTypes /\ JobPlaces /\ RowsMade
  BY DEF PeopleInv
<1>2. /\ job.step = "queued" /\ strokes + runs < MaxTurns /\ runs' = runs + 1 /\ job' = AtBatch(NoJob, 1)
      /\ UNCHANGED <<admitting, accounts, claims, signed, editing, aborts, freed, crossed, strokes>>
  BY DEF Generate
<1>3. NoJob \in JobRecords
  BY DEF NoJob, JobRecords, JobSteps
<1>4. /\ job' \in JobRecords /\ job'.last = Nobody /\ job'.listed = {} /\ job'.resolved = {}
      /\ job'.skipped = {}
      /\ \/ job'.step = "asking" /\ 1 \in DOMAIN Batches /\ job'.batch = 1 /\ job'.pending = Batches[1]
            /\ job'.attempt = 1
         \/ job'.step = "reporting" /\ job'.pending = {} /\ job'.attempt = 0
  <2>1. /\ NoJob.last = Nobody /\ NoJob.listed = {} /\ NoJob.resolved = {} /\ NoJob.skipped = {}
        /\ NoJob.pending = {} /\ NoJob.attempt = 0
    BY DEF NoJob
  <2>2. 1 \in Nat \ {0} /\ job' = AtBatch(NoJob, 1)
    BY <1>2
  <2> QED  BY <1>3, <2>1, <2>2, AtBatchStarts
<1>5. runs' \in 0..MaxTurns /\ runs \in Nat /\ aborts \in Nat /\ aborts' = aborts
  <2>1. runs \in Nat /\ strokes \in Nat /\ aborts \in Nat
    BY <1>1 DEF PeopleTypes
  <2>2. MaxTurns \in Nat
    BY PeopleAssumed
  <2> QED  BY <1>2, <2>1, <2>2
<1>6. JobPlaces'
  <2>1. aborts + 0 <= runs
    BY <1>1, <1>2 DEF JobPlaces, Working
  <2>2. aborts' + (IF Working' THEN 1 ELSE 0) <= runs'
    BY <1>2, <1>5, <2>1
  <2> QED  BY <1>4, <2>2, PeopleAssumed DEF JobPlaces, AtWork
<1>7. RowsMade'
  <2> SUFFICES ASSUME NEW n \in Generated' PROVE accounts'[n].run <= runs' /\ accounts'[n].run # runs'
    BY DEF RowsMade
  <2>1. accounts'[n] = accounts[n] /\ n \in Generated /\ accounts[n].run <= runs
    BY <1>1, <1>2 DEF RowsMade, Generated
  <2>2. accounts[n].run \in Nat
    <3>1. accounts[n] \in AccountRows
      BY <1>1, <2>1, SomeAccount DEF Generated
    <3> QED  BY <3>1 DEF AccountRows
  <2> QED  BY <1>2, <1>5, <2>1, <2>2
<1>8. job.last = Nobody
  BY <1>1, <1>2 DEF JobPlaces
<1>9. UnseededFew'
  BY <1>2, <1>4, <1>8, UnseededStays
<1> QED  BY <1>2, <1>4, <1>5, <1>6, <1>7, <1>9, JobAlone

LEMMA AnswerStep ==
  ASSUME PeopleInv, NEW ids \in SUBSET job.pending, Answer(ids)
  PROVE  PeopleInv'
<1>1. PeopleTypes /\ JobPlaces /\ RowsMade
  BY DEF PeopleInv
<1>2. /\ job.step = "asking" /\ job' = [job EXCEPT !.step = "naming", !.listed = ids, !.resolved = {}]
      /\ UNCHANGED <<admitting, accounts, claims, signed, editing, runs, aborts, freed, crossed, strokes>>
  BY DEF Answer
<1>3. job \in JobRecords /\ ids \in SUBSET Assigned /\ "naming" \in JobSteps
  <2>1. job.pending \in SUBSET Assigned
    BY <1>1, JobFields
  <2> QED  BY <1>1, <2>1 DEF PeopleTypes, JobSteps
<1>4. /\ job' \in JobRecords /\ job'.step = "naming" /\ job'.last = job.last /\ job'.listed = ids
      /\ job'.resolved = {} /\ job'.pending = job.pending /\ job'.skipped = job.skipped
      /\ job'.batch = job.batch /\ job'.attempt = job.attempt /\ job'.inBatch = job.inBatch
  BY <1>2, <1>3 DEF JobRecords
<1>5. JobPlaces'
  <2>1. Working /\ Working'
    BY <1>2, <1>4 DEF Working
  <2> QED  BY <1>1, <1>2, <1>4, <2>1 DEF JobPlaces, AtWork
<1>6. RowsMade'
  <2>1. job.resolved = {}
    BY <1>1, <1>2 DEF JobPlaces
  <2> QED  BY <1>1, <1>2, <1>4, <2>1 DEF RowsMade, Generated, AtWork
<1>7. UnseededFew'
  BY <1>2, <1>4, UnseededStays
<1> QED  BY <1>1, <1>2, <1>4, <1>5, <1>6, <1>7, JobAlone DEF PeopleTypes

LEMMA SanitizeStep ==
  ASSUME PeopleInv, NEW row \in job.listed, NEW n \in Names, Sanitize(row, n)
  PROVE  PeopleInv'
<1>1. PeopleTypes /\ JobPlaces /\ RowsMade
  BY DEF PeopleInv
<1>2. /\ job.step = "naming"
      /\ job' = [job EXCEPT !.step = "inserting", !.row = row, !.name = n, !.seen = job.seen \cup {n},
                            !.listed = job.listed \ {row}, !.resolved = job.resolved \cup {row}]
      /\ UNCHANGED <<admitting, accounts, claims, signed, editing, runs, aborts, freed, crossed, strokes>>
  BY DEF Sanitize
<1>3. /\ job \in JobRecords /\ row \in Assigned /\ "inserting" \in JobSteps
      /\ job.listed \in SUBSET Assigned /\ job.resolved \in SUBSET Assigned /\ job.seen \in SUBSET Names
  <2>1. job.listed \in SUBSET Assigned
    BY <1>1, JobFields
  <2> QED  BY <1>1, <2>1, JobFields DEF PeopleTypes, JobSteps
<1>4. /\ job.listed \ {row} \in SUBSET Assigned /\ job.resolved \cup {row} \in SUBSET Assigned
      /\ job.seen \cup {n} \in SUBSET Names
  BY <1>3
<1>5. job' \in JobRecords
  BY <1>2, <1>3, <1>4 DEF JobRecords
<1>6. /\ job'.step = "inserting" /\ job'.row = row /\ job'.name = n /\ job'.listed = job.listed \ {row}
      /\ job'.resolved = job.resolved \cup {row}
      /\ job'.last = job.last /\ job'.pending = job.pending /\ job'.skipped = job.skipped
      /\ job'.batch = job.batch /\ job'.attempt = job.attempt /\ job'.inBatch = job.inBatch
  BY <1>2, <1>3 DEF JobRecords
<1>7. row \in job.pending /\ row \notin job.resolved
  BY <1>1 DEF JobPlaces
<1>8. JobPlaces'
  <2>1. Working /\ Working'
    BY <1>2, <1>6 DEF Working
  <2> QED  BY <1>1, <1>2, <1>6, <1>7, <2>1 DEF JobPlaces, AtWork
<1>9. RowsMade'
  <2> SUFFICES ASSUME NEW m \in Generated, accounts[m].run = runs
               PROVE  \E b \in 1..job.batch :
                        /\ accounts[m].row \in Batches[b]
                        /\ b = job.batch =>
                             /\ job.inBatch # 0
                             /\ accounts[m].row \in job.pending =>
                                  accounts[m].row \in job'.resolved /\ accounts[m].row # row
    BY <1>1, <1>2, <1>6 DEF RowsMade, Generated, AtWork
  <2>1. PICK b \in 1..job.batch :
          /\ accounts[m].row \in Batches[b]
          /\ b = job.batch =>
               job.inBatch # 0 /\ (accounts[m].row \in job.pending => accounts[m].row \in job.resolved)
    BY <1>1, <1>2 DEF RowsMade, AtWork
  <2> QED  BY <1>6, <1>7, <2>1
<1>10. UnseededFew'
  BY <1>2, <1>6, UnseededStays
<1> QED  BY <1>1, <1>2, <1>5, <1>8, <1>9, <1>10, JobAlone DEF PeopleTypes

\* The end of an attempt: another, for rows nobody has resolved, the next batch, or
\* the report.
LEMMA AfterAttempt ==
  ASSUME PeopleTypes, JobPlaces, job.step \in {"asking", "naming"}, job.listed = {},
         NEW left \in SUBSET (job.pending \ job.resolved)
  PROVE  LET k == After(left) IN
         /\ k \in JobRecords /\ k.last = Nobody /\ k.listed = {} /\ k.resolved = {}
         /\ k.attempt <= BatchTries
         /\ \/ /\ k.step = "asking" /\ k.batch = job.batch /\ k.pending = left
               /\ k.skipped = job.skipped /\ k.inBatch = job.inBatch
            \/ /\ k.skipped = IF GivesUp THEN job.skipped \cup Batches[job.batch] ELSE job.skipped
               /\ \/ k.step = "asking" /\ k.batch = job.batch + 1 /\ k.batch \in DOMAIN Batches
                     /\ k.pending = Batches[k.batch]
                  \/ k.step = "reporting"
<1> DEFINE closed == [job EXCEPT !.last = Nobody, !.pending = left, !.resolved = {}]
           lost == IF GivesUp THEN job.skipped \cup Batches[job.batch] ELSE job.skipped
           next == [closed EXCEPT !.skipped = lost]
<1>1. /\ job \in JobRecords /\ left \in SUBSET Assigned /\ Batches[job.batch] \in SUBSET Assigned
      /\ lost \in SUBSET Assigned /\ job.batch \in Nat /\ job.attempt \in Nat
  <2>1. job.batch \in DOMAIN Batches
    BY DEF JobPlaces, AtWork
  <2> QED  BY <2>1, JobFields DEF PeopleTypes, Assigned
<1> HIDE DEF lost
<1>2. /\ closed \in JobRecords /\ closed.last = Nobody /\ closed.pending = left /\ closed.resolved = {}
      /\ closed.listed = {} /\ closed.skipped = job.skipped /\ closed.batch = job.batch
      /\ closed.attempt = job.attempt /\ closed.inBatch = job.inBatch
  BY <1>1 DEF JobRecords
<1> HIDE DEF closed
<1>3. CASE left # {} /\ job.attempt < BatchTries
  <2> DEFINE k == [closed EXCEPT !.step = "asking", !.attempt = closed.attempt + 1]
  <2>1. After(left) = k
    BY <1>3 DEF After, closed
  <2>2. "asking" \in JobSteps /\ closed.attempt + 1 \in Nat
    BY <1>1, <1>2 DEF JobSteps
  <2>3. k \in JobRecords /\ k.step = "asking" /\ k.batch = job.batch /\ k.pending = left
        /\ k.skipped = job.skipped /\ k.inBatch = job.inBatch /\ k.attempt = job.attempt + 1
        /\ k.last = Nobody /\ k.listed = {} /\ k.resolved = {}
    BY <1>2, <2>2 DEF JobRecords
  <2>4. job.attempt + 1 <= BatchTries
    BY <1>1, <1>3, PeopleAssumed
  <2> HIDE DEF k
  <2> QED  BY <2>1, <2>3, <2>4
<1>4. CASE ~ (left # {} /\ job.attempt < BatchTries)
  <2>1. After(left) = AtBatch(next, job.batch + 1)
    BY <1>4 DEF After, closed, lost
  <2>2. /\ next \in JobRecords /\ next.last = Nobody /\ next.listed = {} /\ next.resolved = {}
        /\ next.skipped = lost /\ next.attempt = job.attempt
    BY <1>1, <1>2 DEF JobRecords
  <2> HIDE DEF next
  <2>3. job.batch + 1 \in Nat \ {0}
    BY <1>1
  <2>4. job.attempt <= BatchTries /\ 1 <= BatchTries
    BY PeopleAssumed DEF JobPlaces
  <2> DEFINE k == AtBatch(next, job.batch + 1)
  <2>5. /\ k \in JobRecords /\ k.last = Nobody /\ k.listed = {} /\ k.resolved = {} /\ k.skipped = lost
        /\ k.attempt <= BatchTries
        /\ \/ k.step = "asking" /\ k.batch = job.batch + 1 /\ k.batch \in DOMAIN Batches
              /\ k.pending = Batches[k.batch]
           \/ k.step = "reporting"
    BY <2>2, <2>3, <2>4, AtBatchStarts
  <2> HIDE DEF k
  <2> QED  BY <2>1, <2>5 DEF k, lost
<1> QED  BY <1>3, <1>4

\* What the run has made is not asked for again.
LEMMA AttemptEnds ==
  ASSUME PeopleInv, job.step \in {"asking", "naming"}, job.listed = {},
         NEW left \in SUBSET (job.pending \ job.resolved), job' = After(left),
         UNCHANGED <<runs, aborts>>,
         \A n \in Generated' : n \in Generated /\ accounts'[n].run = accounts[n].run
                                 /\ accounts'[n].row = accounts[n].row
  PROVE  job' \in JobRecords /\ job'.last = Nobody /\ JobPlaces' /\ RowsMade'
<1>1. PeopleTypes /\ JobPlaces /\ RowsMade
  BY DEF PeopleInv
<1>2. /\ job' \in JobRecords /\ job'.last = Nobody /\ job'.listed = {} /\ job'.resolved = {}
      /\ job'.attempt <= BatchTries
      /\ \/ /\ job'.step = "asking" /\ job'.batch = job.batch /\ job'.pending = left
            /\ job'.skipped = job.skipped /\ job'.inBatch = job.inBatch
         \/ /\ job'.skipped = IF GivesUp THEN job.skipped \cup Batches[job.batch] ELSE job.skipped
            /\ \/ job'.step = "asking" /\ job'.batch = job.batch + 1 /\ job'.batch \in DOMAIN Batches
                  /\ job'.pending = Batches[job'.batch]
               \/ job'.step = "reporting"
  BY <1>1, AfterAttempt
<1>3. /\ job.batch \in DOMAIN Batches /\ job.pending \subseteq Batches[job.batch]
      /\ \A r \in job.skipped : \E b \in 1..job.batch - 1 : r \in Batches[b]
  BY <1>1 DEF JobPlaces, AtWork
<1>4. DOMAIN Batches = 1..Len(Batches) /\ Len(Batches) \in Nat /\ job.batch \in Nat /\ job.batch >= 1
      /\ \A b, c \in DOMAIN Batches : b # c => Batches[b] \cap Batches[c] = {}
  <2>1. DOMAIN Batches = 1..Len(Batches) /\ Len(Batches) \in Nat
    BY PeopleAssumed
  <2>2. job.batch \in Nat /\ job.batch >= 1
    BY <1>3, <2>1
  <2> QED  BY <2>1, <2>2, PeopleAssumed
<1>5. job'.step \in {"asking", "reporting"}
  BY <1>2
<1>6. ASSUME job'.step \in AtWork
      PROVE  /\ job'.batch \in DOMAIN Batches /\ job'.pending \subseteq Batches[job'.batch]
             /\ \A r \in job'.skipped : \E b \in 1..job'.batch - 1 : r \in Batches[b]
  <2>1. CASE job'.batch = job.batch /\ job'.pending = left /\ job'.skipped = job.skipped
    BY <1>3, <2>1
  <2>2. CASE /\ job'.batch = job.batch + 1 /\ job'.batch \in DOMAIN Batches
             /\ job'.pending = Batches[job'.batch]
             /\ job'.skipped = IF GivesUp THEN job.skipped \cup Batches[job.batch] ELSE job.skipped
    <3>1. ASSUME NEW r \in job'.skipped PROVE \E b \in 1..job'.batch - 1 : r \in Batches[b]
      <4>1. r \in job.skipped \/ r \in Batches[job.batch]
        BY <2>2
      <4>2. job'.batch - 1 = job.batch
        BY <1>4, <2>2
      <4>3. job.batch \in 1..job.batch /\ \A b \in 1..job.batch - 1 : b \in 1..job.batch
        BY <1>4
      <4> QED  BY <1>3, <4>1, <4>2, <4>3
    <3> QED  BY <2>2, <3>1
  <2> QED  BY <1>2, <1>6, <2>1, <2>2 DEF AtWork
<1>7. JobPlaces'
  <2>1. Working /\ Working'
    BY <1>5 DEF Working
  <2> QED  BY <1>1, <1>2, <1>5, <1>6, <2>1 DEF JobPlaces
<1>8. RowsMade'
  <2> SUFFICES ASSUME NEW n \in Generated'
               PROVE  /\ accounts'[n].run <= runs'
                      /\ accounts'[n].run = runs' =>
                           /\ accounts'[n].row \notin job'.skipped
                           /\ job'.step \in AtWork =>
                                \E b \in 1..job'.batch :
                                  /\ accounts'[n].row \in Batches[b]
                                  /\ b = job'.batch =>
                                       job'.inBatch # 0 /\ accounts'[n].row \notin job'.pending
    BY DEF RowsMade
  <2> DEFINE r == accounts[n].row
  <2>1. n \in Generated /\ accounts'[n].run = accounts[n].run /\ accounts'[n].row = r
        /\ accounts[n].run <= runs
    BY <1>1 DEF RowsMade
  <2>2. ASSUME accounts[n].run = runs
        PROVE  /\ r \notin job'.skipped
               /\ job'.step \in AtWork =>
                    \E b \in 1..job'.batch :
                      r \in Batches[b] /\ (b = job'.batch => job'.inBatch # 0 /\ r \notin job'.pending)
    <3>1. r \notin job.skipped
      BY <1>1, <2>1, <2>2 DEF RowsMade
    <3>2. PICK b \in 1..job.batch :
            /\ r \in Batches[b]
            /\ b = job.batch => job.inBatch # 0 /\ (r \in job.pending => r \in job.resolved)
      BY <1>1, <2>1, <2>2 DEF RowsMade, AtWork
    <3> HIDE DEF r
    <3>3. b \in DOMAIN Batches /\ b \in Nat /\ b <= job.batch
      BY <1>3, <1>4
    <3>4. GivesUp => r \notin Batches[job.batch]
      <4>1. GivesUp => job.inBatch = 0
        BY DEF GivesUp
      <4> QED  BY <1>3, <1>4, <3>2, <3>3, <4>1
    <3>5. CASE /\ job'.step = "asking" /\ job'.batch = job.batch /\ job'.pending = left
               /\ job'.skipped = job.skipped /\ job'.inBatch = job.inBatch
      BY <3>1, <3>2, <3>5
    <3>6. CASE job'.skipped = IF GivesUp THEN job.skipped \cup Batches[job.batch] ELSE job.skipped
      <4>1. r \notin job'.skipped
        BY <3>1, <3>4, <3>6
      <4>2. CASE job'.batch = job.batch + 1
        <5>1. b \in 1..job'.batch /\ b # job'.batch
          BY <1>4, <3>2, <3>3, <4>2
        <5> QED  BY <3>2, <4>1, <5>1
      <4>3. CASE job'.step = "reporting"
        BY <4>1, <4>3 DEF AtWork
      <4>4. CASE /\ job'.step = "asking" /\ job'.batch = job.batch /\ job'.pending = left
                 /\ job'.skipped = job.skipped /\ job'.inBatch = job.inBatch
        BY <3>5, <4>4
      <4> QED  BY <1>2, <4>2, <4>3, <4>4
    <3> QED  BY <1>2, <3>5, <3>6
  <2> QED  BY <2>1, <2>2
<1> QED  BY <1>2, <1>7, <1>8

LEMMA UnreadableStep ==
  ASSUME PeopleInv, Unreadable
  PROVE  PeopleInv'
<1>1. PeopleTypes /\ JobPlaces
  BY DEF PeopleInv
<1>2. /\ job.step = "asking" /\ job' = After(job.pending)
      /\ UNCHANGED <<admitting, accounts, claims, signed, editing, runs, aborts, freed, crossed, strokes>>
  BY DEF Unreadable
<1>3. job.listed = {} /\ job.resolved = {} /\ job.last = Nobody
  BY <1>1, <1>2 DEF JobPlaces
<1>4. job.pending \in SUBSET (job.pending \ job.resolved)
  BY <1>3
<1>5. Generated' = Generated
  BY <1>2 DEF Generated
<1>6. job' \in JobRecords /\ job'.last = Nobody /\ JobPlaces' /\ RowsMade'
  BY <1>2, <1>3, <1>4, <1>5, AttemptEnds
<1>7. UnseededFew'
  BY <1>2, <1>3, <1>6, UnseededStays
<1> QED  BY <1>1, <1>2, <1>6, <1>7, JobAlone DEF PeopleTypes

\* The commit that gives the persona made last its provenance and its agent.
LEMMA CommittedRows ==
  ASSUME PeopleTypes, AgentsHaveSeeds, SessionsNamePeople, ~ FlushFails
  PROVE  /\ Committed \in [Names -> AccountRows \cup {NoAccount}]
         /\ \A n \in Names :
              /\ Committed[n] # NoAccount <=> Taken(n)
              /\ Committed[n].from = accounts[n].from /\ Committed[n].human = accounts[n].human
              /\ Committed[n].run = accounts[n].run /\ Committed[n].row = accounts[n].row
              /\ n # job.last => Committed[n] = accounts[n]
         /\ job.last # Nobody => job.last \in Names /\ Committed[job.last].seeded
<1>1. CASE job.last = Nobody
  <2>1. Committed = accounts
    BY <1>1 DEF Committed
  <2> QED  BY <1>1, <2>1 DEF PeopleTypes, Taken
<1>2. CASE job.last # Nobody
  <2> DEFINE m == job.last
             new == [accounts[m] EXCEPT !.seeded = TRUE, !.capped = FALSE, !.agent = Enrols]
  <2>1. m \in Names /\ Taken(m) /\ accounts \in [Names -> AccountRows \cup {NoAccount}]
    BY <1>2, JobFields DEF FlushFails, PeopleTypes
  <2>2. accounts[m] \in AccountRows
    BY <2>1, SomeAccount
  <2>3. Committed = [accounts EXCEPT ![m] = new]
    BY <1>2, <2>1 DEF Committed
  <2> HIDE DEF m
  <2>4. new \in AccountRows
    BY <2>2, EnrolsOrNot DEF AccountRows
  <2>5. /\ new.from = accounts[m].from /\ new.human = accounts[m].human /\ new.run = accounts[m].run
        /\ new.row = accounts[m].row /\ new.seeded
    BY <2>2 DEF AccountRows
  <2>6. NoAccount \notin AccountRows
    BY DEF NoAccount, AccountRows
  <2> HIDE DEF new
  <2>7. Committed[m] = new /\ \A n \in Names : n # m => Committed[n] = accounts[n]
    BY <2>1, <2>3
  <2>8. Committed \in [Names -> AccountRows \cup {NoAccount}]
    BY <2>1, <2>3, <2>4
  <2>9. \A n \in Names : Committed[n] # NoAccount <=> Taken(n)
    BY <2>1, <2>4, <2>6, <2>7 DEF Taken
  <2> QED  BY <2>1, <2>5, <2>7, <2>8, <2>9 DEF m
<1> QED  BY <1>1, <1>2

LEMMA EndAttemptStep ==
  ASSUME PeopleInv, EndAttempt, ~ FlushFails
  PROVE  PeopleInv'
<1>1. PeopleTypes /\ JobPlaces /\ RowsMade /\ MadeOnce /\ UnseededFew /\ AgentsHaveSeeds /\ SessionsNamePeople
  BY DEF PeopleInv
<1>2. /\ job.step = "naming" /\ job.listed = {} /\ accounts' = Committed /\ job' = After(Unresolved)
      /\ UNCHANGED <<aborts, admitting, claims, signed, editing, runs, freed, crossed, strokes>>
  BY DEF EndAttempt
<1>3. /\ accounts' \in [Names -> AccountRows \cup {NoAccount}]
      /\ \A n \in Names :
           /\ accounts'[n] # NoAccount <=> Taken(n)
           /\ accounts'[n].from = accounts[n].from /\ accounts'[n].human = accounts[n].human
           /\ accounts'[n].run = accounts[n].run /\ accounts'[n].row = accounts[n].row
           /\ n # job.last => accounts'[n] = accounts[n]
      /\ job.last # Nobody => job.last \in Names /\ accounts'[job.last].seeded
  BY <1>1, <1>2, CommittedRows
<1>4. \A n \in Generated' : n \in Generated /\ accounts'[n].run = accounts[n].run
                              /\ accounts'[n].row = accounts[n].row
  BY <1>3 DEF Generated
<1>5. job' \in JobRecords /\ job'.last = Nobody /\ JobPlaces' /\ RowsMade'
  <2>1. Unresolved \in SUBSET (job.pending \ job.resolved)
    BY DEF Unresolved
  <2> QED  BY <1>2, <1>4, <2>1, AttemptEnds
<1>6. MadeOnce'
  BY <1>1, <1>4 DEF MadeOnce
<1>7. UnseededFew'
  <2>1. \A n : n \in Unseeded' => n \in Unseeded /\ n # job.last
    <3> SUFFICES ASSUME NEW n \in Unseeded' PROVE n \in Unseeded /\ n # job.last
      OBVIOUS
    <3>1. n \in Generated' /\ n \in Generated /\ n \in Names /\ ~ accounts'[n].seeded /\ n \notin crossed
      BY <1>2, <1>4 DEF Unseeded, Generated
    <3>2. n # job.last
      BY <1>3, <3>1, PeopleAssumed
    <3>3. ~ accounts[n].seeded
      BY <1>3, <3>1, <3>2
    <3> QED  BY <3>1, <3>2, <3>3 DEF Unseeded
  <2>2. aborts \in Nat /\ aborts' = aborts /\ aborts <= aborts'
    BY <1>1, <1>2 DEF PeopleTypes
  <2> QED  BY <1>1, <2>1, <2>2, FewerUnseeded
<1>8. PeopleTypes'
  <2>1. admitting' \in BOOLEAN
    <3>1. admitting' = admitting
      BY <1>2
    <3> QED  BY <1>1, <3>1, Zenon DEF PeopleTypes
  <2> QED  BY <1>1, <1>2, <1>3, <1>5, <2>1 DEF PeopleTypes
<1>9. AgentsHaveSeeds'
  <2> SUFFICES ASSUME NEW n \in Names \ crossed, accounts'[n] # NoAccount, accounts'[n].agent
               PROVE  accounts'[n].seeded
    BY <1>2 DEF AgentsHaveSeeds, Taken
  <2>1. CASE n = job.last
    BY <1>3, <2>1, PeopleAssumed
  <2>2. CASE n # job.last
    <3>1. accounts'[n] = accounts[n]
      BY <1>3, <2>2
    <3> QED  BY <1>1, <3>1 DEF AgentsHaveSeeds, Taken
  <2> QED  BY <2>1, <2>2
<1>10. SessionsNamePeople'
  <2> SUFFICES ASSUME NEW v \in Newcomers, signed[v] # Nobody, signed[v] \notin freed
               PROVE  accounts'[signed[v]] # NoAccount /\ accounts'[signed[v]].human
    BY <1>2 DEF SessionsNamePeople, Human, Taken
  <2>1. Taken(signed[v]) /\ accounts[signed[v]].human /\ signed[v] \in Names
    BY <1>1 DEF SessionsNamePeople, PeopleTypes, Human
  <2> QED  BY <1>3, <2>1
<1> QED  BY <1>5, <1>6, <1>7, <1>8, <1>9, <1>10 DEF PeopleInv

\* A run that breaks off leaves what it has committed, one of them perhaps without
\* its provenance.
LEMMA AbortStep ==
  ASSUME PeopleInv, Working, NEW s \in {"failed", "queued"}, Aborts(s),
         UNCHANGED <<admitting, claims, signed, editing, runs, freed, crossed, strokes>>
  PROVE  PeopleInv'
<1>1. PeopleTypes /\ JobPlaces /\ RowsMade /\ UnseededFew
  BY DEF PeopleInv
<1>2. job' = [NoJob EXCEPT !.step = s] /\ aborts' = aborts + 1 /\ accounts' = accounts
  BY DEF Aborts
<1>3. /\ job' \in JobRecords /\ job'.step = s /\ job'.last = Nobody /\ job'.attempt = 0
      /\ job'.listed = {} /\ job'.pending = {} /\ job'.resolved = {} /\ job'.skipped = {}
  <2>1. s \in JobSteps
    BY DEF JobSteps
  <2> QED  BY <1>2, <2>1 DEF NoJob, JobRecords
<1>4. aborts \in Nat /\ aborts' \in Nat /\ aborts + 1 <= runs
  BY <1>1, <1>2 DEF JobPlaces, PeopleTypes
<1>5. JobPlaces'
  <2>1. ~ Working'
    BY <1>3 DEF Working
  <2>2. aborts' + (IF Working' THEN 1 ELSE 0) <= runs'
    BY <1>2, <1>4, <2>1
  <2> QED  BY <1>3, <2>2, PeopleAssumed DEF JobPlaces, AtWork
<1>6. RowsMade'
  BY <1>1, <1>2, <1>3 DEF RowsMade, Generated, AtWork
<1>7. UnseededFew'
  <2>1. Unseeded' = Unseeded
    BY <1>2 DEF Unseeded, Generated
  <2>2. job'.last \notin Unseeded'
    BY <1>3, PeopleAssumed DEF Unseeded, Generated
  <2> QED  BY <1>1, <1>2, <1>4, <2>1, <2>2, UnseededByAbort
<1> QED  BY <1>1, <1>2, <1>3, <1>4, <1>5, <1>6, <1>7, JobAlone DEF PeopleTypes

LEMMA ReportStep ==
  ASSUME PeopleInv, Report, ~ (job.made = {} \/ \E n \in job.made : ~ Taken(n))
  PROVE  PeopleInv'
<1>1. PeopleTypes /\ JobPlaces /\ RowsMade
  BY DEF PeopleInv
<1>2. /\ job.step = "reporting" /\ job' = [job EXCEPT !.step = "done"]
      /\ UNCHANGED <<accounts, aborts, admitting, claims, signed, editing, runs, freed, crossed, strokes>>
  BY DEF Report
<1>3. job \in JobRecords /\ "done" \in JobSteps
  BY <1>1 DEF PeopleTypes, JobSteps
<1>4. /\ job' \in JobRecords /\ job'.step = "done" /\ job'.last = job.last /\ job'.listed = job.listed
      /\ job'.resolved = job.resolved /\ job'.pending = job.pending /\ job'.skipped = job.skipped
      /\ job'.attempt = job.attempt
  BY <1>2, <1>3 DEF JobRecords
<1>5. JobPlaces'
  <2>1. aborts + 1 <= runs
    BY <1>1, <1>2 DEF JobPlaces, Working
  <2>2. aborts' + (IF Working' THEN 1 ELSE 0) <= runs'
    <3>1. aborts' = aborts /\ runs' = runs /\ ~ Working' /\ aborts \in Nat /\ runs \in Int
      BY <1>1, <1>2, <1>4 DEF Working, PeopleTypes
    <3> QED  BY <2>1, <3>1
  <2> QED  BY <1>1, <1>2, <1>4, <2>2 DEF JobPlaces, AtWork
<1>6. RowsMade'
  BY <1>1, <1>2, <1>4 DEF RowsMade, Generated, AtWork
<1>7. UnseededFew'
  BY <1>2, <1>4, UnseededStays
<1> QED  BY <1>1, <1>2, <1>4, <1>5, <1>6, <1>7, JobAlone DEF PeopleTypes

\* The persona that is inserted: its row was listed, asked for and not made before.
LEMMA CreateStep ==
  ASSUME PeopleInv, CreatePersona, ~ Taken(job.name), ~ FlushFails
  PROVE  PeopleInv'
<1> DEFINE who == job.name
           fresh == [Account("generator") EXCEPT !.run = runs, !.row = job.row]
<1>1. PeopleTypes /\ JobPlaces /\ RowsMade /\ MadeOnce /\ UnseededFew /\ AgentsHaveSeeds /\ SessionsNamePeople
  BY DEF PeopleInv
<1>2. /\ job.step = "inserting" /\ accounts' = [Committed EXCEPT ![who] = fresh]
      /\ job' = [job EXCEPT !.step = "naming", !.last = who, !.name = Nobody, !.row = 0,
                            !.made = job.made \cup {who}, !.inBatch = job.inBatch + 1]
      /\ UNCHANGED <<aborts, admitting, claims, signed, editing, runs, freed, crossed, strokes>>
  BY DEF CreatePersona
<1>3. /\ who \in Names /\ job.row \in job.pending /\ job.row \in job.resolved /\ job.row \in Assigned
      /\ job.last \in Names \cup {Nobody} /\ job \in JobRecords /\ job.inBatch \in Nat
      /\ job.made \in SUBSET Names /\ runs \in Nat /\ aborts \in Nat
  <2>1. job.pending \in SUBSET Assigned /\ job.inBatch \in Nat /\ job.made \in SUBSET Names
        /\ job.last \in Names \cup {Nobody}
    BY <1>1, JobFields
  <2>2. job.row \in job.pending /\ job.row \in job.resolved /\ who \in Names
    BY <1>1, <1>2 DEF JobPlaces
  <2>3. job \in JobRecords /\ runs \in Nat /\ aborts \in Nat
    BY <1>1, PeopleAssumed DEF PeopleTypes
  <2> QED  BY <2>1, <2>2, <2>3
<1>4. /\ fresh \in AccountRows /\ fresh # NoAccount /\ fresh.from = "generator" /\ fresh.run = runs
      /\ fresh.row = job.row /\ ~ fresh.agent /\ ~ fresh.seeded
  <2>1. Account("generator") \in AccountRows
    BY NewAccounts
  <2>2. fresh \in AccountRows
    BY <1>3, <2>1 DEF AccountRows
  <2>3. fresh.from = "generator" /\ fresh.run = runs /\ fresh.row = job.row /\ ~ fresh.agent /\ ~ fresh.seeded
    BY DEF Account
  <2>4. fresh # NoAccount
    BY <2>2 DEF AccountRows, NoAccount
  <2> QED  BY <2>2, <2>3, <2>4
<1>5. /\ Committed \in [Names -> AccountRows \cup {NoAccount}]
      /\ \A n \in Names :
           /\ Committed[n] # NoAccount <=> Taken(n)
           /\ Committed[n].from = accounts[n].from /\ Committed[n].human = accounts[n].human
           /\ Committed[n].run = accounts[n].run /\ Committed[n].row = accounts[n].row
           /\ n # job.last => Committed[n] = accounts[n]
      /\ job.last # Nobody => job.last \in Names /\ Committed[job.last].seeded
  BY <1>1, CommittedRows
<1> HIDE DEF fresh
<1>6. /\ accounts' \in [Names -> AccountRows \cup {NoAccount}] /\ accounts'[who] = fresh
      /\ \A n \in Names : n # who => accounts'[n] = Committed[n]
  <2> HIDE DEF who
  <2> QED  BY <1>2, <1>3, <1>4, <1>5
<1>7. /\ job' \in JobRecords /\ job'.step = "naming" /\ job'.last = who /\ job'.batch = job.batch
      /\ job'.listed = job.listed /\ job'.pending = job.pending /\ job'.resolved = job.resolved
      /\ job'.attempt = job.attempt /\ job'.skipped = job.skipped /\ job'.inBatch = job.inBatch + 1
  <2>1. "naming" \in JobSteps /\ who \in Names \cup {Nobody} /\ Nobody \in Names \cup {Nobody}
        /\ job.made \cup {who} \in SUBSET Names /\ job.inBatch + 1 \in Nat
    BY <1>3 DEF JobSteps
  <2> HIDE DEF who
  <2> QED  BY <1>2, <1>3, <2>1 DEF JobRecords
<1>8. who \notin Generated /\ who # job.last
  <2>1. who \notin Generated
    BY <1>1, <1>3, SomeAccount
  <2>2. job.last # Nobody => Taken(job.last)
    BY DEF FlushFails
  <2> QED  BY <1>3, <2>1, <2>2, PeopleAssumed
<1>9. /\ who \in Generated' /\ accounts'[who].run = runs /\ accounts'[who].row = job.row
      /\ \A n \in Generated' : n # who => /\ n \in Generated /\ n \in Names
                                          /\ accounts'[n].run = accounts[n].run
                                          /\ accounts'[n].row = accounts[n].row
  <2>1. who \in Generated' /\ accounts'[who].run = runs /\ accounts'[who].row = job.row
    BY <1>3, <1>4, <1>6 DEF Generated
  <2>2. ASSUME NEW n \in Generated', n # who
        PROVE  n \in Generated /\ n \in Names /\ accounts'[n].run = accounts[n].run
               /\ accounts'[n].row = accounts[n].row
    <3>1. n \in Names /\ accounts'[n].from = "generator"
      BY DEF Generated
    <3>2. accounts'[n] = Committed[n]
      BY <1>6, <2>2, <3>1
    <3> QED  BY <1>5, <3>1, <3>2 DEF Generated
  <2> QED  BY <2>1, <2>2
<1>10. /\ job.batch \in DOMAIN Batches /\ job.batch \in Nat /\ job.batch >= 1
       /\ job.row \in Batches[job.batch] /\ 1..job.batch \subseteq DOMAIN Batches
       /\ \A r \in job.skipped : \E b \in 1..job.batch - 1 : r \in Batches[b]
  <2>1. job.batch \in DOMAIN Batches /\ job.row \in Batches[job.batch]
        /\ \A r \in job.skipped : \E b \in 1..job.batch - 1 : r \in Batches[b]
    BY <1>1, <1>2, <1>3 DEF JobPlaces, AtWork
  <2>2. Len(Batches) \in Nat /\ DOMAIN Batches = 1..Len(Batches)
    BY PeopleAssumed
  <2>3. job.batch \in Nat /\ job.batch >= 1 /\ 1..job.batch \subseteq DOMAIN Batches
    BY ONLY <2>1, <2>2
  <2> QED  BY <2>1, <2>3
<1>11. \A b \in 1..job.batch : b # job.batch => job.row \notin Batches[b]
  <2> SUFFICES ASSUME NEW b \in 1..job.batch, b # job.batch, job.row \in Batches[b]
               PROVE  FALSE
    OBVIOUS
  <2>1. b \in DOMAIN Batches
    BY <1>10
  <2> QED  BY <1>10, <2>1, PeopleAssumed
<1>12. job.row \notin job.skipped
  <2> SUFFICES ASSUME job.row \in job.skipped PROVE FALSE
    OBVIOUS
  <2>1. PICK b \in 1..job.batch - 1 : job.row \in Batches[b]
    BY <1>10
  <2>2. b \in 1..job.batch /\ b # job.batch
    BY ONLY <1>10, <2>1
  <2> QED  BY <1>11, <2>1, <2>2
<1>13. JobPlaces'
  <2>1. (aborts + (IF Working THEN 1 ELSE 0) <= runs) /\ Working /\ Working'
    BY <1>1, <1>2, <1>7 DEF JobPlaces, Working
  <2>2. aborts' + (IF Working' THEN 1 ELSE 0) <= runs'
    BY <1>2, <2>1
  <2>3. "inserting" \in AtWork /\ "naming" \in AtWork
    BY DEF AtWork
  <2>4. /\ job.attempt <= BatchTries /\ job.listed \subseteq job.pending \ job.resolved
        /\ job.batch \in DOMAIN Batches /\ job.pending \subseteq Batches[job.batch]
        /\ \A r \in job.skipped : \E b \in 1..job.batch - 1 : r \in Batches[b]
    BY <1>1, <1>2, <2>3 DEF JobPlaces
  <2> HIDE DEF who
  <2> QED  BY <1>7, <2>2, <2>4 DEF JobPlaces
<1>14. RowsMade'
  <2> SUFFICES ASSUME NEW n \in Generated'
               PROVE  /\ accounts'[n].run <= runs
                      /\ accounts'[n].run = runs =>
                           /\ accounts'[n].row \notin job.skipped
                           /\ \E b \in 1..job.batch :
                                /\ accounts'[n].row \in Batches[b]
                                /\ b = job.batch =>
                                     /\ job'.inBatch # 0
                                     /\ accounts'[n].row \in job.pending =>
                                          accounts'[n].row \in job.resolved
    BY <1>2, <1>7 DEF RowsMade
  <2>1. job'.inBatch # 0
    BY <1>3, <1>7
  <2>2. CASE n = who
    <3>1. accounts'[n].run = runs /\ accounts'[n].row = job.row
      BY <1>9, <2>2
    <3>2. job.batch \in 1..job.batch
      BY ONLY <1>10
    <3> QED  BY <1>3, <1>10, <1>12, <2>1, <3>1, <3>2
  <2>3. CASE n # who
    <3>1. n \in Generated /\ accounts'[n].run = accounts[n].run /\ accounts'[n].row = accounts[n].row
      BY <1>9, <2>3
    <3>2. "inserting" \in AtWork
      BY DEF AtWork
    <3> QED  BY <1>1, <1>2, <2>1, <3>1, <3>2 DEF RowsMade
  <2> QED  BY <2>2, <2>3
<1>15. \A n \in Generated : accounts[n].run = runs => accounts[n].row # job.row
  <2> SUFFICES ASSUME NEW n \in Generated, accounts[n].run = runs, accounts[n].row = job.row
               PROVE  FALSE
    OBVIOUS
  <2>1. "inserting" \in AtWork
    BY DEF AtWork
  <2>2. PICK b \in 1..job.batch :
          /\ job.row \in Batches[b]
          /\ b = job.batch => (job.row \in job.pending => accounts[n].row # job.row)
    BY <1>1, <1>2, <2>1 DEF RowsMade
  <2>3. b = job.batch
    BY <1>11, <2>2
  <2> QED  BY <1>3, <2>2, <2>3
<1>16. MadeOnce'
  <2> SUFFICES ASSUME NEW m \in Generated', NEW n \in Generated', m # n,
                      accounts'[m].run = accounts'[n].run, accounts'[m].row = accounts'[n].row
               PROVE  FALSE
    BY DEF MadeOnce
  <2>1. CASE m = who
    BY <1>9, <1>15, <2>1
  <2>2. CASE n = who
    BY <1>9, <1>15, <2>2
  <2>3. CASE m # who /\ n # who
    BY <1>1, <1>9, <2>3 DEF MadeOnce
  <2> QED  BY <2>1, <2>2, <2>3
<1>17. UnseededFew'
  <2>1. \A n : n \in Unseeded' \ {who} => n \in Unseeded \ {job.last}
    <3> SUFFICES ASSUME NEW n \in Unseeded', n # who PROVE n \in Unseeded /\ n # job.last
      OBVIOUS
    <3>1. n \in Generated' /\ n \in Generated /\ n \in Names /\ ~ accounts'[n].seeded /\ n \notin crossed
      <4>1. n \in Generated' /\ ~ accounts'[n].seeded /\ n \notin crossed'
        BY DEF Unseeded
      <4> QED  BY <1>2, <1>9, <4>1
    <3>2. accounts'[n] = Committed[n]
      BY <1>6, <3>1
    <3>3. n # job.last
      BY <1>5, <3>1, <3>2, PeopleAssumed
    <3>4. ~ accounts[n].seeded
      BY <1>5, <3>1, <3>2, <3>3
    <3> QED  BY <3>1, <3>3, <3>4 DEF Unseeded
  <2> DEFINE S == Unseeded \ {job.last}
             T == Unseeded' \ {who}
  <2>2. S \in SUBSET Unseeded /\ T \in SUBSET S /\ IsFiniteSet(Unseeded)
    BY <1>1, <2>1 DEF UnseededFew
  <2>3. Cardinality(S) <= aborts
    BY <1>1 DEF UnseededFew
  <2>4. Unseeded' \in SUBSET (T \cup {who})
    OBVIOUS
  <2> HIDE DEF S, T, who
  <2>5. IsFiniteSet(S)
    BY <2>2, FS_Subset
  <2>6. IsFiniteSet(T) /\ Cardinality(T) <= Cardinality(S)
    BY <2>2, <2>5, FS_Subset
  <2>7. IsFiniteSet(T \cup {who})
    BY <2>6, FS_AddElement
  <2>8. IsFiniteSet(Unseeded')
    BY <2>4, <2>7, FS_Subset
  <2>9. Cardinality(S) \in Nat /\ Cardinality(T) \in Nat
    BY <2>5, <2>6, FS_CardinalityType
  <2>10. Cardinality(T) <= aborts'
    BY <1>2, <1>3, <2>3, <2>6, <2>9
  <2>11. job'.last = who
    BY <1>7
  <2> QED  BY <2>8, <2>10, <2>11 DEF UnseededFew, T
<1>18. PeopleTypes'
  <2>1. admitting' \in BOOLEAN
    <3>1. admitting' = admitting
      BY <1>2
    <3> QED  BY <1>1, <3>1, Zenon DEF PeopleTypes
  <2> HIDE DEF who
  <2> QED  BY <1>1, <1>2, <1>6, <1>7, <2>1 DEF PeopleTypes
<1>19. AgentsHaveSeeds'
  <2> SUFFICES ASSUME NEW n \in Names \ crossed, accounts'[n] # NoAccount, accounts'[n].agent
               PROVE  accounts'[n].seeded
    BY <1>2 DEF AgentsHaveSeeds, Taken
  <2>1. n # who /\ accounts'[n] = Committed[n]
    BY <1>4, <1>6
  <2>2. CASE n = job.last
    BY <1>5, <2>1, <2>2, PeopleAssumed
  <2>3. CASE n # job.last
    <3>1. accounts'[n] = accounts[n]
      BY <1>5, <2>1, <2>3
    <3> QED  BY <1>1, <3>1 DEF AgentsHaveSeeds, Taken
  <2> QED  BY <2>2, <2>3
<1>20. SessionsNamePeople'
  <2> SUFFICES ASSUME NEW v \in Newcomers, signed[v] # Nobody, signed[v] \notin freed
               PROVE  accounts'[signed[v]] # NoAccount /\ accounts'[signed[v]].human
    BY <1>2 DEF SessionsNamePeople, Human, Taken
  <2>1. Taken(signed[v]) /\ accounts[signed[v]].human /\ signed[v] \in Names
    BY <1>1 DEF SessionsNamePeople, PeopleTypes, Human
  <2>2. signed[v] # who
    BY <2>1
  <2> QED  BY <1>5, <1>6, <2>1, <2>2
<1> QED  BY <1>13, <1>14, <1>16, <1>17, <1>18, <1>19, <1>20 DEF PeopleInv

\* The worker's steps that may break the run off.
LEMMA BreakableSteps ==
  ASSUME PeopleInv, CreatePersona \/ EndAttempt \/ Report \/ WorkerDies
  PROVE  PeopleInv'
<1>1. CASE CreatePersona
  <2>1. CASE Taken(job.name) \/ FlushFails
    <3>1. Working /\ Aborts("failed")
          /\ UNCHANGED <<admitting, claims, signed, editing, runs, freed, crossed, strokes>>
      BY <1>1, <2>1 DEF CreatePersona, Working
    <3> QED  BY <3>1, AbortStep
  <2>2. CASE ~ Taken(job.name) /\ ~ FlushFails
    BY <1>1, <2>2, CreateStep
  <2> QED  BY <2>1, <2>2
<1>2. CASE EndAttempt
  <2>1. CASE FlushFails
    <3>1. Working /\ Aborts("failed")
          /\ UNCHANGED <<admitting, claims, signed, editing, runs, freed, crossed, strokes>>
      BY <1>2, <2>1 DEF EndAttempt, Working
    <3> QED  BY <3>1, AbortStep
  <2>2. CASE ~ FlushFails
    BY <1>2, <2>2, EndAttemptStep
  <2> QED  BY <2>1, <2>2
<1>3. CASE Report
  <2>1. CASE job.made = {} \/ \E n \in job.made : ~ Taken(n)
    <3>1. Working /\ Aborts("failed")
          /\ UNCHANGED <<admitting, claims, signed, editing, runs, freed, crossed, strokes>>
      BY <1>3, <2>1 DEF Report, Working
    <3> QED  BY <3>1, AbortStep
  <2>2. CASE ~ (job.made = {} \/ \E n \in job.made : ~ Taken(n))
    BY <1>3, <2>2, ReportStep
  <2> QED  BY <2>1, <2>2
<1>4. CASE WorkerDies
  BY <1>4, AbortStep DEF WorkerDies
<1> QED  BY <1>1, <1>2, <1>3, <1>4

LEMMA PeopleStep ==
  ASSUME PeopleInv, [AccountsNext]_accountVars
  PROVE  PeopleInv'
<1>1. CASE \/ \E v \in Newcomers : \/ \E n \in Names : FindFree(v, n) \/ Login(v, n)
                                   \/ Logout(v) \/ CurrentHuman(v)
           \/ \E n \in Names : LookUpDefault(n) \/ OpenUser(n)
           \/ SwitchAccounts \/ UNCHANGED accountVars
  BY <1>1, QuietPeopleSteps
<1>2. CASE LoadDefault \/ \E v \in Newcomers : Register(v)
  BY <1>2, InsertingSteps
<1>3. CASE \E n \in Names : DeleteUser(n)
  BY <1>3, DeleteUserStep
<1>4. CASE UpdateUser(TRUE, FALSE) \/ UpdateUser(FALSE, TRUE)
  BY <1>4, UpdateUserStep
<1>5. CASE QueueGeneration \/ Generate \/ Unreadable
  BY <1>5, QueueGenerationStep, GenerationStarts, UnreadableStep
<1>6. CASE \E ids \in SUBSET job.pending : Answer(ids)
  BY <1>6, AnswerStep
<1>7. CASE \E row \in job.listed, n \in Names : Sanitize(row, n)
  BY <1>7, SanitizeStep
<1>8. CASE CreatePersona \/ EndAttempt \/ Report \/ WorkerDies
  BY <1>8, BreakableSteps
<1> QED  BY <1>1, <1>2, <1>3, <1>4, <1>5, <1>6, <1>7, <1>8 DEF AccountsNext

LEMMA PeopleKept == AccountsSpec => []PeopleInv
<1>1. AccountsInit => PeopleInv
  BY PeopleStart
<1>2. PeopleInv /\ [AccountsNext]_accountVars => PeopleInv'
  BY PeopleStep
<1> QED  BY <1>1, <1>2, PTL DEF AccountsSpec

LEMMA PeopleTyped == PeopleInv => AccountsTypeOK
<1> SUFFICES ASSUME PeopleInv PROVE AccountsTypeOK
  OBVIOUS
<1>1. PeopleTypes /\ JobPlaces
  BY DEF PeopleInv
<1>2. ASSUME NEW n \in Names, Taken(n)
      PROVE  DOMAIN accounts[n] = DOMAIN Account("visitor")
             /\ accounts[n].from \in {"visitor", "loader", "generator"}
  <2>1. accounts[n] \in AccountRows
    BY <1>1, <1>2, SomeAccount
  <2> QED  BY <2>1 DEF AccountRows, Account
<1>3. admitting \in BOOLEAN
  BY <1>1, Zenon DEF PeopleTypes
<1>4. editing.name \in Names \cup {Nobody}
  BY <1>1 DEF PeopleTypes, NoEditing
<1>5. job.step \in {"none", "queued", "asking", "naming", "inserting", "reporting", "done", "failed"}
  BY <1>1, JobFields DEF JobSteps
<1>6. job.attempt <= BatchTries /\ job.listed \subseteq job.pending
  BY <1>1 DEF JobPlaces
<1>7. runs \in 0..MaxTurns /\ aborts \in 0..runs
  BY <1>1, PeopleAssumed DEF PeopleTypes, JobPlaces
<1>8. claims \in [Claimants -> Names \cup {Nobody}] /\ signed \in [Newcomers -> Names \cup {Nobody}]
  BY <1>1 DEF PeopleTypes
<1> QED  BY <1>2, <1>3, <1>4, <1>5, <1>6, <1>7, <1>8 DEF AccountsTypeOK

LEMMA PeopleAreSound == PeopleInv => AccountsSound
<1> SUFFICES ASSUME PeopleInv PROVE AccountsSound
  OBVIOUS
<1>1. PeopleTypes /\ RowsMade /\ MadeOnce /\ UnseededFew /\ AgentsHaveSeeds /\ SessionsNamePeople
  BY DEF PeopleInv
<1>2. AssignedOnce
  BY <1>1 DEF AssignedOnce, MadeOnce, RowsMade
<1>3. ProvenanceKept
  <2> DEFINE S == Unseeded \ {job.last}
  <2>1. S \in SUBSET Unseeded /\ IsFiniteSet(Unseeded) /\ Cardinality(S) <= aborts
    BY <1>1 DEF UnseededFew
  <2>2. aborts \in Nat
    BY <1>1 DEF PeopleTypes
  <2>3. CASE job.last = Nobody
    <3>1. S = Unseeded
      BY <2>3, PeopleAssumed DEF Unseeded, Generated
    <3>2. Cardinality(Unseeded) \in Nat
      BY <2>1, FS_CardinalityType
    <3>3. Cardinality(Unseeded) <= aborts + 0
      BY <2>1, <2>2, <3>1, <3>2
    <3> QED  BY <2>3, <3>3 DEF ProvenanceKept, Unseeded
  <2>4. CASE job.last # Nobody
    <3> HIDE DEF S
    <3>1. IsFiniteSet(S) /\ Cardinality(S) \in Nat
      BY <2>1, FS_Subset, FS_CardinalityType
    <3>2. IsFiniteSet(S \cup {job.last}) /\ Cardinality(S \cup {job.last}) <= Cardinality(S) + 1
      <4>1. IsFiniteSet(S \cup {job.last})
            /\ Cardinality(S \cup {job.last}) = IF job.last \in S THEN Cardinality(S) ELSE Cardinality(S) + 1
        BY <3>1, FS_AddElement
      <4> QED  BY <3>1, <4>1
    <3>3. Unseeded \in SUBSET (S \cup {job.last})
      BY DEF S
    <3>4. Cardinality(Unseeded) <= Cardinality(S \cup {job.last})
      BY <3>2, <3>3, FS_Subset
    <3>5. Cardinality(Unseeded) \in Nat /\ Cardinality(S \cup {job.last}) \in Nat
      BY <2>1, <3>2, FS_CardinalityType
    <3>6. Cardinality(Unseeded) <= aborts + 1
      BY <2>1, <2>2, <3>1, <3>2, <3>4, <3>5
    <3> QED  BY <2>4, <3>6 DEF ProvenanceKept, Unseeded
  <2> QED  BY <2>3, <2>4
<1> QED  BY <1>1, <1>2, <1>3 DEF AccountsSound

\* Every generated persona keeps its provenance, except one per run that broke off and
\* the one whose transaction is open, whatever sign-ups and deletes come between; an edit
\* that overlaps it is the only one to take it back.  No run makes two personas of one
\* row, an agent comes only with its provenance, and a session names a person
\* (human_auth.py, persona_generator.py, admin.py).
THEOREM AccountsStaySound == AccountsSpec => [](AccountsTypeOK /\ AccountsSound)
<1>1. PeopleInv => AccountsTypeOK /\ AccountsSound
  BY PeopleTyped, PeopleAreSound
<1> QED  BY <1>1, PeopleKept, PTL

-----------------------------------------------------------------------------
(* The matrix: allocations *)

\* The least and the greatest of two and of three numbers.
LEMMA OfTwoNumbers ==
  ASSUME NEW i \in Int, NEW j \in Int
  PROVE  /\ Max({i, j}) \in Int /\ Max({i, j}) >= i /\ Max({i, j}) >= j
         /\ Min({i, j}) \in {i, j} /\ Min({i, j}) <= i /\ Min({i, j}) <= j
<1>1. \E x \in {i, j} : \A y \in {i, j} : x >= y
  OBVIOUS
<1>2. \E x \in {i, j} : \A y \in {i, j} : x =< y
  OBVIOUS
<1>3. Max({i, j}) \in {i, j} /\ \A y \in {i, j} : Max({i, j}) >= y
  BY <1>1 DEF Max
<1>4. Min({i, j}) \in {i, j} /\ \A y \in {i, j} : Min({i, j}) =< y
  BY <1>2 DEF Min
<1> QED
  BY <1>3, <1>4

LEMMA OfThreeNumbers ==
  ASSUME NEW i \in Int, NEW j \in Int, NEW k \in Int
  PROVE  /\ Max({i, j, k}) \in Int /\ Max({i, j, k}) >= i /\ Max({i, j, k}) >= j
         /\ Max({i, j, k}) >= k
         /\ Min({i, j, k}) \in Int /\ Min({i, j, k}) <= i /\ Min({i, j, k}) <= j
         /\ Min({i, j, k}) <= k
<1>1. \E x \in {i, j, k} : \A y \in {i, j, k} : x >= y
  OBVIOUS
<1>2. \E x \in {i, j, k} : \A y \in {i, j, k} : x =< y
  OBVIOUS
<1>3. Max({i, j, k}) \in {i, j, k} /\ \A y \in {i, j, k} : Max({i, j, k}) >= y
  BY <1>1 DEF Max
<1>4. Min({i, j, k}) \in {i, j, k} /\ \A y \in {i, j, k} : Min({i, j, k}) =< y
  BY <1>2 DEF Min
<1> QED
  BY <1>3, <1>4

\* A set of positions that is not empty has a first one.
LEMMA FirstOf ==
  ASSUME NEW S \in SUBSET Nat, S # {}
  PROVE  Min(S) \in S /\ \A i \in S : Min(S) <= i
<1>1. \E n \in S : \A m \in S : n =< m
  BY LeastOfNat
<1> QED
  BY <1>1 DEF Min

\* An allocation among finitely many has finitely many seats.
LEMMA PlacesFinite ==
  ASSUME NEW S, IsFiniteSet(S), NEW f \in [S -> Nat]
  PROVE  IsFiniteSet(Places(f)) /\ Dealt(f) \in Nat
<1> DEFINE G == [i \in S |-> {i} \X (1..f[i])]
           R == {{i} \X (1..f[i]) : i \in S}
<1>1. DOMAIN f = S
  OBVIOUS
<1>2. G \in Surjection(S, R)
  BY DEF Surjection
<1>3. IsFiniteSet(R)
  BY <1>2, FS_Surjection
<1>4. ASSUME NEW T \in R
      PROVE  IsFiniteSet(T)
  <2>1. PICK i \in S : T = {i} \X (1..f[i])
    OBVIOUS
  <2>2. IsFiniteSet({i})
    BY FS_Singleton
  <2>3. IsFiniteSet(1..f[i])
    BY FS_Interval
  <2> QED
    BY <2>1, <2>2, <2>3, FS_Product
<1>5. IsFiniteSet(UNION R)
  BY <1>3, <1>4, FS_UNION
<1> QED
  BY <1>1, <1>5, FS_CardinalityType DEF Places, Dealt

\* What a place is.
LEMMA PlaceIs ==
  ASSUME NEW S, NEW f \in [S -> Nat], NEW p
  PROVE  p \in Places(f) <=> \E i \in S : \E j \in 1..f[i] : p = <<i, j>>
  BY DEF Places

\* Once a seat more to each of some.
LEMMA SeatMore ==
  ASSUME NEW S, IsFiniteSet(S), NEW f \in [S -> Nat], NEW T \in SUBSET S,
         NEW q, q = [i \in S |-> f[i] + (IF i \in T THEN 1 ELSE 0)]
  PROVE  q \in [S -> Nat] /\ Dealt(q) = Dealt(f) + Cardinality(T)
<1> DEFINE N == {<<i, f[i] + 1>> : i \in T}
           g == [i \in T |-> <<i, f[i] + 1>>]
<1>1. q \in [S -> Nat]
  OBVIOUS
<1>2. Places(q) \subseteq Places(f) \cup N
  <2>1. SUFFICES ASSUME NEW p \in Places(q)
                 PROVE  p \in Places(f) \cup N
    OBVIOUS
  <2>2. PICK i \in S : \E j \in 1..q[i] : p = <<i, j>>
    BY <1>1, PlaceIs
  <2>3. PICK j \in 1..q[i] : p = <<i, j>>
    BY <2>2
  <2>4. CASE j \in 1..f[i]
    BY <2>3, <2>4, PlaceIs
  <2>5. CASE j \notin 1..f[i]
    <3>1. i \in T /\ j = f[i] + 1
      BY <2>5, <2>3
    <3> QED
      BY <3>1, <2>3
  <2> QED
    BY <2>4, <2>5
<1>3. Places(f) \cup N \subseteq Places(q)
  <2>1. ASSUME NEW p \in Places(f)
        PROVE  p \in Places(q)
    <3>1. PICK i \in S : \E j \in 1..f[i] : p = <<i, j>>
      BY PlaceIs
    <3>2. PICK j \in 1..f[i] : p = <<i, j>>
      BY <3>1
    <3>3. j \in 1..q[i]
      OBVIOUS
    <3> QED
      BY <3>2, <3>3, <1>1, PlaceIs
  <2>2. ASSUME NEW p \in N
        PROVE  p \in Places(q)
    <3>1. PICK i \in T : p = <<i, f[i] + 1>>
      OBVIOUS
    <3>2. i \in S /\ f[i] + 1 \in 1..q[i]
      OBVIOUS
    <3> QED
      BY <3>1, <3>2, <1>1, PlaceIs
  <2> QED
    BY <2>1, <2>2
<1>4. Places(f) \cap N = {}
  <2>1. SUFFICES ASSUME NEW p \in Places(f), p \in N
                 PROVE  FALSE
    OBVIOUS
  <2>2. PICK i \in S : \E j \in 1..f[i] : p = <<i, j>>
    BY PlaceIs
  <2>3. PICK k \in T : p = <<k, f[k] + 1>>
    BY <2>1
  <2> QED
    BY <2>2, <2>3
<1>5. IsFiniteSet(T)
  BY FS_Subset
<1>6. g \in Surjection(T, N) /\ g \in Injection(T, N)
  <2>1. g \in [T -> N] /\ \A p \in N : \E i \in T : g[i] = p
    OBVIOUS
  <2>2. ASSUME NEW i \in T, NEW j \in T, g[i] = g[j]
        PROVE  i = j
    <3>1. <<i, f[i] + 1>> = <<j, f[j] + 1>>
      BY <2>2
    <3> QED
      BY <3>1
  <2> HIDE DEF g, N
  <2> QED
    BY <2>1, <2>2 DEF Surjection, Injection, IsInjective
<1>7. IsFiniteSet(N) /\ Cardinality(N) = Cardinality(T)
  BY <1>5, <1>6, FS_Surjection
<1>8. IsFiniteSet(Places(f)) /\ Dealt(f) \in Nat
  BY PlacesFinite
<1>9. Places(q) = Places(f) \cup N
  BY <1>2, <1>3
<1> HIDE DEF N
<1>10. Cardinality(Places(q)) = Cardinality(Places(f)) + Cardinality(N) - Cardinality({})
  BY <1>4, <1>7, <1>8, <1>9, FS_Union
<1> QED
  BY <1>1, <1>7, <1>8, <1>10, FS_EmptySet, FS_CardinalityType, <1>5 DEF Dealt

\* _quota deals all seats, and to nobody more than it may have.
LEMMA QuotaIs ==
  ASSUME NEW S, IsFiniteSet(S), NEW weight \in [S -> Nat], NEW n \in Nat,
         NEW most \in [S -> Nat], NEW q \in Quotas(weight, n, most)
  PROVE  q \in [S -> Nat] /\ Dealt(q) = n /\ \A i \in S : q[i] <= most[i]
<1> DEFINE total == Dealt(weight)
           share(i) == IF total = 0 THEN 0 ELSE (weight[i] * n) \div total
           fraction(i) == IF total = 0 THEN 0 ELSE (weight[i] * n) % total
           after(r) == [i \in DOMAIN weight |-> Min({share(i) + r, most[i]})]
           open(r) == {i \in DOMAIN weight : after(r)[i] < most[i]}
           favoured(T, r) == \A i \in T, j \in open(r) \ T : fraction(i) >= fraction(j)
           rest(r) == {T \in SUBSET open(r) :
                         Dealt(after(r)) + Cardinality(T) = n /\ favoured(T, r)}
           plus(T, r) == [i \in DOMAIN weight |-> after(r)[i] + (IF i \in T THEN 1 ELSE 0)]
<1>1. DOMAIN weight = S
  OBVIOUS
<1>2. \E r \in 0..n : \E T \in rest(r) : q = plus(T, r)
  <2>1. q \in UNION {{plus(T, r) : T \in rest(r)} : r \in 0..n}
    BY DEF Quotas
  <2> HIDE DEF plus, rest
  <2> QED
    BY <2>1
<1> HIDE DEF rest, plus
<1>3. PICK r \in 0..n : \E T \in rest(r) : q = plus(T, r)
  BY <1>2
<1>3a. PICK T \in rest(r) : q = plus(T, r)
  BY <1>3
<1>4. total \in Nat
  BY PlacesFinite
<1>5. \A i \in S : share(i) \in Nat
  <2>1. SUFFICES ASSUME NEW i \in S
                 PROVE  share(i) \in Nat
    OBVIOUS
  <2> DEFINE x == weight[i] * n
  <2>2. x \in Nat
    OBVIOUS
  <2> HIDE DEF x, total
  <2>3. total # 0 => x \div total \in Nat
    BY <2>2, <1>4
  <2> QED
    BY <2>3 DEF x
<1> DEFINE f == after(r)
<1> HIDE DEF share, total
<1>6. \A i \in S : f[i] \in Nat /\ f[i] <= most[i]
  <2>1. SUFFICES ASSUME NEW i \in S
                 PROVE  f[i] \in Nat /\ f[i] <= most[i]
    OBVIOUS
  <2>2. share(i) + r \in Nat /\ most[i] \in Nat
    BY <1>5
  <2> DEFINE x == share(i) + r
             y == most[i]
  <2>3. f[i] = Min({x, y})
    BY <1>1
  <2>4. x \in Nat /\ y \in Nat /\ y = most[i]
    BY <2>2
  <2> HIDE DEF x, y, f
  <2>5. x \in Int /\ y \in Int
    BY <2>4
  <2>6. Min({x, y}) \in {x, y} /\ Min({x, y}) <= y
    BY ONLY <2>5, OfTwoNumbers
  <2>7. f[i] \in {x, y} /\ f[i] <= y
    BY <2>3, <2>6
  <2> QED
    BY <2>4, <2>7
<1>7. f \in [S -> Nat] /\ T \in SUBSET S
  BY <1>6, <1>1, <1>3a DEF rest
<1>8. \A i \in T : f[i] < most[i]
  BY <1>3a DEF rest
<1>9. Dealt(f) + Cardinality(T) = n
  BY <1>3a DEF rest
<1>10. q = [i \in S |-> f[i] + (IF i \in T THEN 1 ELSE 0)]
  BY <1>1, <1>3a DEF plus
<1> HIDE DEF f
<1>11. q \in [S -> Nat] /\ Dealt(q) = Dealt(f) + Cardinality(T)
  BY <1>7, <1>10, SeatMore
<1>12. \A i \in S : q[i] <= most[i]
  BY <1>6, <1>7, <1>8, <1>10
<1> QED
  BY <1>9, <1>11, <1>12

-----------------------------------------------------------------------------
(* The matrix: rows and their sectors *)

Pairs == (DOMAIN Bands) \X Range(Sectors)

\* A row is a band and a sector.
LEMMA PairIs ==
  /\ \A p \in Pairs : p[1] \in DOMAIN Bands /\ p[2] \in Range(Sectors)
  /\ \A b \in DOMAIN Bands, s \in Range(Sectors) : <<b, s>> \in Pairs
<1> DEFINE A == DOMAIN Bands
           B == Range(Sectors)
<1> HIDE DEF A, B
<1>1. \A p \in A \X B : p[1] \in A /\ p[2] \in B
  OBVIOUS
<1>2. \A b \in A, s \in B : <<b, s>> \in A \X B
  OBVIOUS
<1>3. Pairs = A \X B /\ DOMAIN Bands = A /\ Range(Sectors) = B
  BY DEF A, B, Pairs
<1> QED
  BY <1>1, <1>2, <1>3

\* What the catalogs are made of.
LEMMA CatalogFacts ==
  /\ Len(Sectors) \in Nat \ {0} /\ DOMAIN Sectors = 1..Len(Sectors)
  /\ Len(Bands) \in Nat \ {0} /\ DOMAIN Bands = 1..Len(Bands) /\ IsFiniteSet(DOMAIN Bands)
  /\ IsFiniteSet(DOMAIN Sectors)
  /\ Range(Sectors) = {Sectors[k] : k \in DOMAIN Sectors}
  /\ \A b, s : CompatCount(b, s) \in Nat
<1>1. Sectors \in Seq(Range(Sectors)) /\ Sectors # << >> /\ Bands \in Seq([low : Int, high : Int])
        /\ Bands # << >> /\ IsFiniteSet(Cards)
  BY MatrixAssumption
<1>2. Len(Sectors) \in Nat \ {0} /\ DOMAIN Sectors = 1..Len(Sectors)
  BY <1>1
<1>3. Len(Bands) \in Nat \ {0} /\ DOMAIN Bands = 1..Len(Bands)
  BY <1>1
<1>4. Range(Sectors) = {Sectors[k] : k \in DOMAIN Sectors}
  BY DEF Range
<1>5. ASSUME NEW b, NEW s
      PROVE  CompatCount(b, s) \in Nat
  <2>1. {c \in SectorCards(s) : Compatible(c, b)} \in SUBSET Cards
    BY DEF SectorCards
  <2>2. IsFiniteSet({c \in SectorCards(s) : Compatible(c, b)})
    BY <1>1, <2>1, FS_Subset
  <2> QED
    BY <2>2, FS_CardinalityType DEF CompatCount
<1>6. IsFiniteSet(1..Len(Sectors)) /\ IsFiniteSet(1..Len(Bands))
  <2>1. Len(Sectors) \in Int /\ Len(Bands) \in Int
    BY <1>2, <1>3
  <2> QED
    BY <2>1, FS_Interval
<1> QED
  BY <1>2, <1>3, <1>4, <1>5, <1>6

\* The rows of a sector are as many as they are.
LEMMA SeatsAre ==
  ASSUME NEW sp \in Seq(Pairs), NEW s
  PROVE  /\ IsFiniteSet({i \in DOMAIN sp : sp[i][2] = s})
         /\ SeatsOf(sp, s) \in Nat
         /\ SeatsOf(sp, s) = 0 <=> \A i \in DOMAIN sp : sp[i][2] # s
<1> DEFINE A == {i \in DOMAIN sp : sp[i][2] = s}
<1>1. DOMAIN sp = 1..Len(sp) /\ Len(sp) \in Nat
  OBVIOUS
<1>2. IsFiniteSet(DOMAIN sp)
  BY <1>1, FS_Interval
<1>3. A \in SUBSET DOMAIN sp
  OBVIOUS
<1>4. IsFiniteSet(A)
  BY <1>2, <1>3, FS_Subset
<1>5. Cardinality(A) \in Nat /\ (Cardinality(A) = 0 <=> A = {})
  BY <1>4, FS_CardinalityType, FS_EmptySet
<1>6. A = {} <=> \A i \in DOMAIN sp : sp[i][2] # s
  OBVIOUS
<1>7. SeatsOf(sp, s) = Cardinality(A)
  BY DEF SeatsOf
<1> QED
  BY <1>4, <1>5, <1>6, <1>7

\* What moving a row to another sector changes.
LEMMA MoveIs ==
  ASSUME specs \in Seq(Pairs), NEW i \in DOMAIN specs, NEW s \in Range(Sectors),
         specs[i][2] # s
  PROVE  /\ Moved(i, s) \in Seq(Pairs)
         /\ Len(Moved(i, s)) = Len(specs) /\ DOMAIN Moved(i, s) = DOMAIN specs
         /\ \A j \in DOMAIN specs :
              /\ Moved(i, s)[j][1] = specs[j][1]
              /\ Moved(i, s)[j][2] = IF j = i THEN s ELSE specs[j][2]
         /\ SeatsOf(Moved(i, s), s) = SeatsOf(specs, s) + 1
         /\ SeatsOf(Moved(i, s), specs[i][2]) = SeatsOf(specs, specs[i][2]) - 1
         /\ \A t : t # s /\ t # specs[i][2] => SeatsOf(Moved(i, s), t) = SeatsOf(specs, t)
<1> DEFINE m == Moved(i, s)
           d == specs[i][2]
           At(sp, t) == {j \in DOMAIN sp : sp[j][2] = t}
<1>1. DOMAIN specs = 1..Len(specs) /\ Len(specs) \in Nat
  OBVIOUS
<1>2. \A j \in DOMAIN specs : specs[j] \in Pairs
  OBVIOUS
<1>3. specs[i][1] \in DOMAIN Bands
  BY <1>2, PairIs
<1>4. <<specs[i][1], s>> \in Pairs
  BY <1>3, PairIs
<1>5. m = [specs EXCEPT ![i] = <<specs[i][1], s>>]
  BY DEF Moved
<1>6. m \in Seq(Pairs) /\ Len(m) = Len(specs) /\ DOMAIN m = DOMAIN specs
  BY <1>4, <1>5
<1>7. \A j \in DOMAIN specs :
        m[j][1] = specs[j][1] /\ m[j][2] = IF j = i THEN s ELSE specs[j][2]
  BY <1>5
<1> HIDE DEF m
<1>8. At(m, s) = At(specs, s) \cup {i} /\ i \notin At(specs, s)
  BY <1>6, <1>7
<1>9. At(m, d) = At(specs, d) \ {i} /\ i \in At(specs, d)
  BY <1>6, <1>7
<1>10. \A t : t # s /\ t # d => At(m, t) = At(specs, t)
  BY <1>6, <1>7
<1>11. \A t : IsFiniteSet(At(specs, t))
  BY SeatsAre
<1> HIDE DEF At, d
<1>12. Cardinality(At(m, s)) = Cardinality(At(specs, s)) + 1
  BY <1>8, <1>11, FS_AddElement
<1>13. Cardinality(At(m, d)) = Cardinality(At(specs, d)) - 1
  BY <1>9, <1>11, FS_RemoveElement
<1>14. \A t : SeatsOf(m, t) = Cardinality(At(m, t)) /\ SeatsOf(specs, t) = Cardinality(At(specs, t))
  BY DEF SeatsOf, At
<1> QED
  BY <1>6, <1>7, <1>10, <1>12, <1>13, <1>14 DEF m, d

\* The rows of a band stay its rows when one of them moves to another sector.
LEMMA MoveKeepsBands ==
  ASSUME specs \in Seq(Pairs), NEW i \in DOMAIN specs, NEW s \in Range(Sectors),
         specs[i][2] # s, Suits(i, s),
         \A j \in DOMAIN specs : CompatCount(specs[j][1], specs[j][2]) > 0
  PROVE  /\ \A j \in DOMAIN Moved(i, s) : CompatCount(Moved(i, s)[j][1], Moved(i, s)[j][2]) > 0
         /\ \A b : {j \in DOMAIN Moved(i, s) : Moved(i, s)[j][1] = b}
                     = {j \in DOMAIN specs : specs[j][1] = b}
<1>1. DOMAIN Moved(i, s) = DOMAIN specs
      /\ \A j \in DOMAIN specs :
           /\ Moved(i, s)[j][1] = specs[j][1]
           /\ Moved(i, s)[j][2] = IF j = i THEN s ELSE specs[j][2]
  BY MoveIs
<1> QED
  BY <1>1 DEF Suits

-----------------------------------------------------------------------------
(* The matrix: the inductive invariant *)

\* The places of the loops, and what each has of the plan.
PlanShape ==
  /\ stage \in {"bands", "sectors", "cover", "balance", "rows", "nudging", "raised"}
  /\ size \in Counts /\ history \subseteq Cards /\ pull \in Pulls
  /\ place \in Nat \ {0} /\ turns \in Nat /\ filled \subseteq Range(Sectors)
  /\ specs \in Seq(Pairs)
  /\ stage \notin {"bands", "nudging"} => seats \in [DOMAIN Bands -> Nat] /\ Dealt(seats) = size
  /\ stage = "bands" => place = 1 /\ specs = << >>
  /\ stage = "sectors" => place \in DOMAIN Bands
  /\ stage = "cover" => place \in DOMAIN Sectors
  /\ stage \notin {"balance", "rows"} => turns = 0

\* The rows that are there: all of the bands that the loop has passed.
PlanRows ==
  /\ stage \in {"sectors", "cover", "balance", "rows"} =>
       \A i \in DOMAIN specs : CompatCount(specs[i][1], specs[i][2]) > 0
  /\ stage = "sectors" =>
       /\ Len(specs) = Cardinality({p \in Places(seats) : p[1] < place})
       /\ \A b \in DOMAIN Bands :
            Cardinality({i \in DOMAIN specs : specs[i][1] = b}) = IF b < place THEN seats[b] ELSE 0
  /\ stage \in {"cover", "balance", "rows"} =>
       /\ Len(specs) = size
       /\ \A b \in DOMAIN Bands : Cardinality({i \in DOMAIN specs : specs[i][1] = b}) = seats[b]

\* A sector that covering has passed has a seat, or no row for it can be spared.
PlanCovers ==
  stage = "cover" =>
    \A k \in DOMAIN Sectors :
      k < place /\ SeatsOf(specs, Sectors[k]) = 0 => Donors(Sectors[k]) = {}

\* While rows are moved out of crowded sectors: those that were moved are in no
\* crowded one, and neither is a row that suits a sector without a seat.
Moves(M) == M \in SUBSET DOMAIN specs /\ Cardinality(M) = turns /\ \A i \in M : ~Crowded(i)
PlanBalances ==
  stage \in {"balance", "rows"} =>
    /\ filled = {s \in Range(Sectors) : SeatsOf(specs, s) > 0}
    /\ turns = 0 => \A s \in Range(Sectors) \ filled : Donors(s) = {}
    /\ \A s \in Range(Sectors) \ filled : \A i \in DOMAIN specs : Suits(i, s) => ~Crowded(i)
    /\ \E M \in SUBSET DOMAIN specs : Moves(M)

DealInv == PlanShape /\ PlanRows /\ PlanCovers /\ PlanBalances

\* A card that is not in its bag was used, and one that was used is in its bag only
\* when the bag was filled again, after all of its sector had been used.
CardsCounted ==
  /\ bag \in [Range(Sectors) -> SUBSET Cards]
  /\ uses \in [Cards -> Nat] /\ drawn \in 0..Len(specs)
  /\ \A s \in Range(Sectors) :
       /\ bag[s] \subseteq SectorCards(s)
       /\ \A c \in SectorCards(s) \ bag[s] : uses[c] > 0
       /\ \A c \in bag[s] : uses[c] > 0 => \A d \in SectorCards(s) : uses[d] > 0

\* Nobody is nudged before the plan is there.
NudgesCounted ==
  /\ tally \in [Forums -> Nat] /\ steered \in [Forums -> Nat]
  /\ stage # "nudging" => steered = [f \in Forums |-> 0]

MatrixInv == DealInv /\ CardsCounted /\ RowValid /\ RepeatsLast /\ NudgesCounted /\ NudgesSpread

-----------------------------------------------------------------------------
(* The matrix: each step *)

\* The limit is one seat at least.
LEMMA LimitIs ==
  ASSUME size \in Counts
  PROVE  SectorLimit \in Nat /\ SectorLimit >= 1
<1>1. size \in Nat \ {0}
  BY MatrixAssumption
<1>2. Len(Sectors) \in Nat \ {0}
  BY CatalogFacts
<1> DEFINE n == Len(Sectors)
<1> HIDE DEF n
<1>3. n \in Nat \ {0} /\ size \in Nat \ {0}
  BY <1>1, <1>2 DEF n
<1>4. size + n - 1 \in Nat /\ size + n - 1 >= n
  BY <1>3
<1>5. (size + n - 1) \div n \in Nat /\ (size + n - 1) \div n >= 1
  BY <1>3, <1>4
<1> QED
  BY <1>5 DEF SectorLimit, CeilDiv, n

LEMMA SeatBandsKeeps ==
  ASSUME DealInv, SeatBands
  PROVE  DealInv'
<1>1. /\ stage = "bands" /\ stage' = "sectors" /\ place = 1 /\ specs = << >> /\ turns = 0
      /\ UNCHANGED <<size, history, pull, place, specs, filled, turns>>
      /\ size \in Counts /\ pull \in Pulls /\ history \subseteq Cards /\ filled \subseteq Range(Sectors)
      /\ seats' \in Quotas(pull.bands, size, [b \in DOMAIN Bands |-> size])
  BY DEF DealInv, PlanShape, SeatBands
<1>2. size \in Nat
  BY <1>1, MatrixAssumption
<1>3. pull.bands \in [DOMAIN Bands -> Nat]
  BY <1>1, MatrixAssumption DEF Pulls
<1>4. IsFiniteSet(DOMAIN Bands) /\ 1 \in DOMAIN Bands /\ DOMAIN Bands \subseteq Nat \ {0}
  BY CatalogFacts
<1>5. seats' \in [DOMAIN Bands -> Nat] /\ Dealt(seats') = size
  <2> DEFINE most == [b \in DOMAIN Bands |-> size]
  <2>1. most \in [DOMAIN Bands -> Nat]
    BY <1>2
  <2>2. seats' \in Quotas(pull.bands, size, most)
    BY <1>1
  <2> HIDE DEF most
  <2> QED
    BY <2>1, <2>2, <1>2, <1>3, <1>4, QuotaIs
<1>6. {p \in Places(seats') : p[1] < 1} = {}
  <2>1. SUFFICES ASSUME NEW p \in Places(seats'), p[1] < 1
                 PROVE  FALSE
    OBVIOUS
  <2>2. PICK i \in DOMAIN Bands : \E j \in 1..seats'[i] : p = <<i, j>>
    BY <1>5, PlaceIs
  <2> QED
    BY <2>1, <2>2, <1>4
<1>7. PlanShape'
  <2>1. specs' \in Seq(Pairs)
    BY <1>1
  <2> QED
    BY <1>1, <1>4, <1>5, <2>1 DEF PlanShape, Pulls
<1>8. PlanRows'
  <2>1. \A b : {i \in DOMAIN specs' : specs'[i][1] = b} = {}
    BY <1>1
  <2>2. Len(specs') = 0 /\ DOMAIN specs' = {}
    BY <1>1
  <2>3. \A b \in DOMAIN Bands : ~(b < 1)
    BY <1>4
  <2> QED
    BY <1>1, <1>6, <2>1, <2>2, <2>3, FS_EmptySet DEF PlanRows
<1>9. PlanCovers' /\ PlanBalances'
  BY <1>1 DEF PlanCovers, PlanBalances
<1> QED
  BY <1>7, <1>8, <1>9 DEF DealInv

\* One sequence after another.
LEMMA JoinIs ==
  ASSUME NEW S, NEW s \in Seq(S), NEW t \in Seq(S)
  PROVE  /\ s \o t \in Seq(S) /\ Len(s \o t) = Len(s) + Len(t)
         /\ DOMAIN (s \o t) = 1..(Len(s) + Len(t))
         /\ \A i \in 1..Len(s) : (s \o t)[i] = s[i]
         /\ \A i \in (Len(s) + 1)..(Len(s) + Len(t)) : (s \o t)[i] = t[i - Len(s)]
<1> QED
  OBVIOUS

\* Rows that are all of the bands till the one that the loop is at.
AllTill(sp) ==
  /\ sp \in Seq(Pairs)
  /\ \A i \in DOMAIN sp : CompatCount(sp[i][1], sp[i][2]) > 0
  /\ Len(sp) = Cardinality({p \in Places(seats) : p[1] < place + 1})
  /\ \A b \in DOMAIN Bands :
       Cardinality({i \in DOMAIN sp : sp[i][1] = b}) = IF b < place + 1 THEN seats[b] ELSE 0

\* The rows of one band join those of the bands before it.
LEMMA BandRows ==
  ASSUME seats \in [DOMAIN Bands -> Nat], specs \in Seq(Pairs), place \in DOMAIN Bands,
         stage = "sectors", PlanRows,
         NEW row \in [1..seats[place] -> Range(Sectors)],
         \A i \in 1..seats[place] : CompatCount(place, row[i]) > 0,
         NEW sp, sp = specs \o [i \in 1..seats[place] |-> <<place, row[i]>>]
  PROVE  AllTill(sp)
<1> DEFINE n == seats[place]
           l == Len(specs)
           add == [i \in 1..n |-> <<place, row[i]>>]
           Of(b) == {i \in DOMAIN sp : sp[i][1] = b}
           Had(b) == {i \in DOMAIN specs : specs[i][1] = b}
           Till(k) == {p \in Places(seats) : p[1] < k}
<1>1. n \in Nat /\ l \in Nat /\ place \in Nat /\ DOMAIN Bands \subseteq Nat
  BY CatalogFacts
<1>2. \A i \in 1..n : <<place, row[i]>> \in Pairs
  BY PairIs
<1>3. add \in Seq(Pairs) /\ Len(add) = n
  <2>1. add \in [1..n -> Pairs]
    BY <1>2
  <2> HIDE DEF add, n
  <2> QED
    BY <2>1, <1>1
<1>4. /\ sp \in Seq(Pairs) /\ Len(sp) = l + n /\ DOMAIN sp = 1..(l + n)
      /\ \A i \in 1..l : sp[i] = specs[i]
      /\ \A i \in (l + 1)..(l + n) : sp[i] = add[i - l]
  <2>1. sp = specs \o add /\ l = Len(specs)
    OBVIOUS
  <2> HIDE DEF add, n, l
  <2>2. specs \in Seq(Pairs) /\ add \in Seq(Pairs)
    BY <1>3
  <2>3. /\ specs \o add \in Seq(Pairs) /\ Len(specs \o add) = Len(specs) + Len(add)
        /\ DOMAIN (specs \o add) = 1..(Len(specs) + Len(add))
        /\ \A i \in 1..Len(specs) : (specs \o add)[i] = specs[i]
        /\ \A i \in (Len(specs) + 1)..(Len(specs) + Len(add)) :
             (specs \o add)[i] = add[i - Len(specs)]
    BY ONLY <2>2, JoinIs
  <2> QED
    BY <2>1, <2>3, <1>3
<1>5. \A i \in (l + 1)..(l + n) : i - l \in 1..n /\ sp[i][1] = place /\ sp[i][2] = row[i - l]
  BY <1>1, <1>4
<1>6. DOMAIN specs = 1..l
  OBVIOUS
<1> HIDE DEF add, l, n
<1>7. \A i \in DOMAIN sp : i \in 1..l \/ i \in (l + 1)..(l + n)
  BY <1>1, <1>4
<1>8. \A i \in DOMAIN sp : CompatCount(sp[i][1], sp[i][2]) > 0
  <2>1. SUFFICES ASSUME NEW i \in DOMAIN sp
                 PROVE  CompatCount(sp[i][1], sp[i][2]) > 0
    OBVIOUS
  <2>2. CASE i \in 1..l
    BY <2>2, <1>4, <1>6 DEF PlanRows
  <2>3. CASE i \in (l + 1)..(l + n)
    BY <2>3, <1>5 DEF n
  <2> QED
    BY <1>7, <2>2, <2>3
<1>9. \A b \in DOMAIN Bands : Cardinality(Had(b)) = IF b < place THEN seats[b] ELSE 0
  BY DEF PlanRows
<1>10. ASSUME NEW b \in DOMAIN Bands, b # place
       PROVE  Cardinality(Of(b)) = IF b < place + 1 THEN seats[b] ELSE 0
  <2>1. Of(b) = Had(b)
    <3>1. ASSUME NEW i \in DOMAIN sp, sp[i][1] = b
          PROVE  i \in DOMAIN specs /\ specs[i][1] = b
      BY <3>1, <1>10, <1>4, <1>5, <1>6, <1>7
    <3>2. ASSUME NEW i \in DOMAIN specs, specs[i][1] = b
          PROVE  i \in DOMAIN sp /\ sp[i][1] = b
      <4>1. i \in 1..l /\ i \in 1..(l + n)
        BY <1>1, <1>6
      <4> QED
        BY <3>2, <4>1, <1>4
    <3> QED
      BY <3>1, <3>2
  <2>2. b \in Nat /\ place \in Nat
    BY <1>1
  <2>3. b < place + 1 <=> b < place
    BY <2>2, <1>10
  <2> HIDE DEF Of, Had
  <2> QED
    BY <2>1, <2>3, <1>9
<1>11. Cardinality(Of(place)) = n
  <2>1. IsFiniteSet(Had(place))
    <3>1. IsFiniteSet(DOMAIN specs)
      BY <1>1, <1>6, FS_Interval
    <3>2. Had(place) \in SUBSET DOMAIN specs
      OBVIOUS
    <3> QED
      BY <3>1, <3>2, FS_Subset
  <2>2. ~(place < place)
    BY <1>1
  <2>3. Had(place) = {}
    <3> HIDE DEF Had
    <3>1. Cardinality(Had(place)) = 0
      BY <2>2, <1>9
    <3> QED
      BY <2>1, <3>1, FS_EmptySet
  <2>4. Of(place) = (l + 1)..(l + n)
    BY <2>3, <1>1, <1>4, <1>5, <1>6, <1>7
  <2>5. Cardinality((l + 1)..(l + n)) = n
    BY <1>1, FS_Interval
  <2> QED
    BY <2>4, <2>5
<1>12. Cardinality(Till(place + 1)) = l + n
  <2> DEFINE here == {place} \X (1..n)
  <2>1. Till(place + 1) = Till(place) \cup here
    <3>1. ASSUME NEW p \in Till(place + 1)
          PROVE  p \in Till(place) \cup here
      <4>1. PICK i \in DOMAIN Bands : \E j \in 1..seats[i] : p = <<i, j>>
        BY PlaceIs
      <4>2. i \in Nat /\ i < place + 1 /\ p[1] = i
        BY <1>1, <4>1
      <4>3. CASE i = place
        BY <4>1, <4>3 DEF n
      <4>4. CASE i # place
        BY <4>2, <4>4, <1>1
      <4> QED
        BY <4>3, <4>4
    <3>2. ASSUME NEW p \in Till(place)
          PROVE  p \in Till(place + 1)
      <4>1. PICK i \in DOMAIN Bands : \E j \in 1..seats[i] : p = <<i, j>>
        BY PlaceIs
      <4>2. i \in Nat /\ p[1] = i
        BY <1>1, <4>1
      <4> QED
        BY <4>2, <1>1
    <3>3. ASSUME NEW p \in here
          PROVE  p \in Till(place + 1)
      <4>1. PICK j \in 1..n : p = <<place, j>>
        OBVIOUS
      <4>2. p \in Places(seats)
        BY <4>1, PlaceIs DEF n
      <4> QED
        BY <4>1, <4>2, <1>1
    <3> QED
      BY <3>1, <3>2, <3>3
  <2>2. Till(place) \cap here = {}
    BY <1>1
  <2>3. IsFiniteSet(Places(seats))
    BY CatalogFacts, PlacesFinite
  <2>4. Till(place) \in SUBSET Places(seats)
    OBVIOUS
  <2>5. IsFiniteSet(Till(place))
    BY <2>3, <2>4, FS_Subset
  <2>6. IsFiniteSet(here) /\ Cardinality(here) = n
    <3>1. IsFiniteSet({place}) /\ Cardinality({place}) = 1
      BY FS_Singleton
    <3>2. IsFiniteSet(1..n) /\ Cardinality(1..n) = n
      <4>1. 1 \in Int /\ n \in Int /\ (IF 1 > n THEN 0 ELSE n - 1 + 1) = n
        BY <1>1
      <4> QED
        BY <4>1, FS_Interval
    <3>3. IsFiniteSet(here) /\ Cardinality(here) = Cardinality({place}) * Cardinality(1..n)
      BY <3>1, <3>2, FS_Product
    <3>4. 1 * n = n
      BY <1>1
    <3> QED
      BY <3>1, <3>2, <3>3, <3>4
  <2>7. Cardinality(Till(place)) = l
    BY DEF PlanRows, l
  <2> HIDE DEF Till, here
  <2>8. Cardinality(Till(place) \cup here)
          = Cardinality(Till(place)) + Cardinality(here) - Cardinality(Till(place) \cap here)
    BY <2>5, <2>6, FS_Union
  <2>9. Cardinality(Till(place) \cap here) = 0
    BY <2>2, FS_EmptySet
  <2>10. Cardinality(Till(place) \cup here) = l + n
    BY <2>6, <2>7, <2>8, <2>9, <1>1
  <2> QED
    BY <2>1, <2>10
<1>13. \A b \in DOMAIN Bands : Cardinality(Of(b)) = IF b < place + 1 THEN seats[b] ELSE 0
  <2>1. place < place + 1 /\ n = seats[place]
    BY <1>1 DEF n
  <2> HIDE DEF Of
  <2> QED
    BY <2>1, <1>10, <1>11
<1> QED
  BY <1>4, <1>8, <1>12, <1>13 DEF AllTill

\* The loop over the bands goes on, or all rows are there.
LEMMA BandDone ==
  ASSUME DealInv, stage = "sectors", Onward(Len(Bands), "cover"),
         UNCHANGED <<size, history, pull, seats, filled, turns>>,
         NEW sp, AllTill(sp), specs' = sp
  PROVE  DealInv'
<1>1. /\ place \in DOMAIN Bands /\ seats \in [DOMAIN Bands -> Nat] /\ Dealt(seats) = size
      /\ size \in Counts /\ pull \in Pulls /\ history \subseteq Cards /\ filled \subseteq Range(Sectors)
      /\ turns = 0
      /\ specs' \in Seq(Pairs)
      /\ \A i \in DOMAIN specs' : CompatCount(specs'[i][1], specs'[i][2]) > 0
      /\ Len(specs') = Cardinality({p \in Places(seats) : p[1] < place + 1})
      /\ \A b \in DOMAIN Bands :
           Cardinality({i \in DOMAIN specs' : specs'[i][1] = b})
             = IF b < place + 1 THEN seats[b] ELSE 0
  BY DEF DealInv, PlanShape, AllTill
<1>2. /\ Len(Bands) \in Nat \ {0} /\ DOMAIN Bands = 1..Len(Bands)
      /\ Len(Sectors) \in Nat \ {0} /\ DOMAIN Sectors = 1..Len(Sectors)
  BY CatalogFacts
<1>3. CASE place < Len(Bands)
  <2>1. stage' = "sectors" /\ place' = place + 1 /\ place' \in DOMAIN Bands /\ place' \in Nat \ {0}
    BY <1>1, <1>2, <1>3 DEF Onward
  <2>2. PlanShape'
    BY <1>1, <2>1 DEF PlanShape, Pulls
  <2>3. PlanRows'
    BY <1>1, <2>1 DEF PlanRows
  <2>4. PlanCovers' /\ PlanBalances'
    BY <2>1 DEF PlanCovers, PlanBalances
  <2> QED
    BY <2>2, <2>3, <2>4 DEF DealInv
<1>4. CASE ~(place < Len(Bands))
  <2>1. stage' = "cover" /\ place' = 1 /\ place' \in DOMAIN Sectors
    BY <1>1, <1>2, <1>4 DEF Onward
  <2>2. place = Len(Bands) /\ \A b \in DOMAIN Bands : b < place + 1
    BY <1>1, <1>2, <1>4
  <2>3. {p \in Places(seats) : p[1] < place + 1} = Places(seats)
    <3>1. ASSUME NEW p \in Places(seats)
          PROVE  p[1] < place + 1
      <4>1. PICK i \in DOMAIN Bands : \E j \in 1..seats[i] : p = <<i, j>>
        BY <1>1, PlaceIs
      <4> QED
        BY <4>1, <2>2
    <3> QED
      BY <3>1
  <2>4. Len(specs') = size
    BY <1>1, <2>3 DEF Dealt
  <2>5. PlanShape'
    BY <1>1, <2>1 DEF PlanShape, Pulls
  <2>6. PlanRows'
    BY <1>1, <2>1, <2>2, <2>4 DEF PlanRows
  <2>7. PlanCovers'
    <3>1. \A k \in DOMAIN Sectors : ~(k < place')
      BY <2>1, <1>2
    <3> QED
      BY <3>1 DEF PlanCovers
  <2>8. PlanBalances'
    BY <2>1 DEF PlanBalances
  <2> QED
    BY <2>5, <2>6, <2>7, <2>8 DEF DealInv
<1> QED
  BY <1>3, <1>4

\* The sectors that a band's rows are shuffled from have cards for it.
LEMMA SectorsSuit ==
  ASSUME DealInv, stage = "sectors", seats[place] > 0,
         NEW a \in SectorQuotas(place), NEW row \in Shuffled(place, a), NEW i \in 1..seats[place]
  PROVE  CompatCount(place, row[i]) > 0
<1> DEFINE weight == [k \in DOMAIN Sectors |-> pull.sectors[k] * CompatCount(place, Sectors[k])]
           most == [k \in DOMAIN Sectors |-> Cap(place, Sectors[k])]
<1>1. /\ place \in DOMAIN Bands /\ seats \in [DOMAIN Bands -> Nat] /\ specs \in Seq(Pairs)
      /\ size \in Counts /\ pull \in Pulls
  BY DEF DealInv, PlanShape
<1>2. size \in Nat /\ Len(Sectors) \in Nat \ {0} /\ IsFiniteSet(DOMAIN Sectors)
  BY <1>1, CatalogFacts, MatrixAssumption
<1>3. weight \in [DOMAIN Sectors -> Nat]
  <2>1. pull.sectors \in [DOMAIN Sectors -> Nat]
    BY <1>1, MatrixAssumption DEF Pulls
  <2>2. \A k \in DOMAIN Sectors : CompatCount(place, Sectors[k]) \in Nat
    BY CatalogFacts
  <2> QED
    BY <2>1, <2>2
<1>4. SectorCap \in Int
  <2>1. size \div 5 \in Int
    BY <1>2
  <2>2. SectorLimit \in Nat
    BY <1>1, LimitIs
  <2>3. CeilDiv(size, Len(Sectors)) \in Int
    BY <2>2 DEF SectorLimit
  <2>4. Max({size \div 5, CeilDiv(size, Len(Sectors))}) \in Int
    BY <2>1, <2>3, OfTwoNumbers
  <2> QED
    BY <2>4, <1>2 DEF SectorCap
<1>5. ASSUME NEW k \in DOMAIN Sectors
      PROVE  Cap(place, Sectors[k]) \in Nat
  <2> DEFINE x == SectorCap - SeatsOf(specs, Sectors[k])
  <2>1. x \in Int
    <3>1. SeatsOf(specs, Sectors[k]) \in Nat
      BY <1>1, SeatsAre
    <3> QED
      BY <3>1, <1>4
  <2>2. Cap(place, Sectors[k]) = 0 \/ Cap(place, Sectors[k]) = Max({0, x})
    BY DEF Cap
  <2> HIDE DEF x
  <2>3. Max({0, x}) \in Int /\ Max({0, x}) >= 0
    <3>1. 0 \in Int /\ x \in Int
      BY <2>1
    <3> QED
      BY ONLY <3>1, OfTwoNumbers
  <2> QED
    BY <2>2, <2>3
<1>6. most \in [DOMAIN Sectors -> Nat]
  BY <1>5
<1>7. a \in Quotas(weight, seats[place], most)
  BY DEF SectorQuotas
<1> HIDE DEF weight, most
<1>8. a \in [DOMAIN Sectors -> Nat] /\ \A k \in DOMAIN Sectors : a[k] <= most[k]
  <2>1. seats[place] \in Nat
    BY <1>1
  <2> QED
    BY <1>2, <1>3, <1>6, <1>7, <2>1, QuotaIs
<1>9. row \in [1..seats[place] -> Range(Sectors)]
  BY DEF Shuffled
<1>10. PICK k \in DOMAIN Sectors : row[i] = Sectors[k]
  BY <1>9, CatalogFacts
<1> DEFINE A == {j \in DOMAIN row : row[j] = Sectors[k]}
<1>11. Cardinality(A) = a[k]
  BY DEF Shuffled
<1>12. IsFiniteSet(A) /\ A # {}
  <2>1. seats[place] \in Int
    BY <1>1
  <2>2. IsFiniteSet(1..seats[place])
    BY <2>1, FS_Interval
  <2>3. A \in SUBSET (1..seats[place]) /\ i \in A
    BY <1>9, <1>10
  <2> QED
    BY <2>2, <2>3, FS_Subset
<1>13. a[k] # 0
  <2> HIDE DEF A
  <2> QED
    BY <1>11, <1>12, FS_EmptySet
<1>14. Cap(place, Sectors[k]) # 0
  <2>1. most[k] = Cap(place, Sectors[k])
    BY DEF most
  <2> QED
    BY <2>1, <1>5, <1>8, <1>13
<1>15. CompatCount(place, Sectors[k]) # 0
  BY <1>14 DEF Cap
<1> QED
  BY <1>10, <1>15, CatalogFacts

LEMMA SeatSectorsKeeps ==
  ASSUME DealInv, SeatSectors
  PROVE  DealInv'
<1>1. /\ place \in DOMAIN Bands /\ seats \in [DOMAIN Bands -> Nat] /\ specs \in Seq(Pairs)
      /\ stage = "sectors" /\ PlanRows
      /\ UNCHANGED <<size, history, pull, seats, filled, turns>>
  BY DEF DealInv, PlanShape, SeatSectors
<1>2. CASE seats[place] = 0 /\ Onward(Len(Bands), "cover") /\ UNCHANGED specs
  <2> DEFINE row == [i \in 1..seats[place] |-> Sectors[1]]
             add == [i \in 1..seats[place] |-> <<place, row[i]>>]
  <2>1. 1..seats[place] = {}
    BY <1>2
  <2>2. row \in [1..seats[place] -> Range(Sectors)]
    BY <2>1
  <2>3. specs = specs \o add
    <3>1. add = << >>
      BY <2>1
    <3> QED
      BY <3>1, <1>1
  <2> HIDE DEF row
  <2>4. AllTill(specs)
    BY <1>1, <2>1, <2>2, <2>3, BandRows
  <2> QED
    BY <1>1, <1>2, <2>4, BandDone
<1>3. ASSUME seats[place] > 0, Onward(Len(Bands), "cover"),
             NEW a \in SectorQuotas(place), NEW row \in Shuffled(place, a),
             specs' = specs \o [i \in 1..seats[place] |-> <<place, row[i]>>]
      PROVE  DealInv'
  <2>1. row \in [1..seats[place] -> Range(Sectors)]
    BY DEF Shuffled
  <2>2. \A i \in 1..seats[place] : CompatCount(place, row[i]) > 0
    BY <1>1, <1>3, SectorsSuit
  <2> DEFINE sp == specs \o [i \in 1..seats[place] |-> <<place, row[i]>>]
  <2>3. AllTill(sp)
    BY <1>1, <2>1, <2>2, BandRows
  <2>4. specs' = sp
    BY <1>3
  <2> HIDE DEF sp
  <2> QED
    BY <1>1, <1>3, <2>3, <2>4, BandDone
<1>4. CASE stage' = "raised" /\ UNCHANGED <<place, specs>>
  <2>1. PlanShape'
    BY <1>1, <1>4 DEF DealInv, PlanShape, Pulls
  <2>2. PlanRows' /\ PlanCovers' /\ PlanBalances'
    BY <1>4 DEF PlanRows, PlanCovers, PlanBalances
  <2> QED
    BY <2>1, <2>2 DEF DealInv
<1> QED
  BY <1>2, <1>3, <1>4 DEF SeatSectors

\* A sector has no more seats than there are rows, and a donor is one of the donors.
LEMMA DonorIs ==
  ASSUME specs \in Seq(Pairs), NEW s, Donors(s) # {}
  PROVE  Donor(s) \in Donors(s)
<1> DEFINE has(i) == SeatsOf(specs, specs[i][2])
           V == {Len(specs) - has(i) : i \in Donors(s)}
           best == {i \in Donors(s) : \A j \in Donors(s) : has(i) >= has(j)}
<1>1. Donors(s) \subseteq DOMAIN specs /\ DOMAIN specs = 1..Len(specs) /\ Len(specs) \in Nat
  BY DEF Donors
<1>2. \A i \in DOMAIN specs : has(i) \in Nat /\ has(i) <= Len(specs)
  <2>1. SUFFICES ASSUME NEW i \in DOMAIN specs
                 PROVE  has(i) \in Nat /\ has(i) <= Len(specs)
    OBVIOUS
  <2> DEFINE A == {j \in DOMAIN specs : specs[j][2] = specs[i][2]}
  <2>2. has(i) = Cardinality(A) /\ has(i) \in Nat
    BY SeatsAre DEF SeatsOf
  <2>3. A \in SUBSET (1..Len(specs))
    BY <1>1
  <2>4. 1 \in Int /\ Len(specs) \in Int /\ (IF 1 > Len(specs) THEN 0 ELSE Len(specs) - 1 + 1) = Len(specs)
    BY <1>1
  <2>5. IsFiniteSet(1..Len(specs)) /\ Cardinality(1..Len(specs)) = Len(specs)
    BY <2>4, FS_Interval
  <2> HIDE DEF A, has
  <2>6. Cardinality(A) <= Cardinality(1..Len(specs))
    BY <2>3, <2>5, FS_Subset
  <2> QED
    BY <2>2, <2>5, <2>6
<1> HIDE DEF has
<1>3. V \in SUBSET Nat /\ V # {}
  BY <1>1, <1>2
<1>4. PICK n \in V : \A v \in V : n <= v
  BY <1>3, LeastOfNat
<1>5. PICK i \in Donors(s) : n = Len(specs) - has(i)
  BY <1>4
<1>6. ASSUME NEW j \in Donors(s)
      PROVE  has(i) >= has(j)
  <2>1. Len(specs) - has(j) \in V
    OBVIOUS
  <2>2. n <= Len(specs) - has(j)
    BY <2>1, <1>4
  <2> QED
    BY <2>2, <1>5, <1>1, <1>2
<1>7. best # {} /\ best \in SUBSET Nat
  BY <1>1, <1>6
<1>8. Min(best) \in best
  <2> HIDE DEF best
  <2> QED
    BY <1>7, FirstOf
<1>9. Donor(s) = Min(best)
  BY DEF Donor, has
<1> QED
  BY <1>8, <1>9

\* A sector that covering has come to has a seat from then on, or cannot have one.
LEMMA CoverSettles ==
  ASSUME DealInv, Cover, NEW k \in DOMAIN Sectors, k <= place, SeatsOf(specs', Sectors[k]) = 0
  PROVE  Donors(Sectors[k])' = {}
<1> DEFINE s == Sectors[place]
           t == Sectors[k]
<1>1. place \in DOMAIN Sectors /\ specs \in Seq(Pairs) /\ PlanCovers /\ stage = "cover"
  BY DEF DealInv, PlanShape, Cover
<1>2. s \in Range(Sectors) /\ k \in Nat /\ place \in Nat
  BY <1>1, CatalogFacts
<1>3. SeatsOf(specs, t) = 0 => Donors(t) = {} \/ (k = place)
  BY <1>1, <1>2 DEF PlanCovers
<1>4. CASE specs' = specs /\ (SeatsOf(specs, s) > 0 \/ Donors(s) = {})
  <2>1. SeatsOf(specs, t) = 0 /\ Donors(t)' = Donors(t)
    BY <1>4 DEF Donors, Suits
  <2>2. k = place => Donors(t) = {}
    BY <2>1, <1>4
  <2> QED
    BY <2>1, <2>2, <1>3
<1>5. CASE SeatsOf(specs, s) = 0 /\ Donors(s) # {} /\ specs' = Moved(Donor(s), s)
  <2> DEFINE i == Donor(s)
             d == specs[i][2]
  <2>1. i \in Donors(s)
    BY <1>1, <1>5, DonorIs
  <2>2. i \in DOMAIN specs /\ SeatsOf(specs, d) > 1
    BY <2>1 DEF Donors
  <2>3. d # s
    BY <2>2, <1>5
  <2> HIDE DEF i
  <2>4. /\ DOMAIN specs' = DOMAIN specs
        /\ \A j \in DOMAIN specs :
             /\ specs'[j][1] = specs[j][1]
             /\ specs'[j][2] = IF j = i THEN s ELSE specs[j][2]
        /\ SeatsOf(specs', s) = SeatsOf(specs, s) + 1
        /\ SeatsOf(specs', d) = SeatsOf(specs, d) - 1
        /\ \A u : u # s /\ u # d => SeatsOf(specs', u) = SeatsOf(specs, u)
    <3>1. specs' = Moved(i, s)
      BY <1>5 DEF i
    <3> QED
      BY <3>1, <1>1, <1>2, <2>2, <2>3, MoveIs
  <2>5. \A u : SeatsOf(specs, u) \in Nat
    BY <1>1, SeatsAre
  <2>6. SeatsOf(specs', s) = 1 /\ SeatsOf(specs', d) > 0
    BY <1>5, <2>2, <2>4, <2>5
  <2>7. t # s /\ t # d
    BY <2>6
  <2>8. SeatsOf(specs, t) = 0 /\ k # place
    BY <2>4, <2>7
  <2>9. Donors(t) = {}
    BY <2>8, <1>3
  <2>10. ASSUME NEW j \in Donors(t)'
         PROVE  FALSE
    <3> DEFINE u == specs'[j][2]
    <3>1. j \in DOMAIN specs /\ SeatsOf(specs', u) > 1 /\ CompatCount(specs'[j][1], t) > 0
      BY <2>4 DEF Donors, Suits
    <3>2. u # s
      BY <3>1, <2>6
    <3>3. u = specs[j][2] /\ specs'[j][1] = specs[j][1]
      BY <3>1, <3>2, <2>4
    <3>4. SeatsOf(specs, u) > 1
      BY <3>1, <3>2, <2>4, <2>5
    <3>5. j \in Donors(t)
      BY <3>1, <3>3, <3>4 DEF Donors, Suits
    <3> QED
      BY <3>5, <2>9
  <2> QED
    BY <2>10
<1>6. \/ specs' = specs /\ (SeatsOf(specs, s) > 0 \/ Donors(s) = {})
      \/ SeatsOf(specs, s) = 0 /\ Donors(s) # {} /\ specs' = Moved(Donor(s), s)
  <2>1. SeatsOf(specs, s) \in Nat
    BY <1>1, SeatsAre
  <2>2. specs' = IF SeatsOf(specs, s) > 0 \/ Donors(s) = {} THEN specs ELSE Moved(Donor(s), s)
    BY DEF Cover
  <2> QED
    BY <2>1, <2>2
<1> QED
  BY <1>4, <1>5, <1>6

\* The rows that a covering step leaves.
LEMMA CoverRows ==
  ASSUME DealInv, Cover
  PROVE  /\ specs' \in Seq(Pairs) /\ Len(specs') = size
         /\ \A i \in DOMAIN specs' : CompatCount(specs'[i][1], specs'[i][2]) > 0
         /\ \A b \in DOMAIN Bands : Cardinality({i \in DOMAIN specs' : specs'[i][1] = b}) = seats[b]
<1> DEFINE s == Sectors[place]
<1>1. /\ place \in DOMAIN Sectors /\ specs \in Seq(Pairs) /\ stage = "cover"
      /\ Len(specs) = size
      /\ \A i \in DOMAIN specs : CompatCount(specs[i][1], specs[i][2]) > 0
      /\ \A b \in DOMAIN Bands : Cardinality({i \in DOMAIN specs : specs[i][1] = b}) = seats[b]
  BY DEF DealInv, PlanShape, PlanRows, Cover
<1>2. s \in Range(Sectors)
  BY <1>1, CatalogFacts
<1>3. CASE specs' = specs
  BY <1>1, <1>3
<1>4. CASE specs' # specs
  <2>1. ~(SeatsOf(specs, s) > 0) /\ Donors(s) # {} /\ specs' = Moved(Donor(s), s)
    BY <1>4 DEF Cover
  <2> DEFINE i == Donor(s)
  <2>2. i \in Donors(s)
    BY <1>1, <2>1, DonorIs
  <2>3. i \in DOMAIN specs /\ SeatsOf(specs, specs[i][2]) > 1 /\ Suits(i, s)
    BY <2>2 DEF Donors
  <2>4. SeatsOf(specs, s) \in Nat /\ SeatsOf(specs, specs[i][2]) \in Nat
    BY <1>1, SeatsAre
  <2>5. specs[i][2] # s
    BY <2>1, <2>3, <2>4
  <2>6. specs' = Moved(i, s)
    BY <2>1
  <2> HIDE DEF i, s
  <2>7. specs' \in Seq(Pairs) /\ Len(specs') = Len(specs)
    BY <1>1, <1>2, <2>3, <2>5, <2>6, MoveIs
  <2>8. /\ \A j \in DOMAIN specs' : CompatCount(specs'[j][1], specs'[j][2]) > 0
        /\ \A b : {j \in DOMAIN specs' : specs'[j][1] = b} = {j \in DOMAIN specs : specs[j][1] = b}
    BY <1>1, <1>2, <2>3, <2>5, <2>6, MoveKeepsBands
  <2> QED
    BY <1>1, <2>7, <2>8
<1> QED
  BY <1>3, <1>4

LEMMA CoverKeeps ==
  ASSUME DealInv, Cover
  PROVE  DealInv'
<1>1. /\ place \in DOMAIN Sectors /\ stage = "cover" /\ seats \in [DOMAIN Bands -> Nat]
      /\ Dealt(seats) = size /\ turns = 0 /\ size \in Counts /\ pull \in Pulls
      /\ history \subseteq Cards /\ filled \subseteq Range(Sectors)
      /\ UNCHANGED <<size, history, pull, seats, turns>>
      /\ Onward(Len(Sectors), "balance")
      /\ filled' = IF place < Len(Sectors) THEN filled
                   ELSE {t \in Range(Sectors) : SeatsOf(specs', t) > 0}
  BY DEF DealInv, PlanShape, Cover
<1>2. Len(Sectors) \in Nat \ {0} /\ DOMAIN Sectors = 1..Len(Sectors)
      /\ Range(Sectors) = {Sectors[k] : k \in DOMAIN Sectors}
  BY CatalogFacts
<1>3. /\ specs' \in Seq(Pairs) /\ Len(specs') = size
      /\ \A i \in DOMAIN specs' : CompatCount(specs'[i][1], specs'[i][2]) > 0
      /\ \A b \in DOMAIN Bands : Cardinality({i \in DOMAIN specs' : specs'[i][1] = b}) = seats[b]
  BY CoverRows
<1>4. \A k \in DOMAIN Sectors :
        k <= place /\ SeatsOf(specs', Sectors[k]) = 0 => Donors(Sectors[k])' = {}
  BY CoverSettles
<1>5. \A t : SeatsOf(specs', t) \in Nat
  BY <1>3, SeatsAre
<1>6. CASE place < Len(Sectors)
  <2>1. stage' = "cover" /\ place' = place + 1 /\ place' \in DOMAIN Sectors /\ place' \in Nat \ {0}
    BY <1>1, <1>2, <1>6 DEF Onward
  <2>2. PlanShape'
    BY <1>1, <1>3, <1>6, <2>1 DEF PlanShape, Pulls
  <2>3. PlanRows'
    BY <1>1, <1>3, <2>1 DEF PlanRows
  <2>4. PlanCovers'
    <3>1. \A k \in DOMAIN Sectors : k < place + 1 => k <= place
      BY <1>1, <1>2
    <3> QED
      BY <3>1, <2>1, <1>4 DEF PlanCovers
  <2>5. PlanBalances'
    BY <2>1 DEF PlanBalances
  <2> QED
    BY <2>2, <2>3, <2>4, <2>5 DEF DealInv
<1>7. CASE ~(place < Len(Sectors))
  <2>1. stage' = "balance" /\ place' = 1
    BY <1>7, <1>1 DEF Onward
  <2>2. filled' = {t \in Range(Sectors) : SeatsOf(specs', t) > 0}
    BY <1>7, <1>1
  <2>3. PlanShape'
    BY <1>1, <1>3, <2>1, <2>2 DEF PlanShape, Pulls
  <2>4. PlanRows'
    BY <1>1, <1>3, <2>1 DEF PlanRows
  <2>5. PlanCovers'
    BY <2>1 DEF PlanCovers
  <2>6. ASSUME NEW t \in Range(Sectors) \ filled'
        PROVE  Donors(t)' = {}
    <3>1. SeatsOf(specs', t) = 0
      BY <2>2, <1>5
    <3>2. PICK k \in DOMAIN Sectors : t = Sectors[k]
      BY <1>2
    <3>3. k <= place
      BY <1>1, <1>2, <1>7
    <3> QED
      BY <3>1, <3>2, <3>3, <1>4
  <2>7. ASSUME NEW t \in Range(Sectors) \ filled', NEW i \in DOMAIN specs', Suits(i, t)'
        PROVE  ~Crowded(i)'
    <3>1. i \notin Donors(t)'
      BY <2>6
    <3>2. ~(SeatsOf(specs', specs'[i][2]) > 1)
      BY <3>1, <2>7 DEF Donors
    <3>3. SectorLimit' = SectorLimit /\ SectorLimit \in Nat /\ SectorLimit >= 1
      BY <1>1, LimitIs DEF SectorLimit
    <3> QED
      BY <3>2, <3>3, <1>5 DEF Crowded
  <2>8. Moves({})'
    BY <1>1, FS_EmptySet DEF Moves
  <2>9. PlanBalances'
    BY <2>2, <2>6, <2>7, <2>8 DEF PlanBalances
  <2> QED
    BY <2>3, <2>4, <2>5, <2>9 DEF DealInv
<1> QED
  BY <1>6, <1>7

\* What a turn of the balancing does: the row leaves a crowded sector for one with room.
LEMMA TurnIs ==
  ASSUME DealInv, Balance
  PROVE  \E i \in DOMAIN specs : \E s \in Range(Sectors) :
           /\ Crowded(i) /\ Suits(i, s) /\ SeatsOf(specs, s) < SectorLimit
           /\ specs[i][2] # s /\ specs' = Moved(i, s)
<1> DEFINE i == Min(Movable)
           k == Min(Room(i))
<1>1. specs \in Seq(Pairs) /\ size \in Counts /\ Movable # {}
  BY DEF DealInv, PlanShape, Balance
<1>2. Movable \in SUBSET Nat /\ Movable \subseteq DOMAIN specs
  BY <1>1 DEF Movable
<1>3. i \in Movable
  BY <1>1, <1>2, FirstOf
<1>4. Crowded(i) /\ Room(i) # {} /\ i \in DOMAIN specs
  BY <1>3 DEF Movable
<1>5. Room(i) \in SUBSET Nat
  BY CatalogFacts DEF Room
<1> HIDE DEF i
<1>6. k \in Room(i)
  BY <1>4, <1>5, FirstOf
<1> HIDE DEF k
<1>7. k \in DOMAIN Sectors /\ Suits(i, Sectors[k]) /\ SeatsOf(specs, Sectors[k]) < SectorLimit
  BY <1>6 DEF Room
<1>8. Sectors[k] \in Range(Sectors)
  BY <1>7, CatalogFacts
<1>9. specs[i][2] # Sectors[k]
  <2>1. SeatsOf(specs, Sectors[k]) \in Nat /\ SectorLimit \in Nat
    BY <1>1, SeatsAre, LimitIs
  <2> QED
    BY <2>1, <1>4, <1>7 DEF Crowded
<1>10. specs' = Moved(i, Sectors[k])
  BY DEF Balance, i, k
<1> QED
  BY <1>4, <1>7, <1>8, <1>9, <1>10

LEMMA BalanceKeeps ==
  ASSUME DealInv, Balance
  PROVE  DealInv'
<1>1. /\ specs \in Seq(Pairs) /\ seats \in [DOMAIN Bands -> Nat] /\ stage = "balance"
      /\ Dealt(seats) = size /\ size \in Counts /\ pull \in Pulls /\ history \subseteq Cards
      /\ filled \subseteq Range(Sectors) /\ turns \in Nat /\ place \in Nat \ {0}
      /\ Len(specs) = size
      /\ \A i \in DOMAIN specs : CompatCount(specs[i][1], specs[i][2]) > 0
      /\ \A b \in DOMAIN Bands : Cardinality({i \in DOMAIN specs : specs[i][1] = b}) = seats[b]
  BY DEF DealInv, PlanShape, PlanRows, Balance
<1>2. /\ UNCHANGED <<stage, size, history, pull, seats, place, filled>> /\ turns' = turns + 1
  BY DEF Balance
<1>3. PICK i \in DOMAIN specs : \E s \in Range(Sectors) :
           /\ Crowded(i) /\ Suits(i, s) /\ SeatsOf(specs, s) < SectorLimit
           /\ specs[i][2] # s /\ specs' = Moved(i, s)
  BY TurnIs
<1>4. PICK s \in Range(Sectors) :
           /\ Crowded(i) /\ Suits(i, s) /\ SeatsOf(specs, s) < SectorLimit
           /\ specs[i][2] # s /\ specs' = Moved(i, s)
  BY <1>3
<1> DEFINE d == specs[i][2]
<1>5. /\ specs' \in Seq(Pairs) /\ Len(specs') = Len(specs) /\ DOMAIN specs' = DOMAIN specs
      /\ \A j \in DOMAIN specs :
           /\ specs'[j][1] = specs[j][1]
           /\ specs'[j][2] = IF j = i THEN s ELSE specs[j][2]
      /\ SeatsOf(specs', s) = SeatsOf(specs, s) + 1
      /\ SeatsOf(specs', d) = SeatsOf(specs, d) - 1
      /\ \A u : u # s /\ u # d => SeatsOf(specs', u) = SeatsOf(specs, u)
  BY <1>1, <1>4, MoveIs
<1>6. /\ \A j \in DOMAIN specs' : CompatCount(specs'[j][1], specs'[j][2]) > 0
      /\ \A b : {j \in DOMAIN specs' : specs'[j][1] = b} = {j \in DOMAIN specs : specs[j][1] = b}
  <2>1. ASSUME NEW j \in DOMAIN specs'
        PROVE  CompatCount(specs'[j][1], specs'[j][2]) > 0
    <3>1. j \in DOMAIN specs /\ CompatCount(specs[j][1], specs[j][2]) > 0
      BY <1>1, <1>5
    <3>2. CompatCount(specs[i][1], s) > 0
      BY <1>4 DEF Suits
    <3> QED
      BY ONLY <3>1, <3>2, <1>5
  <2>2. ASSUME NEW b
        PROVE  {j \in DOMAIN specs' : specs'[j][1] = b} = {j \in DOMAIN specs : specs[j][1] = b}
    BY ONLY <1>5
  <2> QED
    BY ONLY <2>1, <2>2
<1>7. \A u : SeatsOf(specs, u) \in Nat
  BY <1>1, SeatsAre
<1>8. SectorLimit \in Nat /\ SectorLimit >= 1 /\ SectorLimit' = SectorLimit
  BY <1>1, <1>2, LimitIs DEF SectorLimit
<1>9. SeatsOf(specs, d) > SectorLimit /\ SeatsOf(specs', d) > 0 /\ SeatsOf(specs', s) > 0
        /\ SeatsOf(specs', s) <= SectorLimit
  BY <1>4, <1>5, <1>7, <1>8 DEF Crowded
<1>10. ASSUME NEW j \in DOMAIN specs, ~Crowded(j)
       PROVE  ~Crowded(j)'
  <2>1. specs[j][2] # d /\ j # i
    BY <1>4, <1>10 DEF Crowded
  <2>2. specs'[j][2] = specs[j][2]
    BY <2>1, <1>5
  <2>3. CASE specs[j][2] = s
    BY <2>2, <2>3, <1>5, <1>7, <1>8, <1>9 DEF Crowded
  <2>4. CASE specs[j][2] # s
    BY <2>1, <2>2, <2>4, <1>5, <1>8, <1>10 DEF Crowded
  <2> QED
    BY <2>3, <2>4
<1>11. ~Crowded(i)'
  BY <1>5, <1>7, <1>8, <1>9 DEF Crowded
<1>12. PlanShape'
  BY <1>1, <1>2, <1>5 DEF PlanShape, Pulls
<1>13. PlanRows'
  BY <1>1, <1>2, <1>5, <1>6 DEF PlanRows
<1>14. PlanCovers'
  BY <1>1, <1>2 DEF PlanCovers
<1>15. /\ filled = {t \in Range(Sectors) : SeatsOf(specs, t) > 0}
       /\ \A t \in Range(Sectors) \ filled : \A j \in DOMAIN specs : Suits(j, t) => ~Crowded(j)
  BY <1>1 DEF DealInv, PlanBalances
<1>16. PICK M \in SUBSET DOMAIN specs : Moves(M)
  BY <1>1 DEF DealInv, PlanBalances
<1>17. SeatsOf(specs, s) > 0 /\ SeatsOf(specs, d) > 0
  <2>1. s \in filled
    BY <1>4, <1>15
  <2> QED
    BY <2>1, <1>7, <1>8, <1>9, <1>15
<1>18. filled' = {t \in Range(Sectors) : SeatsOf(specs', t) > 0}
  <2>1. \A t : SeatsOf(specs', t) > 0 <=> SeatsOf(specs, t) > 0
    BY <1>5, <1>9, <1>17
  <2> QED
    BY <2>1, <1>2, <1>15
<1>19. ASSUME NEW t \in Range(Sectors) \ filled', NEW j \in DOMAIN specs', Suits(j, t)'
       PROVE  ~Crowded(j)'
  <2>1. j \in DOMAIN specs /\ Suits(j, t)
    BY <1>5, <1>19 DEF Suits
  <2> QED
    BY <2>1, <1>2, <1>10, <1>15
<1>20. Moves(M \cup {i})'
  <2>1. i \notin M /\ \A j \in M : ~Crowded(j)
    BY <1>4, <1>16 DEF Moves
  <2>2. \A j \in M \cup {i} : ~Crowded(j)'
    BY <2>1, <1>10, <1>11, <1>16
  <2>3. IsFiniteSet(M)
    <3>1. Len(specs) \in Int /\ DOMAIN specs = 1..Len(specs)
      BY <1>1
    <3>2. IsFiniteSet(DOMAIN specs)
      BY <3>1, FS_Interval
    <3> QED
      BY <3>2, FS_Subset
  <2>4. Cardinality(M \cup {i}) = turns'
    BY <2>1, <2>3, <1>2, <1>16, FS_AddElement DEF Moves
  <2>5. M \cup {i} \in SUBSET DOMAIN specs'
    BY <1>5, <1>16
  <2> QED
    BY <2>2, <2>4, <2>5 DEF Moves
<1>21. turns' # 0
  BY <1>1, <1>2
<1>22. PlanBalances'
  BY <1>5, <1>16, <1>18, <1>19, <1>20, <1>21 DEF PlanBalances
<1> QED
  BY <1>12, <1>13, <1>14, <1>22 DEF DealInv

\* The other steps leave the rows alone, or take a new plan's place.
LEMMA BalancedKeeps ==
  ASSUME DealInv, Balanced
  PROVE  DealInv'
<1>1. stage = "balance" /\ stage' = "rows"
      /\ UNCHANGED <<size, history, pull, seats, place, specs, filled, turns>>
  BY DEF Balanced, dealVars
<1>2. PlanShape'
  BY <1>1 DEF DealInv, PlanShape, Pulls
<1>3. PlanRows' /\ PlanCovers'
  BY <1>1 DEF DealInv, PlanRows, PlanCovers
<1>4. PlanBalances'
  BY <1>1 DEF DealInv, PlanBalances, Donors, Suits, Crowded, SectorLimit, Moves
<1> QED
  BY <1>2, <1>3, <1>4 DEF DealInv

LEMMA DealStays ==
  ASSUME DealInv, UNCHANGED <<stage, size, history, pull, dealVars>>
  PROVE  DealInv'
<1>1. UNCHANGED <<stage, size, history, pull, seats, place, specs, filled, turns>>
  BY DEF dealVars
<1>2. PlanShape'
  BY <1>1 DEF DealInv, PlanShape, Pulls
<1>3. PlanRows'
  BY <1>1 DEF DealInv, PlanRows
<1>4. PlanCovers' /\ PlanBalances'
  BY <1>1 DEF DealInv, PlanCovers, PlanBalances, Donors, Suits, Crowded, SectorLimit, Moves
<1> QED
  BY <1>2, <1>3, <1>4 DEF DealInv

LEMMA PlanReturned ==
  ASSUME DealInv, PlanNudges
  PROVE  DealInv'
<1>1. /\ stage' = "nudging" /\ UNCHANGED <<size, history, pull>>
      /\ place' = 1 /\ specs' = << >> /\ filled' = {} /\ turns' = 0
  BY DEF PlanNudges
<1>2. specs' \in Seq(Pairs)
  BY <1>1
<1>3. PlanShape'
  BY <1>1, <1>2 DEF DealInv, PlanShape, Pulls
<1>4. PlanRows' /\ PlanCovers' /\ PlanBalances'
  BY <1>1 DEF PlanRows, PlanCovers, PlanBalances
<1> QED
  BY <1>3, <1>4 DEF DealInv

-----------------------------------------------------------------------------
(* The matrix: cards *)

\* What a sector's bag holds when it is filled: a card that is missing was used, and
\* one that was used is there only after all of the sector.
LEMMA FilledIs ==
  ASSUME CardsCounted, NEW s \in Range(Sectors)
  PROVE  /\ Filled(s) \subseteq SectorCards(s)
         /\ \A d \in SectorCards(s) \ Filled(s) : uses[d] > 0
         /\ \A d \in Filled(s) : uses[d] > 0 => \A e \in SectorCards(s) : uses[e] > 0
<1>1. CASE bag[s] = {}
  <2>1. Filled(s) = SectorCards(s)
    BY <1>1 DEF Filled
  <2>2. \A d \in SectorCards(s) : uses[d] > 0
    BY <1>1 DEF CardsCounted
  <2> QED
    BY <2>1, <2>2
<1>2. CASE bag[s] # {}
  BY <1>2 DEF Filled, CardsCounted
<1> QED
  BY <1>1, <1>2

\* The card drawn is of the sector and suits the band; when it was used, every card
\* that suits was, and when it is of the history, every fresh one that suits was.
LEMMA DrawableIs ==
  ASSUME CardsCounted, NEW s \in Range(Sectors), NEW b, CompatCount(b, s) > 0,
         NEW c \in Drawable(s, b)
  PROVE  /\ c \in SectorCards(s) /\ Compatible(c, b)
         /\ c \in Filled(s) => c \in InBag(Filled(s), b)
         /\ \A d \in SectorCards(s) :
              Compatible(d, b) /\ (uses[c] > 0 \/ (c \in history /\ d \notin history)) => uses[d] > 0
<1> DEFINE F == Filled(s)
           fit == {d \in SectorCards(s) : Compatible(d, b)}
           left == {d \in F : Compatible(d, b)}
<1>1. /\ F \subseteq SectorCards(s)
      /\ \A d \in SectorCards(s) \ F : uses[d] > 0
      /\ \A d \in F : uses[d] > 0 => \A e \in SectorCards(s) : uses[e] > 0
  BY FilledIs
<1> HIDE DEF F
<1>2. fit # {}
  BY FS_EmptySet DEF CompatCount
<1>3. InBag(F, b) = IF left \ history # {} THEN left \ history ELSE left
  BY DEF InBag
<1>4. CASE InBag(F, b) # {}
  <2>1. c \in InBag(F, b)
    BY <1>4 DEF Drawable, F
  <2>2. c \in left
    BY <2>1, <1>3
  <2>3. c \in history => left \ history = {}
    BY <2>1, <1>3
  <2> QED
    BY <2>1, <2>2, <2>3, <1>1 DEF F
<1>5. CASE InBag(F, b) = {}
  <2>1. left = {}
    BY <1>3, <1>5
  <2>2. c \in LeastUsed(s, b)
    BY <1>5 DEF Drawable, F
  <2>3. c \in fit
    BY <2>2, <1>2 DEF LeastUsed
  <2>4. \A d \in fit : uses[d] > 0
    BY <2>1, <1>1
  <2> QED
    BY <2>1, <2>3, <2>4 DEF F
<1> QED
  BY <1>4, <1>5

\* The ages a row may get are within its band, its card, its context and its level.
LEMMA AgesAre ==
  ASSUME NEW c \in Cards, NEW b \in DOMAIN Bands, NEW x \in ContextsOf(c, b),
         NEW l \in LevelsOf(c, b, x), NEW age \in Ages(c, b, x, l)
  PROVE  /\ age >= Bands[b].low /\ age <= Bands[b].high
         /\ age >= Card[c].min /\ age <= Card[c].max
         /\ x \in Card[c].contexts /\ l \in Card[c].levels
         /\ age >= Contexts[x].min /\ age <= Contexts[x].max /\ age >= Levels[l]
         /\ x = Student <=> l = Student
<1>1. x \in Card[c].contexts /\ l \in Card[c].levels /\ (l = Student <=> x = Student)
  BY DEF ContextsOf, LevelsOf
<1>2. /\ Card[c].min \in Int /\ Card[c].max \in Int
      /\ Contexts[x].min \in Int /\ Contexts[x].max \in Int /\ Levels[l] \in Int
  BY <1>1, MatrixAssumption
<1>3. Bands[b].low \in Int /\ Bands[b].high \in Int
  <2>1. Bands \in Seq([low : Int, high : Int])
    BY MatrixAssumption
  <2> DEFINE R == [low : Int, high : Int]
  <2> HIDE DEF R
  <2>2. Bands \in Seq(R)
    BY <2>1 DEF R
  <2>3. Bands[b] \in R
    BY <2>2
  <2> QED
    BY <2>3 DEF R
<1> DEFINE low == Low(c, b, x)
           high == High(c, b, x)
<1>4. /\ low \in Int /\ low >= Bands[b].low /\ low >= Card[c].min /\ low >= Contexts[x].min
      /\ high \in Int /\ high <= Bands[b].high /\ high <= Card[c].max /\ high <= Contexts[x].max
  <2>1. /\ low \in Int /\ low >= Bands[b].low /\ low >= Card[c].min /\ low >= Contexts[x].min
    BY ONLY <1>2, <1>3, OfThreeNumbers DEF Low
  <2>2. high \in Int /\ high <= Bands[b].high /\ high <= Card[c].max /\ high <= Contexts[x].max
    BY ONLY <1>2, <1>3, OfThreeNumbers DEF High
  <2> QED
    BY <2>1, <2>2
<1> HIDE DEF low, high
<1>5. /\ Max({low, Levels[l]}) \in Int
      /\ Max({low, Levels[l]}) >= low /\ Max({low, Levels[l]}) >= Levels[l]
  BY ONLY <1>2, <1>4, OfTwoNumbers
<1>6. age \in Max({low, Levels[l]})..high
  BY DEF Ages, low, high
<1>7. age \in Int /\ age >= low /\ age >= Levels[l] /\ age <= high
  BY <1>4, <1>5, <1>6, <1>2
<1> QED
  BY <1>1, <1>2, <1>3, <1>4, <1>7

\* What a drawn row is.
LEMMA DrawnRowIs ==
  ASSUME DealInv, CardsCounted, DrawRow
  PROVE  \E b \in DOMAIN Bands : \E s \in Range(Sectors) : \E c \in Drawable(s, b) :
           /\ CompatCount(b, s) > 0
           /\ bag' = [bag EXCEPT ![s] = Filled(s) \ ({c} \cap InBag(Filled(s), b))]
           /\ uses' = [uses EXCEPT ![c] = @ + 1]
           /\ \E x \in ContextsOf(c, b) : \E l \in LevelsOf(c, b, x) :
               \E age \in Ages(c, b, x, l) :
                 latest' = [band |-> b, sector |-> s, card |-> c, context |-> x,
                            level |-> l, age |-> age]
<1> DEFINE i == drawn + 1
<1>1. stage = "rows" /\ drawn < Len(specs) /\ specs \in Seq(Pairs) /\ drawn \in 0..Len(specs)
      /\ \A j \in DOMAIN specs : CompatCount(specs[j][1], specs[j][2]) > 0
  BY DEF DealInv, PlanShape, PlanRows, CardsCounted, DrawRow
<1>2. i \in DOMAIN specs
  BY <1>1
<1>3. specs[i] \in Pairs
  BY <1>1, <1>2
<1>4. specs[i][1] \in DOMAIN Bands /\ specs[i][2] \in Range(Sectors)
  BY <1>3, PairIs
<1>5. CompatCount(specs[i][1], specs[i][2]) > 0
  BY <1>1, <1>2
<1> QED
  BY <1>4, <1>5 DEF DrawRow

\* The bags after a row was drawn.
LEMMA DrawCounts ==
  ASSUME DealInv, CardsCounted, DrawRow
  PROVE  CardsCounted'
<1>1. PICK b \in DOMAIN Bands : \E s \in Range(Sectors) : \E c \in Drawable(s, b) :
           /\ CompatCount(b, s) > 0
           /\ bag' = [bag EXCEPT ![s] = Filled(s) \ ({c} \cap InBag(Filled(s), b))]
           /\ uses' = [uses EXCEPT ![c] = @ + 1]
  BY DrawnRowIs
<1>2. PICK s \in Range(Sectors) : \E c \in Drawable(s, b) :
           /\ CompatCount(b, s) > 0
           /\ bag' = [bag EXCEPT ![s] = Filled(s) \ ({c} \cap InBag(Filled(s), b))]
           /\ uses' = [uses EXCEPT ![c] = @ + 1]
  BY <1>1
<1>3. PICK c \in Drawable(s, b) :
           /\ CompatCount(b, s) > 0
           /\ bag' = [bag EXCEPT ![s] = Filled(s) \ ({c} \cap InBag(Filled(s), b))]
           /\ uses' = [uses EXCEPT ![c] = @ + 1]
  BY <1>2
<1> DEFINE F == Filled(s)
           I == InBag(F, b)
<1>4. /\ c \in SectorCards(s) /\ (c \in F => c \in I)
  BY <1>3, DrawableIs
<1>5. /\ F \subseteq SectorCards(s)
      /\ \A d \in SectorCards(s) \ F : uses[d] > 0
      /\ \A d \in F : uses[d] > 0 => \A e \in SectorCards(s) : uses[e] > 0
  BY FilledIs
<1>6. bag \in [Range(Sectors) -> SUBSET Cards] /\ uses \in [Cards -> Nat]
      /\ drawn \in 0..Len(specs)
  BY DEF CardsCounted
<1>7. c \in Cards /\ \A t : SectorCards(t) \subseteq Cards
  BY <1>4 DEF SectorCards
<1>8. bag' = [bag EXCEPT ![s] = F \ ({c} \cap I)] /\ uses' = [uses EXCEPT ![c] = @ + 1]
  BY <1>3
<1> HIDE DEF F, I
<1>9. uses' \in [Cards -> Nat] /\ uses'[c] > 0
      /\ \A d \in Cards : (uses[d] > 0 => uses'[d] > 0) /\ (d # c => uses'[d] = uses[d])
  BY <1>6, <1>7, <1>8
<1>10. bag'[s] = F \ {c} /\ \A t \in Range(Sectors) : t # s => bag'[t] = bag[t]
  BY <1>4, <1>6, <1>8
<1>11. bag' \in [Range(Sectors) -> SUBSET Cards]
  <2>1. F \ ({c} \cap I) \in SUBSET Cards
    BY <1>5, <1>7
  <2> QED
    BY <2>1, <1>6, <1>8
<1>12. drawn' \in 0..Len(specs')
  <2>1. drawn' = drawn + 1 /\ drawn < Len(specs) /\ specs' = specs
    BY DEF DrawRow, dealVars
  <2>2. Len(specs) \in Nat
    BY DEF DealInv, PlanShape
  <2> QED
    BY <2>1, <2>2, <1>6
<1>13. /\ bag'[s] \subseteq SectorCards(s)
       /\ \A d \in SectorCards(s) \ bag'[s] : uses'[d] > 0
       /\ \A d \in bag'[s] : uses'[d] > 0 => \A e \in SectorCards(s) : uses'[e] > 0
  <2>1. ASSUME NEW d \in SectorCards(s) \ bag'[s]
        PROVE  uses'[d] > 0
    <3>1. d = c \/ d \in SectorCards(s) \ F
      BY <2>1, <1>10
    <3> QED
      BY <3>1, <1>5, <1>7, <1>9
  <2>2. ASSUME NEW d \in bag'[s], uses'[d] > 0, NEW e \in SectorCards(s)
        PROVE  uses'[e] > 0
    <3>1. d \in F /\ d # c /\ d \in Cards /\ e \in Cards
      BY <1>5, <1>7, <1>10, <2>2
    <3>2. uses[d] > 0
      BY <3>1, <2>2, <1>9
    <3> QED
      BY <3>1, <3>2, <1>5, <1>9
  <2> QED
    BY <2>1, <2>2, <1>5, <1>10
<1>14. ASSUME NEW t \in Range(Sectors), t # s
       PROVE  /\ bag'[t] \subseteq SectorCards(t)
              /\ \A d \in SectorCards(t) \ bag'[t] : uses'[d] > 0
              /\ \A d \in bag'[t] : uses'[d] > 0 => \A e \in SectorCards(t) : uses'[e] > 0
  <2>1. bag'[t] = bag[t] /\ bag[t] \subseteq SectorCards(t)
    BY <1>10, <1>14 DEF CardsCounted
  <2>2. c \notin SectorCards(t)
    BY <1>4, <1>14 DEF SectorCards
  <2>3. \A d \in SectorCards(t) : uses'[d] = uses[d]
    BY <2>2, <1>7, <1>9
  <2> QED
    BY <2>1, <2>3 DEF CardsCounted
<1> QED
  BY <1>9, <1>11, <1>12, <1>13, <1>14 DEF CardsCounted

\* The row itself.
LEMMA DrawIsSound ==
  ASSUME DealInv, CardsCounted, DrawRow
  PROVE  RowValid' /\ RepeatsLast'
<1>1. PICK b \in DOMAIN Bands : \E s \in Range(Sectors) : \E c \in Drawable(s, b) :
           /\ CompatCount(b, s) > 0
           /\ \E x \in ContextsOf(c, b) : \E l \in LevelsOf(c, b, x) :
               \E age \in Ages(c, b, x, l) :
                 latest' = [band |-> b, sector |-> s, card |-> c, context |-> x,
                            level |-> l, age |-> age]
  BY DrawnRowIs
<1>2. PICK s \in Range(Sectors) : \E c \in Drawable(s, b) :
           /\ CompatCount(b, s) > 0
           /\ \E x \in ContextsOf(c, b) : \E l \in LevelsOf(c, b, x) :
               \E age \in Ages(c, b, x, l) :
                 latest' = [band |-> b, sector |-> s, card |-> c, context |-> x,
                            level |-> l, age |-> age]
  BY <1>1
<1>3. PICK c \in Drawable(s, b) :
           /\ CompatCount(b, s) > 0
           /\ \E x \in ContextsOf(c, b) : \E l \in LevelsOf(c, b, x) :
               \E age \in Ages(c, b, x, l) :
                 latest' = [band |-> b, sector |-> s, card |-> c, context |-> x,
                            level |-> l, age |-> age]
  BY <1>2
<1>4. PICK x \in ContextsOf(c, b) : \E l \in LevelsOf(c, b, x) : \E age \in Ages(c, b, x, l) :
           latest' = [band |-> b, sector |-> s, card |-> c, context |-> x, level |-> l, age |-> age]
  BY <1>3
<1>5. PICK l \in LevelsOf(c, b, x) : \E age \in Ages(c, b, x, l) :
           latest' = [band |-> b, sector |-> s, card |-> c, context |-> x, level |-> l, age |-> age]
  BY <1>4
<1>6. PICK age \in Ages(c, b, x, l) :
           latest' = [band |-> b, sector |-> s, card |-> c, context |-> x, level |-> l, age |-> age]
  BY <1>5
<1>7. /\ latest'.band = b /\ latest'.sector = s /\ latest'.card = c /\ latest'.context = x
      /\ latest'.level = l /\ latest'.age = age
  BY <1>6
<1>8. /\ c \in SectorCards(s)
      /\ \A d \in SectorCards(s) :
           Compatible(d, b) /\ (uses[c] > 0 \/ (c \in history /\ d \notin history)) => uses[d] > 0
  BY <1>3, DrawableIs
<1>9. c \in Cards /\ Card[c].sector = s
  BY <1>8 DEF SectorCards
<1>10. /\ age >= Bands[b].low /\ age <= Bands[b].high
       /\ age >= Card[c].min /\ age <= Card[c].max
       /\ x \in Card[c].contexts /\ l \in Card[c].levels
       /\ age >= Contexts[x].min /\ age <= Contexts[x].max /\ age >= Levels[l]
       /\ x = Student <=> l = Student
  BY <1>9, AgesAre
<1>11. RowValid'
  BY <1>7, <1>9, <1>10 DEF RowValid
<1>12. before' = uses /\ history' = history
  BY DEF DrawRow
<1>13. RepeatsLast'
  <2> DEFINE fit == {d \in SectorCards(s) : Compatible(d, b)}
  <2>1. fit = {d \in SectorCards(latest'.sector) : Compatible(d, latest'.band)}
    BY <1>7
  <2>2. ASSUME uses[c] > 0, NEW d \in fit
        PROVE  uses[d] > 0
    <3>1. d \in SectorCards(s) /\ Compatible(d, b)
      OBVIOUS
    <3> QED
      BY ONLY <3>1, <2>2, <1>8
  <2>3. c \in history => \A d \in fit \ history : uses[d] > 0
    BY <1>8
  <2> HIDE DEF fit
  <2> QED
    BY <2>1, <2>2, <2>3, <1>7, <1>12 DEF RepeatsLast
<1> QED
  BY <1>11, <1>13

\* The other steps of the deal leave the cards alone, and take no row away.
LEMMA DrawStays ==
  ASSUME CardsCounted, RowValid, RepeatsLast, UNCHANGED <<history, drawVars>>,
         Len(specs) \in Nat, Len(specs') \in Nat, Len(specs') >= Len(specs)
  PROVE  CardsCounted' /\ RowValid' /\ RepeatsLast'
<1>1. UNCHANGED <<history, bag, uses, drawn, latest, before>>
  BY DEF drawVars
<1>2. drawn' \in 0..Len(specs')
  BY <1>1 DEF CardsCounted
<1>3. CardsCounted'
  BY <1>1, <1>2 DEF CardsCounted
<1>4. RowValid' /\ RepeatsLast'
  BY <1>1 DEF RowValid, RepeatsLast
<1> QED
  BY <1>3, <1>4

\* A plan that has no row yet has all its cards.
LEMMA DrawStarts ==
  ASSUME bag = [s \in Range(Sectors) |-> SectorCards(s)], uses = [c \in Cards |-> 0],
         drawn = 0, latest = NoLatest, specs = << >>
  PROVE  CardsCounted /\ RowValid /\ RepeatsLast
<1>1. \A s : SectorCards(s) \subseteq Cards
  BY DEF SectorCards
<1>2. bag \in [Range(Sectors) -> SUBSET Cards]
  BY <1>1
<1>3. uses \in [Cards -> Nat] /\ drawn \in 0..Len(specs)
  OBVIOUS
<1>4. \A s \in Range(Sectors) : \A c \in SectorCards(s) : ~(uses[c] > 0)
  BY <1>1
<1>5. CardsCounted
  BY <1>2, <1>3, <1>4 DEF CardsCounted
<1>6. RowValid /\ RepeatsLast
  BY DEF RowValid, RepeatsLast
<1> QED
  BY <1>5, <1>6

-----------------------------------------------------------------------------
(* The matrix: nudges and slots *)

LEMMA NudgeCounts ==
  ASSUME NudgesCounted, NudgesSpread, NEW f \in Forums, Nudge(f)
  PROVE  NudgesCounted' /\ NudgesSpread'
<1>1. /\ stage = "nudging" /\ Below(f) /\ steered' = [steered EXCEPT ![f] = @ + 1]
      /\ stage' = stage /\ size' = size /\ tally' = tally
  BY DEF Nudge
<1>2. tally \in [Forums -> Nat] /\ steered \in [Forums -> Nat]
  BY DEF NudgesCounted
<1>3. steered' \in [Forums -> Nat] /\ steered'[f] = steered[f] + 1
      /\ \A g \in Forums : g # f => steered'[g] = steered[g]
  BY <1>1, <1>2
<1>4. NudgesCounted'
  BY <1>1, <1>2, <1>3 DEF NudgesCounted
<1>5. FairTotal' = FairTotal
  BY <1>1 DEF FairTotal
<1>6. ASSUME NEW g \in Forums, steered'[g] > 0
      PROVE  (Planned(g)' - 1) * Cardinality(Forums) < FairTotal
  <2>1. CASE g = f
    <3>1. Planned(g)' - 1 = Planned(f)
      <4>1. tally[f] \in Nat /\ steered[f] \in Nat
        BY <1>2
      <4>2. Planned(g)' = tally[f] + (steered[f] + 1) /\ Planned(f) = tally[f] + steered[f]
        BY <2>1, <1>1, <1>3 DEF Planned
      <4> QED
        BY <4>1, <4>2
    <3> QED
      BY <3>1, <1>1 DEF Below
  <2>2. CASE g # f
    <3>1. Planned(g)' = Planned(g) /\ steered[g] > 0
      BY <2>2, <1>1, <1>3, <1>6 DEF Planned
    <3> QED
      BY <3>1 DEF NudgesSpread
  <2> QED
    BY <2>1, <2>2
<1>7. NudgesSpread'
  BY <1>5, <1>6 DEF NudgesSpread
<1> QED
  BY <1>4, <1>7

LEMMA NudgeStays ==
  ASSUME NudgesCounted, NudgesSpread, UNCHANGED <<size, steerVars>>,
         stage' # "nudging" => stage # "nudging"
  PROVE  NudgesCounted' /\ NudgesSpread'
<1>1. size' = size /\ tally' = tally /\ steered' = steered
  BY DEF steerVars
<1>2. NudgesCounted'
  BY <1>1 DEF NudgesCounted
<1>3. NudgesSpread'
  BY <1>1 DEF NudgesSpread, Planned, FairTotal
<1> QED
  BY <1>2, <1>3

LEMMA NudgeStarts ==
  ASSUME tally \in [Forums -> Nat], steered = [f \in Forums |-> 0]
  PROVE  NudgesCounted /\ NudgesSpread
<1>1. \A f \in Forums : steered[f] \in Nat /\ ~(steered[f] > 0)
  OBVIOUS
<1> QED
  BY <1>1 DEF NudgesCounted, NudgesSpread

\* A quotient grows with every divisor that is added.
LEMMA QuotientGrows ==
  ASSUME NEW d \in Nat \ {0}, NEW x \in Nat, NEW y \in Nat, y >= x + d
  PROVE  x \div d \in Nat /\ y \div d \in Nat /\ y \div d >= x \div d + 1
<1> DEFINE q == x \div d
           r == y \div d
<1>1. /\ q \in Nat /\ d * q <= x /\ x < d * q + d
      /\ r \in Nat /\ d * r <= y /\ y < d * r + d
  OBVIOUS
<1> HIDE DEF q, r
<1>2. d * q + d < d * r + d
  BY <1>1
<1>3. d * (q - r) < 0
  BY <1>1, <1>2
<1>4. ~(q >= r)
  BY <1>1, <1>3
<1> QED
  BY <1>1, <1>4 DEF q, r

\* Rounding up: as many whole parts as cover n.
LEMMA RoundedUp ==
  ASSUME NEW n \in Nat, NEW d \in Nat \ {0}
  PROVE  CeilDiv(n, d) \in Nat /\ (n > 0 => CeilDiv(n, d) >= 1)
<1>1. n + d - 1 \in Nat
  OBVIOUS
<1>2. (n + d - 1) \div d \in Nat
  BY <1>1
<1>3. n > 0 => (n + d - 1) \div d >= 0 \div d + 1
  BY <1>1, QuotientGrows
<1>4. 0 \div d = 0
  OBVIOUS
<1> QED
  BY <1>2, <1>3, <1>4 DEF CeilDiv

\* Whatever the size of the request, each troll batch has a slot of its own.
LEMMA SlotsOfAll ==
  ASSUME size \in Counts
  PROVE  SlotsDistinct
<1>1. SUFFICES ASSUME NEW trolls \in 1..size
               PROVE  Cardinality(TrollSlots(trolls)) = CeilDiv(trolls, BatchOf)
  BY DEF SlotsDistinct
<1>2. size \in Nat /\ BatchOf \in Nat \ {0}
  BY MatrixAssumption
<1>3. trolls \in Nat /\ trolls > 0 /\ size - trolls \in Nat
  BY <1>2
<1> DEFINE t == CeilDiv(trolls, BatchOf)
           u == CeilDiv(size - trolls, BatchOf)
           all == t + u
<1>4. t \in Nat /\ t >= 1 /\ u \in Nat
  BY <1>2, <1>3, RoundedUp
<1> DEFINE slot(k) == ((k + 1) * all) \div t - 1
           S == 0..t - 1
           T == {slot(k) : k \in S}
<1>5. TrollSlots(trolls) = T
  BY DEF TrollSlots
<1> HIDE DEF t, u
<1>6. \A k \in S : k \in Nat /\ (k + 1) * all \in Nat /\ slot(k) \in Int
  <2>1. SUFFICES ASSUME NEW k \in S
                 PROVE  k \in Nat /\ (k + 1) * all \in Nat /\ slot(k) \in Int
    OBVIOUS
  <2>2. k \in Nat /\ all \in Nat
    BY <1>4
  <2> HIDE DEF all
  <2>3. (k + 1) * all \in Nat
    BY <2>2
  <2>4. ((k + 1) * all) \div t \in Int
    BY <2>3, <1>4
  <2> QED
    BY <2>2, <2>3, <2>4
<1>7. ASSUME NEW k \in S, NEW m \in S, k < m
      PROVE  slot(k) < slot(m)
  <2>1. k \in Nat /\ m \in Nat /\ m >= k + 1 /\ all \in Nat /\ all >= t
    BY <1>4, <1>7
  <2> HIDE DEF all
  <2> DEFINE x == (k + 1) * all
             y == (m + 1) * all
  <2>2. x \in Nat /\ y \in Nat /\ y = x + (m - k) * all
    BY <2>1
  <2>3. (m - k) * all >= all
    <3>1. (m - k - 1) * all >= 0
      BY <2>1
    <3>2. (m - k) * all = (m - k - 1) * all + all
      BY <2>1
    <3> QED
      BY <3>1, <3>2, <2>1
  <2> DEFINE z == (m - k) * all
  <2>4. z \in Int /\ z >= all
    BY <2>1, <2>3
  <2> HIDE DEF x, y, z
  <2>5. y >= x + t
    BY <2>1, <2>2, <2>4, <1>4 DEF z
  <2>6. t \in Nat \ {0}
    BY <1>4
  <2>7. x \div t \in Nat /\ y \div t \in Nat /\ y \div t >= x \div t + 1
    BY ONLY <2>2, <2>5, <2>6, QuotientGrows
  <2>8. slot(k) = x \div t - 1 /\ slot(m) = y \div t - 1
    BY DEF x, y
  <2> QED
    BY <2>7, <2>8
<1>8. \A k \in S, m \in S : slot(k) = slot(m) => k = m
  <2>1. SUFFICES ASSUME NEW k \in S, NEW m \in S, k # m
                 PROVE  slot(k) # slot(m)
    OBVIOUS
  <2>2. k < m \/ m < k
    BY <1>6, <2>1
  <2>3. slot(k) \in Int /\ slot(m) \in Int /\ (slot(k) < slot(m) \/ slot(m) < slot(k))
    BY <1>6, <1>7, <2>2
  <2> HIDE DEF slot
  <2> QED
    BY <2>3
<1>9. IsFiniteSet(S) /\ Cardinality(S) = t
  <2>1. 0 \in Int /\ t - 1 \in Int /\ ~(0 > t - 1)
    BY <1>4
  <2> QED
    BY <2>1, <1>4, FS_Interval
<1> HIDE DEF S, slot
<1>10. ExistsBijection(S, T)
  <2> DEFINE g == [k \in S |-> slot(k)]
  <2>1. g \in [S -> T]
    OBVIOUS
  <2>2. g \in Injection(S, T)
    BY <2>1, <1>8 DEF Injection, IsInjective
  <2>3. g \in Surjection(S, T)
    BY <2>1 DEF Surjection
  <2> QED
    BY <2>2, <2>3 DEF Bijection, ExistsBijection
<1>11. Cardinality(T) = t
  BY ONLY <1>9, <1>10, FS_Bijection
<1> QED
  BY <1>5, <1>11 DEF t

-----------------------------------------------------------------------------
(* The matrix: every behaviour *)

LEMMA MatrixStarts ==
  ASSUME MatrixInit
  PROVE  MatrixInv
<1>1. /\ stage = "bands" /\ size \in Counts /\ history \subseteq Cards /\ pull \in Pulls
      /\ place = 1 /\ specs = << >> /\ filled = {} /\ turns = 0
      /\ bag = [s \in Range(Sectors) |-> SectorCards(s)] /\ uses = [c \in Cards |-> 0]
      /\ drawn = 0 /\ latest = NoLatest
      /\ tally = [f \in Forums |-> 0] /\ steered = [f \in Forums |-> 0]
  BY DEF MatrixInit
<1>2. PlanShape
  <2>1. specs \in Seq(Pairs) /\ place \in Nat \ {0} /\ turns \in Nat
    BY <1>1
  <2> QED
    BY <1>1, <2>1 DEF PlanShape
<1>3. DealInv
  BY <1>1, <1>2 DEF DealInv, PlanRows, PlanCovers, PlanBalances
<1>4. CardsCounted /\ RowValid /\ RepeatsLast
  BY ONLY <1>1, DrawStarts
<1>5. tally \in [Forums -> Nat]
  BY <1>1
<1>6. NudgesCounted /\ NudgesSpread
  BY ONLY <1>1, <1>5, NudgeStarts
<1> QED
  BY <1>3, <1>4, <1>6 DEF MatrixInv

\* A step of the deal: the cards and the nudges stay, and no row goes.
LEMMA DealStep ==
  ASSUME MatrixInv, DealInv', UNCHANGED <<size, history, drawVars, steerVars>>,
         Len(specs') >= Len(specs), stage' # "nudging" => stage # "nudging"
  PROVE  MatrixInv'
<1>1. CardsCounted /\ RowValid /\ RepeatsLast /\ NudgesCounted /\ NudgesSpread
  BY DEF MatrixInv
<1>2. specs \in Seq(Pairs) /\ specs' \in Seq(Pairs)
  BY DEF MatrixInv, DealInv, PlanShape
<1>3. Len(specs) \in Nat /\ Len(specs') \in Nat
  BY <1>2
<1>4. CardsCounted' /\ RowValid' /\ RepeatsLast'
  BY <1>1, <1>3, DrawStays
<1>5. NudgesCounted' /\ NudgesSpread'
  BY <1>1, NudgeStays
<1> QED
  BY <1>4, <1>5 DEF MatrixInv

\* The rows of one band only add to the plan.
LEMMA BandOnlyAdds ==
  ASSUME DealInv, SeatSectors
  PROVE  Len(specs') >= Len(specs)
<1>1. specs \in Seq(Pairs) /\ Len(specs) \in Nat /\ seats \in [DOMAIN Bands -> Nat]
      /\ place \in DOMAIN Bands
  BY DEF DealInv, PlanShape, SeatSectors
<1>2. CASE specs' = specs
  BY <1>1, <1>2
<1>3. CASE specs' # specs
  <2>1. \E a \in SectorQuotas(place) : \E row \in Shuffled(place, a) :
          specs' = specs \o [i \in 1..seats[place] |-> <<place, row[i]>>]
    BY <1>3 DEF SeatSectors
  <2>2. PICK a \in SectorQuotas(place) : \E row \in Shuffled(place, a) :
          specs' = specs \o [i \in 1..seats[place] |-> <<place, row[i]>>]
    BY <2>1
  <2>3. PICK row \in Shuffled(place, a) :
          specs' = specs \o [i \in 1..seats[place] |-> <<place, row[i]>>]
    BY <2>2
  <2> DEFINE n == seats[place]
             add == [i \in 1..n |-> <<place, row[i]>>]
  <2>4. n \in Nat /\ row \in [1..n -> Range(Sectors)]
    BY <1>1 DEF Shuffled
  <2>5. \A i \in 1..n : <<place, row[i]>> \in Pairs
    BY <1>1, <2>4, PairIs
  <2> HIDE DEF n
  <2>6. add \in [1..n -> Pairs]
    BY <2>5
  <2>7. specs' = specs \o add
    BY <2>3 DEF n
  <2> HIDE DEF add
  <2>8. add \in Seq(Pairs)
    BY <2>4, <2>6
  <2>9. Len(specs \o add) = Len(specs) + Len(add)
    BY ONLY <1>1, <2>8, JoinIs
  <2>10. Len(add) \in Nat
    BY <2>8
  <2> QED
    BY <1>1, <2>7, <2>9, <2>10
<1> QED
  BY <1>2, <1>3

\* When the planner has returned, the cards are as before a plan.
LEMMA PlanForgets ==
  ASSUME NudgesCounted, PlanNudges
  PROVE  CardsCounted' /\ RowValid' /\ RepeatsLast' /\ NudgesCounted' /\ NudgesSpread'
<1>1. /\ bag' = [s \in Range(Sectors) |-> SectorCards(s)] /\ uses' = [c \in Cards |-> 0]
      /\ drawn' = 0 /\ latest' = NoLatest /\ specs' = << >>
      /\ tally' \in [Forums -> 0..2] /\ steered' = steered /\ stage = "rows"
  BY DEF PlanNudges
<1>2. \A s : SectorCards(s) \subseteq Cards
  BY DEF SectorCards
<1>3. bag' \in [Range(Sectors) -> SUBSET Cards]
  BY <1>1, <1>2
<1>4. uses' \in [Cards -> Nat] /\ drawn' \in 0..Len(specs')
  BY <1>1
<1>5. /\ \A s \in Range(Sectors) : bag'[s] = SectorCards(s)
      /\ \A s \in Range(Sectors) : \A c \in SectorCards(s) : ~(uses'[c] > 0)
  BY <1>1, <1>2
<1>6. CardsCounted'
  BY <1>3, <1>4, <1>5 DEF CardsCounted
<1>7. RowValid' /\ RepeatsLast'
  BY <1>1 DEF RowValid, RepeatsLast
<1>8. tally' \in [Forums -> Nat] /\ steered' = [f \in Forums |-> 0]
  <2>1. \A n \in 0..2 : n \in Nat
    OBVIOUS
  <2> QED
    BY <2>1, <1>1 DEF NudgesCounted
<1>9. \A f \in Forums : steered'[f] \in Nat /\ ~(steered'[f] > 0)
  BY <1>8
<1>10. NudgesCounted' /\ NudgesSpread'
  BY <1>8, <1>9 DEF NudgesCounted, NudgesSpread
<1> QED
  BY <1>6, <1>7, <1>10

\* A step keeps the invariant.
LEMMA MatrixStep ==
  ASSUME MatrixInv, [MatrixNext]_matrixVars
  PROVE  MatrixInv'
<1>1. DealInv /\ CardsCounted /\ RowValid /\ RepeatsLast /\ NudgesCounted /\ NudgesSpread
  BY DEF MatrixInv
<1>2. specs \in Seq(Pairs) /\ Len(specs) \in Nat
  BY <1>1 DEF DealInv, PlanShape
<1>3. CASE SeatBands
  <2>1. DealInv'
    BY <1>1, <1>3, SeatBandsKeeps
  <2>2. /\ UNCHANGED <<size, history, drawVars, steerVars>> /\ specs' = specs
        /\ stage = "bands" /\ stage' = "sectors"
    BY <1>3 DEF SeatBands
  <2> QED
    BY <1>2, <2>1, <2>2, DealStep
<1>4. CASE SeatSectors
  <2>1. DealInv' /\ Len(specs') >= Len(specs)
    BY <1>1, <1>4, SeatSectorsKeeps, BandOnlyAdds
  <2>2. UNCHANGED <<size, history, drawVars, steerVars>> /\ stage = "sectors"
    BY <1>4 DEF SeatSectors
  <2> QED
    BY <2>1, <2>2, DealStep
<1>5. CASE Cover
  <2>1. DealInv' /\ Len(specs') = size /\ Len(specs) = size
    <3>1. Len(specs) = size
      BY <1>1, <1>5 DEF DealInv, PlanRows, Cover
    <3> QED
      BY <3>1, <1>1, <1>5, CoverKeeps, CoverRows
  <2>2. UNCHANGED <<size, history, drawVars, steerVars>> /\ stage = "cover"
    BY <1>5 DEF Cover
  <2> QED
    BY <1>2, <2>1, <2>2, DealStep
<1>6. CASE Balance
  <2>1. DealInv'
    BY <1>1, <1>6, BalanceKeeps
  <2>2. UNCHANGED <<size, history, drawVars, steerVars>> /\ stage = "balance" /\ stage' = stage
    BY <1>6 DEF Balance
  <2>3. Len(specs') = size /\ Len(specs) = size
    BY <1>1, <2>1, <2>2 DEF DealInv, PlanRows
  <2> QED
    BY <1>2, <2>1, <2>2, <2>3, DealStep
<1>7. CASE Balanced
  <2>1. DealInv'
    BY <1>1, <1>7, BalancedKeeps
  <2>2. /\ UNCHANGED <<size, history, drawVars, steerVars>> /\ specs' = specs
        /\ stage = "balance"
    BY <1>7 DEF Balanced, dealVars
  <2> QED
    BY <1>2, <2>1, <2>2, DealStep
<1>8. CASE DrawRow
  <2>1. UNCHANGED <<stage, size, history, pull, dealVars, steerVars>>
    BY <1>8 DEF DrawRow
  <2>2. DealInv'
    BY <1>1, <2>1, DealStays
  <2>3. CardsCounted' /\ RowValid' /\ RepeatsLast'
    BY <1>1, <1>8, DrawCounts, DrawIsSound
  <2>4. NudgesCounted' /\ NudgesSpread'
    BY <1>1, <2>1, NudgeStays
  <2> QED
    BY <2>2, <2>3, <2>4 DEF MatrixInv
<1>9. CASE PlanNudges
  <2>1. DealInv'
    BY <1>1, <1>9, PlanReturned
  <2> QED
    BY <2>1, <1>1, <1>9, PlanForgets DEF MatrixInv
<1>10. CASE \E f \in Forums : Nudge(f)
  <2>1. PICK f \in Forums : Nudge(f)
    BY <1>10
  <2>2. UNCHANGED <<stage, size, history, pull, dealVars, drawVars>>
    BY <2>1 DEF Nudge
  <2>3. DealInv'
    BY <1>1, <2>2, DealStays
  <2>4. specs' = specs
    BY <2>2 DEF dealVars
  <2>5. CardsCounted' /\ RowValid' /\ RepeatsLast'
    BY <1>1, <1>2, <2>2, <2>4, DrawStays
  <2>6. NudgesCounted' /\ NudgesSpread'
    BY <1>1, <2>1, NudgeCounts
  <2> QED
    BY <2>3, <2>5, <2>6 DEF MatrixInv
<1>11. CASE UNCHANGED matrixVars
  <2>1. UNCHANGED <<stage, size, history, pull, dealVars, drawVars, steerVars, specs>>
    BY <1>11 DEF matrixVars, dealVars, drawVars, steerVars
  <2>2. DealInv'
    BY <1>1, <2>1, DealStays
  <2> QED
    BY <1>2, <2>1, <2>2, DealStep
<1> QED
  BY <1>3, <1>4, <1>5, <1>6, <1>7, <1>8, <1>9, <1>10, <1>11 DEF MatrixNext

\* What the invariant says of each property.
LEMMA MatrixHolds ==
  ASSUME MatrixInv
  PROVE  MatrixTypeOK /\ MatrixSound
<1>1. DealInv /\ CardsCounted /\ RowValid /\ RepeatsLast /\ NudgesCounted /\ NudgesSpread
  BY DEF MatrixInv
<1>2. specs \in Seq(Pairs) /\ size \in Counts /\ turns \in Nat
  BY <1>1 DEF DealInv, PlanShape
<1>3. size \in Nat
  BY <1>2, MatrixAssumption
<1>4. MatrixTypeOK
  <2>1. ASSUME NEW i \in DOMAIN specs
        PROVE  specs[i][1] \in DOMAIN Bands /\ specs[i][2] \in Range(Sectors)
    <3>1. specs[i] \in Pairs
      BY <1>2
    <3> QED
      BY <3>1, PairIs
  <2>2. \A s \in Range(Sectors) : \A c \in bag[s] : c \in Cards /\ Card[c].sector = s
    BY <1>1 DEF CardsCounted, SectorCards
  <2>3. stage # "bands" /\ stage # "nudging" => seats \in [DOMAIN Bands -> Nat]
    BY <1>1 DEF DealInv, PlanShape
  <2>4. /\ uses \in [Cards -> Nat] /\ drawn \in 0..Len(specs)
        /\ tally \in [Forums -> Nat] /\ steered \in [Forums -> Nat]
    BY <1>1 DEF CardsCounted, NudgesCounted
  <2> QED
    BY <1>1, <2>1, <2>2, <2>3, <2>4 DEF MatrixTypeOK, DealInv, PlanShape
<1>5. SeatsKept
  BY <1>1 DEF SeatsKept, DealInv, PlanRows
<1>6. BalanceEnds
  <2>1. CASE stage \in {"balance", "rows"}
    <3>1. Len(specs) = size /\ \E M \in SUBSET DOMAIN specs : Moves(M)
      BY <2>1, <1>1 DEF DealInv, PlanRows, PlanBalances
    <3>2. PICK M \in SUBSET DOMAIN specs : Moves(M)
      BY <3>1
    <3>3. DOMAIN specs = 1..size /\ 1 \in Int /\ size \in Int
      BY <3>1, <1>2, <1>3
    <3>4. IsFiniteSet(DOMAIN specs) /\ Cardinality(DOMAIN specs) = size
      <4>1. IsFiniteSet(1..size) /\ Cardinality(1..size) = IF 1 > size THEN 0 ELSE size - 1 + 1
        BY ONLY <3>3, FS_Interval
      <4> QED
        BY <4>1, <3>3, <1>3
    <3>5. Cardinality(M) <= Cardinality(DOMAIN specs)
      BY <3>4, FS_Subset
    <3> QED
      BY <3>2, <3>4, <3>5 DEF BalanceEnds, Moves
  <2>2. CASE stage \notin {"balance", "rows"}
    <3>1. turns = 0
      BY <2>2, <1>1 DEF DealInv, PlanShape
    <3> QED
      BY <3>1, <1>3 DEF BalanceEnds
  <2> QED
    BY <2>1, <2>2
<1>7. CoverLasts
  BY <1>1 DEF CoverLasts, DealInv, PlanBalances
<1>8. SlotsDistinct
  BY <1>2, SlotsOfAll
<1> QED
  BY <1>1, <1>4, <1>5, <1>6, <1>7, <1>8 DEF MatrixSound

\* In every behaviour of the deal, for every catalog, weights and request: the parts
\* have their types; each band keeps its quota and each row a sector with a card for it;
\* balancing ends and keeps what covering filled; a row is valid and repeats a card
\* only after all that suit; nudges spread; each troll batch has a slot of its own.
THEOREM MatrixStaysSound == MatrixSpec => [](MatrixTypeOK /\ MatrixSound)
<1>1. MatrixInit => MatrixInv
  BY MatrixStarts
<1>2. MatrixInv /\ [MatrixNext]_matrixVars => MatrixInv'
  BY MatrixStep
<1>3. MatrixInv => MatrixTypeOK /\ MatrixSound
  BY MatrixHolds
<1> QED
  BY <1>1, <1>2, <1>3, PTL DEF MatrixSpec

\* What a request for personas comes to: rows dealt as the shares and the catalogs say,
\* and users stored whole, once, under names of their own.
THEOREM PersonasStaySound == AccountsSpec /\ MatrixSpec => []PersonasSound
<1>1. AccountsSound /\ MatrixSound => PersonasSound
  BY DEF PersonasSound
<1> QED  BY <1>1, AccountsStaySound, MatrixStaysSound, PTL

=============================================================================
