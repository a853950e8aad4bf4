-------------------------------- MODULE Accounts --------------------------------
(***************************************************************************)
(* The rows of the user table: people who register and sign in             *)
(* (deaddit/human_auth.py), personas that a job of the worker generates    *)
(* (deaddit/services/persona_generator.py), the default users and the      *)
(* administrator's edits and deletes (deaddit/admin.py).                   *)
(*                                                                         *)
(* Every writer looks a username up first and inserts later; the unique    *)
(* index on lower(username) has the last word.  The generator leaves a     *)
(* persona's provenance and its agent to the commit of the next insert, or *)
(* of the attempt's end.                                                   *)
(***************************************************************************)
EXTENDS Integers, Sequences, FiniteSets

CONSTANTS
  Names,        \* usernames, up to case
  Newcomers,    \* people at a browser
  Batches,      \* the assignment ids of a request, batch by batch
  BatchTries,   \* PERSONA_BATCH_ATTEMPTS
  Enrols,       \* auto_create_agent
  Nobody,
  MaxTurns      \* bound of the model: sign-ups, loads, edits, deletes, and times
                \* the worker takes the job up

ASSUME AccountsAssumption ==
  /\ Nobody \notin Names
  /\ "loader" \notin Newcomers
  /\ Len(Batches) \in Nat /\ DOMAIN Batches = 1..Len(Batches) /\ Enrols \in BOOLEAN
  /\ \A b, c \in DOMAIN Batches : b # c => Batches[b] \cap Batches[c] = {}
  /\ BatchTries \in Nat \ {0} /\ MaxTurns \in Nat

VARIABLES
  accounts,     \* the rows
  admitting,     \* HUMAN_ACCOUNTS_ENABLED
  claims,       \* the name a sign-up or the loader found free
  signed,       \* session["human_username"]
  editing,        \* what the administrator's edit has read
  job,          \* the generation job
  runs,         \* times it was taken up
  aborts,       \* history: how many of them ended in an exception or a crash
  freed,        \* history: names of deleted accounts
  crossed,      \* history: names whose provenance an overlapping edit took back
  strokes

accountVars == <<accounts, admitting, claims, signed, editing, job, runs, aborts, freed, crossed,
                 strokes>>

Claimants == Newcomers \cup {"loader"}
NoAccount == [from |-> "none"]
Account(from) ==
  [from |-> from, human |-> from = "visitor", run |-> 0, row |-> 0,
   seeded |-> FALSE, capped |-> FALSE, agent |-> FALSE]
NoEditing == [name |-> Nobody]

Taken(n) == accounts[n] # NoAccount
Human(n) == Taken(n) /\ accounts[n].human

NoJob ==
  [step |-> "none", batch |-> 0, attempt |-> 0, pending |-> {}, listed |-> {},
   resolved |-> {}, row |-> 0, name |-> Nobody, last |-> Nobody, seen |-> {},
   made |-> {}, inBatch |-> 0, skipped |-> {}]

AccountsInit ==
  /\ accounts = [n \in Names |-> NoAccount]
  /\ claims = [c \in Claimants |-> Nobody]
  /\ signed = [v \in Newcomers |-> Nobody]
  /\ editing = NoEditing
  /\ job = NoJob
  /\ admitting = TRUE
  /\ runs = 0 /\ aborts = 0
  /\ freed = {} /\ crossed = {} /\ strokes = 0

Stroke == strokes + runs < MaxTurns /\ strokes' = strokes + 1

-----------------------------------------------------------------------------
(* People *)

\* The pages send people who are signed in away.
Anonymous(v) == admitting /\ signed[v] = Nobody /\ claims[v] = Nobody

\* The collision check of register_human.
FindFree(v, n) ==
  /\ Anonymous(v) /\ ~Taken(n)
  /\ Stroke
  /\ claims' = [claims EXCEPT ![v] = n]
  /\ UNCHANGED <<admitting, accounts, signed, editing, job, runs, aborts, freed, crossed>>

\* Who an inserting sign-up is signed in as.
\* Mutant: whoever has the name.
SignedInAsNamed(n) == n
SignedInAs(n) == IF Taken(n) THEN Nobody ELSE n

\* Its commit; the index may refuse it.
Register(v) ==
  LET n == claims[v] IN
  /\ n # Nobody
  /\ accounts' = IF Taken(n) THEN accounts ELSE [accounts EXCEPT ![n] = Account("visitor")]
  /\ signed' = [signed EXCEPT ![v] = SignedInAs(n)]
  /\ claims' = [claims EXCEPT ![v] = Nobody]
  /\ UNCHANGED <<admitting, editing, job, runs, aborts, freed, crossed, strokes>>

\* authenticate_human: a persona has no password.
Login(v, n) ==
  /\ Anonymous(v) /\ Human(n)
  /\ Stroke
  /\ signed' = [signed EXCEPT ![v] = n]
  /\ UNCHANGED <<admitting, accounts, claims, editing, job, runs, aborts, freed, crossed>>

Logout(v) ==
  /\ signed[v] # Nobody
  /\ signed' = [signed EXCEPT ![v] = Nobody]
  /\ UNCHANGED <<admitting, accounts, claims, editing, job, runs, aborts, freed, crossed, strokes>>

\* Any later request: the session must name a human account, and people be let in.
CurrentHuman(v) ==
  /\ signed[v] # Nobody /\ (~Human(signed[v]) \/ ~admitting)
  /\ signed' = [signed EXCEPT ![v] = Nobody]
  /\ UNCHANGED <<admitting, accounts, claims, editing, job, runs, aborts, freed, crossed, strokes>>

-----------------------------------------------------------------------------
(* The administrator *)

\* The setting that lets people in.
SwitchAccounts ==
  /\ Stroke
  /\ admitting' = ~admitting
  /\ UNCHANGED <<accounts, claims, signed, editing, job, runs, aborts, freed, crossed>>

\* load_default_data_api: look a default user up ...
LookUpDefault(n) ==
  /\ claims["loader"] = Nobody /\ ~Taken(n)
  /\ Stroke
  /\ claims' = [claims EXCEPT !["loader"] = n]
  /\ UNCHANGED <<admitting, accounts, signed, editing, job, runs, aborts, freed, crossed>>

\* ... and create it, or go on to the next when the name is taken by now.
LoadDefault ==
  LET n == claims["loader"] IN
  /\ n # Nobody
  /\ accounts' = IF Taken(n) THEN accounts ELSE [accounts EXCEPT ![n] = Account("loader")]
  /\ claims' = [claims EXCEPT !["loader"] = Nobody]
  /\ UNCHANGED <<admitting, signed, editing, job, runs, aborts, freed, crossed, strokes>>

\* api_update_user reads the row: a copy of its agent_state is what it will write.
OpenUser(n) ==
  /\ editing = NoEditing /\ Taken(n)
  /\ Stroke
  /\ editing' = [name |-> n, seeded |-> accounts[n].seeded]
  /\ UNCHANGED <<admitting, accounts, claims, signed, job, runs, aborts, freed, crossed>>

\* It commits new caps or a new password.
UpdateUser(caps, password) ==
  LET n == editing.name
      old == accounts[n]
      kept == IF caps THEN editing.seeded ELSE old.seeded
  IN /\ editing # NoEditing
     /\ IF Taken(n)
        THEN /\ accounts' = [accounts EXCEPT ![n].capped = @ \/ caps,
                                             ![n].seeded = kept,
                                             ![n].human = @ \/ password]
             /\ crossed' = IF kept # old.seeded THEN crossed \cup {n} ELSE crossed
        ELSE UNCHANGED <<accounts, crossed>>
     /\ editing' = NoEditing
     /\ UNCHANGED <<admitting, claims, signed, job, runs, aborts, freed, strokes>>

\* _delete_users_cascade takes the agent along.
DeleteUser(n) ==
  /\ Taken(n)
  /\ Stroke
  /\ accounts' = [accounts EXCEPT ![n] = NoAccount]
  /\ freed' = freed \cup {n}
  /\ UNCHANGED <<admitting, claims, signed, editing, job, runs, aborts, crossed>>

-----------------------------------------------------------------------------
(* Generating personas *)

Working == job.step \in {"asking", "naming", "inserting", "reporting"}

\* The first attempt at a batch.
AtBatch(j, b) ==
  IF b > Len(Batches) THEN [j EXCEPT !.step = "reporting"]
  ELSE [j EXCEPT !.step = "asking", !.batch = b, !.attempt = 1,
                 !.pending = Batches[b], !.inBatch = 0]

\* api_generate_users: the page leaves the work to the worker.
QueueGeneration ==
  /\ job.step = "none"
  /\ job' = [NoJob EXCEPT !.step = "queued"]
  /\ UNCHANGED <<admitting, accounts, claims, signed, editing, runs, aborts, freed, crossed, strokes>>

\* The worker claims the job; a crashed one is swept and starts over.
Generate ==
  /\ job.step = "queued" /\ strokes + runs < MaxTurns
  /\ runs' = runs + 1
  /\ job' = AtBatch(NoJob, 1)
  /\ UNCHANGED <<admitting, accounts, claims, signed, editing, aborts, freed, crossed, strokes>>

\* A batch is given up when its attempts created nothing at all.
\* Mutant: when they left a row.
GivesUpEarly == job.pending # {}
GivesUp == job.inBatch = 0

\* After an attempt that leaves these rows: the next one, or the next batch.
After(left) ==
  LET closed == [job EXCEPT !.last = Nobody, !.pending = left, !.resolved = {}]
  IN IF left # {} /\ job.attempt < BatchTries
     THEN [closed EXCEPT !.step = "asking", !.attempt = @ + 1]
     ELSE AtBatch([closed EXCEPT !.skipped =
                     IF GivesUp THEN @ \cup Batches[job.batch] ELSE @],
                  job.batch + 1)

\* The model lists some of the rows it was asked for; ids it makes up or repeats
\* are ignored.
Answer(ids) ==
  /\ job.step = "asking"
  /\ job' = [job EXCEPT !.step = "naming", !.listed = ids, !.resolved = {}]
  /\ UNCHANGED <<admitting, accounts, claims, signed, editing, runs, aborts, freed, crossed, strokes>>

\* A failed call, or an answer that is no list of personas: nothing is committed.
Unreadable ==
  /\ job.step = "asking"
  /\ job' = After(job.pending)
  /\ UNCHANGED <<admitting, accounts, claims, signed, editing, runs, aborts, freed, crossed, strokes>>

\* _sanitize_persona: a name that no row has, and no persona of this request.
Sanitize(row, n) ==
  /\ job.step = "naming" /\ row \in job.listed
  /\ ~Taken(n) /\ n \notin job.seen
  /\ job' = [job EXCEPT !.step = "inserting", !.row = row, !.name = n, !.seen = @ \cup {n},
                        !.listed = @ \ {row}, !.resolved = @ \cup {row}]
  /\ UNCHANGED <<admitting, accounts, claims, signed, editing, runs, aborts, freed, crossed, strokes>>

\* What is pending in the session is written by whichever commit comes next: the
\* provenance and the agent of the persona created last.
\* Mutant: the insert starts a session of its own.
CommittedNothing == accounts
Committed ==
  IF job.last = Nobody THEN accounts
  ELSE [accounts EXCEPT ![job.last].seeded = TRUE, ![job.last].capped = FALSE,
                        ![job.last].agent = Enrols]

\* An update of a row that is gone fails, and the transaction with it.
FlushFails == job.last # Nobody /\ ~Taken(job.last)

Aborts(step) ==
  /\ job' = [NoJob EXCEPT !.step = step]
  /\ aborts' = aborts + 1
  /\ UNCHANGED accounts

\* create_user: nothing here catches a name that was taken meanwhile.
CreatePersona ==
  /\ job.step = "inserting"
  /\ IF Taken(job.name) \/ FlushFails THEN Aborts("failed")
     ELSE /\ accounts' = [Committed EXCEPT ![job.name] =
                            [Account("generator") EXCEPT !.run = runs, !.row = job.row]]
          /\ job' = [job EXCEPT !.step = "naming", !.last = job.name, !.name = Nobody,
                                !.row = 0, !.made = @ \cup {job.name}, !.inBatch = @ + 1]
          /\ UNCHANGED aborts
  /\ UNCHANGED <<admitting, claims, signed, editing, runs, freed, crossed, strokes>>

\* The rows a further attempt asks for.
\* Mutant: all rows of the batch.
UnresolvedAll == job.pending
Unresolved == job.pending \ job.resolved

\* After the last listed row: commit, then ask again or go on to the next batch.
EndAttempt ==
  /\ job.step = "naming" /\ job.listed = {}
  /\ IF FlushFails THEN Aborts("failed")
     ELSE accounts' = Committed /\ job' = After(Unresolved) /\ UNCHANGED aborts
  /\ UNCHANGED <<admitting, claims, signed, editing, runs, freed, crossed, strokes>>

\* The result reads every created row again.
Report ==
  /\ job.step = "reporting"
  /\ IF job.made = {} \/ \E n \in job.made : ~Taken(n) THEN Aborts("failed")
     ELSE job' = [job EXCEPT !.step = "done"] /\ UNCHANGED <<accounts, aborts>>
  /\ UNCHANGED <<admitting, claims, signed, editing, runs, freed, crossed, strokes>>

\* The worker dies; its open transaction goes with it.
WorkerDies ==
  /\ Working
  /\ Aborts("queued")
  /\ UNCHANGED <<admitting, claims, signed, editing, runs, freed, crossed, strokes>>

-----------------------------------------------------------------------------

AccountsNext ==
  \/ \E v \in Newcomers :
       \/ \E n \in Names : FindFree(v, n) \/ Login(v, n)
       \/ Register(v) \/ Logout(v) \/ CurrentHuman(v)
  \/ \E n \in Names : LookUpDefault(n) \/ OpenUser(n) \/ DeleteUser(n)
  \/ LoadDefault
  \/ UpdateUser(TRUE, FALSE) \/ UpdateUser(FALSE, TRUE)
  \/ SwitchAccounts \/ QueueGeneration \/ Generate
  \/ \E ids \in SUBSET job.pending : Answer(ids)
  \/ Unreadable
  \/ \E row \in job.listed, n \in Names : Sanitize(row, n)
  \/ CreatePersona \/ EndAttempt \/ Report \/ WorkerDies

AccountsSpec == AccountsInit /\ [][AccountsNext]_accountVars

-----------------------------------------------------------------------------
(* Properties *)

\* The types of the tables, the sessions and the job.
AccountsTypeOK ==
  /\ \A n \in Names :
       Taken(n) => /\ DOMAIN accounts[n] = DOMAIN Account("visitor")
                   /\ accounts[n].from \in {"visitor", "loader", "generator"}
  /\ admitting \in BOOLEAN
  /\ claims \in [Claimants -> Names \cup {Nobody}]
  /\ signed \in [Newcomers -> Names \cup {Nobody}]
  /\ editing.name \in Names \cup {Nobody}
  /\ job.step \in {"none", "queued", "asking", "naming", "inserting", "reporting", "done", "failed"}
  /\ job.attempt <= BatchTries /\ job.listed \subseteq job.pending
  /\ runs \in 0..MaxTurns /\ aborts \in 0..runs

Generated == {n \in Names : accounts[n].from = "generator"}

\* A generated persona has its provenance, except the one the job has open, one
\* for each run that broke off, and those an edit wrote over: a batch that breaks
\* off leaves the personas before it whole.
ProvenanceKept ==
  Cardinality({n \in Generated : ~accounts[n].seeded} \ crossed)
    <= aborts + (IF job.last = Nobody THEN 0 ELSE 1)

\* An agent is there only with the provenance it was committed with.
AgentsHaveSeeds ==
  \A n \in Names \ crossed : Taken(n) /\ accounts[n].agent => accounts[n].seeded

\* No run makes two personas of one row of its matrix, however often it asks, and
\* none of a batch that it reports as skipped.
AssignedOnce ==
  /\ \A m, n \in Generated :
       accounts[m].run = accounts[n].run /\ accounts[m].row = accounts[n].row => m = n
  /\ \A n \in Generated : accounts[n].run = runs => accounts[n].row \notin job.skipped

\* A sign-up that lost the race for its name signs nobody in: a session names a
\* person, unless the account was deleted and the name given away since.
SessionsNamePeople ==
  \A v \in Newcomers : signed[v] # Nobody /\ signed[v] \notin freed => Human(signed[v])

AccountsSound == ProvenanceKept /\ AgentsHaveSeeds /\ AssignedOnce /\ SessionsNamePeople
=============================================================================
