-------------------------------- MODULE Providers --------------------------------
(***************************************************************************)
(* Rows of llm_provider and image_provider with their is_default flag      *)
(* (deaddit/models.py, the provider pages of deaddit/admin.py), and the    *)
(* agents whose configuration names one.                                   *)
(*                                                                         *)
(* A request reads what it needs without a lock and keeps it; its commit   *)
(* writes only the columns it has changed.  An UPDATE of a row that is     *)
(* gone fails, and with it the request; a DELETE of it does not.           *)
(***************************************************************************)
EXTENDS Integers, FiniteSets, FiniteSetsExt

CONSTANTS
  ProviderThreads,   \* threads that serve a request, or a visit
  ProviderAgents,    \* agents with a provider in their configuration
  MaxProviders, MaxProviderCalls    \* bounds of the model

ASSUME ProvidersAssumption == MaxProviders \in Nat \ {0} /\ MaxProviderCalls \in Nat

VARIABLES
  table,       \* "llm" or "image": which of the two tables this is
  providers,   \* ids of the rows
  defaults,    \* those with is_default
  model,       \* default_model of a row: "", "fetched" or "chosen"
  wanted,      \* config provider_id of an agent, 0 for none
  call,        \* the request of each thread
  calls,       \* how many requests there were
  overlapped,  \* history: two requests overlapped, or one did not finish
  lateWant     \* history: agents configured while their provider was deleted

providerVars == <<table, providers, defaults, model, wanted, call, calls, overlapped,
                  lateWant>>
providerRows == <<table, providers, defaults, model>>

ProviderIds == 1..MaxProviders
NoCall == [op |-> "none"]

ProvidersInit(kinds) ==
  /\ table \in kinds
  /\ providers = {}
  /\ defaults = {}
  /\ model = [i \in ProviderIds |-> ""]
  /\ wanted = [a \in ProviderAgents |-> 0]
  /\ call = [r \in ProviderThreads |-> NoCall]
  /\ calls = 0
  /\ overlapped = FALSE
  /\ lateWant = {}

-----------------------------------------------------------------------------
(* The first step of a request: what it reads *)

Begin(r, c) ==
  /\ call[r] = NoCall /\ calls < MaxProviderCalls
  /\ call' = [call EXCEPT ![r] = c]
  /\ calls' = calls + 1
  /\ overlapped' = (overlapped \/ \E s \in ProviderThreads : call[s] # NoCall)
  /\ UNCHANGED <<providerRows, wanted, lateWant>>

Advance(r, c) == call' = [call EXCEPT ![r] = c]
Done(r) == Advance(r, NoCall)

Seen == [at |-> providers, on |-> defaults]
CreateProvider(r, mark) ==
  Begin(r, [op |-> "create", mark |-> mark \/ providers = {}, clear |-> mark /\ providers # {}])

\* set_default, and an update with is_default true.
SetDefault(r, i) ==
  /\ i \in providers
  /\ Begin(r, [op |-> "mark", id |-> i, seen |-> Seen])

\* An update with is_default false: a provider that was default gives it up to
\* the first other row, unless another is default or it is alone.
UnsetDefault(r, i) ==
  /\ i \in providers
  /\ Begin(r, [op |-> "unmark", id |-> i, seen |-> Seen])

\* Mutant: the references of agents are not checked.
DeletableAlways(i) == TRUE
Deletable(i) == table = "llm" \/ \A a \in ProviderAgents : wanted[a] # i

DeleteProvider(r, i) ==
  /\ i \in providers /\ Deletable(i)
  /\ Begin(r, [op |-> "delete", id |-> i, was |-> i \in defaults])

\* get_default, by a visit, a page or a route: no row is marked.
HealDefault(r) ==
  /\ providers # {} /\ defaults = {}
  /\ Begin(r, [op |-> "promote", id |-> Min(providers)])

FetchModels(r, i) ==
  /\ i \in providers
  /\ Begin(r, [op |-> "fetch", id |-> i])

-----------------------------------------------------------------------------
(* Its commits *)

Settled == UNCHANGED <<table, wanted, calls, overlapped, lateWant>>

\* Row ids are not reserved: a new row may get the id of the last one deleted.
\* Mutant: an image provider is made default beside the one there is.
ClearedByNone(c) == FALSE
Cleared(c) == IF table = "llm" THEN c.clear ELSE c.mark

CommitCreate(r) ==
  LET c == call[r]
      i == Max(providers \cup {0}) + 1
  IN  /\ c.op = "create" /\ i <= MaxProviders
      /\ providers' = providers \cup {i}
      /\ defaults' = (IF Cleared(c) THEN {} ELSE defaults) \cup (IF c.mark THEN {i} ELSE {})
      /\ model' = [model EXCEPT ![i] = ""]
      /\ Advance(r, IF table = "llm" THEN [op |-> "fetch", id |-> i] ELSE NoCall)
      /\ Settled

\* Only flags that differ from what was read are written.
CommitMark(r) ==
  LET c == call[r]
      off == c.seen.on \ {c.id}
      on == (c.seen.at \cap {c.id}) \ c.seen.on
  IN  /\ c.op = "mark" /\ off \cup on \subseteq providers
      /\ defaults' = (defaults \ off) \cup on
      /\ Done(r)
      /\ UNCHANGED <<providers, model>> /\ Settled

\* Who takes over from provider i, in what was seen of the table.
\* Mutant: nobody does.
NoHeir(i, seen) == {}
Heir(i, seen) ==
  IF seen.on \subseteq {i} /\ seen.at \ {i} # {} THEN {Min(seen.at \ {i})} ELSE {}

\* Clearing a flag is flushed, and the lock taken, before the others are read;
\* with nothing to clear they were read before.
CommitUnmark(r) ==
  LET c == call[r]
      had == c.seen.on \cap {c.id}
      heir == Heir(c.id, IF had # {} THEN Seen ELSE c.seen)
  IN  /\ c.op = "unmark" /\ {c.id} \cup heir \subseteq providers
      /\ defaults' = IF c.seen.at = {c.id} THEN defaults \cup ({c.id} \ had)
                     ELSE (defaults \ had) \cup heir
      /\ Done(r)
      /\ UNCHANGED <<providers, model>> /\ Settled

\* An agent configured since the delete looked keeps its provider_id.
CommitDelete(r) ==
  LET c == call[r] IN
  /\ c.op = "delete"
  /\ providers' = providers \ {c.id}
  /\ defaults' = defaults \ {c.id}
  /\ Advance(r, IF c.was THEN [op |-> "heir"] ELSE NoCall)
  /\ UNCHANGED model /\ Settled

\* The second transaction of a delete finds the first row left.
FindHeir(r) ==
  /\ call[r].op = "heir"
  /\ Advance(r, IF providers = {} THEN NoCall ELSE [op |-> "promote", id |-> Min(providers)])
  /\ UNCHANGED <<providers, defaults, model>> /\ Settled

CommitPromote(r) ==
  LET c == call[r] IN
  /\ c.op = "promote" /\ c.id \in providers
  /\ defaults' = defaults \cup {c.id}
  /\ Done(r)
  /\ UNCHANGED <<providers, model>> /\ Settled

\* The endpoint answers with its models, or the row is gone by then.
Fill(i) == IF model[i] = "" THEN "fetched" ELSE model[i]

ModelsFetched(r) ==
  LET c == call[r] IN
  /\ c.op = "fetch" /\ c.id \in providers
  /\ model' = [model EXCEPT ![c.id] = Fill(c.id)]
  /\ Done(r)
  /\ UNCHANGED <<providers, defaults>> /\ Settled

\* An error, a row that is gone, an endpoint that does not answer, a restart.
CallFails(r) ==
  /\ call[r] # NoCall
  /\ Done(r)
  /\ overlapped' = (overlapped \/ call[r].op \in {"heir", "promote"})
  /\ UNCHANGED <<providerRows, wanted, calls, lateWant>>

-----------------------------------------------------------------------------
(* Single transactions *)

\* An update names a default_model.
ChooseModel(i) ==
  /\ i \in providers
  /\ model' = [model EXCEPT ![i] = "chosen"]
  /\ UNCHANGED <<table, providers, defaults, wanted, call, calls, overlapped, lateWant>>

\* The configuration of an agent is saved; the id is one the page offered.
ConfigureAgent(a, i) ==
  /\ i \in providers \cup {0}
  /\ wanted' = [wanted EXCEPT ![a] = i]
  /\ lateWant' = (IF \E r \in ProviderThreads : call[r].op = "delete" /\ call[r].id = i
                  THEN lateWant \cup {a} ELSE lateWant \ {a})
  /\ UNCHANGED <<providerRows, call, calls, overlapped>>

ProvidersNext ==
  \/ \E r \in ProviderThreads :
       \/ \E mark \in BOOLEAN : CreateProvider(r, mark)
       \/ \E i \in ProviderIds :
            \/ SetDefault(r, i)
            \/ UnsetDefault(r, i)
            \/ DeleteProvider(r, i)
            \/ FetchModels(r, i)
       \/ HealDefault(r)
       \/ CommitCreate(r)
       \/ CommitMark(r)
       \/ CommitUnmark(r)
       \/ CommitDelete(r)
       \/ FindHeir(r)
       \/ CommitPromote(r)
       \/ ModelsFetched(r)
       \/ CallFails(r)
  \/ \E i \in ProviderIds : ChooseModel(i)
  \/ \E a \in ProviderAgents, i \in ProviderIds \cup {0} : ConfigureAgent(a, i)

-----------------------------------------------------------------------------
(* Properties *)

ProvidersTypeOK ==
  /\ providers \subseteq ProviderIds /\ defaults \subseteq providers
  /\ model \in [ProviderIds -> {"", "fetched", "chosen"}]
  /\ wanted \in [ProviderAgents -> ProviderIds \cup {0}]

\* admin.py:2681, 2716, models.py:251: requests that come one after another
\* leave exactly one default as long as there is a provider: creations first
\* and later, with and without the flag, hand-overs, deletes of the default.
OneDefault ==
  ~ overlapped /\ (\A r \in ProviderThreads : call[r] = NoCall) /\ providers # {}
    => Cardinality(defaults) = 1

\* admin.py:3208: the configuration of an agent names an image provider that
\* exists, unless it was saved while that provider was being deleted.
ConfiguredProviderExists ==
  table = "image" =>
    \A a \in ProviderAgents \ lateWant : wanted[a] \in providers \cup {0}

\* The two together: what a visit or an image request resolves to is there.
ProvidersSound == OneDefault /\ ConfiguredProviderExists
=============================================================================
