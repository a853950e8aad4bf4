------------------------------ MODULE VisitLoop -------------------------------
(***************************************************************************)
(* The turns of one visit: run_agent_once asks the model, carries out the  *)
(* tool calls of its answer one by one, and goes on until something ends   *)
(* the visit (agents/loop.py); every call passes the executor's guards in  *)
(* order (agents/executor.py, execute).                                    *)
(*                                                                         *)
(* What the guards let through by tier, policy, target and rotation is     *)
(* VisitPlan's; here such a refusal is a call that is "forbidden".  Two    *)
(* texts are similar (trigrams, 0.85) when they are equal.  The run may be *)
(* taken over by a recovery, and its time may run out, between any steps.  *)
(***************************************************************************)
EXTENDS Integers, SequencesExt

CONSTANTS
  Requests,       \* tool calls the model may ask for
  Brief,          \* texts of less than _DUP_MIN_CANDIDATE_LEN characters
  MaxPerTurn,     \* bound of the model: calls of one answer
  MaxActions,     \* max_actions_per_run
  Repeats,        \* consecutive equal calls that end a visit, less one
  OwnLimit,       \* _DUP_OWN_LIMIT
  WroteBefore,    \* what the persona may have published before, oldest first
  Ceilings        \* hourly caps in force: the default, or the persona's override

ASSUME VisitLoopAssumption ==
  /\ Requests \subseteq [name : STRING, text : STRING]
  /\ WroteBefore \subseteq Seq([kind : {"post", "comment"}, text : STRING])
  /\ MaxPerTurn \in Nat /\ MaxActions \in Nat /\ Repeats \in Nat /\ OwnLimit \in Nat
  /\ Ceilings \subseteq Nat

VARIABLES
  phase,          \* of the loop
  turnsTaken, actions, nudged, strikes,
  toDo,           \* calls of the answer still to be carried out
  transcript,     \* messages since the kickoff
  callRows,       \* tool_calls rows of the run
  own,            \* the persona's posts and comments, oldest first
  spent,          \* bucket -> its successful calls of the last hour
  quota, owned, expired

loopVars == <<phase, turnsTaken, actions, nudged, strikes, toDo, transcript, callRows, own,
              spent, quota, owned, expired>>

Bucket ==
  [name \in {"create_post", "create_image_post", "create_website", "create_comment"} |->
     IF name = "create_comment" THEN "comment" ELSE "post"]
Publishes(c) == c.name \in DOMAIN Bucket

LoopInit ==
  /\ phase = "top" /\ turnsTaken = 0 /\ actions = 0 /\ nudged = FALSE /\ strikes = 0
  /\ toDo = << >> /\ transcript = << >> /\ callRows = << >>
  /\ own \in WroteBefore /\ quota \in Ceilings
  /\ spent = [b \in {"post", "comment"} |-> 0]
  /\ owned = TRUE /\ expired = FALSE

-----------------------------------------------------------------------------
(* The executor's guards *)

\* _persona_rate_cap, _check_rate_cap: the three post tools share one bucket.
RateLimited(c) == Publishes(c) /\ spent[Bucket[c.name]] >= quota

NewestOf(kind) ==
  {own[i].text : i \in {j \in DOMAIN own :
     own[j].kind = kind /\ Cardinality({k \in j + 1..Len(own) : own[k].kind = kind}) < OwnLimit}}

\* _check_duplicate, against the persona's own texts (not the titles of others).
\* A brief comment passes.
\* Mutant: comments are compared with comments, posts with posts.
DuplicateInKind(c) ==
  /\ Publishes(c) /\ ~ (c.name = "create_comment" /\ c.text \in Brief)
  /\ c.text \in NewestOf(Bucket[c.name])
Duplicate(c) ==
  /\ Publishes(c) /\ ~ (c.name = "create_comment" /\ c.text \in Brief)
  /\ c.text \in NewestOf("post") \cup NewestOf("comment")

\* _check_loop: how many of the newest rows are this very call.
\* Mutant: only the successful ones are counted.
StreakOfOk(c) ==
  LET n == Len(callRows)
  IN Max({k \in 0..n : \A i \in n - k + 1..n : callRows[i].call = c /\ callRows[i].ok})
Streak(c) ==
  LET n == Len(callRows)
  IN Max({k \in 0..n : \A i \in n - k + 1..n : callRows[i].call = c})

\* execute: the verdict of the first guard that has one, or the handler's.
Verdicts(c) ==
  IF c.name \in {"vote", "unknown", "forbidden", "invalid"} THEN {"rejected"}
  ELSE IF RateLimited(c) \/ Duplicate(c) THEN {"rejected"}
  ELSE IF Streak(c) >= Repeats THEN {"looping"}
  ELSE {"ok", "failed", "crashed"}

\* One audit row per call, but for the retired vote and for a call whose handler,
\* or whose audit, raised what the executor does not expect.
Audited(c, verdict) ==
  IF c.name = "vote" \/ verdict = "crashed" THEN callRows
  ELSE Append(callRows, [call |-> c, ok |-> verdict = "ok", turn |-> turnsTaken])

-----------------------------------------------------------------------------
(* The loop *)

Ends(how) == phase' = how /\ toDo' = << >>

\* The top of the loop: still ours, and in time.
AskModel ==
  /\ phase = "top"
  /\ IF ~ owned THEN Ends("left")
     ELSE IF expired THEN Ends("completed")
     ELSE phase' = "asking" /\ UNCHANGED toDo
  /\ UNCHANGED <<turnsTaken, actions, nudged, strikes, transcript, callRows, own, spent, quota, owned,
                 expired>>

\* An answer becomes a turn.  One without a call is told so; the second ends it.
ModelAnswers(asked) ==
  /\ phase = "asking"
  /\ IF ~ owned
     THEN Ends("left") /\ UNCHANGED <<turnsTaken, nudged, transcript>>
     ELSE LET said == Append(transcript, [role |-> "assistant", asks |-> Len(asked)])
              over == expired \/ (asked = << >> /\ nudged)
          IN /\ turnsTaken' = turnsTaken + 1
             /\ transcript' = IF over \/ asked # << >> THEN said
                              ELSE Append(said, [role |-> "user", asks |-> 0])
             /\ nudged' = (nudged \/ (asked = << >> /\ ~ expired))
             /\ phase' = IF over THEN "completed" ELSE IF asked = << >> THEN "top" ELSE "acting"
             /\ toDo' = IF over THEN << >> ELSE asked
  /\ UNCHANGED <<actions, strikes, callRows, own, spent, quota, owned, expired>>

\* A permanent error counts against the agent, any other does not (AgentRuns).
AnswerFails ==
  /\ phase = "asking"
  /\ Ends("failed")
  /\ UNCHANGED <<turnsTaken, actions, nudged, strikes, transcript, callRows, own, spent, quota, owned,
                 expired>>

OutOfBudget == actions >= MaxActions \/ expired

\* Mutant: a turn begins with a clean slate.
StrikesOfTurn(verdict) ==
  IF verdict # "rejected" THEN 0
  ELSE IF Len(transcript) > 0 /\ Last(transcript).role = "assistant" THEN 1 ELSE strikes + 1
\* Two rejections in a row end the visit.
Strikes(verdict) == IF verdict = "rejected" THEN strikes + 1 ELSE 0

\* One call of the answer: its guards, its handler, its row and its message.
Act(verdict) ==
  LET c == Head(toDo) IN
  /\ phase = "acting" /\ toDo # << >> /\ owned /\ ~ OutOfBudget
  /\ verdict \in Verdicts(c)
  /\ actions' = actions + 1
  /\ callRows' = Audited(c, verdict)
  /\ transcript' = Append(transcript, [role |-> "tool", asks |-> 0, verdict |-> verdict])
  /\ strikes' = Strikes(verdict)
  /\ IF verdict = "ok" /\ Publishes(c)
     THEN /\ own' = Append(own, [kind |-> Bucket[c.name], text |-> c.text])
          /\ spent' = [spent EXCEPT ![Bucket[c.name]] = @ + 1]
     ELSE UNCHANGED <<own, spent>>
  /\ IF c.name = "finish" \/ verdict = "looping" \/ Strikes(verdict) >= 2
     THEN Ends("completed")
     ELSE toDo' = Tail(toDo) /\ UNCHANGED phase
  /\ UNCHANGED <<turnsTaken, nudged, quota, owned, expired>>

\* After the calls, or at the end of the budget: the next turn, or the end.
\* Mutant: a spent budget ends the answer, not the visit.
TurnOverAnyway ==
  /\ phase = "acting" /\ (toDo = << >> \/ (owned /\ OutOfBudget))
  /\ phase' = "top" /\ toDo' = << >>
  /\ UNCHANGED <<turnsTaken, actions, nudged, strikes, transcript, callRows, own, spent, quota, owned,
                 expired>>
TurnOver ==
  /\ phase = "acting" /\ (toDo = << >> \/ (owned /\ OutOfBudget))
  /\ IF OutOfBudget THEN Ends("completed") ELSE phase' = "top" /\ toDo' = << >>
  /\ UNCHANGED <<turnsTaken, actions, nudged, strikes, transcript, callRows, own, spent, quota, owned,
                 expired>>

\* A run that is no longer running is left at the next look.
Abandon ==
  /\ phase = "acting" /\ ~ owned /\ toDo # << >>
  /\ Ends("left")
  /\ UNCHANGED <<turnsTaken, actions, nudged, strikes, transcript, callRows, own, spent, quota, owned,
                 expired>>

TakenOver ==
  /\ owned /\ phase \in {"top", "asking", "acting"}
  /\ owned' = FALSE
  /\ UNCHANGED <<phase, turnsTaken, actions, nudged, strikes, toDo, transcript, callRows, own,
                 spent, quota, expired>>

TimeRunsOut ==
  /\ ~ expired /\ phase \in {"top", "asking", "acting"}
  /\ expired' = TRUE
  /\ UNCHANGED <<phase, turnsTaken, actions, nudged, strikes, toDo, transcript, callRows, own,
                 spent, quota, owned>>

Answers == UNION {[1..n -> Requests] : n \in 0..MaxPerTurn}

LoopNext ==
  \/ AskModel \/ TurnOver \/ Abandon \/ TakenOver \/ TimeRunsOut \/ AnswerFails
  \/ \E asked \in Answers : ModelAnswers(asked)
  \/ \E verdict \in {"ok", "failed", "crashed", "rejected", "looping"} : Act(verdict)

LoopSpec == LoopInit /\ [][LoopNext]_loopVars

-----------------------------------------------------------------------------
(* Properties *)

LoopTypeOK ==
  /\ phase \in {"top", "asking", "acting", "completed", "left", "failed"}
  /\ actions \in 0..MaxActions /\ turnsTaken \in Nat /\ strikes \in 0..2
  /\ toDo \in Seq(Requests)
  /\ \A i \in DOMAIN callRows : callRows[i].turn \in 1..turnsTaken

\* What a request carries is a conversation a provider accepts: each tool call of
\* an earlier answer has its result, in that place, and there is no other.
Conversation ==
  phase \in {"top", "asking"} =>
    \A i \in DOMAIN transcript :
      transcript[i].role = "assistant" =>
        LET n == transcript[i].asks IN
        /\ \A k \in 1..n : i + k \in DOMAIN transcript /\ transcript[i + k].role = "tool"
        /\ i + n + 1 \in DOMAIN transcript => transcript[i + n + 1].role # "tool"

\* The loop has no bound of its own on its turns; the calls and the one reminder
\* bound them.
TurnsBounded == turnsTaken <= actions + 2

\* "Two consecutive guardrail rejections in a row mean the model is not
\* converging": nothing is done after them, in that turn or another.
Results == {i \in DOMAIN transcript : transcript[i].role = "tool"}
CorrectionsEnd ==
  \A i, j \in Results :
    i < j /\ (i + 1..j - 1) \cap Results = {}
      /\ transcript[i].verdict = "rejected" /\ transcript[j].verdict = "rejected" =>
      phase = "completed" /\ \A k \in Results : k <= j

\* The same call is not carried out a third time in a row.
NoThirdRepeat ==
  \A i \in DOMAIN callRows :
    callRows[i].ok => ~ \E j \in 1..i - Repeats : \A k \in j..i : callRows[k].call = callRows[i].call

\* A visit does not write what is among the persona's newest posts or comments, of
\* this visit or of before; a brief comment may be repeated.
HadWritten == Len(own) - spent["post"] - spent["comment"]
NoEcho ==
  \A i \in DOMAIN own, j \in HadWritten + 1..Len(own) :
    i < j /\ own[i].text = own[j].text /\ ~ (own[j].kind = "comment" /\ own[j].text \in Brief) =>
      Cardinality({k \in i..j - 1 : own[k].kind = own[i].kind}) > OwnLimit

LoopSound == Conversation /\ TurnsBounded /\ CorrectionsEnd /\ NoThirdRepeat /\ NoEcho
=============================================================================
