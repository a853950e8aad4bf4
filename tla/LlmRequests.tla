------------------------------- MODULE LlmRequests -------------------------------
(***************************************************************************)
(* Chat completions (deaddit/llm): the gate on what an endpoint can do     *)
(* (capabilities.py), up to three attempts within the deadline of a visit  *)
(* (transport.py), the validation of the answer (client.py) and the ledger *)
(* of attempts (accounting.py); beside the administrator's probes and      *)
(* overrides of the same endpoint (admin.py).                              *)
(*                                                                         *)
(* One endpoint and model; network calls take any time.                    *)
(***************************************************************************)
EXTENDS Integers, FiniteSets

CONSTANTS
  Callers,       \* threads that ask for completions
  Probers,       \* threads that serve a probe
  MaxAttempts,     \* _MAX_ATTEMPTS
  LlmBudget,     \* the deadline of a call, in ticks; bound of the model
  MaxChats, MaxVerdicts    \* bounds of the model

ASSUME LlmAssumption == MaxAttempts \in Nat \ {0} /\ LlmBudget \in Nat

VARIABLES
  cap,        \* the endpoint_capability row
  chat,       \* the call of each caller
  prober,     \* the probe of each prober
  chats, verdicts    \* how many calls, probes and overrides there were

llmVars == <<cap, chat, prober, chats, verdicts>>

NoRow == [row |-> FALSE, tools |-> FALSE, by |-> "none", aged |-> FALSE,
          vision |-> "unknown", visionBy |-> "none"]

NoChat == [pc |-> "idle"]
NoProbe == [pc |-> "idle"]

LlmInit ==
  /\ cap = NoRow
  /\ chat = [t \in Callers |-> NoChat]
  /\ prober = [p \in Probers |-> NoProbe]
  /\ chats = 0
  /\ verdicts = 0

-----------------------------------------------------------------------------
(* Verdicts.  A session that has loaded the row writes only the columns that *)
(* differ from what it has loaded, and does not look at the row again.       *)

Written(seen, column, value) ==
  IF seen.row /\ seen[column] = value THEN cap[column] ELSE value

Verdict(seen, tools) ==
  IF ~ cap.row THEN [NoRow EXCEPT !.row = TRUE, !.tools = tools, !.by = "probe"]
  ELSE [cap EXCEPT !.tools = Written(seen, "tools", tools),
                   !.by = Written(seen, "by", "probe"), !.aged = FALSE]

VisionVerdict(seen, vision) ==
  [cap EXCEPT !.vision = Written(seen, "vision", vision),
              !.visionBy = Written(seen, "visionBy", "probe")]

\* set_manual_override, set_vision_manual_override: the second leaves a row
\* whose tools verdict is FALSE and nobody's.
OverrideTools(tools) ==
  /\ verdicts < MaxVerdicts /\ verdicts' = verdicts + 1
  /\ cap' = [cap EXCEPT !.row = TRUE, !.tools = tools, !.by = "manual", !.aged = FALSE]
  /\ UNCHANGED <<chat, prober, chats>>

OverrideVision(vision) ==
  /\ verdicts < MaxVerdicts /\ verdicts' = verdicts + 1
  /\ cap' = [cap EXCEPT !.row = TRUE, !.vision = vision, !.visionBy = "manual"]
  /\ UNCHANGED <<chat, prober, chats>>

\* Six hours pass.
VerdictAges ==
  /\ cap.by = "probe" /\ ~ cap.aged
  /\ cap' = [cap EXCEPT !.aged = TRUE]
  /\ UNCHANGED <<chat, prober, chats, verdicts>>

\* probe_endpoint and probe_vision: a manual verdict is looked for first.
\* Without a row, the tools are probed before the vision.
ProbeTools(p) ==
  /\ prober[p] = NoProbe /\ verdicts < MaxVerdicts /\ verdicts' = verdicts + 1
  /\ cap.by # "manual"
  /\ prober' = [prober EXCEPT ![p] = [pc |-> "tools", seen |-> cap, then |-> FALSE]]
  /\ UNCHANGED <<cap, chat, chats>>

ProbeVision(p) ==
  /\ prober[p] = NoProbe /\ verdicts < MaxVerdicts /\ verdicts' = verdicts + 1
  /\ cap.visionBy # "manual"
  /\ prober' = [prober EXCEPT ![p] =
       [pc |-> IF cap.row THEN "vision" ELSE "tools", seen |-> cap, then |-> ~ cap.row]]
  /\ UNCHANGED <<cap, chat, chats>>

\* The endpoint answers: a verdict either way.
ToolsProbed(p, tools) ==
  /\ prober[p].pc = "tools"
  /\ cap' = Verdict(prober[p].seen, tools)
  /\ prober' = [prober EXCEPT ![p] =
       IF prober[p].then THEN [pc |-> "vision", seen |-> cap', then |-> FALSE] ELSE NoProbe]
  /\ UNCHANGED <<chat, chats, verdicts>>

VisionProbed(p, vision) ==
  /\ prober[p].pc = "vision" /\ cap.row
  /\ cap' = VisionVerdict(prober[p].seen, vision)
  /\ prober' = [prober EXCEPT ![p] = NoProbe]
  /\ UNCHANGED <<chat, chats, verdicts>>

\* It does not answer, answers something else, or the row is gone.
ProbeFails(p) ==
  /\ prober[p] # NoProbe
  /\ prober' = [prober EXCEPT ![p] = NoProbe]
  /\ UNCHANGED <<cap, chat, chats, verdicts>>

-----------------------------------------------------------------------------
(* One call *)

\* left: time to the deadline; rows: its rows in llm_usage; sent: attempts
\* that left; lost: a row could not be written.
StartChat(t, tools) ==
  /\ chat[t].pc \in {"idle", "done"} /\ chats < MaxChats
  /\ chat' = [chat EXCEPT ![t] =
       [pc |-> IF tools THEN "gate" ELSE "send", tools |-> tools, left |-> LlmBudget,
        attempt |-> 0, rows |-> {}, lost |-> FALSE, result |-> "none", seen |-> NoRow]]
  /\ chats' = chats + 1
  /\ UNCHANGED <<cap, prober, verdicts>>

Goes(t, c) == chat' = [chat EXCEPT ![t] = c]
Rest == UNCHANGED <<prober, chats, verdicts>>

Refusal(c) == [c EXCEPT !.pc = "done", !.result = "refused"]

Stale == cap.row /\ ~ cap.tools /\ cap.by = "probe" /\ cap.aged

\* ensure_tools_allowed.
Gate(t) ==
  LET c == chat[t] IN
  /\ c.pc = "gate"
  /\ Goes(t, IF Stale THEN [c EXCEPT !.pc = "reprobe", !.seen = cap]
             ELSE IF cap.row /\ ~ cap.tools THEN Refusal(c)
             ELSE [c EXCEPT !.pc = "send"])
  /\ UNCHANGED cap /\ Rest

\* What the row says after the session has written its verdict to it.
Reprobed(t, tools) ==
  LET c == chat[t] IN
  /\ c.pc = "reprobe"
  /\ cap' = Verdict(c.seen, tools)
  /\ Goes(t, IF tools THEN [c EXCEPT !.pc = "send"] ELSE Refusal(c))
  /\ Rest

ReprobeFails(t) ==
  /\ chat[t].pc = "reprobe"
  /\ Goes(t, Refusal(chat[t]))
  /\ UNCHANGED cap /\ Rest

\* _commit: a row that cannot be written is skipped.
Row(c, status, written) ==
  IF written THEN [c EXCEPT !.rows = @ \cup {<<c.attempt, status>>}]
  ELSE [c EXCEPT !.lost = TRUE]

\* finalize: a call that recorded no row gets one.
\* Mutant: whatever it has recorded, it gets a row at the end.
FinalizedTwice(c, result, written) ==
  LET d == IF written THEN [c EXCEPT !.rows = @ \cup {<<1, "failed">>}]
           ELSE [c EXCEPT !.lost = TRUE]
  IN  [d EXCEPT !.pc = "done", !.result = result]
Finalized(c, result, written) ==
  LET d == IF c.rows # {} THEN c
           ELSE IF written
           THEN [c EXCEPT !.rows = {<<1, IF result = "answer" THEN "ok" ELSE "failed">>}]
           ELSE [c EXCEPT !.lost = TRUE]
  IN  [d EXCEPT !.pc = "done", !.result = result]

\* An attempt starts, or the deadline is over.
Attempt(t) ==
  LET c == chat[t] IN
  /\ c.pc = "send" /\ c.left > 0
  /\ Goes(t, [c EXCEPT !.pc = "wait", !.attempt = @ + 1])
  /\ UNCHANGED cap /\ Rest

DeadlineOver(t, written) ==
  LET c == chat[t] IN
  /\ c.pc \in {"send", "backoff"} /\ c.left = 0
  /\ Goes(t, Finalized(c, "transient", written))
  /\ UNCHANGED cap /\ Rest

\* Mutant: one more attempt than there are.
MayRetryOneMore(c) == c.attempt <= MaxAttempts
MayRetry(c) == c.attempt < MaxAttempts

\* Mutant: an answer after the deadline is taken.
ExpiredNever(c) == FALSE
Expired(c) == c.left = 0

\* No connection, a timeout, a status worth a retry; an answer of the last
\* kind counts only before the deadline.
AttemptFails(t, answered, written, again) ==
  LET c == chat[t]
      d == Row(c, "failed", written)
  IN  /\ c.pc = "wait" /\ ~ (answered /\ Expired(c))
      /\ Goes(t, IF MayRetry(c) THEN [d EXCEPT !.pc = "backoff"]
                 ELSE Finalized(d, "transient", again))
      /\ UNCHANGED cap /\ Rest

BackoffOver(t) ==
  /\ chat[t].pc = "backoff"
  /\ Goes(t, [chat[t] EXCEPT !.pc = "send"])
  /\ UNCHANGED cap /\ Rest

\* An answer after the deadline is dropped, and so is its attempt.
TooLate(t, written) ==
  LET c == chat[t] IN
  /\ c.pc = "wait" /\ Expired(c)
  /\ Goes(t, Finalized(c, "transient", written))
  /\ UNCHANGED cap /\ Rest

\* The row of a success waits for the validation of the answer.
\* Mutant: a malformed answer is recorded as a success.
StatusOfEarly(kind) == IF kind = "refusal" THEN "failed" ELSE "ok"
StatusOf(kind) == IF kind = "good" THEN "ok" ELSE "failed"

Answered(t, kind, written, again) ==
  LET c == chat[t]
      result == IF kind = "good" THEN "answer" ELSE "permanent"
  IN  /\ c.pc = "wait" /\ ~ Expired(c)
      /\ kind \in {"good", "malformed", "refusal"}
      /\ Goes(t, Finalized(Row(c, StatusOf(kind), written), result, again))
      /\ UNCHANGED cap /\ Rest

\* HTTP 400 that names tools: mark_stale drops the row, whoever wrote it.
ToolsRejected(t, written, again) ==
  LET c == chat[t] IN
  /\ c.pc = "wait" /\ ~ Expired(c) /\ c.tools
  /\ cap' = NoRow
  /\ Goes(t, Finalized(Row(c, "failed", written), "refused", again))
  /\ Rest

TimePasses(t) ==
  /\ chat[t].pc \in {"send", "wait", "backoff"} /\ chat[t].left > 0
  /\ Goes(t, [chat[t] EXCEPT !.left = @ - 1])
  /\ UNCHANGED cap /\ Rest

LlmNext ==
  \/ \E t \in Callers :
       \/ \E tools \in BOOLEAN : StartChat(t, tools) \/ Reprobed(t, tools)
       \/ Gate(t) \/ ReprobeFails(t) \/ Attempt(t) \/ BackoffOver(t) \/ TimePasses(t)
       \/ \E written, again \in BOOLEAN :
            \/ DeadlineOver(t, written)
            \/ TooLate(t, written)
            \/ ToolsRejected(t, written, again)
            \/ \E answered \in BOOLEAN : AttemptFails(t, answered, written, again)
            \/ \E kind \in {"good", "malformed", "refusal"} : Answered(t, kind, written, again)
  \/ \E p \in Probers :
       \/ ProbeTools(p) \/ ProbeVision(p) \/ ProbeFails(p)
       \/ \E tools \in BOOLEAN : ToolsProbed(p, tools)
       \/ \E vision \in {"yes", "no"} : VisionProbed(p, vision)
  \/ \E tools \in BOOLEAN : OverrideTools(tools)
  \/ \E vision \in {"yes", "no"} : OverrideVision(vision)
  \/ VerdictAges

LlmSpec == LlmInit /\ [][LlmNext]_llmVars

-----------------------------------------------------------------------------
(* Properties *)

LlmTypeOK ==
  /\ cap.by \in {"none", "probe", "manual"} /\ cap.tools \in BOOLEAN
  /\ \A t \in Callers : chat[t] # NoChat =>
       /\ chat[t].attempt \in 0..MaxAttempts /\ chat[t].left \in 0..LlmBudget
       /\ \A r \in chat[t].rows : r \in (1..MaxAttempts) \X {"ok", "failed"}

Ended(t) == chat[t].pc = "done"

\* accounting.py:1: the ledger tells what the caller got.  One row per attempt
\* at most, a success exactly where there was an answer, failures for all
\* attempts before it, and nothing for a call that was never sent.  And an answer
\* is in time, whatever attempts, back-off and slow replies came before it.
LedgerHonest ==
  \A t \in Callers : Ended(t) =>
    LET c == chat[t] IN
    /\ \A r, s \in c.rows : r[1] = s[1] => r = s
    /\ (\E r \in c.rows : r[2] = "ok") => c.result = "answer"
    /\ c.result = "answer" /\ ~ c.lost =>
         c.rows = {<<n, IF n = c.attempt THEN "ok" ELSE "failed">> : n \in 1..c.attempt}
    /\ c.attempt = 0 /\ c.result = "refused" => c.rows = {}
    /\ c.attempt > 0 /\ ~ c.lost => c.rows # {}
    /\ c.result = "answer" => c.left > 0
=============================================================================
