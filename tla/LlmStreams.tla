------------------------------ MODULE LlmStreams ------------------------------
(***************************************************************************)
(* Streamed completions (client.py stream, transport.py stream_chat,       *)
(* capabilities.py probe_streaming): whether the endpoint streams is       *)
(* looked up or probed; if it does, chunks become events as they arrive,   *)
(* and after the last one comes Done; if not, an ordinary completion is    *)
(* delivered as one token and Done.                                        *)
(*                                                                         *)
(* One call at a time, of one endpoint and model; its consumer takes the   *)
(* events one by one and may drop the stream at any of them.  A piece is   *)
(* the attempt and the place in which the endpoint sent it.                *)
(***************************************************************************)
EXTENDS Integers, SequencesExt

CONSTANTS
  StreamAttempts,    \* _MAX_ATTEMPTS
  MaxPieces,         \* bound of the model: pieces of one attempt
  MaxStreams         \* bound of the model: calls

ASSUME LlmStreamsAssumption ==
  StreamAttempts \in Nat \ {0} /\ MaxPieces \in Nat /\ MaxStreams \in Nat

VARIABLES
  streamRow,    \* the capability row: no row, or what it says of streaming
  flow,         \* the call
  emitted,      \* what the consumer was given
  sent,         \* what the endpoint sent, over all attempts
  streams

streamVars == <<streamRow, flow, emitted, sent, streams>>

PieceKinds == {"text", "thought", "call1", "call2", "usage"}
NoTools == [c \in {"call1", "call2"} |-> << >>]
NoFlow == [pc |-> "over", saw |-> FALSE, attempt |-> 0, invoked |-> FALSE, rows |-> {}, lost |-> FALSE,
           text |-> << >>, tools |-> NoTools, result |-> "none"]

StreamInit ==
  /\ streamRow \in [there : {FALSE}, streaming : {"unknown"}, manual : {FALSE}]
                   \cup [there : {TRUE}, streaming : {"unknown", "yes", "no"}, manual : BOOLEAN]
  /\ flow = NoFlow /\ emitted = << >> /\ sent = << >> /\ streams = 0

-----------------------------------------------------------------------------
(* Does it stream? *)

StartStream ==
  /\ flow.pc = "over" /\ streams < MaxStreams
  /\ flow' = [NoFlow EXCEPT !.pc = "resolve"]
  /\ emitted' = << >> /\ sent' = << >> /\ streams' = streams + 1
  /\ UNCHANGED streamRow

\* _resolve_stream_support: a verdict, a manual row without one, or a probe.
ResolveSupport ==
  /\ flow.pc = "resolve"
  /\ flow' = [flow EXCEPT !.saw = streamRow.there, !.pc =
       CASE streamRow.there /\ streamRow.streaming = "yes" -> "gate"
         [] streamRow.there /\ streamRow.streaming # "yes"
              /\ (streamRow.streaming = "no" \/ streamRow.manual) -> "complete"
         [] OTHER -> "probe"]
  /\ UNCHANGED <<streamRow, emitted, sent, streams>>

\* probe_streaming: a token before the end is a yes.  A row that was there must be
\* there still; one that was not is made by a probe of the tools.
StreamProbed(found) ==
  /\ flow.pc = "probe" /\ (flow.saw => streamRow.there)
  /\ streamRow' = [streamRow EXCEPT !.there = TRUE, !.streaming = IF found THEN "yes" ELSE "no"]
  /\ flow' = [flow EXCEPT !.pc = IF found THEN "gate" ELSE "complete"]
  /\ UNCHANGED <<emitted, sent, streams>>

\* It fails before, or after, the probe of the tools has made the row.
StreamProbeFails(row) ==
  /\ flow.pc = "probe" /\ (row # streamRow.there => row /\ ~ flow.saw)
  /\ streamRow' = [streamRow EXCEPT !.there = row]
  /\ flow' = [flow EXCEPT !.pc = "complete"]
  /\ UNCHANGED <<emitted, sent, streams>>

\* An override of the administrator's, or a 400 elsewhere that drops the row.
RowChanges ==
  /\ streamRow.there /\ ~ streamRow.manual
  /\ \/ streamRow' = [streamRow EXCEPT !.manual = TRUE]
     \/ streamRow' = [there |-> FALSE, streaming |-> "unknown", manual |-> FALSE]
  /\ UNCHANGED <<flow, emitted, sent, streams>>

\* The completion instead of a stream, with its attempts and rows (LlmRequests).
CompletedInstead(answered) ==
  /\ flow.pc = "complete"
  /\ flow' = IF answered
             THEN [flow EXCEPT !.pc = "closed", !.text = <<<<0, 1>>>>, !.result = "synthesized"]
             ELSE [flow EXCEPT !.pc = "over", !.result = "failed"]
  /\ emitted' = IF answered THEN <<[kind |-> "text", piece |-> <<0, 1>>]>> ELSE emitted
  /\ UNCHANGED <<streamRow, sent, streams>>

-----------------------------------------------------------------------------
(* The ledger *)

Noted(f, status, written) ==
  IF written THEN [f EXCEPT !.rows = @ \cup {<<f.attempt, status>>}] ELSE [f EXCEPT !.lost = TRUE]

\* finalize: a row for a call that was sent and has none.
FinalRow(f, failed, written) ==
  IF ~ f.invoked \/ f.rows # {} THEN f
  ELSE IF written THEN [f EXCEPT !.rows = {<<1, IF failed THEN "failed" ELSE "ok">>}]
  ELSE [f EXCEPT !.lost = TRUE]

Fail(f, written) == [FinalRow(f, TRUE, written) EXCEPT !.pc = "over", !.result = "failed"]

-----------------------------------------------------------------------------
(* The stream *)

\* ensure_tools_allowed, for a call with tools, may refuse: nothing was sent.
PassGate(refused) ==
  /\ flow.pc = "gate"
  /\ flow' = IF refused THEN [flow EXCEPT !.pc = "over", !.result = "failed"]
             ELSE [flow EXCEPT !.pc = "connect", !.attempt = 1, !.invoked = TRUE]
  /\ UNCHANGED <<streamRow, emitted, sent, streams>>

\* Mutant: the last attempt is followed by one more.
TriesAgainOnceMore(f) == f.attempt <= StreamAttempts
TriesAgain(f) == f.attempt < StreamAttempts

\* No connection, or a status worth a retry; any other status ends it.
ConnectFails(retryable, written, again) ==
  /\ flow.pc = "connect"
  /\ flow' = LET f == Noted(flow, "failed", written)
             IN IF retryable /\ TriesAgain(f) THEN [f EXCEPT !.attempt = @ + 1]
                ELSE Fail(f, again)
  /\ UNCHANGED <<streamRow, emitted, sent, streams>>

Connected ==
  /\ flow.pc = "connect"
  /\ flow' = [flow EXCEPT !.pc = "read"]
  /\ UNCHANGED <<streamRow, emitted, sent, streams>>

SentNow == Cardinality({i \in DOMAIN sent : sent[i].piece[1] = flow.attempt})

\* Fragments of a tool call are put together by its index.
\* Mutant: they go to the call that the first of them began.
AssembledFirst(kind, piece) ==
  IF flow.tools["call1"] # << >> THEN [flow.tools EXCEPT !["call1"] = Append(@, piece)]
  ELSE [flow.tools EXCEPT ![kind] = Append(@, piece)]
Assembled(kind, piece) == [flow.tools EXCEPT ![kind] = Append(@, piece)]

\* A chunk arrives; what it holds is remembered and handed out.
Chunk(kind) ==
  LET piece == <<flow.attempt, SentNow + 1>> IN
  /\ flow.pc = "read" /\ SentNow < MaxPieces
  /\ sent' = Append(sent, [kind |-> kind, piece |-> piece])
  /\ emitted' = IF kind = "usage" THEN emitted ELSE Append(emitted, [kind |-> kind, piece |-> piece])
  /\ flow' = CASE kind = "text" -> [flow EXCEPT !.text = Append(@, piece)]
               [] kind \in DOMAIN NoTools -> [flow EXCEPT !.tools = Assembled(kind, piece)]
               [] OTHER -> flow
  /\ UNCHANGED <<streamRow, streams>>

\* [DONE], or a connection closed in order.
StreamEnds(written, again) ==
  /\ flow.pc = "read"
  /\ flow' = [FinalRow(Noted(flow, "ok", written), FALSE, again)
              EXCEPT !.pc = "closed", !.result = "streamed"]
  /\ UNCHANGED <<streamRow, emitted, sent, streams>>

\* Once the body is being read there is no further attempt.
\* Mutant: the attempt is repeated as long as there are any.
StreamBreaksAndRetries(written, again) ==
  /\ flow.pc = "read"
  /\ flow' = LET f == Noted(flow, "failed", written)
             IN IF TriesAgain(f) THEN [f EXCEPT !.pc = "connect", !.attempt = @ + 1]
                ELSE Fail(f, again)
  /\ UNCHANGED <<streamRow, emitted, sent, streams>>
StreamBreaks(written, again) ==
  /\ flow.pc = "read"
  /\ flow' = Fail(Noted(flow, "failed", written), again)
  /\ UNCHANGED <<streamRow, emitted, sent, streams>>

\* A chunk that is no object raises what the transport does not report.
BadChunk(written) ==
  /\ flow.pc = "read"
  /\ flow' = Fail(flow, written)
  /\ UNCHANGED <<streamRow, emitted, sent, streams>>

\* The consumer closes the stream at an event: no exception that is looked at.
StreamDropped(written) ==
  /\ flow.pc = "read" /\ emitted # << >> /\ Last(emitted).piece = Last(sent).piece
  /\ flow' = [FinalRow(flow, FALSE, written) EXCEPT !.pc = "over", !.result = "dropped"]
  /\ UNCHANGED <<streamRow, emitted, sent, streams>>

Finish ==
  /\ flow.pc = "closed"
  /\ flow' = [flow EXCEPT !.pc = "over"]
  /\ emitted' = Append(emitted, [kind |-> "done", piece |-> <<flow.attempt, 0>>,
                              text |-> flow.text, tools |-> flow.tools])
  /\ UNCHANGED <<streamRow, sent, streams>>

StreamNext ==
  \/ StartStream \/ ResolveSupport \/ RowChanges \/ Connected \/ Finish
  \/ \E yes \in BOOLEAN :
       StreamProbed(yes) \/ StreamProbeFails(yes) \/ CompletedInstead(yes) \/ PassGate(yes)
         \/ BadChunk(yes) \/ StreamDropped(yes)
  \/ \E written, again \in BOOLEAN :
       \/ StreamEnds(written, again) \/ StreamBreaks(written, again)
       \/ \E retryable \in BOOLEAN : ConnectFails(retryable, written, again)
  \/ \E kind \in PieceKinds : Chunk(kind)

StreamSpec == StreamInit /\ [][StreamNext]_streamVars

-----------------------------------------------------------------------------
(* Properties *)

StreamTypeOK ==
  /\ streamRow \in [there : BOOLEAN, streaming : {"unknown", "yes", "no"}, manual : BOOLEAN]
  /\ flow.attempt \in 0..StreamAttempts
  /\ flow.rows \subseteq (1..StreamAttempts) \X {"ok", "failed"}

\* The pieces of one kind among the events, all of them and in their order.
Tells(list, events, kind) ==
  \E at \in [DOMAIN list -> DOMAIN events] :
    /\ \A i, j \in DOMAIN list : i < j => at[i] < at[j]
    /\ {at[i] : i \in DOMAIN list} = {i \in DOMAIN events : events[i].kind = kind}
    /\ \A i \in DOMAIN list : list[i] = events[at[i]].piece

\* "Terminal event of a stream; exactly one per call": Done is the last event, of
\* a call that ended well, and tells what was handed out: no text twice after a
\* retry, no fragment in another call's arguments.
DoneTellsAll ==
  /\ \A i, j \in DOMAIN emitted : emitted[i].piece[1] = emitted[j].piece[1]
  /\ \A i \in DOMAIN emitted : emitted[i].kind = "done" =>
       /\ i = Len(emitted) /\ flow.result \in {"streamed", "synthesized"}
       /\ Tells(emitted[i].text, emitted, "text")
       /\ \A c \in DOMAIN NoTools : Tells(emitted[i].tools[c], sent, c)
  /\ flow.pc = "over" /\ flow.result \in {"streamed", "synthesized"} =>
       \E i \in DOMAIN emitted : emitted[i].kind = "done"

\* The ledger of a stream: one row for an attempt, a success only for a stream that
\* ended or was dropped, and failures before it.  A dropped stream that had to be
\* attempted twice leaves no row of its last attempt.
StreamLedger ==
  flow.pc = "over" =>
    /\ \A r, s \in flow.rows : r[1] = s[1] => r = s
    /\ (\E r \in flow.rows : r[2] = "ok") => flow.result \in {"streamed", "dropped"}
    /\ flow.result = "streamed" /\ ~ flow.lost =>
         flow.rows = {<<n, IF n = flow.attempt THEN "ok" ELSE "failed">> : n \in 1..flow.attempt}
    /\ flow.invoked /\ ~ flow.lost => flow.rows # {}

StreamsSound == DoneTellsAll /\ StreamLedger
=============================================================================
