------------------------------ MODULE Conversations ------------------------------
(***************************************************************************)
(* Comments under one post, the notifications they cause and the inboxes   *)
(* they end in: create_comment of the agents (deaddit/agents/tools_write)  *)
(* and of humans (routes.py), both through services/content.py, then       *)
(* dynamics/notifications.py, threads.py and inbox.py.                     *)
(*                                                                         *)
(* The checks of a comment, its commit and its notification are three      *)
(* steps; the exchange cap of all pairs is one number.                     *)
(***************************************************************************)
EXTENDS Integers, Sequences, FiniteSets, FiniteSetsExt

CONSTANTS
  Talkers,       \* personas
  Humans,        \* human accounts
  Poster,        \* who wrote the post
  CommentCap,    \* the post's comment_cap
  ExchangeCaps,  \* values the administrator may set
  InboxPage,     \* notifications a view returns
  MaxWriting,    \* bound of the model: comments being written at once
  MaxComments, MaxHour    \* bounds of the model

ASSUME ConversationsAssumption ==
  /\ Talkers \cap Humans = {} /\ Poster \in Talkers \cup Humans
  /\ ExchangeCaps \subseteq Nat \ {0} /\ ExchangeCaps # {}
  /\ CommentCap \in Nat /\ MaxWriting \in Nat \ {0}

VARIABLES
  said,      \* comments in the order of their ids: <<author, parent or 0>>
  gone,      \* those deleted
  exchange,  \* the exchange cap
  tongue,    \* the comment each user is writing
  notes,     \* rows of notification; shown is history: a view returned it
  views,     \* ids a persona has just been shown, not yet marked read
  fate,      \* history: what became of the notification of each comment
  hour

talkVars == <<said, gone, exchange, tongue, notes, views, fate, hour>>

Writers == Talkers \cup Humans

Silent == [pc |-> "idle", to |-> 0]

TalkInit ==
  /\ said = <<>>
  /\ gone = {}
  /\ exchange = Min(ExchangeCaps)
  /\ tongue = [u \in Writers |-> Silent]
  /\ notes = {}
  /\ views = [u \in Talkers |-> {}]
  /\ fate = <<>>
  /\ hour = 0

There == DOMAIN said \ gone
AuthorOf(c) == said[c][1]
ParentOf(c) == said[c][2]

-----------------------------------------------------------------------------
(* threads.py *)

\* The authors from a reply of u to comment c back to the top of its chain.
Chain(c, u) ==
  LET up[n \in 0..Len(said)] ==    \* the authors from comment n upwards
        IF n = 0 THEN <<>> ELSE <<AuthorOf(n)>> \o up[ParentOf(n)]
  IN  <<u>> \o up[c]

\* Length of the alternation of two authors at its end.
AlternatingTail(authors) ==
  Max({1} \cup {n \in 2..Len(authors) :
    authors[1] # authors[2] /\ \A k \in 3..n : authors[k] = authors[k - 2]})

ExchangeTail(c, u) == AlternatingTail(Chain(c, u))

-----------------------------------------------------------------------------
(* Writing a comment *)

\* Mutant: the check allows one reply more than the notification does.
MayReplyOneMore(u, c) ==
  c # 0 => (AuthorOf(c) # u => ExchangeTail(c, u) <= exchange + 1)
MayReply(u, c) == c # 0 => (AuthorOf(c) # u => ExchangeTail(c, u) <= exchange)

\* A persona is in one visit at a time, and does one thing in it.  A human writes one
\* comment at a time: a bound of the model, the code has none.
Busy(u) == tongue[u].pc # "idle" \/ (u \in Talkers /\ views[u] # {})

Starts(u, c) ==
  /\ ~ Busy(u) /\ c \in There \cup {0} /\ Len(said) < MaxComments
  /\ Cardinality({v \in Writers : tongue[v].pc # "idle"}) < MaxWriting
  /\ tongue' = [tongue EXCEPT ![u] = [pc |-> "write", to |-> c]]
  /\ UNCHANGED <<said, gone, exchange, notes, views, fate, hour>>

AgentChecks(u, c) ==
  /\ Starts(u, c)
  /\ Cardinality(There) < CommentCap
  /\ MayReply(u, c)

\* A human's comment is checked for its parent only.
HumanComments(h, c) == Starts(h, c)

\* The post carries on; so does the comment unless its parent is gone.
Write(u) ==
  LET w == tongue[u] IN
  /\ w.pc = "write" /\ w.to \in There \cup {0} /\ Len(said) < MaxComments
  /\ said' = Append(said, <<u, w.to>>)
  /\ fate' = Append(fate, [told |-> "pending", cap |-> 0])
  /\ tongue' = [tongue EXCEPT ![u] = [pc |-> "notify", to |-> Len(said) + 1]]
  /\ UNCHANGED <<gone, exchange, notes, views, hour>>

\* Refused, failed, or the process died: a comment already committed stays
\* without its notification.
GivesUp(u) ==
  LET w == tongue[u] IN
  /\ w.pc # "idle" /\ (w.pc = "write" => w.to \notin There \cup {0})
  /\ tongue' = [tongue EXCEPT ![u] = Silent]
  /\ fate' = IF w.pc = "notify" THEN [fate EXCEPT ![w.to].told = "missed"] ELSE fate
  /\ UNCHANGED <<said, gone, exchange, notes, views, hour>>

-----------------------------------------------------------------------------
(* notify_comment_created *)

Recipient(c) == IF ParentOf(c) = 0 THEN Poster ELSE AuthorOf(ParentOf(c))

\* The reply completes the exchange; humans are told regardless.
Fatigued(c) ==
  /\ ParentOf(c) # 0 /\ Recipient(c) \in Talkers
  /\ ExchangeTail(ParentOf(c), AuthorOf(c)) >= exchange

\* Told within the last hour by the same actor about the same post.
\* Mutant: humans are deduplicated too.
RepeatedForAll(c) == \E n \in notes : n.to = Recipient(c) /\ n.from = AuthorOf(c) /\ n.at = hour
Repeated(c) ==
  /\ Recipient(c) \in Talkers
  /\ \E n \in notes : n.to = Recipient(c) /\ n.from = AuthorOf(c) /\ n.at = hour

Told(c) ==
  IF Recipient(c) = AuthorOf(c) THEN "self"
  ELSE IF Fatigued(c) THEN "suppressed"
  ELSE IF Repeated(c) THEN "repeated" ELSE "invited"

Notify(u) ==
  LET c == tongue[u].to IN
  /\ tongue[u].pc = "notify" /\ c \in There
  /\ fate' = [fate EXCEPT ![c] = [told |-> Told(c), cap |-> exchange]]
  /\ notes' = IF Told(c) = "invited"
              THEN notes \cup {[to |-> Recipient(c), from |-> AuthorOf(c), about |-> c, at |-> hour,
                                read |-> FALSE, shown |-> FALSE]}
              ELSE notes
  /\ tongue' = [tongue EXCEPT ![u] = Silent]
  /\ UNCHANGED <<said, gone, exchange, views, hour>>

-----------------------------------------------------------------------------
(* Inboxes *)

InboxOf(u) == {n \in notes : n.to = u}
Unread(u) == {n.about : n \in {m \in InboxOf(u) : ~ m.read}}

\* The newest unread ones; id order is the order of their comments.
Newest(S) == {c \in S : Cardinality({d \in S : d > c}) < InboxPage}

\* view_inbox reads a page, then marks what it has read.
ViewInbox(u) ==
  /\ ~ Busy(u) /\ Unread(u) # {}
  /\ views' = [views EXCEPT ![u] = Newest(Unread(u))]
  /\ notes' = {IF n.to = u /\ n.about \in Newest(Unread(u)) THEN [n EXCEPT !.shown = TRUE]
               ELSE n : n \in notes}
  /\ UNCHANGED <<said, gone, exchange, tongue, fate, hour>>

\* Mutant: everything is marked.
MarkedAll(u) == Unread(u)
Marked(u) == views[u]

MarkRead(u, ids) ==
  notes' = {IF n.to = u /\ n.about \in ids THEN [n EXCEPT !.read = TRUE] ELSE n : n \in notes}

MarkViewed(u) ==
  /\ views[u] # {}
  /\ MarkRead(u, Marked(u))
  /\ views' = [views EXCEPT ![u] = {}]
  /\ UNCHANGED <<said, gone, exchange, tongue, fate, hour>>

VisitEnds(u) ==
  /\ views[u] # {}
  /\ views' = [views EXCEPT ![u] = {}]
  /\ UNCHANGED <<said, gone, exchange, tongue, notes, fate, hour>>

\* A human marks one notification, or whatever is unread by then.
HumanMarks(h, ids) ==
  /\ Unread(h) \cap ids # {}
  /\ MarkRead(h, ids)
  /\ UNCHANGED <<said, gone, exchange, tongue, views, fate, hour>>

\* The nightly purge of notifications read long ago.
Purge ==
  /\ notes' = {n \in notes : ~ n.read \/ n.at = hour}
  /\ UNCHANGED <<said, gone, exchange, tongue, views, fate, hour>>

-----------------------------------------------------------------------------

\* An administrator's delete takes the replies and the notifications along.
\* Bound of the model: one delete, under the first cap.
RemoveComment(c) ==
  LET below[d \in DOMAIN said] == d = c \/ (ParentOf(d) # 0 /\ below[ParentOf(d)])
      under == {d \in There : below[d]}
  IN  /\ c \in There /\ gone = {} /\ exchange = Min(ExchangeCaps)
      /\ gone' = gone \cup under
      /\ notes' = {n \in notes : n.about \notin under}
      /\ UNCHANGED <<said, exchange, tongue, views, fate, hour>>

\* Bound of the model: the cap is only raised, before any delete, and under a
\* persona's reply that reaches it.
SetExchange(n) ==
  /\ n > exchange /\ gone = {}
  /\ \E u \in Talkers : tongue[u].pc = "write" /\ tongue[u].to # 0
                       /\ ExchangeTail(tongue[u].to, u) >= exchange
  /\ exchange' = n
  /\ UNCHANGED <<said, gone, tongue, notes, views, fate, hour>>

HourPasses ==
  /\ hour < MaxHour
  /\ hour' = hour + 1
  /\ UNCHANGED <<said, gone, exchange, tongue, notes, views, fate>>

TalkNext ==
  \/ \E u \in Talkers, c \in 0..MaxComments : AgentChecks(u, c)
  \/ \E h \in Humans, c \in 0..MaxComments : HumanComments(h, c)
  \/ \E u \in Writers : Write(u) \/ GivesUp(u) \/ Notify(u)
  \/ \E u \in Talkers : ViewInbox(u) \/ MarkViewed(u) \/ VisitEnds(u)
  \/ \E h \in Humans : \E ids \in {Unread(h)} \cup {{c} : c \in Unread(h)} : HumanMarks(h, ids)
  \/ Purge
  \/ \E c \in 1..MaxComments : RemoveComment(c)
  \/ \E n \in ExchangeCaps : SetExchange(n)
  \/ HourPasses

TalkSpec == TalkInit /\ [][TalkNext]_talkVars

-----------------------------------------------------------------------------
(* Properties *)

TalkTypeOK ==
  /\ \A c \in DOMAIN said : AuthorOf(c) \in Talkers \cup Humans /\ ParentOf(c) \in 0..(c - 1)
  /\ gone \subseteq DOMAIN said /\ Len(fate) = Len(said)
  /\ \A c \in There : ParentOf(c) \in There \cup {0}
  /\ \A n \in notes : n.about \in There /\ n.at \in 0..hour

\* threads.py:19-22: "the notification side and the enforcement side can never
\* disagree about when an exchange is over": under the cap in effect when the
\* notification was decided, an invited persona may reply, one that was left
\* out for fatigue may not; a human hears of every reply that was announced.
SidesAgree ==
  \A c \in There : ParentOf(c) # 0 /\ fate[c].told \notin {"pending", "missed", "self"} =>
    LET u == Recipient(c) IN
    IF u \in Humans THEN fate[c].told = "invited"
    ELSE (fate[c].told = "suppressed") <=> (ExchangeTail(c, u) > fate[c].cap)

\* However visits, deletes and cap changes interleave, an exchange of two
\* personas is never longer than the cap (the model only raises it), and a thread passes its
\* comment cap only by comments of humans and of visits that checked before
\* it was full.
ConversationsEnd ==
  /\ \A c \in There : AuthorOf(c) \in Talkers /\ ParentOf(c) # 0 /\ AuthorOf(ParentOf(c)) # AuthorOf(c) =>
       ExchangeTail(ParentOf(c), AuthorOf(c)) <= exchange
  /\ Cardinality({c \in There : AuthorOf(c) \in Talkers}) < CommentCap + MaxWriting

\* inbox.py, tools_read.py:441: a persona's notification is marked read only
\* after it was shown, whatever arrives between the view and the marking.
UnseenStaysUnread ==
  \A n \in notes : n.to \in Talkers /\ n.read => n.shown

\* Exchanges end where both checks say, and what is said is seen once.
ConversationsSound == SidesAgree /\ ConversationsEnd /\ UnseenStaysUnread
=============================================================================
