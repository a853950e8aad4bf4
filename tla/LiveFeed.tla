----------------------------- MODULE LiveFeed -----------------------------
(***************************************************************************)
(* A page of the public ticker: the keyset pages of deaddit/live.py and    *)
(* the list that static/js/live.js keeps from them.                        *)
(*                                                                         *)
(* An event is its key: timestamp, kind and row id.  The kinds are         *)
(* numbered in the order of the cursor: comment, post, vote.  A row's      *)
(* timestamp is taken when its INSERT is issued; the row is there when the *)
(* transaction commits, which may be after a later one.  A request reads   *)
(* the watermark and then each source, with no snapshot over them.         *)
(***************************************************************************)
EXTENDS Integers, FiniteSets, SequencesExt

CONSTANTS
  Kinds,        \* comment, post and vote are 1, 2 and 3
  Filters,      \* selections of kinds a page may be opened with
  PageSize, NewerLimit, PerSource,
  MaxItems,     \* rows the list keeps
  ReaderStays,  \* whether the reader waits at the end of the list for older rows
  MaxRows,      \* bound of the model: events
  MaxTime       \* bound of the model: timestamps

ASSUME FeedAssumption ==
  /\ Kinds \subseteq 1..3 /\ Filters \subseteq SUBSET Kinds
  /\ {PageSize, NewerLimit, PerSource, MaxItems} \subseteq Nat \ {0}
  /\ PageSize <= PerSource /\ NewerLimit <= PerSource
  /\ ReaderStays \in BOOLEAN /\ MaxRows \in Nat /\ MaxTime \in Nat \ {0}

NoCursor == [ts |-> 0, kind |-> 0, id |-> 0]
NoTime == 0
Idle == [busy |-> FALSE]
Sides == {"older", "newer"}

VARIABLES
  rows,         \* committed events
  writing,      \* kind -> timestamp of the row a transaction has yet to commit
  time,
  kinds,        \* the page's filter
  list,         \* what #live-list holds, newest first
  older,        \* the cursor of the "load older" control; NoCursor without it
  asked,        \* side -> the request in flight
  acked,        \* the room's watermark
  page,         \* "closed", "opening", "open" (rendered), "joined"
  covered       \* history: what was there when the page asked for its place

feedVars == <<rows, writing, time, kinds, list, older, asked, acked, page, covered>>

world == <<rows, writing, time>>

FeedInit ==
  /\ rows = {} /\ writing = [k \in Kinds |-> NoTime] /\ time = 1
  /\ kinds \in Filters
  /\ list = <<>> /\ older = NoCursor
  /\ asked = [s \in Sides |-> Idle]
  /\ acked = NoTime /\ page = "closed" /\ covered = {}

Less(k, m) ==
  \/ k.ts < m.ts
  \/ k.ts = m.ts /\ k.kind < m.kind
  \/ k.ts = m.ts /\ k.kind = m.kind /\ k.id < m.id

Newest(S) == CHOOSE t \in {r.ts : r \in S} \cup {NoTime} : \A r \in S : r.ts <= t

-----------------------------------------------------------------------------
(* What the site writes *)

Stamp(k) ==
  /\ writing[k] = NoTime /\ Cardinality(rows) < MaxRows
  /\ writing' = [writing EXCEPT ![k] = time]
  /\ UNCHANGED <<rows, time, kinds, list, older, asked, acked, page, covered>>

Land(k) ==
  /\ writing[k] # NoTime
  /\ writing' = [writing EXCEPT ![k] = NoTime]
  /\ rows' = rows \cup {[ts |-> writing[k], kind |-> k,
                         id |-> 1 + Cardinality({r \in rows : r.kind = k})]}
  /\ UNCHANGED <<time, kinds, list, older, asked, acked, page, covered>>

Passes ==
  /\ time < MaxTime
  /\ time' = time + 1
  /\ UNCHANGED <<rows, writing, kinds, list, older, asked, acked, page, covered>>

-----------------------------------------------------------------------------
(* A request *)

\* Mutant: the sources of other kinds are cut by timestamp and id as well.
KeysetByIds(r, c, side) ==
  IF side = "newer" THEN r.ts > c.ts \/ (r.ts = c.ts /\ r.id > c.id)
                    ELSE r.ts < c.ts \/ (r.ts = c.ts /\ r.id < c.id)

\* _keyset_predicate: at the cursor's own timestamp a whole source is in or out,
\* but for the cursor's own kind.
Keyset(r, c, side) ==
  IF side = "newer"
  THEN r.ts > c.ts \/ (r.ts = c.ts /\ (r.kind > c.kind
                                       \/ (r.kind = c.kind /\ r.id > c.id)))
  ELSE r.ts < c.ts \/ (r.ts = c.ts /\ (r.kind < c.kind
                                       \/ (r.kind = c.kind /\ r.id < c.id)))

Closer(r, q, side) == IF side = "newer" THEN Less(r, q) ELSE Less(q, r)

\* Mutant: the newest rows are taken, whichever way the page goes.
NearestNewest(S, n, side) == {r \in S : Cardinality({q \in S : Less(r, q)}) < n}

Nearest(S, n, side) == {r \in S : Cardinality({q \in S : Closer(q, r, side)}) < n}

Source(k, c, side) ==
  Nearest({r \in rows : r.kind = k /\ (c = NoCursor \/ Keyset(r, c, side))},
          PerSource, side)

Request(c, since) ==
  [busy |-> TRUE, cursor |-> c, watermark |-> IF since THEN Newest(rows) ELSE NoTime,
   left |-> kinds, got |-> {}]

\* _collect_events asks one source after the other, in the order of the kinds.
Collect(side) ==
  /\ asked[side].busy /\ asked[side].left # {}
  /\ LET q == asked[side]
         k == CHOOSE m \in q.left : \A n \in q.left : m <= n
     IN asked' = [asked EXCEPT ![side].left = @ \ {k},
                               ![side].got = @ \cup Source(k, q.cursor, side)]
  /\ UNCHANGED <<world, kinds, list, older, acked, page, covered>>

\* The key decides what crosses a page boundary, and the order in it.
Selected(side) ==
  LET q == asked[side]
      limit == IF side = "newer" THEN NewerLimit ELSE PageSize
  IN Nearest({r \in q.got : q.cursor = NoCursor \/ Closer(q.cursor, r, side)},
             limit, side)

\* Newest first: each row stands behind those that are newer.
Rendered(S) ==
  [i \in 1..Cardinality(S) |-> CHOOSE r \in S : Cardinality({q \in S : Less(r, q)}) = i - 1]

PageSent(side) == asked[side].busy /\ asked[side].left = {}

Fails(side) ==
  /\ page = "joined" /\ asked[side].busy
  /\ asked' = [asked EXCEPT ![side] = Idle]
  /\ UNCHANGED <<world, kinds, list, older, acked, page, covered>>

-----------------------------------------------------------------------------
(* The page *)

Open ==
  /\ page = "closed"
  /\ page' = "opening"
  /\ asked' = [asked EXCEPT !["older"] = Request(NoCursor, FALSE)]
  /\ covered' = {r \in rows : r.kind \in kinds}
  /\ UNCHANGED <<world, kinds, list, older, acked>>

\* has_more and next_cursor: a full page has a control.
Control(S) == IF Cardinality(S) = PageSize THEN Last(Rendered(S)) ELSE NoCursor

\* The page, and each older page that htmx appends to it.
OlderArrives ==
  /\ PageSent("older")
  /\ LET S == Selected("older")
     IN list' = list \o Rendered(S) /\ older' = Control(S)
  /\ asked' = [asked EXCEPT !["older"] = Idle]
  /\ page' = IF page = "opening" THEN "open" ELSE page
  /\ UNCHANGED <<world, kinds, acked, covered>>

\* join_activity, for a room the pump did not know: a page without a list does
\* not open a socket.
Join ==
  /\ page = "open" /\ list # <<>>
  /\ page' = "joined"
  /\ acked' = Newest(rows)
  /\ UNCHANGED <<world, kinds, list, older, asked, covered>>

LoadOlder ==
  /\ page \in {"open", "joined"} /\ older # NoCursor /\ ~asked["older"].busy
  /\ asked' = [asked EXCEPT !["older"] = Request(older, FALSE)]
  /\ UNCHANGED <<world, kinds, list, older, acked, page, covered>>

\* live_count: the pump counts every kind past the room's watermark, and the page
\* asks for what is newer than its first row.
LoadNewer ==
  /\ page = "joined" /\ ~asked["newer"].busy
  /\ \E r \in rows : r.ts > acked
  /\ asked' = [asked EXCEPT !["newer"] = Request(Head(list), TRUE)]
  /\ covered' = covered \cup {r \in rows : r.kind \in kinds /\ Less(Head(list), r)}
  /\ UNCHANGED <<world, kinds, list, older, acked, page>>

\* trimOverflow: from the end, down to the cap or to a row the reader sees.
Kept(rendered) ==
  IF Len(rendered) <= MaxItems \/ (ReaderStays /\ asked["older"].busy)
  THEN {Len(rendered)} ELSE MaxItems..Len(rendered)

\* Mutant: the control keeps the cursor it had before the tail was dropped.
ReanchoredNever(rendered, kept) == older

Reanchored(rendered, kept) ==
  IF kept < Len(rendered) /\ older # NoCursor THEN rendered[kept] ELSE older

\* The rows are prepended, the tail is trimmed, and the watermark of the answer is
\* acknowledged (without rows in the tables: the first row's timestamp).
NewerArrives ==
  /\ PageSent("newer")
  /\ LET rendered == Rendered(Selected("newer")) \o list
         ts == asked["newer"].watermark
     IN /\ \E kept \in Kept(rendered) :
             /\ list' = SubSeq(rendered, 1, kept)
             /\ older' = Reanchored(rendered, kept)
        /\ acked' = IF ts > acked THEN ts ELSE acked
  /\ asked' = [asked EXCEPT !["newer"] = Idle]
  /\ UNCHANGED <<world, kinds, page, covered>>

FeedNext ==
  \/ \E k \in Kinds : Stamp(k) \/ Land(k)
  \/ Passes
  \/ \E side \in Sides : Collect(side) \/ Fails(side)
  \/ Open \/ OlderArrives \/ Join \/ LoadOlder \/ LoadNewer \/ NewerArrives

FeedSpec == FeedInit /\ [][FeedNext]_feedVars

-----------------------------------------------------------------------------
(* Properties *)

FeedTypeOK ==
  /\ \A r \in rows : r.ts \in 1..MaxTime /\ r.kind \in Kinds
  /\ \A k \in Kinds : writing[k] \in 0..time
  /\ \A i \in DOMAIN list : list[i] \in rows
  /\ older \in rows \cup {NoCursor}
  /\ page \in {"closed", "opening", "open", "joined"}
  /\ covered \subseteq rows

\* live.js and _collect_events: the list is newest first and shows no event
\* twice, whatever pages arrive in whatever order at its two ends.
NewestFirst == \A i \in 1..Len(list) - 1 : Less(list[i + 1], list[i])

\* live.py:163, live.js:27 (paging stays gapless): between its first and its last
\* row the list misses nothing that was there when the page asked for that place,
\* however timestamps tie over the kinds and rows arrive between two queries.
Gapless ==
  list # <<>> =>
    \A r \in covered :
      ~Less(Head(list), r) /\ ~Less(r, Last(list)) => r \in ToSet(list)

=============================================================================
