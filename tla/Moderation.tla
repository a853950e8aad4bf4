------------------------------- MODULE Moderation -------------------------------
(***************************************************************************)
(* The administrator's deletes (deaddit/admin.py) of posts, comments,      *)
(* users and communities, beside users who post, reply and vote.           *)
(*                                                                         *)
(* A delete first reads what it will take with it.  Its first DELETE or    *)
(* UPDATE takes SQLite's writer lock, and everything after that, up to the *)
(* commit, is one step.  Foreign keys are on: what was committed between   *)
(* the two makes the second step fail, or is taken along, or survives.     *)
(***************************************************************************)
EXTENDS Integers, FiniteSets, FiniteSetsExt

CONSTANTS
  Members,      \* users, personas and humans
  Guests,       \* anonymous voters
  Posts, Comments,
  By,           \* Posts and Comments -> Members
  On,           \* Comments -> Posts
  ReplyTo,      \* Comments -> Comments, or the comment itself at top level
  Requests,     \* threads of the web process that serve a delete
  MaxCasts, MaxDeletes    \* bounds of the model

Entries == Posts \cup Comments

ASSUME ModerationAssumption ==
  /\ Posts \cap Comments = {} /\ Members \cap Guests = {}
  /\ By \in [Entries -> Members] /\ On \in [Comments -> Posts]
  /\ ReplyTo \in [Comments -> Comments]
  /\ \A c \in Comments : On[ReplyTo[c]] = On[c]

VARIABLES
  members,    \* rows of user
  community,  \* the community of all posts exists
  entries,    \* rows of post and comment
  parent,     \* comment.parent_id, the comment itself for NULL
  ballots,    \* rows of vote: <<voter, entry, value>>
  points,     \* score and vote_count of each entry
  earned,     \* post_karma and comment_karma of each member
  request,    \* what each delete has read
  crossed,    \* history: entries voted on by a member while being deleted
  casts, deletes     \* history: how often

modVars == <<members, community, entries, parent, ballots, points, earned,
             request, crossed, casts, deletes>>
forum == <<members, community, entries, parent, ballots, points, earned>>

Kinds == {"post", "comment"}
KindOf(e) == IF e \in Posts THEN "post" ELSE "comment"

BallotsOn(e) == {b \in ballots : b[2] = e}
Tally(B) == <<SumFunction([b \in B |-> b[3]]), Cardinality(B)>>
EarnedFrom(B, E, u, k) ==
  Tally({b \in B : b[2] \in E /\ By[b[2]] = u /\ KindOf(b[2]) = k})[1]

NoRequest == [kind |-> "none"]

ModInit ==
  /\ members = Members
  /\ community = TRUE
  /\ entries = {}
  /\ parent = ReplyTo
  /\ ballots = {}
  /\ points = [e \in Entries |-> <<0, 0>>]
  /\ earned = [u \in Members |-> [k \in Kinds |-> 0]]
  /\ request = [r \in Requests |-> NoRequest]
  /\ crossed = {}
  /\ casts = 0
  /\ deletes = 0

-----------------------------------------------------------------------------
(* What users do *)

\* A row is inserted if what it refers to exists.  SQLite may give it the id of
\* a row that was deleted; here the author is then the same.
WritePost(p) ==
  /\ p \notin entries /\ community /\ By[p] \in members
  /\ entries' = entries \cup {p}
  /\ UNCHANGED <<members, community, parent, ballots, points, earned, request,
                 crossed, casts, deletes>>

WriteComment(c) ==
  /\ c \notin entries /\ By[c] \in members /\ On[c] \in entries
  /\ ReplyTo[c] \in entries \cup {c}
  /\ entries' = entries \cup {c}
  /\ parent' = [parent EXCEPT ![c] = ReplyTo[c]]
  /\ UNCHANGED <<members, community, ballots, points, earned, request, crossed,
                 casts, deletes>>

\* cast_vote: row, score, count and karma in one transaction (module Votes).
Ballot(v, e, value) ==
  /\ casts < MaxCasts
  /\ e \in entries /\ v \in members \cup Guests /\ v # By[e]
  /\ \A b \in BallotsOn(e) : b[1] # v
  /\ ballots' = ballots \cup {<<v, e, value>>}
  /\ points' = [points EXCEPT ![e] = <<@[1] + value, @[2] + 1>>]
  /\ earned' = [earned EXCEPT ![By[e]][KindOf(e)] = @ + value]
  /\ crossed' = IF \E r \in Requests : request[r].kind = "user" /\ v \in request[r].users
                THEN crossed \cup {e} ELSE crossed
  /\ casts' = casts + 1
  /\ UNCHANGED <<members, community, entries, parent, request, deletes>>

-----------------------------------------------------------------------------
(* What a delete reads *)

\* _get_comment_ids_with_descendants: generation by generation, until a
\* generation is empty; the least set with the replies of its members.
WithDescendants(C) ==
  {c \in Comments : \A D \in SUBSET Comments :
     C \subseteq D /\ (\A k \in Comments \cap entries : parent[k] \in D => k \in D) => c \in D}

CommentsOn(P) == {c \in Comments \cap entries : On[c] \in P}
AuthorsOf(E) == {By[e] : e \in E}
VotedBy(U) == {b[2] : b \in {x \in ballots : x[1] \in U}}

\* The request's lists: posts and comments to go, with their authors.
Scope(kind, P, C, U) ==
  [kind |-> kind, posts |-> P, comments |-> WithDescendants(C), users |-> U,
   postAuthors |-> AuthorsOf(P), commentAuthors |-> AuthorsOf(WithDescendants(C)),
   voted |-> VotedBy(U)]

BeginDelete(r, scope) ==
  /\ request[r] = NoRequest /\ deletes < MaxDeletes
  /\ request' = [request EXCEPT ![r] = scope]
  /\ deletes' = deletes + 1
  /\ UNCHANGED <<forum, crossed, casts>>

DeleteComments(r, C) ==
  /\ C # {} /\ C \subseteq entries
  /\ BeginDelete(r, Scope("comment", {}, C, {}))
DeleteComment(r, c) == DeleteComments(r, {c})

DeletePosts(r, P) ==
  /\ P # {} /\ P \subseteq entries
  /\ BeginDelete(r, Scope("post", P, CommentsOn(P), {}))
DeletePost(r, p) == DeletePosts(r, {p})

DeleteCommunity(r) ==
  /\ community
  /\ LET P == Posts \cap entries IN BeginDelete(r, Scope("community", P, CommentsOn(P), {}))

\* _delete_users_cascade: their posts and comments, the comments on those
\* posts, and where they voted.
DeleteUsers(r, U) ==
  /\ U # {} /\ U \subseteq members
  /\ LET P == {p \in Posts \cap entries : By[p] \in U}
         C == {c \in Comments \cap entries : By[c] \in U} \cup CommentsOn(P)
     IN  BeginDelete(r, Scope("user", P, C, U))
DeleteUser(r, u) == DeleteUsers(r, {u})

-----------------------------------------------------------------------------
(* What it does under the lock *)

\* Rows that still refer to a deleted one, with foreign keys on.
\* Mutant: foreign keys are left off, as SQLite has them by default.
NeverBlocked(s) == FALSE
Blocked(s) ==
  LET left == entries \ (s.posts \cup s.comments) IN
  \/ \E c \in Comments \cap left : On[c] \in s.posts
  \/ s.kind = "community" /\ Posts \cap left # {}
  \/ \E e \in left : By[e] \in s.users

\* The entries whose votes go, with every vote of a deleted user.
Kept(s) == {b \in ballots : b[2] \notin s.posts \cup s.comments /\ b[1] \notin s.users}

\* _refresh_author_karma of the authors read; _refresh_content_aggregates of
\* the entries the users voted on.
\* Mutant: the authors of deleted replies are not refreshed.
RefreshedLess(s, k) ==
  IF k = "post" THEN s.postAuthors \cup {By[e] : e \in s.voted \cap Posts}
  ELSE {By[e] : e \in s.voted \cap Comments}
Refreshed(s, k) ==
  IF k = "post" THEN s.postAuthors \cup {By[e] : e \in s.voted \cap Posts}
  ELSE s.commentAuthors \cup {By[e] : e \in s.voted \cap Comments}

CommitDelete(r) ==
  LET s == request[r]
      left == entries \ (s.posts \cup s.comments)
  IN  /\ s # NoRequest /\ ~ Blocked(s)
      /\ entries' = left
      /\ members' = members \ s.users
      /\ community' = (community /\ s.kind # "community")
      /\ parent' = [c \in Comments |-> IF parent[c] \in s.comments THEN c ELSE parent[c]]
      /\ ballots' = Kept(s)
      /\ points' = [e \in Entries |->
            IF e \notin left THEN <<0, 0>>
            ELSE IF e \in s.voted THEN Tally({b \in Kept(s) : b[2] = e}) ELSE points[e]]
      /\ earned' = [u \in Members |-> [k \in Kinds |->
            IF u \in s.users THEN 0
            ELSE IF u \in Refreshed(s, k) THEN EarnedFrom(Kept(s), left, u, k)
            ELSE earned[u][k]]]
      /\ request' = [request EXCEPT ![r] = NoRequest]
      /\ UNCHANGED <<crossed, casts, deletes>>

\* An IntegrityError: the transaction is rolled back, the answer is a 500.
DeleteFails(r) ==
  /\ request[r] # NoRequest /\ Blocked(request[r])
  /\ request' = [request EXCEPT ![r] = NoRequest]
  /\ UNCHANGED <<forum, crossed, casts, deletes>>

-----------------------------------------------------------------------------

ModNext ==
  \/ \E p \in Posts : WritePost(p)
  \/ \E c \in Comments : WriteComment(c)
  \/ \E v \in Members \cup Guests, e \in Entries, value \in {1, -1} : Ballot(v, e, value)
  \/ \E r \in Requests :
       \/ \E c \in Comments : DeleteComment(r, c)
       \/ \E C \in SUBSET Comments : DeleteComments(r, C)
       \/ \E p \in Posts : DeletePost(r, p)
       \/ \E P \in SUBSET Posts : DeletePosts(r, P)
       \/ DeleteCommunity(r)
       \/ \E u \in Members : DeleteUser(r, u)
       \/ \E U \in SUBSET Members : DeleteUsers(r, U)
       \/ CommitDelete(r)
       \/ DeleteFails(r)

ModSpec == ModInit /\ [][ModNext]_modVars

-----------------------------------------------------------------------------
(* Properties *)

ModTypeOK ==
  /\ members \subseteq Members /\ entries \subseteq Entries
  /\ parent \in [Comments -> Comments]
  /\ \A b \in ballots : b \in (Members \cup Guests) \X Entries \X {1, -1}

\* Whatever deletes and posts cross: no post without its author or community,
\* no comment without its post, its author or its parent, no vote without its
\* entry or its voter.
NothingDangles ==
  /\ \A e \in entries : By[e] \in members
  /\ Posts \cap entries # {} => community
  /\ \A c \in Comments \cap entries : On[c] \in entries /\ parent[c] \in entries
  /\ \A b \in ballots : b[2] \in entries /\ b[1] \in members \cup Guests

\* admin.py:105, 193: deletes leave score, count and karma equal to the votes
\* that remain, for every entry and author; except entries a user voted on
\* while that user was being deleted, whose vote goes unnoticed.
DeletesKeepTotals ==
  /\ \A e \in entries \ crossed : points[e] = Tally(BallotsOn(e))
  /\ \A u \in members, k \in Kinds :
       u \notin AuthorsOf(crossed) => earned[u][k] = EarnedFrom(ballots, entries, u, k)

\* A delete leaves neither a reference nor a total behind.
DeletesSound == NothingDangles /\ DeletesKeepTotals
=============================================================================
