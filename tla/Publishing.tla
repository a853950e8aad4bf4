----------------------------- MODULE Publishing -----------------------------
(***************************************************************************)
(* How the runs of one persona publish posts: agents/executor.py runs a    *)
(* tool call under its guards, agents/tools_write.py generates and stores  *)
(* the media, services/content.py writes the rows and                      *)
(* websites/screenshot.py attaches a preview.  Media files live outside    *)
(* the database, so a post and its files are written in separate steps     *)
(* that a lost run, a locked database, a crash, an administrator's delete  *)
(* or the reconcile command line may fall between.                         *)
(*                                                                         *)
(* AgentRuns shows that a persona has at most one live run; here Reserve   *)
(* takes that as its guard.  The thread of a run that recovery closed is   *)
(* not stopped: it goes on with its call until it looks at the run again.  *)
(***************************************************************************)
EXTENDS Naturals, FiniteSets

CONSTANTS
  Runs,         \* agent_run ids of the persona
  MaxCalls,     \* bound: tool calls of all runs together
  PostCap,      \* executor.RATE_CAPS: audited posts of a persona in an hour
  HourlyLimit,  \* rate_limit_posts_per_hour: post rows of a user in an hour
  HourTicks,    \* ticks of the clock in an hour
  MaxTime,      \* bound on the clock
  MaxMishaps,   \* bound: crashes of a thread, deletes and sweeps, together
  None

Kinds == {"text", "image", "website"}

ASSUME PublishingAssumption ==
  /\ IsFiniteSet(Runs)
  /\ {MaxCalls, PostCap, HourlyLimit, MaxTime, MaxMishaps} \subseteq Nat
  /\ HourTicks \in Nat \ {0}
  /\ None \notin Kinds

VARIABLES
  clock,
  run,       \* [Runs -> status column], "none" before the row exists
  posts,     \* calls whose post row exists
  images,    \* calls whose post has a post_image row
  websites,  \* calls whose post has a generated_website row
  stamp,     \* created_at of the post rows
  audits,    \* tool_call rows
  files,     \* media on disk: <<call, "image">> and <<call, "page">>
  pc, calls, tool, result, pending,   \* the threads
  sent,      \* generation requests for a website, by run
  deleting,  \* the administrator's delete request
  sweep,     \* the reconcile command
  removed, swept, died,  \* history: deleted posts, swept files, calls cut short
  mishaps

rows    == <<posts, images, websites, stamp>>
thread  == <<pc, calls, tool, result, pending, sent>>
others  == <<deleting, sweep>>
history == <<removed, swept, died, mishaps>>
vars == <<clock, run, rows, audits, files, thread, others, history>>

Ids   == Runs \X (1..MaxCalls)
Files == Ids \X {"image", "page"}

\* None is no record of a delete.
ASSUME NoneAssumption == None \notin [id : Ids, paths : SUBSET Files, gone : BOOLEAN]

Steps == {"off", "idle", "preflight", "generate", "validate", "write", "hooks",
          "attach", "shot", "answer", "audit", "fail"}

\* The steps at which a call holds a file no row names yet.
Storing == {"validate", "write", "shot"}

\* The call the thread of run r is in.
Call(r) == <<r, calls[r]>>

CallsMade == Cardinality({i \in Ids : tool[i] # None})

\* The file a media tool stores before its post is written.
Media(i) ==
  IF tool[i] = "image" THEN {<<i, "image">>}
  ELSE IF tool[i] = "website" THEN {<<i, "page">>} ELSE {}

\* The files the rows of the database name.
Referenced == (images \X {"image"}) \cup (websites \X {"page"})

Recent(t) == clock - t < HourTicks

\* executor._check_rate_cap, content._check_rate_limit: what each counts.
RecentAudits == {a \in audits : a.ok /\ Recent(a.at)}
RecentPosts  == {i \in posts : Recent(stamp[i])}

\* tools_write._posts_created_this_run, _website_generation_attempts_this_run.
PostedThisRun(r) == \E a \in audits : a.id[1] = r /\ a.ok
BilledThisRun(r) ==
  \E a \in audits : a.id[1] = r /\ tool[a.id] = "website"

PubInit ==
  /\ clock = 0
  /\ run = [r \in Runs |-> "none"]
  /\ posts = {} /\ images = {} /\ websites = {} /\ audits = {} /\ files = {}
  /\ stamp = [i \in Ids |-> 0]
  /\ pc = [r \in Runs |-> "off"]
  /\ calls = [r \in Runs |-> 0]
  /\ tool = [i \in Ids |-> None]
  /\ result = [r \in Runs |-> None]
  /\ pending = [r \in Runs |-> FALSE]
  /\ sent = [r \in Runs |-> 0]
  /\ deleting = None /\ sweep = None
  /\ removed = {} /\ swept = {} /\ died = {} /\ mishaps = 0

Mishap == mishaps < MaxMishaps /\ mishaps' = mishaps + 1

Goto(r, step) == pc' = [pc EXCEPT ![r] = step]

\* The call of r has its result; what is left is to audit it.
Answered(r, res) == Goto(r, "audit") /\ result' = [result EXCEPT ![r] = res]

\* The call of r is over, and with it what it kept in memory.
Forget(r, step) ==
  /\ Goto(r, step)
  /\ result' = [result EXCEPT ![r] = None]
  /\ pending' = [pending EXCEPT ![r] = FALSE]

\* An exception leaves execute(): the loop keeps the run alive and nothing is
\* audited.
Escaped(r) == Goto(r, "idle") /\ UNCHANGED result

\* The result of a media tool that failed after its generation request.
Failed(r) == Answered(r, IF tool[Call(r)] = "website" THEN "billed" ELSE "refused")

-----------------------------------------------------------------------------
(* The run row, as the rest of the system writes it *)

\* reserve_run(): one live run of a persona at a time.
Reserve(r) ==
  /\ run[r] = "none" /\ \A o \in Runs : run[o] # "running"
  /\ run' = [run EXCEPT ![r] = "running"]
  /\ Goto(r, "idle")
  /\ UNCHANGED <<clock, rows, audits, files, calls, tool, result, pending, sent,
                 others, history>>

\* Recovery closes the run; its thread learns of it when it next looks.
Interrupt(r) ==
  /\ run[r] = "running"
  /\ run' = [run EXCEPT ![r] = "over"]
  /\ UNCHANGED <<clock, rows, audits, files, thread, others, history>>

\* The loop ends: it completes or fails its run, or finds it closed.
LeaveRun(r) ==
  /\ pc[r] \in {"idle", "fail"}
  /\ run' = [run EXCEPT ![r] = "over"]
  /\ Goto(r, "off")
  /\ UNCHANGED <<clock, rows, audits, files, calls, tool, result, pending, sent,
                 others, history>>

\* The process of the thread ends in the middle of whatever it was doing.
ThreadDies(r) ==
  /\ pc[r] # "off" /\ Mishap
  /\ Forget(r, "off")
  /\ died' = IF pc[r] \in Storing THEN died \cup {Call(r)} ELSE died
  /\ UNCHANGED <<clock, run, rows, audits, files, calls, tool, sent, others, removed, swept>>

-----------------------------------------------------------------------------
(* A tool call, step by step *)

\* Mutant: the cap counts the calls of this run, not of the persona.
BeginPerRun(r, k) ==
  /\ pc[r] = "idle" /\ run[r] = "running" /\ CallsMade < MaxCalls
  /\ calls' = [calls EXCEPT ![r] = @ + 1]
  /\ tool' = [tool EXCEPT ![<<r, calls[r] + 1>>] = k]
  /\ IF Cardinality({a \in RecentAudits : a.id[1] = r}) < PostCap
     THEN Goto(r, "preflight") /\ UNCHANGED result
     ELSE Answered(r, "refused")
  /\ UNCHANGED <<clock, run, rows, audits, files, pending, sent, others, history>>

\* execute() up to the handler, refused at the persona's rate cap.  A call
\* refused for a reason that is not modelled (tier, policy, arguments,
\* duplicate, community, banned word, ...) changes nothing else either.  The
\* guard on CallsMade is the bound MaxCalls.
Begin(r, k) ==
  /\ pc[r] = "idle" /\ run[r] = "running" /\ CallsMade < MaxCalls
  /\ calls' = [calls EXCEPT ![r] = @ + 1]
  /\ tool' = [tool EXCEPT ![<<r, calls[r] + 1>>] = k]
  /\ IF Cardinality(RecentAudits) < PostCap
     THEN Goto(r, "preflight") /\ UNCHANGED result
     ELSE Answered(r, "refused")
  /\ UNCHANGED <<clock, run, rows, audits, files, pending, sent, others, history>>

\* Mutants: the handler without its budget of posts, of website attempts.
PreflightNoBudget(r) ==
  /\ pc[r] = "preflight"
  /\ IF run[r] # "running" THEN Escaped(r)
     ELSE IF \/ tool[Call(r)] = "website" /\ BilledThisRun(r)
             \/ tool[Call(r)] # "text" /\ Cardinality(RecentPosts) >= HourlyLimit
     THEN Answered(r, "refused")
     ELSE /\ Goto(r, IF tool[Call(r)] = "text" THEN "validate" ELSE "generate")
          /\ UNCHANGED result
  /\ UNCHANGED <<clock, run, rows, audits, files, calls, tool, pending, sent,
                 others, history>>

PreflightNoBilling(r) ==
  /\ pc[r] = "preflight"
  /\ IF run[r] # "running" THEN Escaped(r)
     ELSE IF \/ PostedThisRun(r)
             \/ tool[Call(r)] # "text" /\ Cardinality(RecentPosts) >= HourlyLimit
     THEN Answered(r, "refused")
     ELSE /\ Goto(r, IF tool[Call(r)] = "text" THEN "validate" ELSE "generate")
          /\ UNCHANGED result
  /\ UNCHANGED <<clock, run, rows, audits, files, calls, tool, pending, sent,
                 others, history>>

\* The last look at the run before the handler (a closed run gets no audit
\* row), then the handler's own refusals: one post per run, one website
\* generation per run, the hourly limit.
Preflight(r) ==
  /\ pc[r] = "preflight"
  /\ IF run[r] # "running" THEN Escaped(r)
     ELSE IF \/ PostedThisRun(r)
             \/ tool[Call(r)] = "website" /\ BilledThisRun(r)
             \/ tool[Call(r)] # "text" /\ Cardinality(RecentPosts) >= HourlyLimit
     THEN Answered(r, "refused")
     ELSE /\ Goto(r, IF tool[Call(r)] = "text" THEN "validate" ELSE "generate")
          /\ UNCHANGED result
  /\ UNCHANGED <<clock, run, rows, audits, files, calls, tool, pending, sent,
                 others, history>>

\* The slow part, with no transaction open: generate, then store the file.
Generate(r) ==
  /\ pc[r] = "generate"
  /\ sent' = IF tool[Call(r)] = "website" THEN [sent EXCEPT ![r] = @ + 1] ELSE sent
  /\ \/ Failed(r) /\ UNCHANGED files
     \/ /\ files' = files \cup Media(Call(r))
        /\ Goto(r, "validate") /\ UNCHANGED result
  /\ UNCHANGED <<clock, run, rows, audits, calls, tool, pending, others, history>>

\* create_*_post() checks again what preflight checked before the generation;
\* the user, the community and the limit may have changed.
Validate(r) ==
  /\ pc[r] = "validate"
  /\ \/ Failed(r) /\ files' = files \ Media(Call(r))
     \/ /\ Cardinality(RecentPosts) < HourlyLimit
        /\ Goto(r, "write") /\ UNCHANGED <<files, result>>
  /\ UNCHANGED <<clock, run, rows, audits, calls, tool, pending, sent, others, history>>

\* Mutant: the rows are written without the fence on the run.
WriteUnfenced(r) ==
  /\ pc[r] = "write"
  /\ posts' = posts \cup {Call(r)}
  /\ stamp' = [stamp EXCEPT ![Call(r)] = clock]
  /\ images' = IF tool[Call(r)] = "image" THEN images \cup {Call(r)} ELSE images
  /\ websites' = IF tool[Call(r)] = "website" THEN websites \cup {Call(r)} ELSE websites
  /\ Goto(r, "hooks")
  /\ UNCHANGED <<clock, run, audits, files, calls, tool, result, pending, sent,
                 others, history>>

\* The flush takes the writer's lock with an update of the run WHERE it is
\* running, and the rows are committed under that lock.
Write(r) ==
  /\ pc[r] = "write" /\ run[r] = "running"
  /\ posts' = posts \cup {Call(r)}
  /\ stamp' = [stamp EXCEPT ![Call(r)] = clock]
  /\ images' = IF tool[Call(r)] = "image" THEN images \cup {Call(r)} ELSE images
  /\ websites' = IF tool[Call(r)] = "website" THEN websites \cup {Call(r)} ELSE websites
  /\ Goto(r, "hooks")
  /\ UNCHANGED <<clock, run, audits, files, calls, tool, result, pending, sent,
                 others, history>>

\* Mutant: a website's file is kept when its run is lost.
WriteLostKeepsFile(r) ==
  /\ pc[r] = "write" /\ run[r] # "running"
  /\ files' = IF tool[Call(r)] = "website" THEN files ELSE files \ Media(Call(r))
  /\ Failed(r)
  /\ UNCHANGED <<clock, run, rows, audits, calls, tool, pending, sent, others, history>>

\* The fence finds the run closed: everything is rolled back, the file goes.
WriteLost(r) ==
  /\ pc[r] = "write" /\ run[r] # "running"
  /\ files' = files \ Media(Call(r))
  /\ Failed(r)
  /\ UNCHANGED <<clock, run, rows, audits, calls, tool, pending, sent, others, history>>

\* The writer's lock is not free within the busy timeout.  create_post and
\* create_website_post roll back; create_image_post's flush does not, and since
\* the fence failed before the flush began, the post it added stays pending in
\* the session.
WriteLocked(r) ==
  /\ pc[r] = "write"
  /\ files' = files \ Media(Call(r))
  /\ pending' = [pending EXCEPT ![r] = tool[Call(r)] = "image"]
  /\ IF tool[Call(r)] = "text" THEN Escaped(r) ELSE Failed(r)
  /\ UNCHANGED <<clock, run, rows, audits, calls, tool, sent, others, history>>

\* Mutant: what fails after the commit takes the post's file with it.
HooksDropFile(r) ==
  /\ pc[r] = "hooks"
  /\ \/ /\ Call(r) \in posts /\ UNCHANGED <<files, result>>
        /\ Goto(r, IF tool[Call(r)] = "website" THEN "attach" ELSE "answer")
     \/ /\ tool[Call(r)] # "text"
        /\ Failed(r) /\ files' = files \ Media(Call(r))
     \/ Call(r) \notin posts /\ tool[Call(r)] = "text" /\ Escaped(r) /\ UNCHANGED files
  /\ UNCHANGED <<clock, run, rows, audits, calls, tool, pending, sent, others, history>>

\* After the commit the hooks read the post again.  Their own errors are
\* swallowed; a post deleted meanwhile raises, which only the media tools catch.
Hooks(r) ==
  /\ pc[r] = "hooks"
  /\ \/ /\ Call(r) \in posts /\ UNCHANGED <<files, result>>
        /\ Goto(r, IF tool[Call(r)] = "website" THEN "attach" ELSE "answer")
     \/ /\ Call(r) \notin posts /\ tool[Call(r)] # "text" /\ Failed(r)
        /\ files' = IF tool[Call(r)] = "image" THEN files \ Media(Call(r)) ELSE files
     \/ Call(r) \notin posts /\ tool[Call(r)] = "text" /\ Escaped(r) /\ UNCHANGED files
  /\ UNCHANGED <<clock, run, rows, audits, calls, tool, pending, sent, others, history>>

\* attach_website_screenshot(): a browser renders the page, the picture is
\* stored; any failure leaves the post without a preview.
Attach(r) ==
  /\ pc[r] = "attach" /\ UNCHANGED result
  /\ \/ Goto(r, "answer") /\ UNCHANGED files
     \/ files' = files \cup {<<Call(r), "image">>} /\ Goto(r, "shot")
  /\ UNCHANGED <<clock, run, rows, audits, calls, tool, pending, sent, others, history>>

\* Its row is committed, still under the fence, or the picture is deleted: the
\* run is lost, the post is gone (foreign key), the database is locked.
CommitShot(r) ==
  /\ pc[r] = "shot"
  /\ \/ /\ run[r] = "running" /\ Call(r) \in posts
        /\ images' = images \cup {Call(r)} /\ UNCHANGED files
     \/ files' = files \ {<<Call(r), "image">>} /\ UNCHANGED images
  /\ Goto(r, "answer")
  /\ UNCHANGED <<clock, run, posts, websites, stamp, audits, calls, tool, result,
                 pending, sent, others, history>>

\* The handler reads the post for its result, outside every try.
Answer(r) ==
  /\ pc[r] = "answer"
  /\ IF Call(r) \in posts THEN Answered(r, "ok") ELSE Escaped(r)
  /\ UNCHANGED <<clock, run, rows, audits, files, calls, tool, pending, sent, others, history>>

\* Mutant: the row is numbered from zero.
AuditRowPrevious(r) ==
  IF result[r] = "refused" THEN {}
  ELSE {[id |-> <<r, calls[r] - 1>>, ok |-> result[r] = "ok", at |-> clock]}

\* The row of r's call, if some guard will read it: a refused call's row is
\* read by the loop detector alone and is left out.
AuditRow(r) ==
  IF result[r] = "refused" THEN {}
  ELSE {[id |-> Call(r), ok |-> result[r] = "ok", at |-> clock]}

\* Mutant: the call is audited whoever owns the persona.
AuditUnowned(r) ==
  /\ pc[r] = "audit"
  /\ audits' = audits \cup AuditRow(r)
  /\ posts' = IF pending[r] THEN posts \cup {Call(r)} ELSE posts
  /\ stamp' = IF pending[r] THEN [stamp EXCEPT ![Call(r)] = clock] ELSE stamp
  /\ Forget(r, "idle")
  /\ UNCHANGED <<clock, run, images, websites, files, calls, tool, sent, others, history>>

\* _persist_and_return(): the flush takes the writer's lock, the run is looked
\* at under it, and the row is committed with whatever the session still holds.
Audit(r) ==
  /\ pc[r] = "audit" /\ run[r] = "running"
  /\ audits' = audits \cup AuditRow(r)
  /\ posts' = IF pending[r] THEN posts \cup {Call(r)} ELSE posts
  /\ stamp' = IF pending[r] THEN [stamp EXCEPT ![Call(r)] = clock] ELSE stamp
  /\ Forget(r, "idle")
  /\ UNCHANGED <<clock, run, images, websites, files, calls, tool, sent, others, history>>

\* The run is closed: nothing is audited.
AuditLost(r) ==
  /\ pc[r] = "audit" /\ run[r] # "running"
  /\ Forget(r, "idle")
  /\ UNCHANGED <<clock, run, rows, audits, files, calls, tool, sent, others,
                 history>>

\* Mutant: the loop goes on after an audit it could not write.
AuditLockedGoesOn(r) ==
  /\ pc[r] = "audit"
  /\ Forget(r, "idle")
  /\ UNCHANGED <<clock, run, rows, audits, files, calls, tool, sent,
                 others, history>>

\* The flush fails on a locked database: the session is unusable until it is
\* rolled back, so the loop's next look at the run raises and the run fails.
AuditLocked(r) ==
  /\ pc[r] = "audit"
  /\ Forget(r, "fail")
  /\ UNCHANGED <<clock, run, rows, audits, files, calls, tool, sent,
                 others, history>>

ToolCall(r) ==
  \/ \E k \in Kinds : Begin(r, k)
  \/ Preflight(r) \/ Generate(r) \/ Validate(r)
  \/ Write(r) \/ WriteLost(r) \/ WriteLocked(r)
  \/ Hooks(r) \/ Attach(r) \/ CommitShot(r) \/ Answer(r)
  \/ Audit(r) \/ AuditLost(r) \/ AuditLocked(r)

-----------------------------------------------------------------------------
(* The administrator deletes a post; the reconcile command sweeps the media *)

\* The paths are read before the rows go.
DeleteRead(i) ==
  /\ deleting = None /\ i \in posts /\ Mishap
  /\ deleting' = [id |-> i, paths |-> {f \in Referenced : f[1] = i}, gone |-> FALSE]
  /\ UNCHANGED <<clock, run, rows, audits, files, thread, sweep, removed, swept, died>>

\* One transaction deletes the post and what hangs on it.
DeleteRows ==
  /\ deleting # None /\ ~ deleting.gone
  /\ posts' = posts \ {deleting.id}
  /\ images' = images \ {deleting.id}
  /\ websites' = websites \ {deleting.id}
  /\ deleting' = [deleting EXCEPT !.gone = TRUE]
  /\ removed' = removed \cup {deleting.id}
  /\ UNCHANGED <<clock, run, stamp, audits, files, thread, sweep, swept, died, mishaps>>

\* Once they are committed gone, the files read before go as well.
DeleteFiles ==
  /\ deleting # None /\ deleting.gone
  /\ files' = files \ deleting.paths
  /\ deleting' = None
  /\ UNCHANGED <<clock, run, rows, audits, thread, sweep, history>>

\* The request fails or its process dies, before or after the commit.
DeleteEnds ==
  /\ deleting # None
  /\ deleting' = None
  /\ died' = IF deleting.gone THEN died \cup {deleting.id} ELSE died
  /\ UNCHANGED <<clock, run, rows, audits, files, thread, sweep, removed, swept, mishaps>>

\* reconcile --apply reads the rows of one of the two media tables, ...
SweepRead(tree) ==
  /\ sweep = None /\ Mishap
  /\ sweep' = [tree |-> tree, keep |-> Referenced]
  /\ UNCHANGED <<clock, run, rows, audits, files, thread, deleting, removed, swept, died>>

\* ... then walks the directory and unlinks each file none of them named.
SweepFile(f) ==
  /\ sweep # None
  /\ f \in files /\ f[2] = sweep.tree /\ f \notin sweep.keep
  /\ files' = files \ {f}
  /\ swept' = swept \cup {f}
  /\ UNCHANGED <<clock, run, rows, audits, thread, others, removed, died, mishaps>>

SweepEnds ==
  /\ sweep # None
  /\ sweep' = None
  /\ UNCHANGED <<clock, run, rows, audits, files, thread, deleting, history>>

Operators ==
  \/ \E i \in posts : DeleteRead(i)
  \/ DeleteRows \/ DeleteFiles \/ DeleteEnds
  \/ \E tree \in {"image", "page"} : SweepRead(tree)
  \/ \E f \in files : SweepFile(f)
  \/ SweepEnds

Tick ==
  /\ clock < MaxTime
  /\ clock' = clock + 1
  /\ UNCHANGED <<run, rows, audits, files, thread, others, history>>

PubNext ==
  \/ \E r \in Runs : Reserve(r) \/ Interrupt(r) \/ LeaveRun(r) \/ ThreadDies(r)
                     \/ ToolCall(r)
  \/ Operators
  \/ Tick

PubSpec == PubInit /\ [][PubNext]_vars

-----------------------------------------------------------------------------
(* Properties *)

Result == {"ok", "refused", "billed"}

\* Types: executor.py:497-526, models.py:1052 (PostImage), 1097 (GeneratedWebsite).
PubTypeOK ==
  /\ clock \in Nat
  /\ run \in [Runs -> {"none", "running", "over"}]
  /\ posts \subseteq Ids /\ images \subseteq Ids /\ websites \subseteq Ids
  /\ stamp \in [Ids -> Nat]
  /\ audits \subseteq [id : Ids, ok : BOOLEAN, at : Nat]
  /\ files \subseteq Files
  /\ pc \in [Runs -> Steps]
  /\ calls \in [Runs -> 0..MaxCalls]
  /\ tool \in [Ids -> Kinds \cup {None}]
  /\ result \in [Runs -> Result \cup {None}]
  /\ pending \in [Runs -> BOOLEAN]
  /\ sent \in [Runs -> Nat]
  /\ deleting \in [id : Ids, paths : SUBSET Files, gone : BOOLEAN] \cup {None}
  /\ sweep \in [tree : {"image", "page"}, keep : SUBSET Files] \cup {None}
  /\ removed \subseteq Ids /\ swept \subseteq Files /\ died \subseteq Ids
  /\ mishaps \in Nat

\* A post as its tool meant it: an image post has its image, a website its page.
Complete(i) ==
  /\ i \in posts
  /\ tool[i] = "image" => i \in images
  /\ tool[i] = "website" => i \in websites

\* One visit publishes at most one post, whatever fails, races or is retried
\* (tools_write.py:124-137, "maximum 1 post per session"); the left-over of a
\* failed image post, see ImagePostsHaveImages, is not complete.
OnePostPerRun ==
  \A r \in Runs : Cardinality({i \in posts : i[1] = r /\ Complete(i)}) <= 1

\* The hourly limit of content.py:109-123 holds of the rows themselves, although
\* it is read long before the rows are written and without a lock.
WithinHourlyLimit == Cardinality(RecentPosts) <= HourlyLimit

\* The persona's cap of executor.py:321-347 holds of the audited calls, across
\* its runs and the threads that outlived them.
AuditedWithinCap == Cardinality(RecentAudits) <= PostCap

\* A run does not go on from a post the audit does not know of: it has lost its
\* persona, or is still in the call that wrote the post, or ended there
\* (executor.py:497-526, loop.py:583-589).  Left-over posts are set apart, as
\* above.
UnauditedMeansLost ==
  \A i \in posts :
    \/ ~ Complete(i)
    \/ \E a \in audits : a.id = i /\ a.ok
    \/ run[i[1]] # "running"
    \/ Call(i[1]) = i /\ pc[i[1]] # "idle"

\* Every image or page a row names is on disk, unless the reconcile command
\* swept it: no cleanup of a failed call, no delete and no crash takes the file
\* of a published post (tools_write.py:315-324, content.py:562-565).
RowsHaveFiles == Referenced \subseteq files \cup swept

\* No file is left behind unless a crash cut its call or its delete short, or a
\* preview was committed while its post was being deleted: every other failure
\* removes what it stored (tools_write.py:315-324, content.py:447-466).
FilesHaveOwners ==
  \A f \in files :
    \/ f \in Referenced
    \/ f[1] \in died
    \/ deleting # None /\ f \in deleting.paths
    \/ Call(f[1][1]) = f[1] /\ pc[f[1][1]] \in Storing
    \/ tool[f[1]] = "website" /\ f[2] = "image" /\ f[1] \in removed

\* A run sends one website generation request, however often it is asked
\* (tools_write.py:355-380), unless an administrator deletes the website post
\* before the call that made it is audited.
OneWebsiteRequest ==
  \A r \in Runs : sent[r] > 1 => \E i \in removed : i[1] = r /\ tool[i] = "website"

\* The three limits of a persona together: of rows in an hour, of audited calls, and
\* of website requests sent, none of which is read under the lock it is enforced with.
WithinLimits == WithinHourlyLimit /\ AuditedWithinCap /\ OneWebsiteRequest

\* A run that has lost its persona adds no row: neither a post, nor an image,
\* nor an audit (executor.py:49-87, 497-526).
OwnedWrites ==
  [][/\ \A i \in (posts' \ posts) \cup (images' \ images) : run[i[1]] = "running"
     /\ \A a \in audits' \ audits : run[a.id[1]] = "running"]_vars

\* A call of create_image_post that fails leaves no post behind
\* (content.py:250-251, "On any failure inside create_image_post (validation or
\* database), no Post/PostImage row is created").
ImagePostsHaveImages == \A i \in posts : tool[i] = "image" => i \in images
=============================================================================
