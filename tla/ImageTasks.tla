------------------------------- MODULE ImageTasks -------------------------------
(***************************************************************************)
(* One image of create_image_post (deaddit/agents/tools_write.py): a task  *)
(* of fal's or Runware's queue is submitted, polled and fetched under the  *)
(* deadline of the visit (deaddit/images/providers), and its image is      *)
(* downloaded and stored (images/storage.py).                              *)
(*                                                                         *)
(* A request may be lost on its way or on its way back, and is repeated.   *)
(* The provider starts a task whenever a submission reaches it, except     *)
(* that Runware knows the taskUUID of a task it has.                       *)
(***************************************************************************)
EXTENDS Integers, FiniteSets, FiniteSetsExt

CONSTANTS
  Services,         \* of {"fal", "runware"}
  MaxTransport,     \* _MAX_TRANSPORT_ATTEMPTS
  MaxRedirects,     \* redirects a download follows
  ImageTime,        \* ticks a visit has left at most
  MaxImageCalls     \* bound of the model: images asked for

ASSUME ImageTasksAssumption ==
  /\ MaxTransport \in Nat \ {0} /\ MaxRedirects \in Nat /\ ImageTime \in Nat
  /\ MaxImageCalls \in Nat

VARIABLES
  image,       \* the call under way
  spare,       \* ticks to its deadline
  queue,       \* state of each task the provider has of this call
  imageCalls

imageVars == <<image, spare, queue, imageCalls>>

TaskIds == 1..MaxTransport
Phases == {"submit", "poll", "fetch", "download"}

NoImage == [at |-> "none"]
NoTasks == [i \in TaskIds |-> "none"]
Tasks == {i \in TaskIds : queue[i] # "none"}

ImageInit ==
  /\ image = NoImage
  /\ spare = 0
  /\ queue = NoTasks
  /\ imageCalls = 0

-----------------------------------------------------------------------------
(* How a call ends; why is history, for the properties *)

Over(why) ==
  image' = [at |-> "over", why |-> why, service |-> image.service, task |-> image.task,
            known |-> image.known, stored |-> image.stored]

\* fal's _cancel_best_effort, when waiting for completion ran out of time.
\* Mutant: only an answer that came in time is followed by a cancellation.
CancelsUnlessAsking == image.service = "fal" /\ image.at = "poll" /\ image.wire = "idle"
Cancels == image.service = "fal" /\ image.at = "poll"

\* ImageTimeoutError.  The cancellation itself may be lost, or find the task done.
OutOfTime ==
  \/ /\ Cancels
     /\ queue' = [queue EXCEPT ![image.task] = IF @ = "queued" THEN "cancelled" ELSE @]
     /\ Over("timeout")
  \/ /\ Cancels /\ UNCHANGED queue /\ Over("uncancelled")
  \/ /\ ~ Cancels /\ UNCHANGED queue /\ Over("timeout")

\* The next kind of request, with its own attempts.
Enter(phase, known) ==
  image' = [image EXCEPT !.at = phase, !.tries = 0, !.wire = "idle", !.known = known]

-----------------------------------------------------------------------------
(* Requests *)

\* client.generate: no adapter is called once the deadline is over.
GenerateImage(service, time) ==
  /\ image.at \in {"none", "over"} /\ imageCalls < MaxImageCalls
  /\ time \in 1..ImageTime
  /\ imageCalls' = imageCalls + 1
  /\ spare' = time
  /\ queue' = NoTasks
  /\ image' = [at |-> "submit", service |-> service, tries |-> 0, wire |-> "idle",
               task |-> 0, known |-> FALSE, hops |-> 0, stored |-> 0]

\* The task a submission that arrives stands for.
\* Mutant: a resent submission has a taskUUID of its own.
TaskOfEach(task) == Cardinality(Tasks) + 1
TaskOf(task) ==
  IF image.service = "runware" /\ task # 0 THEN task ELSE Cardinality(Tasks) + 1

\* One attempt: the request arrives, or is lost.
Arrives ==
  IF image.at = "submit"
  THEN LET i == TaskOf(image.task) IN
       /\ queue' = [queue EXCEPT ![i] = IF @ = "none" THEN "queued" ELSE @]
       /\ image' = [image EXCEPT !.tries = @ + 1, !.wire = "there", !.task = i]
  ELSE /\ image' = [image EXCEPT !.tries = @ + 1, !.wire = "there"]
       /\ UNCHANGED queue

IsLost ==
  /\ image' = [image EXCEPT !.tries = @ + 1, !.wire = "lost"]
  /\ UNCHANGED queue

Ask ==
  /\ image.at \in {"submit", "poll", "fetch"} /\ image.wire = "idle"
  /\ IF spare = 0 THEN OutOfTime ELSE Arrives \/ IsLost
  /\ UNCHANGED <<spare, imageCalls>>

\* An exception of the transport, or a status worth a retry, with an answer in
\* time: sleep 1, 2, 4 seconds or what is left, then look at the clock again.
Delay == Min({IF image.tries < 3 THEN image.tries ELSE 4, spare})

LastAttempt == image.tries >= MaxTransport

\* Mutant: the clock is not looked at when an answer is there.
ExpiredNow == FALSE
Late == spare = 0

Asking == image.at \in {"submit", "poll", "fetch"} /\ image.wire # "idle"
HasAnswer == Asking /\ image.wire = "there"

AskFails ==
  /\ Asking
  /\ IF Late THEN OutOfTime /\ UNCHANGED spare
     ELSE IF LastAttempt THEN Over("exhausted") /\ UNCHANGED <<queue, spare>>
     ELSE /\ spare' = spare - Delay
          /\ IF spare' = 0 THEN OutOfTime
             ELSE image' = [image EXCEPT !.wire = "idle"] /\ UNCHANGED queue
  /\ UNCHANGED imageCalls

\* Bad credentials, a content policy, a malformed answer: never repeated.
AskRefused ==
  /\ HasAnswer
  /\ IF Late THEN OutOfTime ELSE Over("refused") /\ UNCHANGED queue
  /\ UNCHANGED <<spare, imageCalls>>

Submitted ==
  /\ HasAnswer /\ image.at = "submit"
  /\ IF Late THEN OutOfTime ELSE Enter("poll", TRUE) /\ UNCHANGED queue
  /\ UNCHANGED <<spare, imageCalls>>

-----------------------------------------------------------------------------
(* Polling *)

\* In the queue or in progress: sleep a poll interval, or what is left.
StillQueued ==
  /\ HasAnswer /\ image.at = "poll" /\ queue[image.task] = "queued"
  /\ IF Late THEN OutOfTime /\ UNCHANGED spare
     ELSE spare' = spare - 1 /\ Enter("poll", TRUE) /\ UNCHANGED queue
  /\ UNCHANGED imageCalls

\* fal says that a task is over and has a request of its own for its result.
FalCompleted ==
  /\ HasAnswer /\ image.at = "poll" /\ image.service = "fal"
  /\ queue[image.task] \in {"done", "failed"}
  /\ IF Late THEN OutOfTime ELSE Enter("fetch", TRUE) /\ UNCHANGED queue
  /\ UNCHANGED <<spare, imageCalls>>

FalResult ==
  /\ HasAnswer /\ image.at = "fetch" /\ queue[image.task] = "done"
  /\ IF Late THEN OutOfTime ELSE Enter("download", TRUE) /\ UNCHANGED queue
  /\ UNCHANGED <<spare, imageCalls>>

\* Runware's getResponse carries the result.
RunwareResult ==
  /\ HasAnswer /\ image.at = "poll" /\ image.service = "runware"
  /\ queue[image.task] = "done"
  /\ IF Late THEN OutOfTime ELSE Enter("download", TRUE) /\ UNCHANGED queue
  /\ UNCHANGED <<spare, imageCalls>>

-----------------------------------------------------------------------------
(* The file *)

\* A redirect is a request of its own; nothing is repeated.
Redirected ==
  /\ image.at = "download" /\ spare > 0
  /\ IF image.hops < MaxRedirects
     THEN image' = [image EXCEPT !.hops = @ + 1]
     ELSE Over("refused")
  /\ UNCHANGED <<spare, queue, imageCalls>>

DownloadFails ==
  /\ image.at = "download"
  /\ Over(IF spare = 0 THEN "timeout" ELSE "refused")
  /\ UNCHANGED <<spare, queue, imageCalls>>

\* Read to its end, decoded and stored with its thumbnail.
Stored ==
  /\ image.at = "download" /\ ~ Late
  /\ image' = [at |-> "over", why |-> "stored", service |-> image.service,
               task |-> image.task, known |-> TRUE, stored |-> spare]
  /\ UNCHANGED <<spare, queue, imageCalls>>

-----------------------------------------------------------------------------
(* The provider, and time *)

Works(i, state) ==
  /\ queue[i] = "queued"
  /\ queue' = [queue EXCEPT ![i] = state]
  /\ UNCHANGED <<image, spare, imageCalls>>

ImageTimePasses ==
  /\ image.at \in Phases /\ spare > 0
  /\ spare' = spare - 1
  /\ UNCHANGED <<image, queue, imageCalls>>

ImageNext ==
  \/ \E service \in Services, time \in 1..ImageTime : GenerateImage(service, time)
  \/ Ask
  \/ AskFails
  \/ AskRefused
  \/ Submitted
  \/ StillQueued
  \/ FalCompleted
  \/ FalResult
  \/ RunwareResult
  \/ Redirected
  \/ DownloadFails
  \/ Stored
  \/ \E i \in TaskIds, state \in {"done", "failed"} : Works(i, state)
  \/ ImageTimePasses

ImageSpec == ImageInit /\ [][ImageNext]_imageVars

-----------------------------------------------------------------------------
(* Properties *)

ImageTypeOK ==
  /\ image.at \in {"none", "over"} \cup Phases
  /\ spare \in 0..ImageTime
  /\ queue \in [TaskIds -> {"none", "queued", "done", "failed", "cancelled"}]

\* runware.py:11-13: "a resent request can never be mistaken by the server for
\* a second billable task", whatever was lost, and however often it was resent.
OneTaskAtRunware ==
  image.at # "none" /\ image.service = "runware" => Cardinality(Tasks) <= 1

\* A visit stores no image once its deadline is over, though its requests may
\* outlast it and its sleeps end on it.
StoredInTime == image.at = "over" /\ image.why = "stored" => image.stored > 0

\* fal.py:13: a timeout cancels.  A task is left in fal's queue only if its id
\* was never learnt, its cancellation was lost, or its status could not be
\* read; of a task that was polled until the deadline nothing is left behind.
StraysAccounted ==
  image.at = "over" /\ image.service = "fal" =>
    \A i \in Tasks : queue[i] = "queued" =>
      ~ image.known \/ i # image.task \/ image.why \in {"uncancelled", "exhausted", "refused"}

\* The three together: what is paid for, stored or left behind.
ImagesAccounted == OneTaskAtRunware /\ StoredInTime /\ StraysAccounted
=============================================================================
