-------------------------- MODULE Publishing_proofs --------------------------
(***************************************************************************)
(* Proofs about Publishing, for any number of runs, calls, posts and ticks: *)
(* PubInv relates rows, files and the places of the threads, OneInv the     *)
(* complete posts of a run and the audit, LimitInv the limits and what was  *)
(* read of them, RequestInv the requests sent and the rows that say so, and *)
(* FileInv each file and who answers for it.                                *)
(***************************************************************************)
EXTENDS Publishing, FiniteSetTheorems, TLAPS

-----------------------------------------------------------------------------
(* The inductive invariant *)

\* The calls a run has made are the first ones of its row of ids.
CallsInOrder == \A i \in Ids : tool[i] # None <=> i[2] <= calls[i[1]]

\* A thread in a call has made one.
Busy == \A r \in Runs : pc[r] \notin {"off", "idle"} => calls[r] > 0

TypeInv == PubTypeOK /\ CallsInOrder /\ Busy

\* Every post belongs to a call that was made, and its other rows to a post.
RowsOfCalls ==
  /\ \A i \in posts : i[2] <= calls[i[1]]
  /\ images \subseteq posts /\ websites \subseteq posts
  /\ deleting # None => deleting.id[2] <= calls[deleting.id[1]]

\* A run that was never reserved has made no call.
Unborn == \A r \in Runs : run[r] = "none" => pc[r] = "off" /\ calls[r] = 0

\* The call of r has begun and its rows are not written.
Early == {"preflight", "generate", "validate", "write"}
Unwritten(r) == pc[r] \in Early \/ pending[r]
Fresh ==
  \A r \in Runs : Unwritten(r) =>
    /\ Call(r) \notin posts
    /\ deleting # None => deleting.id # Call(r)

\* A leftover post awaits the audit of a refused image call.
Leftover ==
  \A r \in Runs : pending[r] =>
    pc[r] = "audit" /\ tool[Call(r)] = "image" /\ result[r] = "refused"

\* What each place of a call says of its rows and files.
Stored ==
  \A r \in Runs : pc[r] \in {"validate", "write"} =>
    Media(Call(r)) \subseteq files \cup swept
Written ==
  \A r \in Runs :
    /\ pc[r] \in {"attach", "shot"} => tool[Call(r)] = "website"
    /\ pc[r] \in {"hooks", "attach", "shot"} /\ tool[Call(r)] = "website" =>
         Call(r) \notin images
    /\ pc[r] = "shot" /\ Call(r) \in posts =>
         <<Call(r), "image">> \in files \cup swept

\* A delete that has committed has left no post.
Gone ==
  deleting # None =>
    /\ deleting.paths \subseteq {deleting.id} \X {"image", "page"}
    /\ deleting.gone => deleting.id \notin posts

PubInv ==
  /\ TypeInv /\ RowsOfCalls /\ Unborn
  /\ Fresh /\ Leftover /\ Stored /\ Written /\ Gone /\ RowsHaveFiles

-----------------------------------------------------------------------------
(* One post of a visit *)

Late == {"hooks", "attach", "shot", "answer", "audit", "off", "fail"}

\* A complete post of a run: the audit knows it, or the run is lost, or the
\* call that wrote it is not over.
Accounted ==
  \A i \in posts : Complete(i) =>
    \/ \E a \in audits : a.id = i /\ a.ok
    \/ run[i[1]] # "running"
    \/ Call(i[1]) = i /\ pc[i[1]] \in Late
AnswerOk ==
  \A r \in Runs :
    pc[r] = "audit" /\ Call(r) \in posts => result[r] = "ok"
NoneYet ==
  \A r \in Runs :
    run[r] = "running" /\ pc[r] \in {"generate", "validate", "write"} =>
      \A i \in posts : i[1] = r => ~ Complete(i)
Single ==
  \A i, j \in posts : i[1] = j[1] /\ Complete(i) /\ Complete(j) => i = j
OneInv == Accounted /\ AnswerOk /\ NoneYet /\ Single

-----------------------------------------------------------------------------
(* The three limits of a persona *)

\* One run of the persona is live.
OneLive == \A r, q \in Runs : run[r] = "running" /\ run[q] = "running" => r = q

\* The call of r may still be audited as one that counts.
Counting(r) ==
  /\ pc[r] \notin {"off", "idle", "fail"}
  /\ pc[r] = "audit" => result[r] # "refused"

\* What was read of a limit still holds of the rows when the live run writes: only
\* the live run adds rows.
AuditRoom ==
  \A r \in Runs : run[r] = "running" /\ Counting(r) => Cardinality(RecentAudits) < PostCap
PostRoom ==
  \A r \in Runs : run[r] = "running" /\ (pc[r] = "write" \/ pending[r]) =>
    Cardinality(RecentPosts) < HourlyLimit

LimitInv ==
  /\ OneLive /\ IsFiniteSet(audits) /\ AuditRoom /\ PostRoom
  /\ WithinHourlyLimit /\ AuditedWithinCap

\* A website post of r was deleted.
Undone(r) == \E i \in removed : i[1] = r /\ tool[i] = "website"

\* The call of r has sent a request, and its row will say so.
Billing(r) ==
  /\ tool[Call(r)] = "website"
  /\ \/ pc[r] \in {"validate", "write", "hooks", "attach", "shot", "answer"}
     \/ pc[r] = "audit" /\ result[r] # "refused"

\* Who has sent a request is known for it, or sends no more; what a call has written
\* is there or was deleted.
SentKnown ==
  \A r \in Runs : sent[r] > 0 =>
    \/ BilledThisRun(r) \/ Undone(r) \/ Billing(r)
    \/ run[r] = "over" \/ (run[r] = "running" /\ pc[r] \in {"off", "fail"})
NotSent ==
  \A r \in Runs : pc[r] = "generate" /\ tool[Call(r)] = "website" =>
    sent[r] = 0 \/ Undone(r)
PostedOrGone ==
  \A r \in Runs : pc[r] \in {"hooks", "attach", "shot", "answer"} =>
    Call(r) \in posts \cup removed

RequestInv == SentKnown /\ NotSent /\ PostedOrGone /\ OneWebsiteRequest

-----------------------------------------------------------------------------
(* The owner of a file *)

\* The call of r holds file f, which no row names yet.
Holds(r, f) ==
  /\ Call(r) = f[1]
  /\ \/ pc[r] \in {"validate", "write"} /\ f \in Media(Call(r))
     \/ pc[r] = "shot" /\ f[2] = "image"

\* The picture of a website post that was deleted before its row was committed.
LatePreview(f) == tool[f[1]] = "website" /\ f[2] = "image"

HasOwner(f) ==
  \/ f \in Referenced
  \/ f[1] \in died
  \/ deleting # None /\ f \in deleting.paths
  \/ Holds(f[1][1], f)
  \/ LatePreview(f) /\ f[1] \in removed

\* A delete has read every file of its post, but for a picture that came later.
PathsRead ==
  deleting # None /\ ~ deleting.gone =>
    /\ deleting.paths \subseteq Referenced
    /\ \A f \in Referenced : f[1] = deleting.id => f \in deleting.paths \/ LatePreview(f)

FileInv == PathsRead /\ \A f \in files : HasOwner(f)

-----------------------------------------------------------------------------
(* Type correctness *)

\* An id is a run and the number of one of its calls.
LEMMA IdsArePairs ==
  ASSUME NEW i \in Ids
  PROVE  i = <<i[1], i[2]>> /\ i[1] \in Runs /\ i[2] \in 1..MaxCalls
BY DEF Ids

\* The call a busy thread is in has an id.
LEMMA CallIsId ==
  ASSUME PubTypeOK, Busy, NEW r \in Runs, pc[r] \notin {"off", "idle"}
  PROVE  Call(r) \in Ids
BY PublishingAssumption DEF PubTypeOK, Busy, Call, Ids

\* A run has made fewer calls than the bound if all runs together have: its own
\* calls are as many of those that were made.
LEMMA CallsBound ==
  ASSUME PubTypeOK, CallsInOrder, CallsMade < MaxCalls, NEW r \in Runs
  PROVE  calls[r] < MaxCalls
<1> DEFINE S == {i \in Ids : tool[i] # None}
           T == {r} \X (1..MaxCalls)
<1>1. MaxCalls \in Nat /\ IsFiniteSet(Runs)
  BY PublishingAssumption
<1>2. calls[r] \in 0..MaxCalls
  BY DEF PubTypeOK
<1>3. SUFFICES ASSUME calls[r] = MaxCalls PROVE FALSE
  BY <1>1, <1>2
<1>4. T \subseteq S
  BY <1>1, <1>3 DEF CallsInOrder, Ids
<1>5. IsFiniteSet(1..MaxCalls) /\ Cardinality(1..MaxCalls) = MaxCalls
  BY <1>1, FS_Interval
<1>6. IsFiniteSet({r}) /\ Cardinality({r}) = 1
  BY FS_Singleton
<1>7. Cardinality(T) = MaxCalls
  <2>1. Cardinality(T) = Cardinality({r}) * Cardinality(1..MaxCalls)
    BY <1>5, <1>6, FS_Product, Zenon
  <2> QED
    BY <1>1, <1>5, <1>6, <2>1
<1>8. IsFiniteSet(Ids)
  BY <1>1, <1>5, FS_Product DEF Ids
<1>9. IsFiniteSet(S) /\ Cardinality(S) \in Nat
  BY <1>8, FS_Subset, FS_CardinalityType
<1>10. Cardinality(T) <= Cardinality(S)
  BY <1>4, <1>9, FS_Subset
<1> QED
  BY <1>1, <1>7, <1>9, <1>10 DEF CallsMade

\* Every step keeps the domains, the order of the calls and the busy threads.
LEMMA TypeStep ==
  ASSUME TypeInv, [PubNext]_vars
  PROVE  TypeInv'
<1> USE PublishingAssumption DEF TypeInv, PubTypeOK, Busy, CallsInOrder,
     Result, Steps, Kinds, Ids, Files, rows, thread, others, history
<1>1. ASSUME NEW r \in Runs, Reserve(r) PROVE TypeInv'
  BY <1>1 DEF Reserve, Goto
<1>2. ASSUME NEW r \in Runs, Interrupt(r) PROVE TypeInv'
  BY <1>2 DEF Interrupt
<1>3. ASSUME NEW r \in Runs, LeaveRun(r) PROVE TypeInv'
  BY <1>3 DEF LeaveRun, Goto
<1>4. ASSUME NEW r \in Runs, ThreadDies(r) PROVE TypeInv'
  BY <1>4, CallIsId DEF ThreadDies, Mishap, Forget, Goto, Storing
<1>5. ASSUME NEW r \in Runs, NEW k \in Kinds, Begin(r, k) PROVE TypeInv'
  <2>1. calls[r] < MaxCalls
    BY <1>5, CallsBound DEF Begin, TypeInv
  <2>2. <<r, calls[r] + 1>> \in Ids
    BY <2>1 DEF Ids
  <2>3. PubTypeOK'
    BY <1>5, <2>1, <2>2 DEF Begin, Goto, Answered
  <2>4. CallsInOrder'
    <3>1. SUFFICES ASSUME NEW i \in Ids
                   PROVE  tool'[i] # None <=> i[2] <= calls'[i[1]]
      BY DEF CallsInOrder
    <3>2. CASE i = <<r, calls[r] + 1>>
      BY <1>5, <2>1, <3>2 DEF Begin
    <3>3. CASE i[1] = r /\ i[2] # calls[r] + 1
      <4>1. i # <<r, calls[r] + 1>> /\ i[2] \in Nat
        BY <3>3, IdsArePairs
      <4>2. tool'[i] = tool[i] /\ calls'[i[1]] = calls[r] + 1
        BY <1>5, <3>3, <4>1 DEF Begin
      <4> QED
        BY <3>3, <4>1, <4>2
    <3>4. CASE i[1] # r
      BY <1>5, <3>4, IdsArePairs DEF Begin
    <3> QED
      BY <3>2, <3>3, <3>4, IdsArePairs
  <2>5. Busy'
    BY <1>5 DEF Begin, Goto, Answered
  <2> QED
    BY <2>3, <2>4, <2>5
<1>6. ASSUME NEW r \in Runs, Preflight(r) PROVE TypeInv'
  BY <1>6 DEF Preflight, Goto, Answered, Escaped
<1>7. ASSUME NEW r \in Runs, Generate(r) PROVE TypeInv'
  <2>1. Call(r) \in Ids
    BY <1>7, CallIsId DEF Generate
  <2>2. Media(Call(r)) \subseteq Files
    BY <2>1 DEF Media
  <2>3. files' \subseteq Files
    BY <1>7, <2>2 DEF Generate
  <2>4. sent' \in [Runs -> Nat]
    BY <1>7 DEF Generate
  <2>5. pc' \in [Runs -> Steps] /\ result' \in [Runs -> Result \cup {None}]
    BY <1>7 DEF Generate, Goto, Failed, Answered
  <2>6. Busy'
    BY <1>7 DEF Generate, Goto, Failed, Answered
  <2> QED
    BY <1>7, <2>3, <2>4, <2>5, <2>6 DEF Generate
<1>8. ASSUME NEW r \in Runs, Validate(r) PROVE TypeInv'
  BY <1>8 DEF Validate, Goto, Failed, Answered, Media
<1>9. ASSUME NEW r \in Runs, Write(r) PROVE TypeInv'
  BY <1>9, CallIsId DEF Write, Goto
<1>10. ASSUME NEW r \in Runs, WriteLost(r) PROVE TypeInv'
  BY <1>10 DEF WriteLost, Failed, Answered, Goto
<1>11. ASSUME NEW r \in Runs, WriteLocked(r) PROVE TypeInv'
  BY <1>11 DEF WriteLocked, Escaped, Failed, Answered, Goto
<1>12. ASSUME NEW r \in Runs, Hooks(r) PROVE TypeInv'
  BY <1>12 DEF Hooks, Escaped, Failed, Answered, Goto
<1>13. ASSUME NEW r \in Runs, Attach(r) PROVE TypeInv'
  <2>1. Call(r) \in Ids
    BY <1>13, CallIsId DEF Attach
  <2>2. <<Call(r), "image">> \in Files
    BY <2>1
  <2> QED
    BY <1>13, <2>2 DEF Attach, Goto
<1>14. ASSUME NEW r \in Runs, CommitShot(r) PROVE TypeInv'
  BY <1>14, CallIsId DEF CommitShot, Goto
<1>15. ASSUME NEW r \in Runs, Answer(r) PROVE TypeInv'
  BY <1>15 DEF Answer, Answered, Escaped, Goto
<1>16. ASSUME NEW r \in Runs, Audit(r) PROVE TypeInv'
  <2>1. Call(r) \in Ids
    BY <1>16, CallIsId DEF Audit
  <2>2. AuditRow(r) \subseteq [id : Ids, ok : BOOLEAN, at : Nat]
    <3>1. (result[r] = "ok") \in BOOLEAN /\ clock \in Nat
      OBVIOUS
    <3>2. [id |-> Call(r), ok |-> result[r] = "ok", at |-> clock]
            \in [id : Ids, ok : BOOLEAN, at : Nat]
      BY <2>1, <3>1, Zenon
    <3> QED
      BY <3>2, Zenon DEF AuditRow
  <2>3. /\ posts' \subseteq Ids
        /\ audits' \subseteq [id : Ids, ok : BOOLEAN, at : Nat]
    BY <1>16, <2>1, <2>2 DEF Audit
  <2>4. stamp' \in [Ids -> Nat]
    BY <1>16, <2>1 DEF Audit
  <2> QED
    BY <1>16, <2>3, <2>4 DEF Audit, Forget, Goto
<1>17. ASSUME NEW r \in Runs, AuditLost(r) PROVE TypeInv'
  BY <1>17 DEF AuditLost, Forget, Goto
<1>18. ASSUME NEW r \in Runs, AuditLocked(r) PROVE TypeInv'
  BY <1>18 DEF AuditLocked, Forget, Goto
<1>19. ASSUME NEW i \in posts, DeleteRead(i) PROVE TypeInv'
  BY <1>19 DEF DeleteRead, Mishap, Referenced
<1>20. ASSUME DeleteRows PROVE TypeInv'
  BY <1>20 DEF DeleteRows
<1>21. ASSUME DeleteFiles PROVE TypeInv'
  BY <1>21 DEF DeleteFiles
<1>22. ASSUME DeleteEnds PROVE TypeInv'
  BY <1>22 DEF DeleteEnds
<1>23. ASSUME NEW tree \in {"image", "page"}, SweepRead(tree) PROVE TypeInv'
  BY <1>23 DEF SweepRead, Mishap, Referenced
<1>24. ASSUME NEW f \in files, SweepFile(f) PROVE TypeInv'
  BY <1>24 DEF SweepFile
<1>25. ASSUME SweepEnds PROVE TypeInv'
  BY <1>25 DEF SweepEnds
<1>26. ASSUME Tick PROVE TypeInv'
  BY <1>26 DEF Tick
<1>27. ASSUME UNCHANGED vars PROVE TypeInv'
  BY <1>27 DEF vars
<1> QED
  BY <1>1, <1>2, <1>3, <1>4, <1>5, <1>6, <1>7, <1>8, <1>9, <1>10, <1>11, <1>12,
     <1>13, <1>14, <1>15, <1>16, <1>17, <1>18, <1>19, <1>20, <1>21, <1>22,
     <1>23, <1>24, <1>25, <1>26, <1>27 DEF PubNext, ToolCall, Operators, Kinds
-----------------------------------------------------------------------------
(* The invariant of rows and files *)

\* A thread that goes to a step of which Written says nothing, and takes no other
\* thread's picture, keeps Written.
LEMMA WrittenKept ==
  ASSUME TypeInv, Written, NEW r \in Runs, NEW step,
         step \notin {"hooks", "attach", "shot"}, pc' = [pc EXCEPT ![r] = step],
         UNCHANGED <<calls, posts, images, swept>>,
         \A q \in Runs \ {r} : pc[q] \notin {"off", "idle"} =>
           /\ tool'[Call(q)] = tool[Call(q)]
           /\ <<Call(q), "image">> \in files => <<Call(q), "image">> \in files'
  PROVE  Written'
<1> SUFFICES ASSUME NEW q \in Runs, pc'[q] \in {"hooks", "attach", "shot"}
             PROVE  /\ pc'[q] \in {"attach", "shot"} => tool'[Call(q)] = "website"
                    /\ tool'[Call(q)] = "website" => Call(q) \notin images
                    /\ pc'[q] = "shot" /\ Call(q) \in posts =>
                         <<Call(q), "image">> \in files' \cup swept
  BY DEF Written, Call
<1>1. q # r /\ pc'[q] = pc[q]
  BY DEF TypeInv, PubTypeOK
<1> QED
  BY <1>1 DEF Written

\* Every step keeps what the rows, the files and the places of the threads say.
LEMMA InvStep ==
  ASSUME PubInv, TypeInv', [PubNext]_vars
  PROVE  PubInv'
<1> USE PublishingAssumption, IdsArePairs DEF PubInv, TypeInv, PubTypeOK, Busy,
     CallsInOrder, Kinds, rows, thread, others, history, Unwritten, Early, Goto
<1>1. ASSUME NEW r \in Runs, Reserve(r) PROVE PubInv'
  BY <1>1 DEF Reserve, RowsOfCalls, Unborn, Fresh, Leftover, Stored, Written,
     Gone, RowsHaveFiles, Referenced, Media, Call
<1>2. ASSUME NEW r \in Runs, Interrupt(r) PROVE PubInv'
  BY <1>2 DEF Interrupt, RowsOfCalls, Unborn, Fresh, Leftover, Stored, Written,
     Gone, RowsHaveFiles, Referenced, Media, Call
<1>3. ASSUME NEW r \in Runs, LeaveRun(r) PROVE PubInv'
  BY <1>3 DEF LeaveRun, RowsOfCalls, Unborn, Fresh, Leftover, Stored, Written,
     Gone, RowsHaveFiles, Referenced, Media, Call
<1>4. ASSUME NEW r \in Runs, ThreadDies(r) PROVE PubInv'
  BY <1>4 DEF ThreadDies, Mishap, Forget, RowsOfCalls, Unborn, Fresh, Leftover,
     Stored, Written, Gone, RowsHaveFiles, Referenced, Media, Call
<1>5. ASSUME NEW r \in Runs, NEW k \in Kinds, Begin(r, k) PROVE PubInv'
  <2>1. (RowsOfCalls /\ Unborn /\ Fresh /\ Gone)'
    BY <1>5 DEF Begin, Answered, RowsOfCalls, Unborn, Fresh, Leftover, Gone,
       Call
  <2>2. Leftover'
    <3>1. ~ pending[r] /\ pending' = pending
      BY <1>5 DEF Begin, Leftover
    <3>2. \A q \in Runs \ {r} : pending[q] =>
            /\ pc'[q] = pc[q] /\ result'[q] = result[q]
            /\ tool'[Call(q)'] = tool[Call(q)]
      BY <1>5 DEF Begin, Answered, Call, Leftover
    <3> QED
      BY <3>1, <3>2 DEF Leftover
  <2>3. Stored'
    BY <1>5 DEF Begin, Answered, Stored, Media, Call, Fresh, Gone
  <2>4. Written'
    <3>1. \A q \in Runs \ {r} :
            /\ pc'[q] = pc[q] /\ Call(q)' = Call(q)
            /\ pc[q] \notin {"off", "idle"} => tool'[Call(q)] = tool[Call(q)]
      BY <1>5 DEF Begin, Answered, Call, Ids
    <3>2. pc'[r] \in {"preflight", "audit"}
      BY <1>5 DEF Begin, Answered
    <3>3. UNCHANGED <<posts, images, files, swept>>
      BY <1>5 DEF Begin
    <3> QED
      BY <3>1, <3>2, <3>3 DEF Written
  <2>5. RowsHaveFiles'
    BY <1>5 DEF Begin, Answered, RowsHaveFiles, Referenced, Stored, Media,
       Written, Call, RowsOfCalls, Gone, Fresh
  <2> QED
    BY <2>1, <2>2, <2>3, <2>4, <2>5
<1>6. ASSUME NEW r \in Runs, Preflight(r) PROVE PubInv'
  <2>1. (RowsOfCalls /\ Unborn /\ Fresh /\ Leftover /\ Gone)'
    BY <1>6 DEF Preflight, Answered, Escaped, RowsOfCalls, Unborn, Fresh,
       Leftover, Gone, Call
  <2>2. Stored'
    <3>1. pc'[r] = "validate" => Media(Call(r)) = {}
      BY <1>6 DEF Preflight, Answered, Escaped, Media
    <3>2. /\ UNCHANGED <<files, swept, tool, calls>>
          /\ \A q \in Runs \ {r} : pc'[q] = pc[q]
      BY <1>6 DEF Preflight, Answered, Escaped
    <3>3. pc'[r] # "write"
      BY <1>6 DEF Preflight, Answered, Escaped
    <3> QED
      BY <3>1, <3>2, <3>3 DEF Stored, Media, Call
  <2>3. Written'
    <3>1. PICK step \in {"idle", "audit", "generate", "validate"} :
            pc' = [pc EXCEPT ![r] = step]
      BY <1>6 DEF Preflight, Answered, Escaped
    <3> QED
      BY <1>6, <3>1, WrittenKept DEF Preflight
  <2>4. RowsHaveFiles'
    BY <1>6 DEF Preflight, Answered, Escaped, RowsHaveFiles, Referenced,
       Stored, Media, Written, Call, RowsOfCalls, Gone, Fresh
  <2> QED
    BY <2>1, <2>2, <2>3, <2>4
<1>7. ASSUME NEW r \in Runs, Generate(r) PROVE PubInv'
  <2>1. (RowsOfCalls /\ Unborn /\ Fresh /\ Leftover /\ Gone)'
    BY <1>7 DEF Generate, Failed, Answered, RowsOfCalls, Unborn, Fresh,
       Leftover, Gone, Call
  <2>2. Stored'
    BY <1>7 DEF Generate, Failed, Answered, Stored, Media, Call, Fresh, Gone
  <2>3. Written'
    <3>1. CASE pc' = [pc EXCEPT ![r] = "validate"]
      BY <1>7, <3>1, WrittenKept DEF Generate, Failed, Answered
    <3>2. CASE pc' = [pc EXCEPT ![r] = "audit"]
      BY <1>7, <3>2, WrittenKept DEF Generate, Failed, Answered
    <3> QED
      BY <1>7, <3>1, <3>2 DEF Generate, Failed, Answered
  <2>4. RowsHaveFiles'
    BY <1>7 DEF Generate, Failed, Answered, RowsHaveFiles, Referenced, Stored,
       Media, Written, Call, RowsOfCalls, Gone, Fresh
  <2> QED
    BY <2>1, <2>2, <2>3, <2>4
<1>8. ASSUME NEW r \in Runs, Validate(r) PROVE PubInv'
  BY <1>8 DEF Validate, Failed, Answered, RowsOfCalls, Unborn, Fresh, Leftover,
     Stored, Written, Gone, RowsHaveFiles, Referenced, Media, Call
<1>9. ASSUME NEW r \in Runs, Write(r) PROVE PubInv'
  <2>1. (RowsOfCalls /\ Unborn /\ Fresh /\ Leftover /\ Gone)'
    BY <1>9 DEF Write, RowsOfCalls, Unborn, Fresh, Leftover, Gone, Call
  <2>2. Stored'
    BY <1>9 DEF Write, Stored, Media, Call, Fresh, Gone
  <2>3. Written'
    BY <1>9 DEF Write, Written, Call, RowsOfCalls, Gone, Fresh
  <2>4. RowsHaveFiles'
    BY <1>9 DEF Write, RowsHaveFiles, Referenced, Stored, Media, Written, Call,
       RowsOfCalls, Gone, Fresh
  <2> QED
    BY <2>1, <2>2, <2>3, <2>4
<1>10. ASSUME NEW r \in Runs, WriteLost(r) PROVE PubInv'
  BY <1>10 DEF WriteLost, Failed, Answered, RowsOfCalls, Unborn, Fresh,
     Leftover, Stored, Written, Gone, RowsHaveFiles, Referenced, Media, Call
<1>11. ASSUME NEW r \in Runs, WriteLocked(r) PROVE PubInv'
  <2>1. (RowsOfCalls /\ Unborn /\ Fresh /\ Gone)'
    BY <1>11 DEF WriteLocked, Escaped, Failed, Answered, RowsOfCalls, Unborn,
       Fresh, Leftover, Gone, Call
  <2>2. Leftover'
    <3>1. CASE tool[Call(r)] = "image"
      BY <1>11, <3>1 DEF WriteLocked, Escaped, Failed, Answered, Leftover, Call
    <3>2. CASE tool[Call(r)] # "image"
      BY <1>11, <3>2 DEF WriteLocked, Escaped, Failed, Answered, Leftover, Call
    <3> QED
      BY <3>1, <3>2
  <2>3. Stored'
    BY <1>11 DEF WriteLocked, Escaped, Failed, Answered, Stored, Media, Call,
       Fresh, Gone
  <2>4. Written'
    BY <1>11, WrittenKept DEF WriteLocked, Escaped, Failed, Answered, Media,
       Call
  <2>5. RowsHaveFiles'
    BY <1>11 DEF WriteLocked, Escaped, Failed, Answered, RowsHaveFiles,
       Referenced, Stored, Media, Written, Call, RowsOfCalls, Gone, Fresh
  <2> QED
    BY <2>1, <2>2, <2>3, <2>4, <2>5
<1>12. ASSUME NEW r \in Runs, Hooks(r) PROVE PubInv'
  <2>1. (RowsOfCalls /\ Unborn /\ Fresh /\ Leftover /\ Gone)'
    BY <1>12 DEF Hooks, Escaped, Failed, Answered, RowsOfCalls, Unborn, Fresh,
       Leftover, Gone, Call
  <2>2. Stored'
    BY <1>12 DEF Hooks, Escaped, Failed, Answered, Stored, Media, Call, Fresh,
       Gone
  <2>3. Written'
    <3>1. CASE pc' = [pc EXCEPT ![r] = "attach"] /\ tool[Call(r)] = "website"
      BY <1>12, <3>1 DEF Hooks, Written, Call
    <3>2. ASSUME NEW step \in {"answer", "audit", "idle"},
                 pc' = [pc EXCEPT ![r] = step]
          PROVE  Written'
      BY <1>12, <3>2, WrittenKept DEF Hooks, Media, Call
    <3> QED
      BY <1>12, <3>1, <3>2 DEF Hooks, Escaped, Failed, Answered
  <2>4. RowsHaveFiles'
    <3>1. CASE UNCHANGED files
      BY <1>12, <3>1 DEF Hooks, RowsHaveFiles, Referenced
    <3>2. CASE /\ files' = files \ Media(Call(r))
               /\ tool[Call(r)] = "image" /\ Call(r) \notin posts
      BY <1>12, <3>2 DEF Hooks, RowsHaveFiles, Referenced, Media, RowsOfCalls
    <3> QED
      BY <1>12, <3>1, <3>2 DEF Hooks
  <2> QED
    BY <2>1, <2>2, <2>3, <2>4
<1>13. ASSUME NEW r \in Runs, Attach(r) PROVE PubInv'
  <2>1. (RowsOfCalls /\ Unborn /\ Fresh /\ Leftover /\ Gone)'
    BY <1>13 DEF Attach, RowsOfCalls, Unborn, Fresh, Leftover, Gone, Call
  <2>2. Stored'
    BY <1>13 DEF Attach, Stored, Media, Call, Fresh, Gone
  <2>3. Written'
    BY <1>13 DEF Attach, Written, Call, RowsOfCalls, Gone, Fresh
  <2>4. RowsHaveFiles'
    BY <1>13 DEF Attach, RowsHaveFiles, Referenced, Stored, Media, Written,
       Call, RowsOfCalls, Gone, Fresh
  <2> QED
    BY <2>1, <2>2, <2>3, <2>4
<1>14. ASSUME NEW r \in Runs, CommitShot(r) PROVE PubInv'
  <2>1. (Unborn /\ Leftover)'
    BY <1>14 DEF CommitShot, RowsOfCalls, Unborn, Fresh, Leftover, Gone, Call
  <2>2. RowsOfCalls'
    BY <1>14 DEF CommitShot, RowsOfCalls, Fresh, Call, Gone
  <2>3. Fresh'
    BY <1>14 DEF CommitShot, Fresh, Call, RowsOfCalls, Leftover
  <2>4. Stored'
    BY <1>14 DEF CommitShot, Stored, Media, Call, Fresh, Gone
  <2>5. Written'
    BY <1>14 DEF CommitShot, Written, Call, RowsOfCalls, Gone, Fresh
  <2>6. Gone'
    BY <1>14 DEF CommitShot, Gone, Referenced, Fresh
  <2>7. RowsHaveFiles'
    BY <1>14 DEF CommitShot, RowsHaveFiles, Referenced, Stored, Media, Written,
       Call, RowsOfCalls, Gone, Fresh
  <2> QED
    BY <2>1, <2>2, <2>3, <2>4, <2>5, <2>6, <2>7
<1>15. ASSUME NEW r \in Runs, Answer(r) PROVE PubInv'
  <2>1. (RowsOfCalls /\ Unborn /\ Fresh /\ Leftover /\ Gone)'
    BY <1>15 DEF Answer, Answered, Escaped, RowsOfCalls, Unborn, Fresh,
       Leftover, Gone, Call
  <2>2. Stored'
    BY <1>15 DEF Answer, Answered, Escaped, Stored, Media, Call, Fresh, Gone
  <2>3. Written'
    <3>1. CASE Call(r) \in posts
      BY <1>15, <3>1, WrittenKept DEF Answer, Answered, Escaped
    <3>2. CASE Call(r) \notin posts
      BY <1>15, <3>2, WrittenKept DEF Answer, Answered, Escaped
    <3> QED
      BY <3>1, <3>2
  <2>4. RowsHaveFiles'
    BY <1>15 DEF Answer, Answered, Escaped, RowsHaveFiles, Referenced, Stored,
       Media, Written, Call, RowsOfCalls, Gone, Fresh
  <2> QED
    BY <2>1, <2>2, <2>3, <2>4
<1>16. ASSUME NEW r \in Runs, Audit(r) PROVE PubInv'
  <2>1. (RowsOfCalls /\ Unborn /\ Fresh /\ Leftover /\ Gone)'
    BY <1>16 DEF Audit, Forget, RowsOfCalls, Unborn, Fresh, Leftover, Gone,
       Call
  <2>2. Stored'
    BY <1>16 DEF Audit, Forget, Stored, Media, Call, Fresh, Gone
  <2>3. Written'
    BY <1>16 DEF Audit, Forget, Written, Call, RowsOfCalls, Gone, Fresh
  <2>4. RowsHaveFiles'
    BY <1>16 DEF Audit, Forget, RowsHaveFiles, Referenced, Stored, Media,
       Written, Call, RowsOfCalls, Gone, Fresh
  <2> QED
    BY <2>1, <2>2, <2>3, <2>4
<1>17. ASSUME NEW r \in Runs, AuditLost(r) PROVE PubInv'
  <2>1. (RowsOfCalls /\ Unborn /\ Fresh /\ Leftover /\ Gone)'
    BY <1>17 DEF AuditLost, Forget, RowsOfCalls, Unborn, Fresh, Leftover, Gone,
       Call
  <2>2. Stored'
    BY <1>17 DEF AuditLost, Forget, Stored, Media, Call, Fresh, Gone
  <2>3. Written'
    BY <1>17 DEF AuditLost, Forget, Written, Call, RowsOfCalls, Gone, Fresh
  <2>4. RowsHaveFiles'
    BY <1>17 DEF AuditLost, Forget, RowsHaveFiles, Referenced, Stored, Media,
       Written, Call, RowsOfCalls, Gone, Fresh
  <2> QED
    BY <2>1, <2>2, <2>3, <2>4
<1>18. ASSUME NEW r \in Runs, AuditLocked(r) PROVE PubInv'
  <2>1. (RowsOfCalls /\ Unborn /\ Fresh /\ Leftover /\ Gone)'
    BY <1>18 DEF AuditLocked, Forget, RowsOfCalls, Unborn, Fresh, Leftover,
       Gone, Call
  <2>2. Stored'
    BY <1>18 DEF AuditLocked, Forget, Stored, Media, Call, Fresh, Gone
  <2>3. Written'
    BY <1>18 DEF AuditLocked, Forget, Written, Call, RowsOfCalls, Gone, Fresh
  <2>4. RowsHaveFiles'
    BY <1>18 DEF AuditLocked, Forget, RowsHaveFiles, Referenced, Stored, Media,
       Written, Call, RowsOfCalls, Gone, Fresh
  <2> QED
    BY <2>1, <2>2, <2>3, <2>4
<1>19. ASSUME NEW i \in posts, DeleteRead(i) PROVE PubInv'
  <2>1. (RowsOfCalls /\ Unborn /\ Fresh /\ Leftover /\ Gone)'
    BY <1>19 DEF DeleteRead, Mishap, Referenced, RowsOfCalls, Unborn, Fresh,
       Leftover, Gone, Call
  <2>2. Stored'
    BY <1>19 DEF DeleteRead, Mishap, Referenced, Stored, Media, Call, Fresh,
       Gone
  <2>3. Written'
    BY <1>19 DEF DeleteRead, Mishap, Referenced, Written, Call, RowsOfCalls,
       Gone, Fresh
  <2>4. RowsHaveFiles'
    BY <1>19 DEF DeleteRead, Mishap, Referenced, RowsHaveFiles, Stored, Media,
       Written, Call, RowsOfCalls, Gone, Fresh
  <2> QED
    BY <2>1, <2>2, <2>3, <2>4
<1>20. ASSUME DeleteRows PROVE PubInv'
  <2>1. (RowsOfCalls /\ Unborn /\ Fresh /\ Leftover /\ Gone)'
    BY <1>20 DEF DeleteRows, RowsOfCalls, Unborn, Fresh, Leftover, Gone, Call
  <2>2. Stored'
    BY <1>20 DEF DeleteRows, Stored, Media, Call, Fresh, Gone
  <2>3. Written'
    BY <1>20 DEF DeleteRows, Written, Call, RowsOfCalls, Gone, Fresh
  <2>4. RowsHaveFiles'
    BY <1>20 DEF DeleteRows, RowsHaveFiles, Referenced, Stored, Media,
       Written, Call, RowsOfCalls, Gone, Fresh
  <2> QED
    BY <2>1, <2>2, <2>3, <2>4
<1>21. ASSUME DeleteFiles PROVE PubInv'
  <2>1. (RowsOfCalls /\ Unborn /\ Fresh /\ Leftover /\ Gone)'
    BY <1>21 DEF DeleteFiles, RowsOfCalls, Unborn, Fresh, Leftover, Gone, Call
  <2>2. Stored'
    BY <1>21 DEF DeleteFiles, Stored, Media, Call, Fresh, Gone
  <2>3. Written'
    BY <1>21 DEF DeleteFiles, Written, Call, RowsOfCalls, Gone, Fresh
  <2>4. RowsHaveFiles'
    BY <1>21 DEF DeleteFiles, RowsHaveFiles, Referenced, Stored, Media,
       Written, Call, RowsOfCalls, Gone, Fresh
  <2> QED
    BY <2>1, <2>2, <2>3, <2>4
<1>22. ASSUME DeleteEnds PROVE PubInv'
  BY <1>22 DEF DeleteEnds, RowsOfCalls, Unborn, Fresh, Leftover, Stored,
     Written, Gone, RowsHaveFiles, Referenced, Media, Call
<1>23. ASSUME NEW tree \in {"image", "page"}, SweepRead(tree) PROVE PubInv'
  BY <1>23 DEF SweepRead, Mishap, Referenced, RowsOfCalls, Unborn, Fresh,
     Leftover, Stored, Written, Gone, RowsHaveFiles, Media, Call
<1>24. ASSUME NEW f \in files, SweepFile(f) PROVE PubInv'
  BY <1>24 DEF SweepFile, RowsOfCalls, Unborn, Fresh, Leftover, Stored,
     Written, Gone, RowsHaveFiles, Referenced, Media, Call
<1>25. ASSUME SweepEnds PROVE PubInv'
  BY <1>25 DEF SweepEnds, RowsOfCalls, Unborn, Fresh, Leftover, Stored,
     Written, Gone, RowsHaveFiles, Referenced, Media, Call
<1>26. ASSUME Tick PROVE PubInv'
  BY <1>26 DEF Tick, RowsOfCalls, Unborn, Fresh, Leftover, Stored, Written,
     Gone, RowsHaveFiles, Referenced, Media, Call
<1>27. ASSUME UNCHANGED vars PROVE PubInv'
  BY <1>27 DEF vars, RowsOfCalls, Unborn, Fresh, Leftover, Stored, Written,
     Gone, RowsHaveFiles, Referenced, Media, Call
<1> QED
  BY <1>1, <1>2, <1>3, <1>4, <1>5, <1>6, <1>7, <1>8, <1>9, <1>10, <1>11, <1>12,
     <1>13, <1>14, <1>15, <1>16, <1>17, <1>18, <1>19, <1>20, <1>21, <1>22,
     <1>23, <1>24, <1>25, <1>26, <1>27 DEF PubNext, ToolCall, Operators, Kinds

-----------------------------------------------------------------------------
(* The invariant of one post *)

\* Every step keeps a run to one complete post, and that one accounted for.
LEMMA OneStep ==
  ASSUME PubInv, TypeInv', OneInv, [PubNext]_vars
  PROVE  OneInv'
<1> USE PublishingAssumption, IdsArePairs DEF PubInv, TypeInv, PubTypeOK, Busy,
     CallsInOrder, Kinds, OneInv, rows, thread, others, history, Unwritten,
     Early, Goto
<1>1. ASSUME NEW r \in Runs, Reserve(r) PROVE OneInv'
  <2>1. Accounted'
    BY <1>1 DEF Reserve, Accounted, Complete, Late, Call, Unborn, RowsOfCalls
  <2>2. AnswerOk'
    BY <1>1 DEF Reserve, AnswerOk, Call, Fresh, RowsOfCalls, Leftover
  <2>3. NoneYet'
    BY <1>1 DEF Reserve, NoneYet, Complete, Call, Accounted, Late, RowsOfCalls,
       Unborn, Written, Leftover
  <2>4. Single'
    BY <1>1 DEF Reserve, Single, Complete, Call, NoneYet, RowsOfCalls, Written,
       Leftover, Fresh
  <2> QED
    BY <2>1, <2>2, <2>3, <2>4
<1>2. ASSUME NEW r \in Runs, Interrupt(r) PROVE OneInv'
  BY <1>2 DEF Interrupt, Accounted, AnswerOk, NoneYet, Single, Complete, Late,
     Call, Fresh, RowsOfCalls, Written, Leftover, Unborn
<1>3. ASSUME NEW r \in Runs, LeaveRun(r) PROVE OneInv'
  BY <1>3 DEF LeaveRun, Accounted, AnswerOk, NoneYet, Single, Complete, Late,
     Call, Fresh, RowsOfCalls, Written, Leftover, Unborn
<1>4. ASSUME NEW r \in Runs, ThreadDies(r) PROVE OneInv'
  BY <1>4 DEF ThreadDies, Mishap, Forget, Accounted, AnswerOk, NoneYet, Single,
     Complete, Late, Call, Fresh, RowsOfCalls, Written, Leftover, Unborn
<1>5. ASSUME NEW r \in Runs, NEW k \in Kinds, Begin(r, k) PROVE OneInv'
  BY <1>5 DEF Begin, Answered, Accounted, AnswerOk, NoneYet, Single, Complete,
     Late, Call, Fresh, RowsOfCalls, Written, Leftover, Unborn
<1>6. ASSUME NEW r \in Runs, Preflight(r) PROVE OneInv'
  BY <1>6 DEF Preflight, Answered, Escaped, PostedThisRun, Accounted, AnswerOk,
     NoneYet, Single, Complete, Late, Call, Fresh, RowsOfCalls, Written,
     Leftover, Unborn
<1>7. ASSUME NEW r \in Runs, Generate(r) PROVE OneInv'
  BY <1>7 DEF Generate, Failed, Answered, Accounted, AnswerOk, NoneYet, Single,
     Complete, Late, Call, Fresh, RowsOfCalls, Written, Leftover, Unborn
<1>8. ASSUME NEW r \in Runs, Validate(r) PROVE OneInv'
  <2>1. Accounted'
    <3>1. UNCHANGED <<posts, images, websites, tool, audits, run, calls>>
      BY <1>8 DEF Validate
    <3>2. pc[r] \notin Late /\ \A q \in Runs \ {r} : pc'[q] = pc[q]
      BY <1>8 DEF Validate, Failed, Answered, Late
    <3> QED
      BY <3>1, <3>2 DEF Accounted, Complete, Call
  <2>2. AnswerOk'
    BY <1>8 DEF Validate, Failed, Answered, AnswerOk, Call, Fresh, RowsOfCalls,
       Leftover
  <2>3. NoneYet'
    BY <1>8 DEF Validate, Failed, Answered, NoneYet, Complete, Call, Accounted,
       Late, RowsOfCalls, Unborn, Written, Leftover
  <2>4. Single'
    BY <1>8 DEF Validate, Failed, Answered, Single, Complete, Call, NoneYet,
       RowsOfCalls, Written, Leftover, Fresh
  <2> QED
    BY <2>1, <2>2, <2>3, <2>4
<1>9. ASSUME NEW r \in Runs, Write(r) PROVE OneInv'
  BY <1>9 DEF Write, Accounted, AnswerOk, NoneYet, Single, Complete, Late,
     Call, Fresh, RowsOfCalls, Written, Leftover, Unborn
<1>10. ASSUME NEW r \in Runs, WriteLost(r) PROVE OneInv'
  BY <1>10 DEF WriteLost, Failed, Answered, Accounted, AnswerOk, NoneYet,
     Single, Complete, Late, Call, Fresh, RowsOfCalls, Written, Leftover,
     Unborn
<1>11. ASSUME NEW r \in Runs, WriteLocked(r) PROVE OneInv'
  <2>1. Accounted'
    BY <1>11 DEF WriteLocked, Escaped, Failed, Answered, Accounted, Complete,
       Late, Call, Fresh, RowsOfCalls, AnswerOk, Leftover, Written
  <2>2. AnswerOk'
    BY <1>11 DEF WriteLocked, Escaped, Failed, Answered, AnswerOk, Call, Fresh,
       RowsOfCalls, Leftover
  <2>3. NoneYet'
    BY <1>11 DEF WriteLocked, Escaped, Failed, Answered, NoneYet, Complete,
       Call, Accounted, Late, RowsOfCalls, Unborn, Written, Leftover
  <2>4. Single'
    BY <1>11 DEF WriteLocked, Escaped, Failed, Answered, Single, Complete,
       Call, NoneYet, RowsOfCalls, Written, Leftover, Fresh
  <2> QED
    BY <2>1, <2>2, <2>3, <2>4
<1>12. ASSUME NEW r \in Runs, Hooks(r) PROVE OneInv'
  <2>1. Accounted'
    BY <1>12 DEF Hooks, Escaped, Failed, Answered, Accounted, Complete, Late,
       Call, Fresh, RowsOfCalls, AnswerOk, Leftover, Written
  <2>2. AnswerOk'
    <3>1. CASE Call(r) \in posts
      BY <1>12, <3>1 DEF Hooks, Failed, Answered, AnswerOk, Call
    <3>2. CASE Call(r) \notin posts
      BY <1>12, <3>2 DEF Hooks, Failed, Answered, Escaped, AnswerOk, Call
    <3> QED
      BY <3>1, <3>2
  <2>3. NoneYet'
    BY <1>12 DEF Hooks, Escaped, Failed, Answered, NoneYet, Complete, Call,
       Accounted, Late, RowsOfCalls, Unborn, Written, Leftover
  <2>4. Single'
    BY <1>12 DEF Hooks, Escaped, Failed, Answered, Single, Complete, Call,
       NoneYet, RowsOfCalls, Written, Leftover, Fresh
  <2> QED
    BY <2>1, <2>2, <2>3, <2>4
<1>13. ASSUME NEW r \in Runs, Attach(r) PROVE OneInv'
  BY <1>13 DEF Attach, Accounted, AnswerOk, NoneYet, Single, Complete, Late,
     Call, Fresh, RowsOfCalls, Written, Leftover, Unborn
<1>14. ASSUME NEW r \in Runs, CommitShot(r) PROVE OneInv'
  <2>1. Accounted'
    BY <1>14 DEF CommitShot, Accounted, Complete, Late, Call, Fresh,
       RowsOfCalls, AnswerOk, Leftover, Written
  <2>2. AnswerOk'
    BY <1>14 DEF CommitShot, AnswerOk, Call, Fresh, RowsOfCalls, Leftover
  <2>3. NoneYet'
    BY <1>14 DEF CommitShot, NoneYet, Complete, Call, Accounted, Late,
       RowsOfCalls, Unborn, Written, Leftover
  <2>4. Single'
    <3>1. tool[Call(r)] = "website"
      BY <1>14 DEF CommitShot, Written
    <3>2. images' \subseteq images \cup {Call(r)}
      BY <1>14 DEF CommitShot
    <3>3. UNCHANGED <<posts, websites, tool>>
      BY <1>14 DEF CommitShot
    <3>4. \A i \in posts : Complete(i)' => Complete(i)
      BY <3>1, <3>2, <3>3 DEF Complete
    <3> QED
      BY <3>3, <3>4 DEF Single
  <2> QED
    BY <2>1, <2>2, <2>3, <2>4
<1>15. ASSUME NEW r \in Runs, Answer(r) PROVE OneInv'
  BY <1>15 DEF Answer, Answered, Escaped, Accounted, AnswerOk, NoneYet, Single,
     Complete, Late, Call, Fresh, RowsOfCalls, Written, Leftover, Unborn
<1>16. ASSUME NEW r \in Runs, Audit(r) PROVE OneInv'
  <2>1. Accounted'
    <3>1. SUFFICES ASSUME NEW i \in posts', Complete(i)', run[i[1]] = "running"
                   PROVE  \/ \E a \in audits' : a.id = i /\ a.ok
                          \/ Call(i[1])' = i /\ pc'[i[1]] \in Late
      BY <1>16 DEF Audit, Accounted
    <3>2. i \in posts /\ Complete(i)
      BY <1>16, <3>1 DEF Audit, Complete, Fresh, RowsOfCalls, Leftover
    <3>3. CASE \E a \in audits : a.id = i /\ a.ok
      BY <1>16, <3>3 DEF Audit
    <3>4. CASE Call(i[1]) = i /\ pc[i[1]] \in Late /\ i[1] # r
      BY <1>16, <3>4 DEF Audit, Forget, Call
    <3>5. CASE i = Call(r)
      <4>1. result[r] = "ok"
        BY <1>16, <3>2, <3>5 DEF Audit, AnswerOk
      <4> DEFINE a == [id |-> i, ok |-> result[r] = "ok", at |-> clock]
      <4>2. a \in audits'
        BY <1>16, <3>5, <4>1 DEF Audit, AuditRow
      <4>3. a.id = i /\ a.ok
        BY <4>1
      <4> QED
        BY <4>2, <4>3
    <3> QED
      BY <3>1, <3>2, <3>3, <3>4, <3>5 DEF Accounted, Call
  <2>2. AnswerOk'
    BY <1>16 DEF Audit, Forget, AuditRow, AnswerOk, Call, Fresh, RowsOfCalls,
       Leftover
  <2>3. NoneYet'
    BY <1>16 DEF Audit, Forget, AuditRow, NoneYet, Complete, Call, Accounted,
       Late, RowsOfCalls, Unborn, Written, Leftover
  <2>4. Single'
    BY <1>16 DEF Audit, Forget, AuditRow, Single, Complete, Call, NoneYet,
       RowsOfCalls, Written, Leftover, Fresh
  <2> QED
    BY <2>1, <2>2, <2>3, <2>4
<1>17. ASSUME NEW r \in Runs, AuditLost(r) PROVE OneInv'
  BY <1>17 DEF AuditLost, Forget, Accounted, AnswerOk, NoneYet, Single,
     Complete, Late, Call, Fresh, RowsOfCalls, Written, Leftover, Unborn
<1>18. ASSUME NEW r \in Runs, AuditLocked(r) PROVE OneInv'
  BY <1>18 DEF AuditLocked, Forget, Accounted, AnswerOk, NoneYet, Single,
     Complete, Late, Call, Fresh, RowsOfCalls, Written, Leftover, Unborn
<1>19. ASSUME NEW i \in posts, DeleteRead(i) PROVE OneInv'
  BY <1>19 DEF DeleteRead, Mishap, Referenced, Accounted, AnswerOk, NoneYet,
     Single, Complete, Late, Call, Fresh, RowsOfCalls, Written, Leftover,
     Unborn
<1>20. ASSUME DeleteRows PROVE OneInv'
  BY <1>20 DEF DeleteRows, Accounted, AnswerOk, NoneYet, Single, Complete,
     Late, Call, Fresh, RowsOfCalls, Written, Leftover, Unborn
<1>21. ASSUME DeleteFiles PROVE OneInv'
  BY <1>21 DEF DeleteFiles, Accounted, AnswerOk, NoneYet, Single, Complete,
     Late, Call, Fresh, RowsOfCalls, Written, Leftover, Unborn
<1>22. ASSUME DeleteEnds PROVE OneInv'
  BY <1>22 DEF DeleteEnds, Accounted, AnswerOk, NoneYet, Single, Complete,
     Late, Call, Fresh, RowsOfCalls, Written, Leftover, Unborn
<1>23. ASSUME NEW tree \in {"image", "page"}, SweepRead(tree) PROVE OneInv'
  BY <1>23 DEF SweepRead, Mishap, Referenced, Accounted, AnswerOk, NoneYet,
     Single, Complete, Late, Call, Fresh, RowsOfCalls, Written, Leftover,
     Unborn
<1>24. ASSUME NEW f \in files, SweepFile(f) PROVE OneInv'
  BY <1>24 DEF SweepFile, Accounted, AnswerOk, NoneYet, Single, Complete, Late,
     Call, Fresh, RowsOfCalls, Written, Leftover, Unborn
<1>25. ASSUME SweepEnds PROVE OneInv'
  BY <1>25 DEF SweepEnds, Accounted, AnswerOk, NoneYet, Single, Complete, Late,
     Call, Fresh, RowsOfCalls, Written, Leftover, Unborn
<1>26. ASSUME Tick PROVE OneInv'
  BY <1>26 DEF Tick, Accounted, AnswerOk, NoneYet, Single, Complete, Late,
     Call, Fresh, RowsOfCalls, Written, Leftover, Unborn
<1>27. ASSUME UNCHANGED vars PROVE OneInv'
  BY <1>27 DEF vars, Accounted, AnswerOk, NoneYet, Single, Complete, Late,
     Call, Fresh, RowsOfCalls, Written, Leftover, Unborn
<1> QED
  BY <1>1, <1>2, <1>3, <1>4, <1>5, <1>6, <1>7, <1>8, <1>9, <1>10, <1>11, <1>12,
     <1>13, <1>14, <1>15, <1>16, <1>17, <1>18, <1>19, <1>20, <1>21, <1>22,
     <1>23, <1>24, <1>25, <1>26, <1>27 DEF PubNext, ToolCall, Operators, Kinds

-----------------------------------------------------------------------------
(* The invariant of the limits *)

\* There are finitely many calls.
LEMMA IdsFinite == IsFiniteSet(Ids)
<1>1. IsFiniteSet(Runs) /\ MaxCalls \in Nat
  BY PublishingAssumption
<1>2. IsFiniteSet(1..MaxCalls)
  BY <1>1, FS_Interval
<1> QED
  BY <1>1, <1>2, FS_Product DEF Ids

\* What gains one element at most counts one more at most.
LEMMA OneMore ==
  ASSUME NEW S, IsFiniteSet(S), NEW x, NEW T, T \subseteq S \cup {x}
  PROVE  /\ Cardinality(S) \in Nat /\ Cardinality(T) \in Nat
         /\ Cardinality(T) <= Cardinality(S) + 1 /\ IsFiniteSet(T)
<1>1. IsFiniteSet(S \cup {x}) /\ Cardinality(S) \in Nat
  BY FS_AddElement, FS_CardinalityType
<1>2. Cardinality(S \cup {x}) = Cardinality(S) \/ Cardinality(S \cup {x}) = Cardinality(S) + 1
  BY FS_AddElement
<1>3. /\ IsFiniteSet(T) /\ Cardinality(T) \in Nat
      /\ Cardinality(T) <= Cardinality(S \cup {x})
  BY <1>1, FS_Subset, FS_CardinalityType
<1> QED
  BY <1>1, <1>2, <1>3

\* The sets that are counted are finite, and a later clock counts no more of them.
LEMMA RecentShrink ==
  ASSUME TypeInv, TypeInv', LimitInv, posts' \subseteq posts, clock <= clock',
         UNCHANGED <<stamp, audits>>
  PROVE  /\ Cardinality(RecentPosts) \in Nat /\ Cardinality(RecentPosts)' \in Nat
         /\ Cardinality(RecentPosts)' <= Cardinality(RecentPosts)
         /\ Cardinality(RecentAudits) \in Nat /\ Cardinality(RecentAudits)' \in Nat
         /\ Cardinality(RecentAudits)' <= Cardinality(RecentAudits)
<1> USE PublishingAssumption DEF TypeInv, PubTypeOK
<1>1. IsFiniteSet(Ids)
  BY IdsFinite
<1>2. IsFiniteSet(RecentPosts)
  BY <1>1, FS_Subset DEF RecentPosts
<1>3. RecentPosts' \subseteq RecentPosts
  <2> SUFFICES ASSUME NEW i \in posts', clock' - stamp'[i] < HourTicks
               PROVE  i \in posts /\ clock - stamp[i] < HourTicks
    BY DEF RecentPosts, Recent
  <2>1. i \in posts /\ stamp'[i] = stamp[i] /\ stamp[i] \in Nat /\ clock \in Nat
        /\ clock' \in Nat
    OBVIOUS
  <2> QED
    BY <2>1
<1>4. IsFiniteSet(RecentAudits)
  BY FS_Subset DEF RecentAudits, LimitInv
<1>5. RecentAudits' \subseteq RecentAudits
  <2> SUFFICES ASSUME NEW a \in audits, clock' - a.at < HourTicks
               PROVE  clock - a.at < HourTicks
    BY DEF RecentAudits, Recent
  <2>1. a.at \in Nat /\ clock \in Nat /\ clock' \in Nat
    OBVIOUS
  <2> QED
    BY <2>1
<1> HIDE DEF RecentPosts, RecentAudits
<1> QED
  BY <1>2, <1>3, <1>4, <1>5, FS_Subset, FS_CardinalityType

\* A step that adds no row keeps the limits if those who may write now could
\* before, or have just looked.
LEMMA LimitsKept ==
  ASSUME TypeInv, TypeInv', LimitInv, posts' \subseteq posts, clock <= clock',
         UNCHANGED <<stamp, audits>>, OneLive',
         \A q \in Runs : run'[q] = "running" /\ Counting(q)' =>
           \/ run[q] = "running" /\ Counting(q)
           \/ Cardinality(RecentAudits) < PostCap,
         \A q \in Runs : run'[q] = "running" /\ (pc'[q] = "write" \/ pending'[q]) =>
           \/ run[q] = "running" /\ (pc[q] = "write" \/ pending[q])
           \/ Cardinality(RecentPosts) < HourlyLimit
  PROVE  LimitInv'
<1> DEFINE P == Cardinality(RecentPosts)
           A == Cardinality(RecentAudits)
<1>1. P \in Nat /\ P' \in Nat /\ P' <= P /\ A \in Nat /\ A' \in Nat /\ A' <= A
  BY RecentShrink
<1>2. PostCap \in Nat /\ HourlyLimit \in Nat
  BY PublishingAssumption
<1>3. P <= HourlyLimit /\ A <= PostCap
  BY DEF LimitInv, WithinHourlyLimit, AuditedWithinCap
<1> HIDE DEF P, A
<1>4. P' <= HourlyLimit /\ A' <= PostCap
  BY <1>1, <1>2, <1>3
<1>5. (A < PostCap => A' < PostCap) /\ (P < HourlyLimit => P' < HourlyLimit)
  BY <1>1, <1>2
<1> USE DEF P, A
<1>6. AuditRoom'
  BY <1>5 DEF LimitInv, AuditRoom
<1>7. PostRoom'
  BY <1>5 DEF LimitInv, PostRoom
<1> QED
  BY <1>4, <1>6, <1>7 DEF LimitInv, WithinHourlyLimit, AuditedWithinCap

\* Who writes a post has looked, and nobody else has written since.
LEMMA PostAdded ==
  ASSUME TypeInv, TypeInv', LimitInv, NEW r \in Runs, run[r] = "running",
         pc[r] = "write" \/ pending[r], clock' = clock,
         posts' = posts \cup {Call(r)}, stamp' = [stamp EXCEPT ![Call(r)] = clock]
  PROVE  WithinHourlyLimit'
<1> USE PublishingAssumption DEF TypeInv, PubTypeOK
<1>1. IsFiniteSet(Ids)
  BY IdsFinite
<1>2. IsFiniteSet(RecentPosts)
  BY <1>1, FS_Subset DEF RecentPosts
<1>3. RecentPosts' \subseteq RecentPosts \cup {Call(r)}
  <2> SUFFICES ASSUME NEW i \in posts, i # Call(r), clock' - stamp'[i] < HourTicks
               PROVE  clock - stamp[i] < HourTicks
    BY DEF RecentPosts, Recent
  <2> QED
    OBVIOUS
<1>4. Cardinality(RecentPosts) < HourlyLimit
  BY DEF LimitInv, PostRoom
<1> HIDE DEF RecentPosts
<1>5. /\ Cardinality(RecentPosts) \in Nat /\ Cardinality(RecentPosts') \in Nat
      /\ Cardinality(RecentPosts') <= Cardinality(RecentPosts) + 1
  BY <1>2, <1>3, OneMore
<1> QED
  BY <1>4, <1>5 DEF WithinHourlyLimit

\* Every step keeps the limits.
LEMMA LimitStep ==
  ASSUME PubInv, TypeInv', LimitInv, [PubNext]_vars
  PROVE  LimitInv'
<1> USE PublishingAssumption DEF PubInv, Goto, rows, thread, others, history
<1>t. TypeInv /\ OneLive
  BY DEF LimitInv
<1> DEFINE Quiet == /\ posts' \subseteq posts /\ clock <= clock'
                    /\ UNCHANGED <<stamp, audits>>
           NoNewLive == \A q \in Runs : run'[q] = "running" => run[q] = "running"
           Same(r) == \A q \in Runs \ {r} :
                        /\ run'[q] = run[q] /\ pc'[q] = pc[q]
                        /\ result'[q] = result[q] /\ pending'[q] = pending[q]
<1>c. clock \in Nat /\ clock <= clock
  BY <1>t DEF TypeInv, PubTypeOK
<1>1. ASSUME NEW r \in Runs, Reserve(r) PROVE LimitInv'
  <2>1. Quiet
    BY <1>1, <1>c DEF Reserve
  <2>2. OneLive'
    BY <1>1, <1>t DEF Reserve, TypeInv, PubTypeOK, OneLive
  <2>3. Same(r) /\ pc'[r] = "idle" /\ pending'[r] = pending[r] /\ ~ pending[r]
    BY <1>1, <1>t DEF Reserve, TypeInv, PubTypeOK, Unborn, Leftover
  <2> QED
    BY <1>t, <2>1, <2>2, <2>3, LimitsKept DEF Counting
<1>2. ASSUME NoNewLive, Quiet,
             UNCHANGED <<pc, result, pending>>
      PROVE  LimitInv'
  <2>1. OneLive'
    BY <1>2, <1>t DEF OneLive
  <2> QED
    BY <1>t, <1>2, <2>1, LimitsKept DEF Counting
<1>3. ASSUME NEW r \in Runs, LeaveRun(r) \/ ThreadDies(r) PROVE LimitInv'
  <2>1. Quiet /\ NoNewLive
    BY <1>3, <1>t, <1>c DEF LeaveRun, ThreadDies, Forget, Mishap, TypeInv, PubTypeOK
  <2>2. OneLive'
    BY <2>1, <1>t DEF OneLive
  <2>3. Same(r) /\ pc'[r] = "off" /\ ~ pending'[r]
    BY <1>3, <1>t DEF LeaveRun, ThreadDies, Forget, TypeInv, PubTypeOK, Leftover
  <2> QED
    BY <1>t, <2>1, <2>2, <2>3, LimitsKept DEF Counting
<1>4. ASSUME NEW r \in Runs, NEW k \in Kinds, Begin(r, k) PROVE LimitInv'
  <2>1. Quiet /\ run' = run
    BY <1>4, <1>c DEF Begin
  <2>2. OneLive'
    BY <2>1, <1>t DEF OneLive
  <2>3. /\ Same(r) /\ pc'[r] # "write" /\ ~ pending'[r]
        /\ Counting(r)' => Cardinality(RecentAudits) < PostCap
    BY <1>4, <1>t DEF Begin, Answered, TypeInv, PubTypeOK, Leftover, Counting
  <2> QED
    BY <1>t, <2>1, <2>2, <2>3, LimitsKept DEF Counting
\* A step of a call that adds no row: it counts if it did.
<1>5. ASSUME NEW r \in Runs, Quiet, run' = run, Same(r), Counting(r)' => Counting(r),
             pc'[r] = "write" \/ pending'[r] =>
               \/ pc[r] = "write" \/ pending[r]
               \/ Cardinality(RecentPosts) < HourlyLimit
      PROVE  LimitInv'
  <2>1. OneLive'
    BY <1>5, <1>t DEF OneLive
  <2> QED
    BY <1>t, <1>5, <2>1, LimitsKept DEF Counting
<1>6. ASSUME NEW r \in Runs,
             \/ Preflight(r) \/ Generate(r) \/ Validate(r) \/ WriteLost(r)
             \/ WriteLocked(r) \/ Hooks(r) \/ Attach(r) \/ CommitShot(r) \/ Answer(r)
             \/ AuditLost(r) \/ AuditLocked(r)
      PROVE  LimitInv'
  <2>1. Quiet /\ run' = run
    BY <1>6, <1>c DEF Preflight, Generate, Validate, WriteLost, WriteLocked, Hooks,
       Attach, CommitShot, Answer, AuditLost, AuditLocked
  <2>2. Same(r)
    BY <1>6, <1>t DEF Preflight, Generate, Validate, WriteLost, WriteLocked, Hooks,
       Attach, CommitShot, Answer, AuditLost, AuditLocked, TypeInv, PubTypeOK,
       Answered, Escaped, Failed, Forget
  <2>3. Counting(r)' => Counting(r)
    BY <1>6, <1>t DEF Preflight, Generate, Validate, WriteLost, WriteLocked, Hooks,
       Attach, CommitShot, Answer, AuditLost, AuditLocked, TypeInv, PubTypeOK,
       Answered, Escaped, Failed, Forget, Counting
  <2>4. pc'[r] = "write" \/ pending'[r] =>
          \/ pc[r] = "write" \/ pending[r]
          \/ Cardinality(RecentPosts) < HourlyLimit
    BY <1>6, <1>t DEF Preflight, Generate, Validate, WriteLost, WriteLocked, Hooks,
       Attach, CommitShot, Answer, AuditLost, AuditLocked, TypeInv, PubTypeOK,
       Answered, Escaped, Failed, Forget
  <2> QED
    BY <1>5, <2>1, <2>2, <2>3, <2>4
<1>7. ASSUME NEW r \in Runs, Write(r) PROVE LimitInv'
  <2>1. WithinHourlyLimit'
    BY <1>7, <1>t, PostAdded DEF Write
  <2>2. /\ UNCHANGED <<run, audits, clock>> /\ Same(r) /\ run[r] = "running"
        /\ Counting(r) /\ pc'[r] = "hooks" /\ ~ pending'[r]
    BY <1>7, <1>t DEF Write, TypeInv, PubTypeOK, Counting, Leftover
  <2>3. RecentAudits' = RecentAudits
    BY <2>2 DEF RecentAudits, Recent
  <2>4. AuditRoom' /\ AuditedWithinCap' /\ IsFiniteSet(audits)'
    BY <2>2, <2>3 DEF LimitInv, AuditRoom, AuditedWithinCap, Counting
  <2>5. OneLive' /\ PostRoom'
    BY <1>t, <2>2 DEF OneLive, PostRoom
  <2> QED
    BY <2>1, <2>4, <2>5 DEF LimitInv
<1>8. ASSUME NEW r \in Runs, Audit(r) PROVE LimitInv'
  <2>1. /\ UNCHANGED <<run, clock>> /\ Same(r) /\ run[r] = "running"
        /\ pc[r] = "audit" /\ pc'[r] = "idle" /\ ~ pending'[r]
        /\ audits' = audits \cup AuditRow(r)
    BY <1>8, <1>t DEF Audit, Forget, TypeInv, PubTypeOK
  <2>2. WithinHourlyLimit'
    <3>1. CASE pending[r]
      BY <1>8, <1>t, <3>1, PostAdded DEF Audit
    <3>2. CASE ~ pending[r]
      <4>1. UNCHANGED <<posts, stamp>>
        BY <1>8, <3>2 DEF Audit
      <4>2. RecentPosts' = RecentPosts
        BY <2>1, <4>1 DEF RecentPosts, Recent
      <4> QED
        BY <4>2 DEF LimitInv, WithinHourlyLimit
    <3> QED
      BY <3>1, <3>2
  <2>3. IsFiniteSet(audits') /\ AuditedWithinCap'
    <3>1. IsFiniteSet(audits) /\ IsFiniteSet(RecentAudits)
      BY FS_Subset DEF LimitInv, RecentAudits
    <3>2. CASE result[r] = "refused"
      <4>1. audits' = audits /\ RecentAudits' = RecentAudits
        BY <2>1, <3>2 DEF AuditRow, RecentAudits, Recent
      <4> QED
        BY <4>1 DEF LimitInv, AuditedWithinCap
    <3>3. CASE result[r] # "refused"
      <4> DEFINE a == [id |-> Call(r), ok |-> result[r] = "ok", at |-> clock]
      <4>1. audits' = audits \cup {a}
        BY <2>1, <3>3 DEF AuditRow
      <4> HIDE DEF a
      <4>2. RecentAudits' \subseteq RecentAudits \cup {a}
        BY <2>1, <4>1 DEF RecentAudits, Recent
      <4>3. Cardinality(RecentAudits) < PostCap
        BY <2>1, <3>3 DEF LimitInv, AuditRoom, Counting
      <4> HIDE DEF RecentAudits
      <4>4. /\ Cardinality(RecentAudits) \in Nat /\ Cardinality(RecentAudits') \in Nat
            /\ Cardinality(RecentAudits') <= Cardinality(RecentAudits) + 1
        BY <3>1, <4>2, OneMore
      <4>5. IsFiniteSet(audits')
        BY <3>1, <4>1, OneMore
      <4> QED
        BY <4>3, <4>4, <4>5 DEF AuditedWithinCap
    <3> QED
      BY <3>2, <3>3
  <2>4. OneLive' /\ AuditRoom' /\ PostRoom'
    BY <1>t, <2>1 DEF OneLive, AuditRoom, PostRoom, Counting
  <2> QED
    BY <2>2, <2>3, <2>4 DEF LimitInv
<1>9. ASSUME NEW r \in Runs, Interrupt(r) PROVE LimitInv'
  <2>1. Quiet /\ NoNewLive /\ UNCHANGED <<pc, result, pending>>
    BY <1>9, <1>t, <1>c DEF Interrupt, TypeInv, PubTypeOK
  <2> QED
    BY <1>2, <2>1
<1>10. ASSUME \/ Operators \/ Tick \/ UNCHANGED vars PROVE LimitInv'
  <2>1. Quiet /\ NoNewLive /\ UNCHANGED <<pc, result, pending>>
    BY <1>10, <1>c DEF Operators, DeleteRead, DeleteRows, DeleteFiles, DeleteEnds,
       SweepRead, SweepFile, SweepEnds, Tick, vars
  <2> QED
    BY <1>2, <2>1
<1> QED
  BY <1>1, <1>3, <1>4, <1>6, <1>7, <1>8, <1>9, <1>10 DEF PubNext, ToolCall

-----------------------------------------------------------------------------
(* The invariant of the requests sent *)

\* What is known of the calls made stays known: their tools, audits and deletes.
LEMMA RequestsKept ==
  ASSUME TypeInv, TypeInv', [PubNext]_vars, NEW r \in Runs
  PROVE  /\ BilledThisRun(r) => BilledThisRun(r)'
         /\ Undone(r) => Undone(r)'
<1> USE DEF rows, thread, others, history
<1>1. audits \subseteq audits' /\ removed \subseteq removed'
  <2>1. CASE DeleteRows \/ \E q \in Runs : Audit(q) \/ AuditLost(q)
    BY <2>1 DEF DeleteRows, Audit, AuditLost
  <2>2. CASE \E q \in Runs : ToolCall(q) /\ ~ (Audit(q) \/ AuditLost(q))
    BY <2>2 DEF ToolCall, Begin, Preflight, Generate, Validate, Write, WriteLost,
       WriteLocked, Hooks, Attach, CommitShot, Answer, AuditLocked
  <2>3. CASE UNCHANGED <<audits, removed>>
    BY <2>3
  <2> QED
    BY <2>1, <2>2, <2>3 DEF PubNext, vars, Operators, Reserve, Interrupt, LeaveRun,
       ThreadDies, DeleteRead, DeleteFiles, DeleteEnds, SweepRead, SweepFile, SweepEnds,
       Tick
<1>2. \A i \in Ids : tool[i] # None => tool'[i] = tool[i]
  <2>1. ASSUME NEW q \in Runs, NEW k \in Kinds, Begin(q, k)
        PROVE  \A i \in Ids : tool[i] # None => tool'[i] = tool[i]
    <3>1. calls[q] \in Nat /\ tool' = [tool EXCEPT ![<<q, calls[q] + 1>>] = k]
      BY <2>1 DEF Begin, TypeInv, PubTypeOK
    <3>2. \A i \in Ids : tool[i] # None => i # <<q, calls[q] + 1>>
      BY <3>1 DEF TypeInv, CallsInOrder
    <3> QED
      BY <3>1, <3>2 DEF TypeInv, PubTypeOK
  <2>2. CASE UNCHANGED tool
    BY <2>2
  <2> QED
    BY <2>1, <2>2
    DEF PubNext, vars, ToolCall, Operators, Reserve, Interrupt, LeaveRun,
     ThreadDies, Preflight, Generate, Validate, Write, WriteLost,
     WriteLocked, Hooks, Attach, CommitShot, Answer, Audit, AuditLost, AuditLocked,
     DeleteRead, DeleteRows, DeleteFiles, DeleteEnds, SweepRead, SweepFile, SweepEnds,
     Tick
<1>3. \A a \in audits : a.id \in Ids
  BY DEF TypeInv, PubTypeOK
<1>4. removed \subseteq Ids
  BY DEF TypeInv, PubTypeOK
<1>5. "website" # None
  BY PublishingAssumption DEF Kinds
<1>6. BilledThisRun(r) => BilledThisRun(r)'
  BY <1>1, <1>2, <1>3, <1>5 DEF BilledThisRun
<1>7. Undone(r) => Undone(r)'
  BY <1>1, <1>2, <1>4, <1>5 DEF Undone
<1> QED
  BY <1>6, <1>7

\* What the invariant says of the thread of one run.
RequestOf(r) ==
  /\ sent[r] > 0 =>
       \/ BilledThisRun(r) \/ Undone(r) \/ Billing(r)
       \/ run[r] = "over" \/ (run[r] = "running" /\ pc[r] \in {"off", "fail"})
  /\ pc[r] = "generate" /\ tool[Call(r)] = "website" => sent[r] = 0 \/ Undone(r)
  /\ pc[r] \in {"hooks", "attach", "shot", "answer"} => Call(r) \in posts \cup removed
  /\ sent[r] > 1 => Undone(r)

LEMMA RequestParts == RequestInv <=> \A r \in Runs : RequestOf(r)
BY DEF RequestInv, SentKnown, NotSent, PostedOrGone, OneWebsiteRequest, RequestOf, Undone

\* A step that leaves the thread of r and its requests alone, and its run unless it
\* is closed, keeps what is said of it.
LEMMA RequestOfOther ==
  ASSUME TypeInv, TypeInv', [PubNext]_vars, NEW r \in Runs, RequestOf(r),
         pc'[r] = pc[r], sent'[r] = sent[r], result'[r] = result[r], Call(r)' = Call(r),
         run'[r] = run[r] \/ (run[r] = "running" /\ run'[r] = "over"),
         posts \cup removed \subseteq posts' \cup removed',
         pc[r] \notin {"off", "idle"} => tool'[Call(r)] = tool[Call(r)]
  PROVE  RequestOf(r)'
<1>1. BilledThisRun(r) => BilledThisRun(r)'
  BY RequestsKept
<1>2. Undone(r) => Undone(r)'
  BY RequestsKept
<1>3. Billing(r) => Billing(r)'
  BY DEF Billing
<1> QED
  BY <1>1, <1>2, <1>3 DEF RequestOf

\* Every step keeps what is said of the requests.
LEMMA RequestStep ==
  ASSUME PubInv, TypeInv', RequestInv, [PubNext]_vars
  PROVE  RequestInv'
<1> USE DEF rows, thread, others, history, Goto
<1>t. /\ TypeInv /\ Unborn /\ Leftover /\ Written /\ Busy
      /\ \A r \in Runs : sent[r] \in Nat
      /\ "website" # None /\ None \notin Kinds
  BY PublishingAssumption DEF PubInv, TypeInv, PubTypeOK, Kinds
<1>i. \A r \in Runs : RequestOf(r)
  BY RequestParts
<1>p. (\A r \in Runs : RequestOf(r)') => RequestInv'
  BY DEF RequestInv, SentKnown, NotSent, PostedOrGone, OneWebsiteRequest, RequestOf,
     Undone
<1>k. \A r \in Runs : /\ BilledThisRun(r) => BilledThisRun(r)'
                      /\ Undone(r) => Undone(r)'
  BY <1>t, RequestsKept
<1> DEFINE Others(r) == \A q \in Runs \ {r} :
             /\ pc'[q] = pc[q] /\ sent'[q] = sent[q] /\ result'[q] = result[q]
             /\ run'[q] = run[q] /\ Call(q)' = Call(q)
             /\ pc[q] \notin {"off", "idle"} => tool'[Call(q)] = tool[Call(q)]
           Kept == posts \cup removed \subseteq posts' \cup removed'
\* A step of one thread: what is said of the others stays.
<1>1. ASSUME NEW r \in Runs, Others(r), Kept, RequestOf(r)' PROVE RequestInv'
  <2>1. ASSUME NEW q \in Runs \ {r} PROVE RequestOf(q)'
    BY <1>1, <1>i, <1>t, <2>1, RequestOfOther
  <2> QED
    BY <1>1, <1>p, <2>1
<1>2. ASSUME NEW r \in Runs, Reserve(r) PROVE RequestInv'
  <2>1. Others(r) /\ Kept /\ run[r] = "none" /\ pc[r] = "off" /\ pc'[r] = "idle"
        /\ UNCHANGED <<sent, posts, removed>>
    BY <1>2, <1>t DEF Reserve, Call, TypeInv, PubTypeOK, Unborn
  <2>2. sent[r] > 0 => BilledThisRun(r) \/ Undone(r)
    BY <1>i, <2>1 DEF RequestOf, Billing
  <2>3. RequestOf(r)'
    BY <1>i, <1>k, <2>1, <2>2 DEF RequestOf
  <2> QED
    BY <1>1, <2>1, <2>3
<1>3. ASSUME NEW r \in Runs, LeaveRun(r) PROVE RequestInv'
  <2>1. Others(r) /\ Kept /\ run'[r] = "over" /\ pc'[r] = "off" /\ UNCHANGED sent
    BY <1>3, <1>t DEF LeaveRun, Call, TypeInv, PubTypeOK
  <2>2. RequestOf(r)'
    BY <1>i, <1>k, <2>1 DEF RequestOf
  <2> QED
    BY <1>1, <2>1, <2>2
<1>4. ASSUME NEW r \in Runs, ThreadDies(r) PROVE RequestInv'
  <2>1. Others(r) /\ Kept /\ pc'[r] = "off" /\ run'[r] = run[r] /\ UNCHANGED sent
    BY <1>4, <1>t DEF ThreadDies, Forget, Call, TypeInv, PubTypeOK
  <2>2. run[r] \in {"running", "over"}
    BY <1>4, <1>t DEF ThreadDies, Unborn, TypeInv, PubTypeOK
  <2>3. RequestOf(r)'
    BY <1>i, <1>k, <2>1, <2>2 DEF RequestOf
  <2> QED
    BY <1>1, <2>1, <2>3
<1>5. ASSUME NEW r \in Runs, NEW k \in Kinds, Begin(r, k) PROVE RequestInv'
  <2>1. /\ Kept /\ UNCHANGED <<sent, run, posts, removed>> /\ run[r] = "running"
        /\ pc[r] = "idle" /\ pc'[r] \in {"preflight", "audit"}
    BY <1>5, <1>t DEF Begin, Answered, TypeInv, PubTypeOK
  <2>2. Others(r)
    <3> SUFFICES ASSUME NEW q \in Runs \ {r}
                 PROVE  /\ pc'[q] = pc[q] /\ result'[q] = result[q] /\ Call(q)' = Call(q)
                        /\ tool'[Call(q)] = tool[Call(q)]
      BY <2>1
    <3>1. Call(q)' = Call(q) /\ Call(q) # <<r, calls[r] + 1>>
      BY <1>5, <1>t DEF Begin, Call, TypeInv, PubTypeOK
    <3>2. pc'[q] = pc[q] /\ result'[q] = result[q]
      BY <1>5, <1>t DEF Begin, Answered, TypeInv, PubTypeOK
    <3>3. tool' = [tool EXCEPT ![<<r, calls[r] + 1>>] = k] /\ tool \in [Ids -> Kinds \cup {None}]
      BY <1>5, <1>t DEF Begin, TypeInv, PubTypeOK
    <3>4. tool'[Call(q)] = tool[Call(q)]
      BY <3>1, <3>3
    <3> QED
      BY <3>1, <3>2, <3>4
  <2>3. sent[r] > 0 => BilledThisRun(r) \/ Undone(r)
    BY <1>i, <2>1 DEF RequestOf, Billing
  <2>4. RequestOf(r)'
    BY <1>i, <1>k, <2>1, <2>3 DEF RequestOf
  <2> QED
    BY <1>1, <2>1, <2>2, <2>4
\* A step of the thread of r inside its call.
<1>6. ASSUME NEW r \in Runs, Kept, UNCHANGED <<run, calls, tool>>,
             \A q \in Runs \ {r} :
               pc'[q] = pc[q] /\ sent'[q] = sent[q] /\ result'[q] = result[q],
             RequestOf(r)'
      PROVE  RequestInv'
  <2>1. Others(r)
    BY <1>6 DEF Call
  <2> QED
    BY <1>1, <1>6, <2>1
<1>7. ASSUME NEW r \in Runs, Preflight(r) PROVE RequestInv'
  <2>1. /\ UNCHANGED <<run, calls, tool, sent, posts, removed>>
        /\ \A q \in Runs \ {r} : pc'[q] = pc[q] /\ result'[q] = result[q]
        /\ pc[r] = "preflight" /\ pc'[r] \in {"idle", "audit", "validate", "generate"}
    BY <1>7, <1>t DEF Preflight, Escaped, Answered, TypeInv, PubTypeOK
  <2>2. pc'[r] = "generate" =>
          run[r] = "running" /\ (tool[Call(r)] = "website" => ~ BilledThisRun(r))
    BY <1>7, <1>t DEF Preflight, Escaped, Answered, TypeInv, PubTypeOK
  <2>3. ~ Billing(r) /\ Call(r)' = Call(r)
    BY <2>1 DEF Billing, Call
  <2>4. sent[r] > 0 => \/ BilledThisRun(r) \/ Undone(r) \/ run[r] = "over"
    BY <1>i, <2>1, <2>3 DEF RequestOf
  <2>5. pc'[r] = "generate" /\ tool[Call(r)] = "website" => sent[r] = 0 \/ Undone(r)
    BY <1>t, <2>2, <2>4
  <2>6. RequestOf(r)'
    BY <1>i, <1>k, <2>1, <2>3, <2>4, <2>5 DEF RequestOf
  <2> QED
    BY <1>6, <2>1, <2>6
<1>8. ASSUME NEW r \in Runs, Generate(r) PROVE RequestInv'
  <2>1. /\ UNCHANGED <<run, calls, tool, posts, removed>>
        /\ \A q \in Runs \ {r} : pc'[q] = pc[q] /\ result'[q] = result[q] /\ sent'[q] = sent[q]
        /\ pc[r] = "generate" /\ pc'[r] \in {"audit", "validate"}
        /\ tool[Call(r)] = "website" =>
             sent'[r] = sent[r] + 1 /\ (pc'[r] = "audit" => result'[r] = "billed")
        /\ tool[Call(r)] # "website" => sent'[r] = sent[r]
    BY <1>8, <1>t DEF Generate, Failed, Answered, TypeInv, PubTypeOK
  <2>2. Call(r)' = Call(r) /\ ~ Billing(r)
    BY <2>1 DEF Call, Billing
  <2>3. CASE tool[Call(r)] = "website"
    <3>1. Billing(r)'
      BY <2>1, <2>2, <2>3 DEF Billing
    <3>2. sent'[r] > 1 => Undone(r)
      BY <1>i, <1>t, <2>1, <2>3 DEF RequestOf
    <3> QED
      BY <1>6, <1>k, <2>1, <2>2, <3>1, <3>2 DEF RequestOf
  <2>4. CASE tool[Call(r)] # "website"
    <3>1. RequestOf(r)'
      BY <1>i, <1>k, <2>1, <2>2, <2>4 DEF RequestOf
    <3> QED
      BY <1>6, <2>1, <3>1
  <2> QED
    BY <2>3, <2>4
\* A later step of the call of r: a website's stays in the answer.
<1>9. ASSUME NEW r \in Runs, Kept, UNCHANGED <<run, calls, tool, sent>>,
             \A q \in Runs \ {r} : pc'[q] = pc[q] /\ result'[q] = result[q],
             pc[r] # "generate", pc'[r] # "generate", pc[r] \notin {"off", "fail"},
             Billing(r) => Billing(r)' \/ Undone(r)',
             pc'[r] \in {"hooks", "attach", "shot", "answer"} =>
               Call(r) \in posts' \cup removed'
      PROVE  RequestInv'
  <2>1. Call(r)' = Call(r)
    BY <1>9 DEF Call
  <2>2. RequestOf(r)'
    BY <1>9, <1>i, <1>k, <2>1 DEF RequestOf
  <2> QED
    BY <1>6, <1>9, <2>2
<1>10. ASSUME NEW r \in Runs, Validate(r) \/ WriteLost(r) \/ WriteLocked(r) PROVE RequestInv'
  <2>1. /\ Kept /\ UNCHANGED <<run, calls, tool, sent>>
        /\ \A q \in Runs \ {r} : pc'[q] = pc[q] /\ result'[q] = result[q]
        /\ pc[r] \in {"validate", "write"} /\ pc'[r] \in {"write", "audit", "idle"}
        /\ tool[Call(r)] = "website" =>
             pc'[r] = "write" \/ (pc'[r] = "audit" /\ result'[r] = "billed")
    BY <1>10, <1>t DEF Validate, WriteLost, WriteLocked, Failed, Answered, Escaped,
       TypeInv, PubTypeOK
  <2>2. Billing(r) => Billing(r)'
    BY <2>1 DEF Billing, Call
  <2> QED
    BY <1>9, <2>1, <2>2
<1>11. ASSUME NEW r \in Runs, Write(r) PROVE RequestInv'
  <2>1. /\ Kept /\ UNCHANGED <<run, calls, tool, sent>>
        /\ \A q \in Runs \ {r} : pc'[q] = pc[q] /\ result'[q] = result[q]
        /\ pc[r] = "write" /\ pc'[r] = "hooks" /\ Call(r) \in posts'
    BY <1>11, <1>t DEF Write, TypeInv, PubTypeOK
  <2>2. Billing(r) => Billing(r)'
    BY <2>1 DEF Billing, Call
  <2> QED
    BY <1>9, <2>1, <2>2
<1>12. ASSUME NEW r \in Runs, Hooks(r) \/ Attach(r) \/ CommitShot(r) PROVE RequestInv'
  <2>1. /\ UNCHANGED <<run, calls, tool, sent, posts, removed>>
        /\ \A q \in Runs \ {r} : pc'[q] = pc[q] /\ result'[q] = result[q]
        /\ pc[r] \in {"hooks", "attach", "shot"}
        /\ pc'[r] \in {"attach", "shot", "answer", "audit", "idle"}
        /\ tool[Call(r)] = "website" =>
             \/ pc'[r] \in {"attach", "shot", "answer"}
             \/ pc'[r] = "audit" /\ result'[r] = "billed"
    BY <1>12, <1>t DEF Hooks, Attach, CommitShot, Failed, Answered, Escaped,
       TypeInv, PubTypeOK
  <2>2. Billing(r) => Billing(r)'
    BY <2>1 DEF Billing, Call
  <2>3. Call(r) \in posts' \cup removed'
    BY <1>i, <2>1 DEF RequestOf
  <2> QED
    BY <1>9, <2>1, <2>2, <2>3
<1>13. ASSUME NEW r \in Runs, Answer(r) PROVE RequestInv'
  <2>1. /\ UNCHANGED <<run, calls, tool, sent, posts, removed>>
        /\ \A q \in Runs \ {r} : pc'[q] = pc[q] /\ result'[q] = result[q]
        /\ pc[r] = "answer" /\ pc'[r] \in {"audit", "idle"}
        /\ pc'[r] = "audit" => result'[r] = "ok"
        /\ pc'[r] = "idle" => Call(r) \notin posts
    BY <1>13, <1>t DEF Answer, Answered, Escaped, TypeInv, PubTypeOK
  <2>2. Billing(r) => Billing(r)' \/ Undone(r)
    <3>1. CASE pc'[r] = "audit"
      BY <2>1, <3>1 DEF Billing, Call
    <3>2. CASE pc'[r] = "idle"
      <4>1. Call(r) \in removed /\ Call(r)[1] = r
        BY <1>i, <2>1, <3>2 DEF RequestOf, Call
      <4> QED
        BY <4>1 DEF Billing, Undone
    <3> QED
      BY <2>1, <3>1, <3>2
  <2> QED
    BY <1>9, <1>k, <2>1, <2>2
<1>14. ASSUME NEW r \in Runs, Audit(r) PROVE RequestInv'
  <2>1. /\ Kept /\ UNCHANGED <<run, calls, tool, sent>>
        /\ \A q \in Runs \ {r} : pc'[q] = pc[q] /\ result'[q] = result[q]
        /\ pc[r] = "audit" /\ pc'[r] = "idle" /\ audits' = audits \cup AuditRow(r)
    BY <1>14, <1>t DEF Audit, Forget, TypeInv, PubTypeOK
  <2>2. Billing(r) => BilledThisRun(r)'
    <3> SUFFICES ASSUME Billing(r) PROVE BilledThisRun(r)'
      OBVIOUS
    <3> DEFINE a == [id |-> Call(r), ok |-> result[r] = "ok", at |-> clock]
    <3>1. result[r] # "refused" /\ tool'[Call(r)] = "website"
      BY <2>1 DEF Billing
    <3>2. a \in audits'
      BY <2>1, <3>1 DEF AuditRow
    <3>3. a.id[1] = r /\ a.id = Call(r)
      BY DEF Call
    <3> QED
      BY <3>1, <3>2, <3>3 DEF BilledThisRun
  <2>3. Call(r)' = Call(r)
    BY <2>1 DEF Call
  <2>4. RequestOf(r)'
    BY <1>i, <1>k, <2>1, <2>2, <2>3 DEF RequestOf
  <2> QED
    BY <1>6, <2>1, <2>4
<1>15. ASSUME NEW r \in Runs, AuditLost(r) \/ AuditLocked(r) PROVE RequestInv'
  <2>1. /\ Kept /\ UNCHANGED <<run, calls, tool, sent>>
        /\ \A q \in Runs \ {r} : pc'[q] = pc[q] /\ result'[q] = result[q]
        /\ pc[r] = "audit" /\ pc'[r] \in {"idle", "fail"}
        /\ pc'[r] = "idle" => run[r] # "running"
        /\ run[r] \in {"running", "over"}
    <3>1. run[r] \in {"running", "over"}
      BY <1>15, <1>t DEF AuditLost, AuditLocked, Unborn, TypeInv, PubTypeOK
    <3>2. (AuditLocked(r) => pc'[r] = "fail") /\ (AuditLost(r) => run[r] # "running")
      BY <1>t DEF AuditLost, AuditLocked, Forget, TypeInv, PubTypeOK
    <3> QED
      BY <1>15, <1>t, <3>1, <3>2 DEF AuditLost, AuditLocked, Forget, TypeInv, PubTypeOK
  <2>2. RequestOf(r)'
    BY <1>i, <1>k, <2>1 DEF RequestOf
  <2> QED
    BY <1>6, <2>1, <2>2
\* A step of somebody else.
<1>16. ASSUME Kept, UNCHANGED <<pc, sent, result, calls, tool>>,
              \A r \in Runs :
                run'[r] = run[r] \/ (run[r] = "running" /\ run'[r] = "over")
       PROVE  RequestInv'
  <2>1. ASSUME NEW q \in Runs PROVE RequestOf(q)'
    BY <1>16, <1>i, <1>t, RequestOfOther DEF Call
  <2> QED
    BY <1>p, <2>1
<1>17. ASSUME NEW r \in Runs, Interrupt(r) PROVE RequestInv'
  <2>1. /\ Kept /\ UNCHANGED <<pc, sent, result, calls, tool>>
        /\ \A q \in Runs :
             run'[q] = run[q] \/ (run[q] = "running" /\ run'[q] = "over")
    BY <1>17, <1>t DEF Interrupt, TypeInv, PubTypeOK
  <2> QED
    BY <1>16, <2>1
<1>18. ASSUME Operators \/ Tick \/ UNCHANGED vars PROVE RequestInv'
  <2>1. Kept /\ UNCHANGED <<pc, sent, result, calls, tool, run>>
    BY <1>18 DEF Operators, DeleteRead, DeleteRows, DeleteFiles, DeleteEnds,
       SweepRead, SweepFile, SweepEnds, Tick, vars
  <2> QED
    BY <1>16, <2>1
<1> QED
  BY <1>2, <1>3, <1>4, <1>5, <1>7, <1>8, <1>10, <1>11, <1>12, <1>13, <1>14, <1>15,
     <1>17, <1>18 DEF PubNext, ToolCall

-----------------------------------------------------------------------------
(* The invariant of the files *)

\* What a file is: of a call, a picture or a page.
LEMMA FilesArePairs ==
  ASSUME NEW f \in Files
  PROVE  f = <<f[1], f[2]>> /\ f[1] \in Ids /\ f[2] \in {"image", "page"}
         /\ f[1][1] \in Runs
BY DEF Files, Ids

\* A step that leaves the rows and the operators alone, and after which r still has
\* what it held, keeps the owners of the files that were there.
LEMMA FilesKept ==
  ASSUME PubInv, TypeInv', FileInv, NEW r \in Runs,
         UNCHANGED <<posts, images, websites, deleting, removed>>, died \subseteq died',
         \A q \in Runs \ {r} : pc'[q] = pc[q] /\ calls'[q] = calls[q],
         \A i \in Ids : tool[i] # None => tool'[i] = tool[i],
         \A f \in files' : (f \in files /\ ~ Holds(r, f)) \/ HasOwner(f)'
  PROVE  FileInv'
<1>t. /\ files \subseteq Files /\ Referenced \subseteq Files
      /\ "website" # None /\ "image" # None /\ None \notin Kinds
      /\ \A i \in Ids : i = <<i[1], i[2]>> /\ i[1] \in Runs
  BY PublishingAssumption, IdsArePairs
  DEF PubInv, TypeInv, PubTypeOK, Files, Referenced, Kinds, RowsOfCalls
<1>1. \A f \in Files : LatePreview(f) => LatePreview(f)'
  BY <1>t, FilesArePairs DEF LatePreview
<1>2. Referenced' = Referenced
  BY DEF Referenced
<1>3. PathsRead'
  BY <1>1, <1>2, <1>t DEF FileInv, PathsRead
<1>4. ASSUME NEW f \in files', f \in files, ~ Holds(r, f)
      PROVE  HasOwner(f)'
  <2>1. f \in Files /\ f[1] \in Ids /\ f[1][1] \in Runs
    BY <1>4, <1>t, FilesArePairs
  <2>2. HasOwner(f)
    BY <1>4 DEF FileInv
  <2>3. CASE Holds(f[1][1], f)
    <3>1. f[1][1] # r
      BY <1>4, <2>3
    <3>2. Call(f[1][1])' = Call(f[1][1]) /\ pc'[f[1][1]] = pc[f[1][1]]
      BY <2>1, <3>1 DEF Call
    <3>3. f \in Media(Call(f[1][1])) => f \in Media(Call(f[1][1]))'
      <4>1. Call(f[1][1]) = f[1]
        BY <2>3 DEF Holds
      <4> QED
        BY <1>t, <2>1, <3>2, <4>1 DEF Media
    <3>4. Holds(f[1][1], f)'
      BY <2>3, <3>2, <3>3 DEF Holds
    <3> QED
      BY <3>4 DEF HasOwner
  <2>4. CASE ~ Holds(f[1][1], f)
    BY <1>1, <1>2, <2>1, <2>2, <2>4 DEF HasOwner
  <2> QED
    BY <2>3, <2>4
<1> QED
  BY <1>3, <1>4 DEF FileInv

\* A step of the operators or the clock leaves to each call what it holds.
LEMMA HoldersKept ==
  ASSUME NEW f, UNCHANGED <<pc, calls, tool>>
  PROVE  (Holds(f[1][1], f) => Holds(f[1][1], f)') /\ (LatePreview(f) => LatePreview(f)')
BY DEF Holds, LatePreview, Media, Call

\* Every step keeps an owner for each file.
LEMMA FileStep ==
  ASSUME PubInv, TypeInv', FileInv, [PubNext]_vars
  PROVE  FileInv'
<1> USE DEF rows, thread, others, history, Goto
<1>t. /\ TypeInv /\ Fresh /\ Written /\ Gone /\ RowsOfCalls /\ Busy
      /\ pc \in [Runs -> Steps] /\ files \subseteq Files
      /\ images \subseteq Ids /\ websites \subseteq Ids
      /\ calls \in [Runs -> 0..MaxCalls] /\ tool \in [Ids -> Kinds \cup {None}]
      /\ None \notin Kinds /\ \A i \in Ids : i[1] \in Runs
  BY PublishingAssumption, IdsArePairs DEF PubInv, TypeInv, PubTypeOK
<1>i. PathsRead /\ \A f \in files : HasOwner(f)
  BY DEF FileInv
<1> DEFINE Quiet == /\ UNCHANGED <<posts, images, websites, deleting, removed>>
                    /\ died \subseteq died'
           Others(r) == \A q \in Runs \ {r} : pc'[q] = pc[q] /\ calls'[q] = calls[q]
\* A thread that holds nothing takes a step that stores nothing.
<1>1. ASSUME NEW r \in Runs, Quiet, Others(r), files' \subseteq files,
             pc[r] \notin Storing, \A i \in Ids : tool[i] # None => tool'[i] = tool[i]
      PROVE  FileInv'
  <2>1. \A f \in files' : f \in files /\ ~ Holds(r, f)
    BY <1>1 DEF Holds, Storing
  <2> QED
    BY <1>1, <2>1, FilesKept
<1>2. ASSUME NEW r \in Runs, Reserve(r) \/ LeaveRun(r) PROVE FileInv'
  <2>1. Quiet /\ Others(r) /\ UNCHANGED <<files, tool>>
    BY <1>2, <1>t DEF Reserve, LeaveRun
  <2>2. pc[r] \notin Storing
    BY <1>2, <1>t DEF Reserve, LeaveRun, Storing, PubInv, Unborn
  <2> QED
    BY <1>1, <2>1, <2>2
<1>3. ASSUME NEW r \in Runs, ThreadDies(r) PROVE FileInv'
  <2>1. Quiet /\ Others(r) /\ UNCHANGED <<files, tool>>
    BY <1>3, <1>t DEF ThreadDies, Forget
  <2>2. ASSUME NEW f \in files, Holds(r, f) PROVE HasOwner(f)'
    <3>1. f[1] = Call(r) /\ pc[r] \in Storing
      BY <2>2 DEF Holds, Storing
    <3>2. f[1] \in died'
      BY <1>3, <3>1 DEF ThreadDies
    <3> QED
      BY <3>2 DEF HasOwner
  <2> QED
    BY <2>1, <2>2, FilesKept
<1>4. ASSUME NEW r \in Runs, NEW k \in Kinds, Begin(r, k) PROVE FileInv'
  <2>1. Quiet /\ Others(r) /\ UNCHANGED files /\ pc[r] \notin Storing
    BY <1>4, <1>t DEF Begin, Answered, Storing
  <2>2. \A i \in Ids : tool[i] # None => i # <<r, calls[r] + 1>>
    BY <1>t DEF TypeInv, CallsInOrder
  <2>3. \A i \in Ids : tool[i] # None => tool'[i] = tool[i]
    BY <1>4, <1>t, <2>2 DEF Begin
  <2> QED
    BY <1>1, <2>1, <2>3
<1>5. ASSUME NEW r \in Runs,
             \/ Preflight(r) \/ Hooks(r) \/ Answer(r) \/ AuditLost(r) \/ AuditLocked(r)
      PROVE  FileInv'
  <2>1. Quiet /\ Others(r) /\ files' \subseteq files /\ UNCHANGED tool
    BY <1>5, <1>t DEF Preflight, Hooks, Answer, AuditLost, AuditLocked, Answered,
       Escaped, Failed, Forget
  <2>2. pc[r] \notin Storing
    BY <1>5 DEF Preflight, Hooks, Answer, AuditLost, AuditLocked, Storing
  <2> QED
    BY <1>1, <2>1, <2>2
<1>6. ASSUME NEW r \in Runs, Generate(r) PROVE FileInv'
  <2>1. Quiet /\ Others(r) /\ UNCHANGED <<tool, calls>> /\ pc[r] = "generate"
    BY <1>6, <1>t DEF Generate, Failed, Answered
  <2>2. CASE files' = files
    BY <1>1, <2>1, <2>2 DEF Storing
  <2>3. CASE files' = files \cup Media(Call(r)) /\ pc'[r] = "validate"
    <3>1. ASSUME NEW f \in Media(Call(r)) PROVE HasOwner(f)'
      <4>1. f[1] = Call(r) /\ f[1][1] = r
        BY <3>1 DEF Media, Call
      <4>2. Call(r)' = Call(r) /\ Media(Call(r))' = Media(Call(r))
        BY <2>1 DEF Call, Media
      <4>3. Holds(r, f)'
        BY <2>3, <3>1, <4>1, <4>2 DEF Holds
      <4> QED
        BY <4>1, <4>3 DEF HasOwner
    <3>2. \A f \in files : ~ Holds(r, f)
      BY <2>1 DEF Holds
    <3> QED
      BY <2>1, <2>3, <3>1, <3>2, FilesKept
  <2> QED
    BY <1>6, <1>t, <2>2, <2>3 DEF Generate
<1>7. ASSUME NEW r \in Runs, Validate(r) \/ WriteLost(r) \/ WriteLocked(r) PROVE FileInv'
  <2>1. Quiet /\ Others(r) /\ UNCHANGED <<tool, calls>> /\ pc[r] \in {"validate", "write"}
    BY <1>7, <1>t DEF Validate, WriteLost, WriteLocked, Failed, Answered, Escaped
  <2>2. CASE files' = files \ Media(Call(r))
    <3>1. \A f \in files' : f \in files /\ ~ Holds(r, f)
      BY <2>1, <2>2 DEF Holds
    <3> QED
      BY <2>1, <3>1, FilesKept
  <2>3. CASE files' = files /\ pc'[r] = "write"
    <3>1. ASSUME NEW f \in files, Holds(r, f) PROVE HasOwner(f)'
      <4>1. f[1][1] = r
        BY <3>1 DEF Holds, Call
      <4>2. Call(r)' = Call(r) /\ Media(Call(r))' = Media(Call(r))
        BY <2>1 DEF Call, Media
      <4>3. Holds(r, f)'
        BY <2>1, <2>3, <3>1, <4>2 DEF Holds
      <4> QED
        BY <4>1, <4>3 DEF HasOwner
    <3> QED
      BY <2>1, <2>3, <3>1, FilesKept
  <2> QED
    BY <1>7, <1>t, <2>2, <2>3 DEF Validate, WriteLost, WriteLocked
<1>8. ASSUME NEW r \in Runs, Attach(r) PROVE FileInv'
  <2>1. Quiet /\ Others(r) /\ UNCHANGED <<tool, calls>> /\ pc[r] = "attach"
    BY <1>8, <1>t DEF Attach
  <2>2. CASE files' = files
    BY <1>1, <2>1, <2>2 DEF Storing
  <2>3. CASE files' = files \cup {<<Call(r), "image">>} /\ pc'[r] = "shot"
    <3>1. ASSUME NEW f, f = <<Call(r), "image">> PROVE HasOwner(f)'
      <4>1. Call(r)' = f[1] /\ f[1][1] = r /\ f[2] = "image"
        BY <2>1, <3>1 DEF Call
      <4>2. pc'[r] = "shot"
        BY <2>3
      <4> QED
        BY <4>1, <4>2 DEF HasOwner, Holds
    <3>2. \A f \in files : ~ Holds(r, f)
      BY <2>1 DEF Holds
    <3>3. \A f \in files' : f \in files \/ f = <<Call(r), "image">>
      BY <2>3
    <3>4. \A f \in files' : (f \in files /\ ~ Holds(r, f)) \/ HasOwner(f)'
      BY <3>1, <3>2, <3>3
    <3> QED
      BY <2>1, <3>4, FilesKept
  <2> QED
    BY <1>8, <1>t, <2>2, <2>3 DEF Attach
\* A thread adds rows: nobody loses an owner.
<1>9. ASSUME NEW r \in Runs, UNCHANGED <<calls, tool, files, deleting, removed, died>>,
             \A q \in Runs \ {r} : pc'[q] = pc[q], Referenced \subseteq Referenced',
             \A f \in Referenced' : f \in Referenced \/ LatePreview(f)
               \/ (deleting # None => f[1] # deleting.id),
             \A f \in files : Holds(r, f) => f \in Referenced'
      PROVE  FileInv'
  <2>1. PathsRead'
    BY <1>9, <1>i DEF PathsRead, LatePreview
  <2>2. ASSUME NEW f \in files PROVE HasOwner(f)'
    <3>1. f[1][1] \in Runs
      BY <1>t, <2>2, FilesArePairs
    <3>2. f[1][1] # r => (Holds(f[1][1], f) => Holds(f[1][1], f)')
      BY <1>9, <3>1 DEF Holds, Call, Media
    <3>3. LatePreview(f)' = LatePreview(f)
      BY <1>9 DEF LatePreview
    <3> QED
      BY <1>9, <1>i, <2>2, <3>2, <3>3 DEF HasOwner
  <2> QED
    BY <1>9, <2>1, <2>2 DEF FileInv
<1>10. ASSUME NEW r \in Runs, Write(r) PROVE FileInv'
  <2>1. /\ UNCHANGED <<calls, tool, files, deleting, removed, died>>
        /\ \A q \in Runs \ {r} : pc'[q] = pc[q]
        /\ pc[r] = "write" /\ deleting # None => deleting.id # Call(r)
    BY <1>10, <1>t DEF Write, Fresh, Unwritten, Early
  <2>2. /\ Referenced \subseteq Referenced'
        /\ \A f \in Referenced' : f \in Referenced \/ f[1] = Call(r)
    BY <1>10 DEF Write, Referenced
  <2>3. Media(Call(r)) \subseteq Referenced'
    BY <1>10 DEF Write, Referenced, Media
  <2>4. \A f \in files : Holds(r, f) => f \in Referenced'
    BY <1>10, <2>3 DEF Write, Holds
  <2>5. \A f \in Referenced' : f \in Referenced \/ LatePreview(f)
          \/ (deleting # None => f[1] # deleting.id)
    BY <1>10, <1>t, <2>2 DEF Write, Fresh, Unwritten, Early
  <2> QED
    BY <1>9, <2>1, <2>2, <2>4, <2>5
<1>11. ASSUME NEW r \in Runs, CommitShot(r) PROVE FileInv'
  <2>1. /\ UNCHANGED <<posts, websites, calls, tool, deleting, removed, died>>
        /\ \A q \in Runs \ {r} : pc'[q] = pc[q]
        /\ pc[r] = "shot" /\ tool[Call(r)] = "website"
    BY <1>11, <1>t DEF CommitShot, Written
  <2>h. \A f \in files : Holds(r, f) => f = <<Call(r), "image">>
    BY <1>t, <2>1, FilesArePairs DEF Holds
  <2>2. CASE images' = images \cup {Call(r)} /\ files' = files
    <3>1. Referenced' = Referenced \cup {<<Call(r), "image">>}
      BY <2>1, <2>2 DEF Referenced
    <3>2. LatePreview(<<Call(r), "image">>)
      BY <2>1 DEF LatePreview
    <3>3. \A f \in Referenced' : f \in Referenced \/ LatePreview(f)
      BY <3>1, <3>2
    <3> QED
      BY <1>9, <2>1, <2>2, <2>h, <3>1, <3>3
  <2>3. CASE images' = images /\ files' = files \ {<<Call(r), "image">>}
    <3>1. \A f \in files' : f \in files /\ ~ Holds(r, f)
      BY <2>3, <2>h
    <3> QED
      BY <2>1, <2>3, <3>1, FilesKept
  <2> QED
    BY <1>11, <2>2, <2>3 DEF CommitShot
<1>12. ASSUME NEW r \in Runs, Audit(r) PROVE FileInv'
  <2>1. /\ UNCHANGED <<images, websites, calls, tool, files, deleting, removed, died>>
        /\ \A q \in Runs \ {r} : pc'[q] = pc[q]
        /\ pc[r] = "audit"
    BY <1>12, <1>t DEF Audit, Forget
  <2>2. Referenced' = Referenced
    BY <2>1 DEF Referenced
  <2>3. \A f \in files : ~ Holds(r, f)
    BY <2>1 DEF Holds
  <2> QED
    BY <1>9, <2>1, <2>2, <2>3
<1>13. ASSUME NEW i \in posts, DeleteRead(i) PROVE FileInv'
  <2>1. /\ UNCHANGED <<images, websites, calls, tool, files, pc, removed, died>>
        /\ deleting = None
        /\ deleting' = [id |-> i, paths |-> {f \in Referenced : f[1] = i}, gone |-> FALSE]
    BY <1>13 DEF DeleteRead
  <2>2. Referenced' = Referenced
    BY <2>1 DEF Referenced
  <2>3. PathsRead'
    BY <2>1, <2>2 DEF PathsRead
  <2>4. ASSUME NEW f \in files PROVE HasOwner(f)'
    BY <1>i, <2>1, <2>2, HoldersKept DEF HasOwner
  <2> QED
    BY <2>1, <2>3, <2>4 DEF FileInv
<1>14. ASSUME DeleteRows PROVE FileInv'
  <2>1. /\ UNCHANGED <<calls, tool, files, pc, died>>
        /\ deleting # None /\ ~ deleting.gone
        /\ images' = images \ {deleting.id} /\ websites' = websites \ {deleting.id}
        /\ deleting' = [deleting EXCEPT !.gone = TRUE]
        /\ removed' = removed \cup {deleting.id}
    BY <1>14 DEF DeleteRows
  <2>2. deleting \in [id : Ids, paths : SUBSET Files, gone : BOOLEAN]
    BY <2>1 DEF PubInv, TypeInv, PubTypeOK
  <2>3. /\ deleting'.paths = deleting.paths /\ deleting'.gone
        /\ deleting' \in [id : Ids, paths : SUBSET Files, gone : BOOLEAN]
    BY <2>1, <2>2
  <2>4. \A f \in Referenced : f \in Referenced' \/ f[1] = deleting.id
    BY <2>1 DEF Referenced
  <2>5. deleting' # None
    BY <2>3, NoneAssumption
  <2>6. PathsRead'
    BY <2>3 DEF PathsRead
  <2>7. ASSUME NEW f \in files PROVE HasOwner(f)'
    <3>1. CASE f \in Referenced
      <4>1. f[1] = deleting.id => f \in deleting.paths \/ LatePreview(f)
        BY <1>i, <2>1, <3>1 DEF PathsRead
      <4> QED
        BY <2>1, <2>3, <2>4, <2>5, <3>1, <4>1, HoldersKept DEF HasOwner
    <3>2. CASE f \notin Referenced
      BY <1>i, <2>1, <2>3, <2>5, <3>2, HoldersKept DEF HasOwner
    <3> QED
      BY <3>1, <3>2
  <2> QED
    BY <2>1, <2>6, <2>7 DEF FileInv
<1>15. ASSUME DeleteFiles \/ DeleteEnds PROVE FileInv'
  <2>1. /\ UNCHANGED <<images, websites, calls, tool, pc, removed>>
        /\ deleting # None /\ deleting' = None
        /\ died \subseteq died' /\ files' \subseteq files
    BY <1>15 DEF DeleteFiles, DeleteEnds
  <2>2. Referenced' = Referenced
    BY <2>1 DEF Referenced
  <2>3. PathsRead'
    BY <2>1 DEF PathsRead
  <2>4. ASSUME NEW f \in files', f \in deleting.paths PROVE f \in Referenced \/ f[1] \in died'
    <3>1. DeleteEnds
      BY <1>15, <2>4 DEF DeleteFiles
    <3>2. f[1] = deleting.id
      BY <1>t, <2>1, <2>4 DEF Gone
    <3>3. CASE deleting.gone
      BY <3>1, <3>2, <3>3 DEF DeleteEnds
    <3>4. CASE ~ deleting.gone
      BY <1>i, <2>1, <2>4, <3>4 DEF PathsRead
    <3> QED
      BY <3>3, <3>4
  <2>5. ASSUME NEW f \in files' PROVE HasOwner(f)'
    BY <1>i, <2>1, <2>2, <2>4, HoldersKept DEF HasOwner
  <2> QED
    BY <2>3, <2>5 DEF FileInv
<1>16. ASSUME UNCHANGED <<images, websites, calls, tool, pc, removed, died, deleting>>,
              files' \subseteq files
       PROVE  FileInv'
  <2>1. Referenced' = Referenced
    BY <1>16 DEF Referenced
  <2>2. PathsRead'
    BY <1>i, <1>16, <2>1 DEF PathsRead, LatePreview
  <2>3. ASSUME NEW f \in files' PROVE HasOwner(f)'
    BY <1>i, <1>16, <2>1, HoldersKept DEF HasOwner
  <2> QED
    BY <2>2, <2>3 DEF FileInv
<1>17. ASSUME \/ \E r \in Runs : Interrupt(r)
              \/ \E tree \in {"image", "page"} : SweepRead(tree)
              \/ \E f \in files : SweepFile(f)
              \/ SweepEnds \/ Tick \/ UNCHANGED vars
       PROVE  FileInv'
  <2>1. /\ UNCHANGED <<images, websites, calls, tool, pc, removed, died, deleting>>
        /\ files' \subseteq files
    BY <1>17 DEF Interrupt, SweepRead, SweepFile, SweepEnds, Tick, vars
  <2> QED
    BY <1>16, <2>1
<1> QED
  BY <1>2, <1>3, <1>4, <1>5, <1>6, <1>7, <1>8, <1>10, <1>11, <1>12, <1>13, <1>14,
     <1>15, <1>17 DEF PubNext, ToolCall, Operators

-----------------------------------------------------------------------------
(* Theorems *)

\* The initial state satisfies the invariants.
LEMMA InitInv == PubInit => PubInv /\ OneInv /\ LimitInv /\ RequestInv /\ FileInv
<1> SUFFICES ASSUME PubInit PROVE PubInv /\ OneInv /\ LimitInv /\ RequestInv /\ FileInv
  OBVIOUS
<1> USE PublishingAssumption DEF PubInit
<1>1. PubTypeOK
  BY DEF PubTypeOK, Result, Steps, Ids, Kinds
<1>2. CallsInOrder /\ Busy
  BY IdsArePairs DEF CallsInOrder, Busy
<1>3. RowsOfCalls /\ Unborn /\ Fresh /\ Leftover /\ Stored /\ Written /\ Gone
      /\ RowsHaveFiles
  BY DEF RowsOfCalls, Unborn, Fresh, Unwritten, Early, Leftover, Stored,
         Written, Gone, RowsHaveFiles, Referenced
<1>4. OneInv
  BY DEF OneInv, Accounted, AnswerOk, NoneYet, Single
<1>5. LimitInv
  <2>1. RecentPosts = {} /\ RecentAudits = {}
    BY DEF RecentPosts, RecentAudits
  <2>2. Cardinality({}) = 0 /\ IsFiniteSet({})
    BY FS_EmptySet
  <2> QED
    BY <2>1, <2>2 DEF LimitInv, OneLive, AuditRoom, PostRoom, WithinHourlyLimit,
       AuditedWithinCap
<1>6. RequestInv
  BY DEF RequestInv, SentKnown, NotSent, PostedOrGone, OneWebsiteRequest
<1>7. FileInv
  BY DEF FileInv, PathsRead
<1> QED
  BY <1>1, <1>2, <1>3, <1>4, <1>5, <1>6, <1>7 DEF PubInv, TypeInv

\* Every reachable state satisfies the invariants.
LEMMA Invariance == PubSpec => [](PubInv /\ OneInv /\ LimitInv /\ RequestInv /\ FileInv)
<1> DEFINE All == PubInv /\ OneInv /\ LimitInv /\ RequestInv /\ FileInv
<1>1. All /\ [PubNext]_vars => All'
  <2> SUFFICES ASSUME All, [PubNext]_vars PROVE All'
    OBVIOUS
  <2>1. TypeInv'
    BY TypeStep DEF PubInv
  <2> QED
    BY <2>1, InvStep, OneStep, LimitStep, RequestStep, FileStep
<1>2. PubInit => All
  BY InitInv
<1> HIDE DEF All
<1>3. PubSpec => []All
  BY <1>1, <1>2, PTL DEF PubSpec
<1> QED
  BY <1>3 DEF All

\* The rows and threads of the publishing path keep their domains
\* (executor.py:497-526, models.py:1052-1176).
THEOREM PublishingTypes == PubSpec => []PubTypeOK
<1>1. PubInv => PubTypeOK
  BY DEF PubInv, TypeInv
<1> QED
  BY <1>1, Invariance, PTL

\* No cleanup of a failed call, no delete and no crash takes the file of a
\* published post (tools_write.py:315-324, content.py:562-565).
THEOREM PublishedMediaStays == PubSpec => []RowsHaveFiles
<1>1. PubInv => RowsHaveFiles
  BY DEF PubInv
<1> QED
  BY <1>1, Invariance, PTL

\* No file is left without a row, a call or a request that answers for it, unless a
\* process died at the wrong moment (tools_write.py:315-324, content.py:447-466).
THEOREM NoFileIsLost == PubSpec => []FilesHaveOwners
<1>1. FileInv => FilesHaveOwners
  BY DEF FileInv, HasOwner, Holds, LatePreview, FilesHaveOwners, Storing
<1> QED
  BY <1>1, Invariance, PTL

\* A persona keeps to its limits of posts in an hour, of audited calls and of website
\* requests, although each is read before the slow part of a call and without the
\* lock that its rows are written under (content.py:109-123, executor.py:321-347,
\* tools_write.py:355-380).
THEOREM PersonasKeepLimits == PubSpec => []WithinLimits
<1>1. LimitInv /\ RequestInv => WithinLimits
  BY DEF LimitInv, RequestInv, WithinLimits
<1> QED
  BY <1>1, Invariance, PTL

\* A visit publishes at most one complete post, however many calls and runs
\* there are (tools_write.py:124-137).
THEOREM OnePostOfAVisit == PubSpec => []OnePostPerRun
<1>1. ASSUME PubInv, OneInv PROVE OnePostPerRun
  <2> SUFFICES ASSUME NEW r \in Runs
               PROVE  Cardinality({i \in posts : i[1] = r /\ Complete(i)}) <= 1
    BY DEF OnePostPerRun
  <2> DEFINE S == {i \in posts : i[1] = r /\ Complete(i)}
  <2>1. CASE S = {}
    BY <2>1, FS_EmptySet
  <2>2. CASE S # {}
    <3>1. PICK i : i \in S
      BY <2>2
    <3>2. S = {i}
      BY <1>1, <3>1 DEF OneInv, Single
    <3>3. Cardinality({i}) = 1
      BY FS_Singleton
    <3> QED
      BY <3>2, <3>3
  <2> QED
    BY <2>1, <2>2
<1> QED
  BY <1>1, Invariance, PTL

\* A run does not go on from a complete post that the audit does not know of
\* (executor.py:497-526, loop.py:583-589).
THEOREM RunsKnowTheirPosts == PubSpec => []UnauditedMeansLost
<1>1. PubInv /\ OneInv => UnauditedMeansLost
  BY DEF OneInv, Accounted, UnauditedMeansLost, Late
<1> QED
  BY <1>1, Invariance, PTL

\* A run that has lost its persona adds no post, no image and no audit
\* (executor.py:49-87, 497-526).
THEOREM LostRunsWriteNothing == PubSpec => OwnedWrites
<1> DEFINE Owned == /\ \A i \in (posts' \ posts) \cup (images' \ images) :
                          run[i[1]] = "running"
                    /\ \A a \in audits' \ audits : run[a.id[1]] = "running"
<1>1. ASSUME [PubNext]_vars PROVE Owned
  <2> USE DEF rows, thread, others, history
  <2>1. CASE UNCHANGED <<posts, images, audits>>
    BY <2>1
  <2>2. ASSUME NEW r \in Runs, Write(r) PROVE Owned
    BY <2>2 DEF Write, Call
  <2>3. ASSUME NEW r \in Runs, CommitShot(r) PROVE Owned
    BY <2>3 DEF CommitShot, Call
  <2>4. ASSUME NEW r \in Runs, Audit(r) PROVE Owned
    <3>1. \A a \in audits' \ audits : a.id = Call(r)
      BY <2>4 DEF Audit, AuditRow
    <3>2. /\ posts' \ posts \subseteq {Call(r)} /\ images' = images
          /\ run[r] = "running"
      BY <2>4 DEF Audit
    <3> QED
      BY <3>1, <3>2 DEF Call
  <2>5. ASSUME DeleteRows PROVE Owned
    BY <2>5 DEF DeleteRows
  <2> QED
    BY <1>1, <2>1, <2>2, <2>3, <2>4, <2>5
    DEF PubNext, vars, ToolCall, Operators, Reserve, Interrupt, LeaveRun,
        ThreadDies, Begin, Preflight, Generate, Validate, WriteLost, WriteLocked,
        Hooks, Attach, Answer, AuditLost, AuditLocked, DeleteRead, DeleteFiles,
        DeleteEnds, SweepRead, SweepFile, SweepEnds, Tick
<1> QED
  BY <1>1, PTL DEF PubSpec, OwnedWrites
=============================================================================
