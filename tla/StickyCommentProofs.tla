------------------------- MODULE StickyCommentProofs -------------------------
(***************************************************************************)
(* The sticky comment of PromptAttachment: as long as no unlocked request  *)
(* overlaps other work and no performed call goes unrecorded, the pull     *)
(* request carries one comment, which quotes a prompt only with the        *)
(* author's consent; and when nothing went wrong at all, it shows what the *)
(* attachment holds once the work is done.                                 *)
(***************************************************************************)
EXTENDS PromptAttachmentProofs

Clean == Without({"overlap", "lost"})

(* One request works at a time: every start of work looks at the others. *)
Alone == \A q, r \in Requests : Works(q) /\ Works(r) => q = r

(* The labels at which the row a request works from has the recorded comment. *)
Holding == {"match", "clear", "bind", "build", "post", "unbind", "erase", "store", "recheck"}

NoComment == \A c \in Requests : comments[c] = None

(* What a request at work keeps true of its job: the comment it will post to or
   delete is the recorded one, it works on an attachment only with consent, and a
   detach that has deleted the comment leaves none. *)
Keeps(r) ==
    /\ pc[r] \in Holding => job[r].snap.comment = row.comment
    /\ pc[r] = "match" => job[r].mode # "detach"
    /\ pc[r] \in {"clear", "bind", "build", "post", "unbind"}
          => job[r].mode \in {"preview", "attach", "refresh"}
    /\ pc[r] = "erase" => job[r].mode = "detach"
    /\ pc[r] = "recheck" => job[r].mode = "attach"
    /\ pc[r] = "store" => job[r].posted = IF job[r].mode = "detach" THEN None ELSE Target(r)
    /\ Works(r) /\ job[r].mode \in {"attach", "refresh"} => consent
    /\ pc[r] \in {"store", "moveRead", "moveWrite"} /\ job[r].mode = "detach" => NoComment

(* A comment is the recorded one, or its creator is about to record it. *)
Recorded ==
    \A c \in Requests : comments[c] # None =>
        \/ row # None /\ row.comment = c
        \/ \E r \in Requests : pc[r] = "store" /\ job[r].posted = c

(* What quotes a prompt, or is attached, has the author's consent. *)
Agreed ==
    /\ \A c \in Requests : comments[c] \notin {None, {}} => consent
    /\ row # None /\ row.state = "attached" => consent

StickyInv == Clean => Alone /\ Recorded /\ Agreed /\ \A r \in Requests : Keeps(r)

(* A step of r leaves what the others remember alone. *)
Others(r) == \A q \in Requests \ {r} : pc'[q] = pc[q] /\ job'[q] = job[q]

(* What a step of a request that is not at work may do to the row. *)
RowStands ==
    /\ row # None => row' # None /\ row'.comment = row.comment /\ row'.state = row.state
    /\ row = None /\ row' # None => row'.comment = None /\ row'.state = "requested"

(* Incidents are never forgotten. *)
LEMMA CleanBefore == ASSUME incidents \subseteq incidents', Clean' PROVE Clean
  BY DEF Clean, Without

(* Who does not work after a step has nothing to keep. *)
LEMMA KeepsIdleNext == ASSUME NEW q \in Requests, ~Works(q)' PROVE Keeps(q)'
  BY DEF Works, Keeps, Holding, Target, NoComment

(* The step of a request that is at work, whether it goes on or ends. *)
LEMMA WorkerStep ==
    ASSUME StickyInv, NEW r \in Requests, Works(r), Others(r), incidents \subseteq incidents',
           Clean' => (Works(r)' => Keeps(r)') /\ Recorded' /\ Agreed'
    PROVE  StickyInv'
<1> SUFFICES ASSUME Clean' PROVE Alone' /\ Recorded' /\ Agreed' /\ \A q \in Requests : Keeps(q)'
  BY DEF StickyInv
<1>1. Alone BY CleanBefore DEF StickyInv
<1>2. ASSUME NEW q \in Requests, q # r PROVE ~Works(q)'
  BY <1>1, <1>2 DEF Alone, Others, Works
<1>3. Alone' BY <1>2 DEF Alone
<1>4. ASSUME NEW q \in Requests PROVE Keeps(q)'
  BY <1>2, <1>4, KeepsIdleNext
<1> QED BY <1>3, <1>4

(* The step of a request that is not at work and does not start. *)
LEMMA IdleStep ==
    ASSUME Inv, StickyInv, NEW r \in Requests, ~Works(r), ~Works(r)', Others(r),
           incidents \subseteq incidents', comments' = comments, consent => consent', RowStands
    PROVE  StickyInv'
<1> SUFFICES ASSUME Clean' PROVE Alone' /\ Recorded' /\ Agreed' /\ \A q \in Requests : Keeps(q)'
  BY DEF StickyInv
<1>1. Alone /\ Recorded /\ Agreed /\ \A q \in Requests : Keeps(q)
  BY CleanBefore DEF StickyInv
<1>2. Alone' BY <1>1 DEF Alone, Others, Works
<1>3. Recorded'
  <2> SUFFICES ASSUME NEW c \in Requests, comments'[c] # None
               PROVE  \/ row' # None /\ row'.comment = c
                      \/ \E q \in Requests : pc'[q] = "store" /\ job'[q].posted = c
    BY DEF Recorded
  <2>1. CASE row # None /\ row.comment = c
    BY <2>1 DEF RowStands
  <2>2. ASSUME NEW q \in Requests, pc[q] = "store", job[q].posted = c
        PROVE  \E p \in Requests : pc'[p] = "store" /\ job'[p].posted = c
    BY <2>2 DEF Others, Works
  <2> QED BY <1>1, <2>1, <2>2 DEF Recorded
<1>4. Agreed'
  <2>1. ASSUME NEW c \in Requests, comments'[c] \notin {None, {}} PROVE consent'
    BY <1>1, <2>1 DEF Agreed
  <2>2. ASSUME row' # None, row'.state = "attached" PROVE consent'
    <3>1. row # None BY <2>2 DEF RowStands
    <3> QED BY <1>1, <2>2, <3>1 DEF Agreed, RowStands
  <2> QED BY <2>1, <2>2 DEF Agreed
<1>5. ASSUME NEW q \in Requests PROVE Keeps(q)'
  <2>1. CASE q = r BY <2>1, KeepsIdleNext
  <2>2. CASE q # r /\ ~Works(q)
    <3>1. ~Works(q)' BY <2>2 DEF Others, Works
    <3> QED BY <3>1, KeepsIdleNext
  <2>3. CASE q # r /\ Works(q)
    <3>1. row # None
      BY <2>3 DEF Inv, Loaded, Works, WorkLabels, TypeOK
    <3>2. pc'[q] = pc[q] /\ job'[q] = job[q] /\ row'.comment = row.comment
      BY <2>3, <3>1 DEF Others, RowStands
    <3>3. Keeps(q) BY <1>1
    <3> QED BY <3>2, <3>3 DEF Keeps, Works, Target, NoComment, Holding
  <2> QED BY <2>1, <2>2, <2>3
<1> QED BY <1>2, <1>3, <1>4, <1>5

(* The step of a request that starts to work: if it is clean, nobody else does. *)
LEMMA StartStep ==
    ASSUME Inv, StickyInv, NEW r \in Requests, ~Works(r), Others(r), StartsWork(r),
           comments' = comments, consent => consent', RowStands, Clean /\ Agreed => Keeps(r)'
    PROVE  StickyInv'
<1>0. incidents \subseteq incidents' BY DEF StartsWork, Happens
<1> SUFFICES ASSUME Clean' PROVE Alone' /\ Recorded' /\ Agreed' /\ \A q \in Requests : Keeps(q)'
  BY DEF StickyInv
<1>1. Clean /\ Alone /\ Recorded /\ Agreed /\ \A q \in Requests : Keeps(q)
  BY <1>0, CleanBefore DEF StickyInv
<1>2. ASSUME NEW q \in Requests \ {r} PROVE ~Works(q) /\ ~Works(q)'
  BY <1>2 DEF StartsWork, Happens, Clean, Without, Others, Works
<1>3. Alone' BY <1>2 DEF Alone
<1>4. \A q \in Requests : pc[q] # "store"
  BY <1>2 DEF Works
<1>5. Recorded' BY <1>1, <1>4 DEF Recorded, RowStands
<1>6. Agreed'
  <2>1. ASSUME NEW c \in Requests, comments'[c] \notin {None, {}} PROVE consent'
    BY <1>1, <2>1 DEF Agreed
  <2>2. ASSUME row' # None, row'.state = "attached" PROVE consent'
    <3>1. row # None BY <2>2 DEF RowStands
    <3> QED BY <1>1, <2>2, <3>1 DEF Agreed, RowStands
  <2> QED BY <2>1, <2>2 DEF Agreed
<1>7. ASSUME NEW q \in Requests PROVE Keeps(q)'
  BY <1>1, <1>2, <1>7, KeepsIdleNext
<1> QED BY <1>3, <1>5, <1>6, <1>7


(* What returning and going on do to the request's own state. *)
LEMMA Returned ==
    ASSUME Inv, NEW r \in Requests, Return(r)
    PROVE  Others(r) /\ pc'[r] = "done" /\ ~Works(r)'
  BY DEF Inv, TypeOK, Return, Goto, Others, Works

(* A request that goes on to a label leaves the others where they are. *)
LEMMA WentOn ==
    ASSUME Inv, NEW r \in Requests, NEW label, NEW j,
           Goto(r, label), job' = [job EXCEPT ![r] = j]
    PROVE  Others(r) /\ pc'[r] = label /\ job'[r] = j
  BY DEF Inv, TypeOK, Goto, Others

(* The row a command acts on keeps the comment and the state. *)
LEMMA EnsuredStands == ASSUME Inv, row' = Ensured PROVE RowStands
  BY EnsuredRow DEF Ensured, RowStands

(* A row that does not change keeps its comment and its state. *)
LEMMA SameStands == ASSUME row' = row PROVE RowStands
  BY DEF RowStands

(* Entering keeps the comment recorded. *)
LEMMA EnterSticky == ASSUME Inv, StickyInv, NEW r \in Requests, Enter(r) PROVE StickyInv'
<1> USE DEF Begins
<1>1. ASSUME Ask(r) PROVE StickyInv'
  BY <1>1, Returned, EnsuredStands, IdleStep DEF Ask, Works
<1>2. ASSUME AttachCommand(r) PROVE StickyInv'
  <2>1. PICK why : Continue(r, "match",
                        [NoJob EXCEPT !.mode = IF Ensured.state = "attached" THEN "refresh" ELSE "click",
                                      !.why = why, !.snap = Ensured])
    BY <1>2 DEF AttachCommand
  <2> DEFINE j == [NoJob EXCEPT !.mode = IF Ensured.state = "attached" THEN "refresh" ELSE "click",
                                !.why = why, !.snap = Ensured]
  <2>2. Others(r) /\ pc'[r] = "match" /\ job'[r] = j
    BY <2>1, WentOn DEF Continue
  <2>3. /\ j.snap = Ensured
        /\ j.mode = IF Ensured.state = "attached" THEN "refresh" ELSE "click"
    BY DEF NoJob
  <2> HIDE DEF j
  <2>4. ASSUME Agreed PROVE Keeps(r)'
    <3>1. job'[r].snap.comment = row'.comment
      BY <1>2, <2>2, <2>3 DEF AttachCommand
    <3>2. job'[r].mode \in {"refresh", "click"} BY <2>2, <2>3
    <3>3. ASSUME job'[r].mode = "refresh" PROVE consent'
      <4>1. row # None /\ row.state = "attached"
        BY <2>2, <2>3, <3>3 DEF Ensured
      <4> QED BY <1>2, <2>4, <4>1 DEF Agreed, AttachCommand
    <3> QED BY <2>2, <3>1, <3>2, <3>3 DEF Keeps, Holding, Works
  <2> QED BY <1>2, <2>2, <2>4, EnsuredStands, StartStep DEF AttachCommand, Works
<1>3. ASSUME DetachCommand(r) PROVE StickyInv'
  <2>1. CASE ~CanTransition(Ensured.state, "detached")
    BY <1>3, <2>1, Returned, EnsuredStands, IdleStep DEF DetachCommand, Works
  <2>2. CASE CanTransition(Ensured.state, "detached")
    <3> DEFINE j == [NoJob EXCEPT !.mode = "detach", !.snap = Ensured]
    <3>1. Others(r) /\ pc'[r] = "erase" /\ job'[r] = j
      BY <1>3, <2>2, WentOn DEF DetachCommand, Continue
    <3>2. j.snap = Ensured /\ j.mode = "detach"
      BY DEF NoJob
    <3> HIDE DEF j
    <3>3. Keeps(r)'
      BY <1>3, <3>1, <3>2 DEF DetachCommand, Keeps, Holding, Works
    <3> QED BY <1>3, <2>2, <3>1, <3>3, EnsuredStands, StartStep DEF DetachCommand, Works
  <2> QED BY <2>1, <2>2
<1>4. ASSUME Push(r) PROVE StickyInv'
  <2>1. PICK why : Continue(r, "match", [NoJob EXCEPT !.mode = "refresh", !.why = why, !.snap = row])
    BY <1>4 DEF Push
  <2> DEFINE j == [NoJob EXCEPT !.mode = "refresh", !.why = why, !.snap = row]
  <2>2. Others(r) /\ pc'[r] = "match" /\ job'[r] = j
    BY <2>1, WentOn DEF Continue
  <2>3. j.snap = row /\ j.mode = "refresh"
    BY DEF NoJob
  <2> HIDE DEF j
  <2>4. row # None /\ row.state = "attached" /\ row' = row
    BY <1>4, AttachmentAssumption DEF Push, State, States
  <2>5. ASSUME Agreed PROVE Keeps(r)'
    <3>1. consent' BY <1>4, <2>4, <2>5 DEF Agreed, Push
    <3> QED BY <2>2, <2>3, <2>4, <3>1 DEF Keeps, Holding, Works
  <2> QED BY <1>4, <2>2, <2>5, SameStands, StartStep DEF Push, Works
<1>5. ASSUME NEW k \in {"confirm", "unlink", "refresh", "opened"}, Queue(r, k) PROVE StickyInv'
  <2>1. Others(r) /\ pc'[r] = "lock"
    BY <1>5, WentOn DEF Queue, Continue
  <2>2. RowStands BY <1>5, EnsuredStands, SameStands DEF Queue
  <2> QED BY <1>5, <2>1, <2>2, IdleStep DEF Queue, Works
<1>6. ASSUME NEW t \in Transcripts, Publish(r, t) PROVE StickyInv'
  <2>1. Others(r) /\ pc'[r] = "list"
    BY <1>6, WentOn DEF Publish, Continue
  <2> QED BY <1>6, <2>1, SameStands, IdleStep DEF Publish, Works
<1>7. ASSUME NEW t \in Transcripts, ChangeVisibility(r, t) PROVE StickyInv'
  <2>1. Others(r) /\ pc'[r] = "list"
    BY <1>7, WentOn DEF ChangeVisibility, Continue
  <2> QED BY <1>7, <2>1, SameStands, IdleStep DEF ChangeVisibility, Works
<1>8. ASSUME NEW t \in Transcripts, DeleteLists(r, t) PROVE StickyInv'
  <2>1. Others(r) /\ pc'[r] = "deleting"
    BY <1>8, WentOn DEF DeleteLists, Continue
  <2> QED BY <1>8, <2>1, SameStands, IdleStep DEF DeleteLists, Works, Happens
<1> QED BY <1>1, <1>2, <1>3, <1>4, <1>5, <1>6, <1>7, <1>8 DEF Enter


(* Queueing, deletions and the lock. *)
LEMMA QueueSticky ==
    ASSUME Inv, StickyInv, NEW r \in Requests,
           ListAttachments(r) \/ DeleteCommits(r) \/ DeleteRollsBack(r) \/ Acquire(r)
    PROVE  StickyInv'
<1>1. ASSUME ListAttachments(r) PROVE StickyInv'
  <2>1. Others(r) /\ pc'[r] \in {"lock", "done"}
    BY <1>1, WentOn, Returned DEF ListAttachments, Continue
  <2> QED BY <1>1, <2>1, SameStands, IdleStep DEF ListAttachments, Works
<1>2. ASSUME DeleteCommits(r) PROVE StickyInv'
  <2>1. Others(r) /\ pc'[r] \in {"lock", "done"}
    BY <1>2, WentOn, Returned DEF DeleteCommits, Continue
  <2>2. RowStands
    <3>1. CASE rowLock = r
      <4>1. row \in Row /\ row # None
        BY <3>1 DEF Inv, Loaded, TypeOK
      <4>2. row' = [row EXCEPT !.digest = @ \ {job[r].about}]
        BY <1>2, <3>1 DEF DeleteCommits
      <4>3. row' \in Row BY <4>1, <4>2 DEF Row
      <4> QED BY <4>1, <4>2, <4>3, AttachmentAssumption DEF RowStands, Row
    <3>2. CASE rowLock # r
      BY <1>2, <3>2, SameStands DEF DeleteCommits
    <3> QED BY <3>1, <3>2
  <2> QED BY <1>2, <2>1, <2>2, IdleStep DEF DeleteCommits, Works
<1>3. ASSUME DeleteRollsBack(r) PROVE StickyInv'
  BY <1>3, Returned, SameStands, IdleStep DEF DeleteRollsBack, Works
<1>4. ASSUME Acquire(r) PROVE StickyInv'
  <2> DEFINE m == LockedMode(job[r].kind, row.state)
  <2>0. /\ row \in Row /\ row # None /\ row' = row
        /\ pc[r] = "lock" /\ comments' = comments
    BY <1>4 DEF Acquire, Inv, TypeOK, Loaded
  <2>1. consent => consent' BY <1>4 DEF Acquire
  <2>2. CASE m = None
    BY <1>4, <2>0, <2>1, <2>2, Returned, SameStands, IdleStep DEF Acquire, Works
  <2>3. CASE m # None
    <3>1. /\ m \in Modes
          /\ m = "attach" => job[r].kind = "confirm" /\ row.state = "preview"
          /\ m = "refresh" => row.state = "attached"
      BY <2>3 DEF LockedMode, Modes
    <3> HIDE DEF m
    <3>2. PICK why : job' = [job EXCEPT ![r] = [NoJob EXCEPT !.mode = m, !.why = why, !.snap = row]]
      BY <1>4, <2>3 DEF Acquire, m
    <3> DEFINE j == [NoJob EXCEPT !.mode = m, !.why = why, !.snap = row]
               label == IF m = "detach" THEN "erase" ELSE "match"
    <3>3. j.mode = m /\ j.snap = row
      BY DEF NoJob
    <3>4. Goto(r, label) /\ StartsWork(r)
      BY <1>4, <2>3 DEF Acquire, m
    <3>5. job' = [job EXCEPT ![r] = j] BY <3>2
    <3> HIDE DEF j
    <3>6. Others(r) /\ pc'[r] = label /\ job'[r] = j
      BY <3>4, <3>5, WentOn
    <3>7. ASSUME Agreed PROVE Keeps(r)'
      <4>1. ASSUME m = "attach" PROVE consent'
        BY <1>4, <3>1, <4>1 DEF Acquire
      <4>2. ASSUME m = "refresh" PROVE consent'
        BY <2>0, <2>1, <3>1, <3>7, <4>2 DEF Agreed
      <4> QED BY <2>0, <3>3, <3>6, <4>1, <4>2 DEF Keeps, Holding, Works
    <3> QED BY <2>0, <2>1, <3>4, <3>6, <3>7, SameStands, StartStep DEF Works
  <2> QED BY <2>2, <2>3
<1> QED BY <1>1, <1>2, <1>3, <1>4

(* A request that returns before it has a comment to record. *)
LEMMA EndSticky ==
    ASSUME Inv, StickyInv, NEW r \in Requests, Works(r), pc[r] # "store", Return(r),
           UNCHANGED <<row, comments, consent>>, incidents \subseteq incidents'
    PROVE  StickyInv'
<1>1. Others(r) /\ pc'[r] = "done" /\ ~Works(r)' BY Returned
<1>2. ASSUME Clean' PROVE Recorded' /\ Agreed'
  <2>1. Recorded /\ Agreed BY <1>2, CleanBefore DEF StickyInv
  <2>2. Recorded' BY <1>1, <2>1 DEF Recorded, Others
  <2>3. Agreed' BY <2>1 DEF Agreed
  <2> QED BY <2>2, <2>3
<1> QED BY <1>1, <1>2, WorkerStep

(* A request that goes on without touching the comment or the row. *)
LEMMA OnSticky ==
    ASSUME Inv, StickyInv, NEW r \in Requests, Works(r), pc[r] # "store",
           NEW label, NEW j, Continue(r, label, j),
           UNCHANGED <<row, comments>>, consent => consent', incidents \subseteq incidents',
           Clean /\ Keeps(r) => Keeps(r)'
    PROVE  StickyInv'
<1>1. Others(r) /\ pc'[r] = label /\ job'[r] = j BY WentOn DEF Continue
<1>2. ASSUME Clean' PROVE Keeps(r)' /\ Recorded' /\ Agreed'
  <2>1. Clean /\ Recorded /\ Agreed /\ Keeps(r) BY <1>2, CleanBefore DEF StickyInv
  <2>2. Recorded' BY <1>1, <2>1 DEF Recorded, Others
  <2>3. Agreed' BY <2>1 DEF Agreed
  <2> QED BY <2>1, <2>2, <2>3
<1> QED BY <1>1, <1>2, WorkerStep


(* Matching, building and binding. *)
LEMMA PrepareSticky ==
    ASSUME Inv, StickyInv, NEW r \in Requests,
           \/ MatchRefresh(r) \/ MatchNothing(r) \/ MatchAccepted(r) \/ MatchFails(r)
           \/ Build(r) \/ Clear(r) \/ Bind(r)
    PROVE  StickyInv'
<1>0. pc[r] \in {"match", "build", "clear", "bind"} /\ Works(r)
  BY DEF MatchRefresh, MatchNothing, MatchAccepted, MatchFails, Build, Clear, Bind, Works
<1>f. job[r] \in Job /\ job[r].mode # None /\ job[r].snap # None
  BY <1>0, AtWork DEF WorkLabels, PcValues
<1>i. incidents \subseteq incidents' /\ UNCHANGED <<row, comments>> /\ (consent => consent')
  <2>1. incidents \subseteq incidents' /\ UNCHANGED <<row, comments>>
    BY DEF MatchRefresh, MatchNothing, MatchAccepted, MatchFails, Build, Clear, Bind, Happens
  <2>2. ASSUME consent, MatchAccepted(r) PROVE consent'
    BY <2>2 DEF MatchAccepted
  <2>3. ASSUME consent, ~MatchAccepted(r) PROVE consent'
    BY <2>3 DEF MatchRefresh, MatchNothing, MatchFails, Build, Clear, Bind
  <2> QED BY <2>1, <2>2, <2>3
<1>k. ASSUME NEW label \in {"match", "build", "clear", "bind", "post"}, NEW j,
             Continue(r, label, j), j.snap = job[r].snap, j.mode # "detach",
             label = "match" \/ j.mode \in {"preview", "attach", "refresh"},
             j.mode \in {"attach", "refresh"} => consent' \/ j.mode = job[r].mode
      PROVE  StickyInv'
  <2>1. pc'[r] = label /\ job'[r] = j BY <1>k, WentOn DEF Continue
  <2>2. ASSUME Keeps(r) PROVE Keeps(r)'
    <3>1. job'[r].snap.comment = row'.comment
      BY <1>0, <1>i, <1>k, <2>1, <2>2 DEF Keeps, Holding
    <3>2. ASSUME job'[r].mode \in {"attach", "refresh"} PROVE consent'
      BY <1>0, <1>i, <1>k, <2>1, <2>2, <3>2 DEF Keeps
    <3> QED BY <1>k, <2>1, <3>1, <3>2 DEF Keeps, Works
  <2> QED BY <1>0, <1>i, <1>k, <2>2, OnSticky
<1>m. \/ ~Clean
      \/ /\ job[r].mode # "detach"
         /\ pc[r] # "match" => job[r].mode \in {"preview", "attach", "refresh"}
  BY <1>0 DEF StickyInv, Keeps
<1>r. ASSUME Return(r), UNCHANGED consent PROVE StickyInv'
  BY <1>0, <1>i, <1>r, EndSticky
<1>d. ASSUME ~Clean PROVE StickyInv'
  BY <1>d, <1>i, CleanBefore DEF StickyInv
<1> SUFFICES ASSUME Clean PROVE StickyInv'
  BY <1>d
<1>1. ASSUME MatchRefresh(r) PROVE StickyInv'
  <2> DEFINE newly == live \ bound
             j == [job[r] EXCEPT !.todo = newly, !.fresh = newly, !.dig = bound \union newly]
             label == IF newly = {} THEN "build" ELSE "bind"
  <2>1. j.snap = job[r].snap /\ j.mode = job[r].mode /\ label \in {"build", "bind"}
    BY <1>f DEF Job
  <2>2. Return(r) \/ Continue(r, label, j)
    BY <1>1 DEF MatchRefresh
  <2> HIDE DEF j, label
  <2> QED BY <1>1, <1>k, <1>m, <1>r, <2>1, <2>2 DEF MatchRefresh
<1>2. ASSUME MatchNothing(r) PROVE StickyInv'
  <2>1. CASE Return(r) BY <1>2, <1>r, <2>1 DEF MatchNothing
  <2>2. CASE Continue(r, "moveRead", job[r])
    <3>1. pc'[r] = "moveRead" /\ job'[r] = job[r] BY <2>2, WentOn DEF Continue
    <3>2. job[r].mode # "detach" BY <1>m
    <3>3. ASSUME Keeps(r) PROVE Keeps(r)'
      BY <1>2, <1>0, <3>1, <3>2, <3>3 DEF Keeps, Works, MatchNothing, Holding
    <3> QED BY <1>0, <1>i, <2>2, <3>3, OnSticky
  <2> QED BY <1>2, <2>1, <2>2 DEF MatchNothing
<1>3. ASSUME MatchAccepted(r) PROVE StickyInv'
  <2> DEFINE a == [job[r] EXCEPT !.mode = "attach"]
             b == [job[r] EXCEPT !.mode = IF @ = "attach" THEN @ ELSE "preview", !.dig = live]
  <2>1. a.mode = "attach" /\ a.snap = job[r].snap
    BY <1>f DEF Job
  <2>2. /\ b.mode = IF job[r].mode = "attach" THEN "attach" ELSE "preview"
        /\ b.snap = job[r].snap
    BY <1>f DEF Job
  <2>3. (Continue(r, "match", a) /\ consent') \/ Continue(r, "build", b)
    BY <1>3 DEF MatchAccepted
  <2> HIDE DEF a, b
  <2> QED BY <1>k, <2>1, <2>2, <2>3
<1>4. ASSUME MatchFails(r) PROVE StickyInv'
  BY <1>4, <1>r DEF MatchFails
<1>5. ASSUME Build(r) PROVE StickyInv'
  <2> DEFINE j == [job[r] EXCEPT !.shown = job[r].dig \intersect public]
             label == IF job[r].mode = "attach" THEN "clear" ELSE "post"
  <2>1. j.snap = job[r].snap /\ j.mode = job[r].mode /\ label \in {"clear", "post"}
    BY <1>f DEF Job
  <2>2. Return(r) \/ Continue(r, label, j)
    BY <1>5 DEF Build
  <2> HIDE DEF j, label
  <2> QED BY <1>5, <1>k, <1>m, <1>r, <2>1, <2>2 DEF Build
<1>6. ASSUME Clear(r) PROVE StickyInv'
  <2> DEFINE j == [job[r] EXCEPT !.todo = job[r].dig]
  <2>1. j.snap = job[r].snap /\ j.mode = job[r].mode
    BY <1>f DEF Job
  <2>2. Continue(r, "bind", j)
    BY <1>6 DEF Clear
  <2> HIDE DEF j
  <2> QED BY <1>6, <1>k, <1>m, <2>1, <2>2 DEF Clear
<1>7. ASSUME Bind(r) PROVE StickyInv'
  <2>1. CASE Return(r) BY <1>7, <1>r, <2>1 DEF Bind
  <2>2. CASE ~Return(r)
    <3>1. PICK t \in job[r].todo :
             Continue(r, IF job[r].todo \ {t} # {} THEN "bind"
                         ELSE IF job[r].mode = "attach" THEN "post" ELSE "build",
                      [job[r] EXCEPT !.todo = job[r].todo \ {t}])
      BY <1>7, <2>2 DEF Bind
    <3> DEFINE j == [job[r] EXCEPT !.todo = job[r].todo \ {t}]
               label == IF job[r].todo \ {t} # {} THEN "bind"
                        ELSE IF job[r].mode = "attach" THEN "post" ELSE "build"
    <3>2. j.snap = job[r].snap /\ j.mode = job[r].mode /\ label \in {"bind", "post", "build"}
      BY <1>f DEF Job
    <3>3. Continue(r, label, j) BY <3>1
    <3> HIDE DEF j, label
    <3> QED BY <1>7, <1>k, <1>m, <3>2, <3>3 DEF Bind
  <2> QED BY <2>1, <2>2
<1> QED BY <1>1, <1>2, <1>3, <1>4, <1>5, <1>6, <1>7

(* With its row current, a request posts to the only comment, or creates it. *)
LEMMA OnlyTarget ==
    ASSUME Inv, StickyInv, Clean, NEW r \in Requests, pc[r] \in {"post", "erase"}
    PROVE  \A c \in Requests : comments[c] # None => c = job[r].snap.comment
<1>1. Alone /\ Recorded /\ Keeps(r) BY DEF StickyInv
<1>2. \A q \in Requests : pc[q] # "store"
  BY <1>1 DEF Alone, Works
<1>3. job[r].snap.comment = row.comment
  BY <1>1 DEF Keeps, Holding
<1> QED BY <1>1, <1>2, <1>3 DEF Recorded


(* The calls to GitHub. *)
LEMMA PostSticky ==
    ASSUME Inv, StickyInv, NEW r \in Requests,
           \/ Post(r) \/ PostFails(r) \/ PostLost(r) \/ Unbind(r) \/ Erase(r) \/ EraseFails(r)
    PROVE  StickyInv'
<1>0. pc[r] \in {"post", "unbind", "erase"} /\ Works(r)
  BY DEF Post, PostFails, PostLost, Unbind, Erase, EraseFails, Works
<1>f. job[r] \in Job /\ job[r].snap \in Row /\ job[r].snap # None /\ row # None
  BY <1>0, AtWork DEF WorkLabels, PcValues
<1>i. incidents \subseteq incidents'
  BY DEF Post, PostFails, PostLost, Unbind, Erase, EraseFails, Happens
<1>d. ASSUME ~Clean' PROVE StickyInv'
  BY <1>d DEF StickyInv
<1> SUFFICES ASSUME Clean' PROVE StickyInv'
  BY <1>d
<1>c. Clean /\ Alone /\ Recorded /\ Agreed /\ Keeps(r)
  BY <1>i, CleanBefore DEF StickyInv
<1>p. Target(r) \in Requests /\ comments \in [Requests -> (SUBSET Transcripts) \union {None}]
  BY <1>f DEF Target, Row, Inv, TypeOK
<1>1. ASSUME Post(r) PROVE StickyInv'
  <2> DEFINE j == [job[r] EXCEPT !.posted = Target(r)]
  <2>1. /\ j.snap = job[r].snap /\ j.mode = job[r].mode /\ j.posted = Target(r)
    BY <1>f DEF Job
  <2>2. Others(r) /\ pc'[r] = "store" /\ job'[r] = j
    BY <1>1, WentOn DEF Post, Continue
  <2> HIDE DEF j
  <2>3. /\ comments' = [comments EXCEPT ![Target(r)] = Listing(r)]
        /\ UNCHANGED <<row, consent>> /\ pc[r] = "post"
    BY <1>1 DEF Post, Upsert
  <2>4. \A c \in Requests : comments[c] # None => c = Target(r)
    <3>1. \A c \in Requests : comments[c] # None => c = job[r].snap.comment
      BY <1>c, <2>3, OnlyTarget
    <3> QED BY <3>1, AttachmentAssumption DEF Target
  <2>5. Recorded'
    <3> SUFFICES ASSUME NEW c \in Requests, comments'[c] # None
                 PROVE  pc'[r] = "store" /\ job'[r].posted = c
      BY DEF Recorded
    <3> QED BY <1>p, <2>1, <2>2, <2>3, <2>4
  <2>6. job[r].mode \in {"preview", "attach", "refresh"} BY <1>c, <2>3 DEF Keeps
  <2>7. Agreed'
    <3>1. ASSUME NEW c \in Requests, comments'[c] \notin {None, {}} PROVE consent
      <4>1. CASE c = Target(r)
        <5>1. Listing(r) # {} BY <1>p, <2>3, <3>1, <4>1
        <5>2. job[r].mode \in {"attach", "refresh"} BY <2>6, <5>1 DEF Listing
        <5> QED BY <1>0, <1>c, <5>2 DEF Keeps
      <4>2. CASE c # Target(r)
        BY <1>c, <1>p, <2>3, <3>1, <4>2 DEF Agreed
      <4> QED BY <4>1, <4>2
    <3> QED BY <1>c, <2>3, <3>1 DEF Agreed
  <2>8. Keeps(r)'
    <3>1. job'[r].snap.comment = row'.comment
      BY <1>c, <2>1, <2>2, <2>3 DEF Keeps, Holding
    <3>2. job'[r].posted = Target(r)'
      BY <2>1, <2>2 DEF Target
    <3>3. ASSUME job'[r].mode \in {"attach", "refresh"} PROVE consent'
      BY <1>0, <1>c, <2>1, <2>2, <2>3, <3>3 DEF Keeps
    <3> QED BY <2>1, <2>2, <2>6, <3>1, <3>2, <3>3 DEF Keeps, Works
  <2> QED BY <1>0, <1>i, <2>2, <2>5, <2>7, <2>8, WorkerStep
<1>2. ASSUME PostFails(r) PROVE StickyInv'
  <2>0. UNCHANGED <<row, comments, consent>> /\ pc[r] = "post" BY <1>2 DEF PostFails
  <2>1. CASE Return(r) BY <1>0, <1>i, <2>0, <2>1, EndSticky
  <2>2. CASE ~Return(r)
    <3> DEFINE j == [job[r] EXCEPT !.todo = IF job[r].mode = "attach" THEN job[r].dig ELSE job[r].fresh]
    <3>1. j.snap = job[r].snap /\ j.mode = job[r].mode
      BY <1>f DEF Job
    <3>2. Continue(r, "unbind", j) BY <1>2, <2>2 DEF PostFails, Compensates
    <3> HIDE DEF j
    <3>3. pc'[r] = "unbind" /\ job'[r] = j BY <3>2, WentOn DEF Continue
    <3>4. Keeps(r)'
      <4>1. job'[r].snap.comment = row'.comment
        BY <1>c, <2>0, <3>1, <3>3 DEF Keeps, Holding
      <4>2. ASSUME job'[r].mode \in {"attach", "refresh"} PROVE consent'
        BY <1>0, <1>c, <2>0, <3>1, <3>3, <4>2 DEF Keeps
      <4>3. job'[r].mode \in {"preview", "attach", "refresh"}
        BY <1>c, <2>0, <3>1, <3>3 DEF Keeps
      <4> QED BY <3>3, <4>1, <4>2, <4>3 DEF Keeps, Works
    <3> QED BY <1>0, <1>i, <2>0, <3>2, <3>4, OnSticky
  <2> QED BY <2>1, <2>2
<1>3. ASSUME PostLost(r) PROVE StickyInv'
  BY <1>3 DEF PostLost, Happens, Clean, Without
<1>4. ASSUME Unbind(r) PROVE StickyInv'
  BY <1>0, <1>4, <1>i, EndSticky DEF Unbind
<1>5. ASSUME Erase(r) PROVE StickyInv'
  <2> DEFINE j == [job[r] EXCEPT !.posted = None]
  <2>1. j.snap = job[r].snap /\ j.mode = job[r].mode /\ j.posted = None
    BY <1>f DEF Job
  <2>2. Others(r) /\ pc'[r] = "store" /\ job'[r] = j
    BY <1>5, WentOn DEF Erase, Continue
  <2> HIDE DEF j
  <2>3. comments' = Erased(r) /\ UNCHANGED <<row, consent>> /\ pc[r] = "erase"
    BY <1>5 DEF Erase
  <2>4. ASSUME NEW c \in Requests PROVE comments'[c] = None
    <3>1. comments[c] # None => c = job[r].snap.comment
      BY <1>c, <2>3, OnlyTarget
    <3> QED BY <1>f, <1>p, <2>3, <3>1, AttachmentAssumption DEF Erased, Row
  <2>5. Recorded' /\ NoComment' BY <2>4 DEF Recorded, NoComment
  <2>6. Agreed' BY <1>c, <2>3, <2>4 DEF Agreed
  <2>7. Keeps(r)'
    <3>1. job'[r].snap.comment = row'.comment
      BY <1>c, <2>1, <2>2, <2>3 DEF Keeps, Holding
    <3>2. job'[r].mode = "detach" BY <1>c, <2>1, <2>2, <2>3 DEF Keeps
    <3> QED BY <2>1, <2>2, <2>5, <3>1, <3>2 DEF Keeps, Works
  <2> QED BY <1>0, <1>i, <2>2, <2>5, <2>6, <2>7, WorkerStep
<1>6. ASSUME EraseFails(r) PROVE StickyInv'
  <2>1. comments' = comments
    BY <1>6 DEF EraseFails, Happens, Clean, Without
  <2> QED BY <1>0, <1>6, <1>i, <2>1, EndSticky DEF EraseFails
<1> QED BY <1>1, <1>2, <1>3, <1>4, <1>5, <1>6


(* Recording the comment, moving the state, looking at the audience again. *)
LEMMA RecordSticky ==
    ASSUME Inv, StickyInv, NEW r \in Requests,
           Store(r) \/ MoveRead(r) \/ MoveWrite(r) \/ Recheck(r) \/ Stop(r)
    PROVE  StickyInv'
<1>0. Works(r)
  BY DEF Store, MoveRead, MoveWrite, Recheck, Stop, Works
<1>f. /\ job[r] \in Job /\ job[r].mode \in Modes
      /\ job[r].snap \in Row /\ job[r].snap # None
      /\ row \in Row /\ row # None
  BY <1>0, AtWork DEF WorkLabels, Works, Inv, TypeOK
<1>i. incidents \subseteq incidents'
  BY DEF Store, MoveRead, MoveWrite, Recheck, Stop, Happens
<1>d. ASSUME ~Clean' PROVE StickyInv'
  BY <1>d DEF StickyInv
<1> SUFFICES ASSUME Clean' PROVE StickyInv'
  BY <1>d
<1>c. Clean /\ Alone /\ Recorded /\ Agreed /\ Keeps(r)
  BY <1>i, CleanBefore DEF StickyInv
<1>a. ASSUME NEW c \in Requests, comments[c] # None, pc[r] # "store" PROVE row.comment = c
  BY <1>0, <1>a, <1>c DEF Recorded, Alone, Works
<1>1. ASSUME Store(r) PROVE StickyInv'
  <2>0. UNCHANGED <<comments, consent>> /\ pc[r] = "store" BY <1>1 DEF Store
  <2>1. PICK d \in SUBSET Transcripts : row' = [row EXCEPT !.comment = job[r].posted, !.digest = d]
    BY <1>1 DEF Store, Inv, TypeOK
  <2>2. row'.comment = job[r].posted /\ row'.state = row.state
    BY <1>f, <2>1 DEF Row
  <2>3. row' # None
    <3>1. job[r].posted \in Requests \union {None} BY <1>f DEF Job
    <3> QED BY <1>f, <2>1, <3>1, AttachmentAssumption DEF Row
  <2>4. ASSUME NEW c \in Requests, comments'[c] # None PROVE row'.comment = c
    <3>1. job[r].mode # "detach" BY <1>c, <2>0, <2>4 DEF Keeps, NoComment
    <3>2. job[r].posted = Target(r) /\ job[r].snap.comment = row.comment
      BY <1>c, <2>0, <3>1 DEF Keeps, Holding
    <3>3. row.comment = c \/ job[r].posted = c
      BY <1>0, <1>c, <2>0, <2>4 DEF Recorded, Alone, Works
    <3> QED BY <2>2, <3>2, <3>3, AttachmentAssumption DEF Target
  <2>5. Recorded' BY <2>3, <2>4 DEF Recorded
  <2>6. Agreed'
    <3>1. ASSUME NEW c \in Requests, comments'[c] \notin {None, {}} PROVE consent'
      BY <1>c, <2>0, <3>1 DEF Agreed
    <3>2. ASSUME row'.state = "attached" PROVE consent'
      BY <1>c, <1>f, <2>0, <2>2, <3>2 DEF Agreed
    <3> QED BY <3>1, <3>2 DEF Agreed
  <2>7. CASE Return(r)
    BY <1>0, <1>i, <2>5, <2>6, <2>7, Returned, WorkerStep
  <2>8. CASE Continue(r, "moveRead", job[r])
    <3>1. Others(r) /\ pc'[r] = "moveRead" /\ job'[r] = job[r] BY <2>8, WentOn DEF Continue
    <3>2. ASSUME job[r].mode \in {"attach", "refresh"} PROVE consent'
      BY <1>0, <1>c, <2>0, <3>2 DEF Keeps
    <3>3. ASSUME job[r].mode = "detach" PROVE NoComment'
      BY <1>c, <2>0, <3>3 DEF Keeps, NoComment
    <3>4. Keeps(r)' BY <3>1, <3>2, <3>3 DEF Keeps, Holding
    <3> QED BY <1>0, <1>i, <2>5, <2>6, <3>1, <3>4, WorkerStep
  <2> QED BY <1>1, <2>7, <2>8 DEF Store
<1>2. ASSUME MoveRead(r) PROVE StickyInv'
  <2>0. UNCHANGED <<row, comments, consent>> /\ pc[r] = "moveRead" BY <1>2 DEF MoveRead
  <2>1. CASE Return(r) BY <1>0, <1>i, <2>0, <2>1, EndSticky
  <2>2. CASE ~Return(r)
    <3> DEFINE j == [job[r] EXCEPT !.from = row.state]
    <3>1. Continue(r, "moveWrite", j) BY <1>2, <2>2 DEF MoveRead
    <3>2. j.mode = job[r].mode BY <1>f DEF Job
    <3> HIDE DEF j
    <3>3. pc'[r] = "moveWrite" /\ job'[r] = j BY <3>1, WentOn DEF Continue
    <3>4. ASSUME job'[r].mode \in {"attach", "refresh"} PROVE consent'
      BY <1>0, <1>c, <2>0, <3>2, <3>3, <3>4 DEF Keeps
    <3>5. ASSUME job'[r].mode = "detach" PROVE NoComment'
      BY <1>c, <2>0, <3>2, <3>3, <3>5 DEF Keeps, NoComment
    <3>6. Keeps(r)' BY <3>3, <3>4, <3>5 DEF Keeps, Holding
    <3> QED BY <1>0, <1>i, <2>0, <3>1, <3>6, OnSticky
  <2> QED BY <2>1, <2>2
<1>3. ASSUME MoveWrite(r) PROVE StickyInv'
  <2> DEFINE moved == [row EXCEPT !.state = Goal(job[r].mode)]
  <2>0. UNCHANGED comments /\ pc[r] = "moveWrite" BY <1>3 DEF MoveWrite
  <2>1. moved.comment = row.comment /\ moved.state = Goal(job[r].mode) /\ moved \in Row
    BY <1>f, GoalState DEF Row
  <2>2. row' \in {row, moved} /\ row' # None /\ row'.comment = row.comment
    BY <1>3, <1>f, <2>1, AttachmentAssumption DEF MoveWrite
  <2>3. Recorded' BY <1>a, <2>0, <2>2 DEF Recorded
  <2>4. ASSUME consent, Goal(job[r].mode) # "detached" \/ ~Moves(r) PROVE consent'
    BY <1>3, <2>4 DEF MoveWrite
  <2>5. Goal(job[r].mode) = "detached" => job[r].mode = "detach"
    BY <1>f DEF Goal, Modes
  <2>5a. Goal(job[r].mode) = "attached" => job[r].mode \in {"attach", "refresh"}
    BY <1>f DEF Goal, Modes
  <2>m. row' = IF Moves(r) THEN moved ELSE row BY <1>3 DEF MoveWrite
  <2>6. Agreed'
    <3>1. ASSUME NEW c \in Requests, comments'[c] \notin {None, {}} PROVE consent'
      <4>1. consent BY <1>c, <2>0, <3>1 DEF Agreed
      <4>2. job[r].mode # "detach" BY <1>c, <2>0, <3>1 DEF Keeps, NoComment
      <4> QED BY <2>4, <2>5, <4>1, <4>2
    <3>2. ASSUME row'.state = "attached" PROVE consent'
      <4>1. CASE ~Moves(r)
        <5>1. consent BY <1>c, <1>f, <2>m, <3>2, <4>1 DEF Agreed
        <5> QED BY <2>4, <2>m, <4>1, <5>1
      <4>2. CASE Moves(r)
        <5>1. Goal(job[r].mode) = "attached" BY <2>1, <2>m, <3>2, <4>2
        <5>2. job[r].mode \in {"attach", "refresh"} BY <2>5a, <5>1
        <5>3. consent BY <1>0, <1>c, <5>2 DEF Keeps
        <5> QED BY <2>4, <5>1, <5>3
      <4> QED BY <4>1, <4>2
    <3> QED BY <3>1, <3>2 DEF Agreed
  <2>7. CASE Return(r)
    BY <1>0, <1>i, <2>3, <2>6, <2>7, Returned, WorkerStep
  <2>8. CASE ~Return(r)
    <3> DEFINE j == [job[r] EXCEPT !.snap = moved]
    <3>1. Continue(r, "recheck", j) /\ job[r].mode = "attach" /\ Moves(r)
      BY <1>3, <2>8 DEF MoveWrite
    <3>2. j.snap = moved /\ j.mode = "attach"
      BY <1>f, <3>1 DEF Job
    <3> HIDE DEF j
    <3>3. Others(r) /\ pc'[r] = "recheck" /\ job'[r] = j BY <3>1, WentOn DEF Continue
    <3>4. consent'
      <4>1. consent BY <1>0, <1>c, <3>1 DEF Keeps
      <4> QED BY <2>4, <2>5, <3>1, <4>1
    <3>5. job'[r].snap.comment = row'.comment BY <2>1, <2>2, <3>2, <3>3
    <3>6. Keeps(r)' BY <3>2, <3>3, <3>4, <3>5 DEF Keeps
    <3> QED BY <1>0, <1>i, <2>3, <2>6, <3>3, <3>6, WorkerStep
  <2> QED BY <2>7, <2>8
<1>4. ASSUME Recheck(r) PROVE StickyInv'
  <2>0. UNCHANGED <<row, comments, consent>> /\ pc[r] = "recheck" BY <1>4 DEF Recheck
  <2>1. CASE Return(r) BY <1>0, <1>i, <2>0, <2>1, EndSticky
  <2>2. CASE ~Return(r)
    <3> DEFINE j == [NoJob EXCEPT !.mode = "refresh", !.why = "force", !.snap = job[r].snap]
    <3>1. Continue(r, "match", j) BY <1>4, <2>2 DEF Recheck
    <3>2. j.mode = "refresh" /\ j.snap = job[r].snap BY DEF NoJob
    <3> HIDE DEF j
    <3>3. pc'[r] = "match" /\ job'[r] = j BY <3>1, WentOn DEF Continue
    <3>4. job'[r].snap.comment = row'.comment
      BY <1>c, <2>0, <3>2, <3>3 DEF Keeps, Holding
    <3>5. consent'
      BY <1>0, <1>c, <2>0 DEF Keeps
    <3>6. Keeps(r)' BY <3>2, <3>3, <3>4, <3>5 DEF Keeps
    <3> QED BY <1>0, <1>i, <2>0, <3>1, <3>6, OnSticky
  <2> QED BY <2>1, <2>2
<1>5. ASSUME Stop(r) PROVE StickyInv'
  BY <1>5 DEF Stop, Happens, Clean, Without
<1> QED BY <1>1, <1>2, <1>3, <1>4, <1>5


(* Every step keeps the comment recorded and consented to. *)
LEMMA StickyStep == ASSUME Inv, StickyInv, [Next]_vars PROVE StickyInv'
<1>1. ASSUME NEW r \in Requests, Enter(r) PROVE StickyInv'
  BY <1>1, EnterSticky
<1>2. ASSUME NEW r \in Requests, Work(r) PROVE StickyInv'
  BY <1>2, QueueSticky, PrepareSticky, PostSticky, RecordSticky DEF Work
<1>3. ASSUME UNCHANGED vars PROVE StickyInv'
  BY <1>3 DEF vars, StickyInv, Clean, Without, Alone, Works, Recorded, Agreed, Keeps, Holding,
              Target, NoComment
<1> QED BY <1>1, <1>2, <1>3 DEF Next, Finished

(* It holds initially: nobody works and there is no comment. *)
LEMMA StickyInit == ASSUME Init PROVE StickyInv
  BY DEF Init, StickyInv, Alone, Works, Recorded, Agreed, Keeps, Holding

(* Two comments would both be the recorded one, or one of them is about to be
   recorded by the only request at work, which posted to the recorded one. *)
LEMMA StickyOne == ASSUME Inv, StickyInv PROVE OneComment
<1> SUFFICES ASSUME Clean, NEW q \in Requests, NEW r \in Requests,
                    comments[q] # None, comments[r] # None
             PROVE  q = r
  BY DEF OneComment, Clean
<1>1. Alone /\ Recorded /\ \A p \in Requests : Keeps(p) BY DEF StickyInv
<1>2. ASSUME NEW p \in Requests, pc[p] = "store", NEW c \in Requests, comments[c] # None
      PROVE  c = job[p].posted
  <2>1. Keeps(p) BY <1>1
  <2>2. job[p].mode # "detach" BY <1>2, <2>1 DEF Keeps, NoComment
  <2>3. job[p].posted = Target(p) /\ job[p].snap.comment = row.comment
    BY <1>2, <2>1, <2>2 DEF Keeps, Holding
  <2>4. (row # None /\ row.comment = c) \/ job[p].posted = c
    BY <1>1, <1>2 DEF Recorded, Alone, Works
  <2> QED BY <2>3, <2>4, AttachmentAssumption DEF Target
<1>3. CASE \E p \in Requests : pc[p] = "store"
  BY <1>2, <1>3
<1>4. CASE \A p \in Requests : pc[p] # "store"
  BY <1>1, <1>4 DEF Recorded
<1> QED BY <1>3, <1>4

(* The pull request carries one sticky comment: whatever number of requests of
   whatever kinds run, as long as none overlapped another's work and no performed
   call went unrecorded, UpsertIssueComment creates a comment only when none is
   there, and detachAttachment deletes the one there is. *)
THEOREM OneStickyComment == Spec => []OneComment
<1>1. Inv /\ StickyInv => OneComment BY StickyOne
<1>2. Init => Inv /\ StickyInv BY InvInit, StickyInit
<1>3. (Inv /\ StickyInv) /\ [Next]_vars => (Inv /\ StickyInv)'
  BY InvStep, StickyStep
<1> QED BY <1>1, <1>2, <1>3, PTL DEF Spec

(* A comment quotes prompts only while the author's confirmation, publish or
   setting stands: a click posts a preview, which quotes none, and a detach
   deletes the comment before it withdraws the consent. *)
THEOREM PromptsQuotedByConsent == Spec => []QuotedByConsent
<1>1. StickyInv => QuotedByConsent
  BY DEF StickyInv, Clean, Agreed, QuotedByConsent
<1>2. Init => Inv /\ StickyInv BY InvInit, StickyInit
<1>3. (Inv /\ StickyInv) /\ [Next]_vars => (Inv /\ StickyInv)'
  BY InvStep, StickyStep
<1> QED BY <1>1, <1>2, <1>3, PTL DEF Spec


------------------------------------------------------------------------------
(* The listing, when nothing goes wrong. *)

Perfect == Without(Incidents)

(* A visibility change of t that has yet to reach the attachment. *)
Pends(q, t) ==
    \/ pc[q] = "list" /\ job[q].kind = "visibility" /\ job[q].about = t
    \/ pc[q] = "lock" /\ job[q].kind = "visibility"

(* S quotes the bound transcripts anyone can read, but for visibility changes on
   their way. *)
Follows(S) ==
    /\ S \subseteq bound
    /\ \A t \in bound : ~(t \in S <=> t \in public) => \E q \in Requests : Pends(q, t)

Carries(S) == row.comment # None /\ comments[row.comment] = S

(* What the pull request shows for a row on which nobody works. *)
AtRest ==
    /\ row.state = "attached" => /\ row.comment # None
                                 /\ \E S \in SUBSET Transcripts : Carries(S) /\ Follows(S)
                                 /\ row.digest = bound
    /\ row.state = "preview" => Carries({})
    /\ row.state \notin {"attached", "preview"} => NoComment

(* How far an attach is: it binds exactly what it built, posts what was public
   then, and looks again once the row says it is attached. *)
Attaches(r) ==
    /\ pc[r] \in {"match", "build", "clear", "bind", "post", "store", "moveRead", "moveWrite",
                  "recheck"}
    /\ pc[r] = "recheck" => row.state = "attached"
    /\ pc[r] # "recheck" => row.state \in {"requested", "waiting", "preview"}
    /\ pc[r] \in {"match", "build", "clear", "bind", "post"} => AtRest
    /\ pc[r] # "match" => job[r].dig \subseteq live
    /\ pc[r] = "bind" => bound \union job[r].todo = job[r].dig
    /\ pc[r] \in {"post", "store", "moveRead", "moveWrite", "recheck"} => bound = job[r].dig
    /\ pc[r] = "store" => comments[job[r].posted] = job[r].shown
    /\ pc[r] \in {"moveRead", "moveWrite", "recheck"} => Carries(job[r].shown) /\ row.digest = bound

(* How far a refresh is: a visibility change after it built finds the attachment
   attached and the transcript bound, and queues. *)
Refreshes(r) ==
    /\ pc[r] \in {"match", "bind", "build", "post", "store", "moveRead", "moveWrite"}
    /\ row.state = "attached" /\ row.comment # None
    /\ pc[r] = "match" /\ job[r].why # "force" => AtRest
    /\ pc[r] # "match" => job[r].dig \subseteq live
    /\ pc[r] = "bind" => bound \union job[r].todo = job[r].dig
    /\ pc[r] \in {"build", "post", "store", "moveRead", "moveWrite"} => bound = job[r].dig
    /\ pc[r] \in {"post", "store", "moveRead", "moveWrite"} => Follows(job[r].shown)
    /\ pc[r] = "store" => comments[job[r].posted] = job[r].shown
    /\ pc[r] \in {"moveRead", "moveWrite"} => Carries(job[r].shown) /\ row.digest = bound

(* How far a preview is. *)
Previews(r) ==
    /\ pc[r] \in {"build", "post", "store", "moveRead", "moveWrite"}
    /\ row.state # "attached" /\ row.state = job[r].snap.state
    /\ pc[r] \in {"build", "post"} => AtRest /\ job[r].dig \subseteq live
    /\ pc[r] = "store" => comments[job[r].posted] = {}
    /\ pc[r] \in {"moveRead", "moveWrite"} => Carries({}) /\ row.state # "preview"

(* A detach, and a click that finds nothing. *)
Detaches(r) ==
    /\ pc[r] \in {"erase", "store", "moveRead", "moveWrite"}
    /\ CanTransition(row.state, "detached")

Waits(r) ==
    /\ pc[r] \in {"match", "moveRead", "moveWrite"}
    /\ row.state # "attached" /\ row.state = job[r].snap.state
    /\ AtRest
    /\ pc[r] # "match" => CanTransition(row.state, "waiting")

Progress(r) ==
    /\ job[r].mode = "attach" => Attaches(r)
    /\ job[r].mode = "refresh" => Refreshes(r)
    /\ job[r].mode = "preview" => Previews(r)
    /\ job[r].mode = "detach" => Detaches(r)
    /\ job[r].mode \in {"click", "consent"} => Waits(r)
    /\ pc[r] = "moveWrite" => job[r].from = row.state

CurrentInv ==
    Perfect => /\ \A r \in Requests : pc[r] # "deleting" /\ (Works(r) => Progress(r))
               /\ row = None => NoComment
               /\ row # None /\ (\A r \in Requests : ~Works(r)) => AtRest

(* Incidents are never taken back. *)
LEMMA PerfectBefore == ASSUME incidents \subseteq incidents', Perfect' PROVE Perfect /\ Clean
  BY DEF Perfect, Clean, Without, Incidents

(* The step of the request that works. *)
LEMMA WorkerCurrent ==
    ASSUME StickyInv, CurrentInv, NEW r \in Requests, Works(r), Others(r),
           incidents \subseteq incidents', row' # None, pc'[r] # "deleting",
           Perfect' /\ Works(r)' => Progress(r)', Perfect' /\ ~Works(r)' => AtRest'
    PROVE  CurrentInv'
<1> SUFFICES ASSUME Perfect'
             PROVE  /\ \A q \in Requests : pc'[q] # "deleting" /\ (Works(q)' => Progress(q)')
                    /\ (\A q \in Requests : ~Works(q)') => AtRest'
  BY DEF CurrentInv
<1>1. Alone BY PerfectBefore DEF StickyInv
<1>2. \A q \in Requests : pc[q] # "deleting" BY PerfectBefore DEF CurrentInv
<1>3. ASSUME NEW q \in Requests, q # r PROVE ~Works(q)' /\ pc'[q] # "deleting"
  BY <1>1, <1>2, <1>3 DEF Alone, Others, Works
<1> QED BY <1>3

(* The step of a request that starts to work. *)
LEMMA StartCurrent ==
    ASSUME CurrentInv, NEW r \in Requests, Others(r), StartsWork(r), row' # None,
           ~Works(r), Works(r)',
           Perfect /\ (row = None => NoComment) /\ (row # None => AtRest) => Progress(r)'
    PROVE  CurrentInv'
<1>0. incidents \subseteq incidents' BY DEF StartsWork, Happens
<1> SUFFICES ASSUME Perfect'
             PROVE  \A q \in Requests : pc'[q] # "deleting" /\ (Works(q)' => Progress(q)')
  BY DEF CurrentInv
<1>1. Perfect BY <1>0, PerfectBefore
<1>2. ASSUME NEW q \in Requests \ {r} PROVE ~Works(q) /\ ~Works(q)' /\ pc'[q] # "deleting"
  BY <1>1, <1>2 DEF StartsWork, Happens, Perfect, Without, Incidents, Others, Works, CurrentInv
<1>3. Progress(r)' BY <1>1, <1>2 DEF CurrentInv
<1>4. pc'[r] # "deleting" BY DEF Works
<1> QED BY <1>2, <1>3, <1>4


(* The row keeps its digest too, and what follows the bindings still does. *)
Undisturbed ==
    /\ RowStands
    /\ row # None => row'.digest = row.digest
    /\ comments' = comments /\ bound' = bound /\ live \subseteq live'
    /\ row # None /\ row.state = "attached"
          => \A S \in SUBSET Transcripts : Follows(S) => Follows(S)'

(* What the pull request shows survives the steps of the requests beside. *)
LEMMA RestStands ==
    ASSUME Undisturbed, row # None, AtRest PROVE AtRest'
<1>0. /\ row'.state = row.state /\ row'.comment = row.comment /\ row'.digest = row.digest
      /\ comments' = comments /\ bound' = bound
  BY DEF Undisturbed, RowStands
<1>1. ASSUME row.state = "attached"
      PROVE  \E S \in SUBSET Transcripts : Carries(S)' /\ Follows(S)'
  <2>1. PICK S \in SUBSET Transcripts : Carries(S) /\ Follows(S) BY <1>1 DEF AtRest
  <2>2. Carries(S)' BY <1>0, <2>1 DEF Carries
  <2>3. Follows(S)' BY <1>1, <2>1 DEF Undisturbed
  <2> QED BY <2>2, <2>3
<1>2. row.state = "preview" => Carries({})' BY <1>0 DEF AtRest, Carries
<1>3. row.state \notin {"attached", "preview"} => NoComment' BY <1>0 DEF AtRest, NoComment
<1>4. row.state = "attached" => row.comment # None /\ row.digest = bound BY DEF AtRest
<1> QED BY <1>0, <1>1, <1>2, <1>3, <1>4 DEF AtRest

(* And so does the progress of the request at work. *)
LEMMA ProgressStands ==
    ASSUME Inv, Undisturbed, NEW q \in Requests, Works(q), Progress(q),
           pc'[q] = pc[q], job'[q] = job[q]
    PROVE  Progress(q)'
<1>0. row # None /\ job[q] \in Job
  BY AtWork DEF WorkLabels, Works, Inv, TypeOK
<1>1. /\ row'.state = row.state /\ row'.comment = row.comment /\ row'.digest = row.digest
      /\ comments' = comments /\ bound' = bound /\ live \subseteq live'
  BY <1>0 DEF Undisturbed, RowStands
<1>2. AtRest => AtRest' BY <1>0, RestStands
<1>3. \A S : Carries(S) => Carries(S)' BY <1>1 DEF Carries
<1>4. ASSUME row.state = "attached", Follows(job[q].shown) PROVE Follows(job[q].shown)'
  <2>1. PICK S \in SUBSET Transcripts : S = job[q].shown BY <1>0 DEF Job
  <2>2. Follows(S)' BY <1>0, <1>4, <2>1 DEF Undisturbed
  <2> QED BY <2>1, <2>2 DEF Follows
<1>6. ASSUME job[q].mode = "attach" PROVE Attaches(q)'
  BY <1>1, <1>2, <1>3, <1>6 DEF Progress, Attaches
<1>7. ASSUME job[q].mode = "refresh" PROVE Refreshes(q)'
  <2>1. Refreshes(q) BY <1>7 DEF Progress
  <2> QED BY <1>1, <1>2, <1>3, <1>4, <2>1 DEF Refreshes
<1>8. ASSUME job[q].mode = "preview" PROVE Previews(q)'
  BY <1>1, <1>2, <1>3, <1>8 DEF Progress, Previews
<1>9. ASSUME job[q].mode = "detach" PROVE Detaches(q)'
  BY <1>1, <1>9 DEF Progress, Detaches
<1>10. ASSUME job[q].mode \in {"click", "consent"} PROVE Waits(q)'
  BY <1>1, <1>2, <1>10 DEF Progress, Waits
<1> QED BY <1>1, <1>6, <1>7, <1>8, <1>9, <1>10 DEF Progress

(* The step of a request that is not at work and does not start. *)
LEMMA IdleCurrent ==
    ASSUME Inv, CurrentInv, NEW r \in Requests, ~Works(r), ~Works(r)', pc'[r] # "deleting",
           Others(r), incidents \subseteq incidents', Perfect => Undisturbed
    PROVE  CurrentInv'
<1> SUFFICES ASSUME Perfect'
             PROVE  /\ \A q \in Requests : pc'[q] # "deleting" /\ (Works(q)' => Progress(q)')
                    /\ row' = None => NoComment'
                    /\ row' # None /\ (\A q \in Requests : ~Works(q)') => AtRest'
  BY DEF CurrentInv
<1>1. Perfect /\ Undisturbed BY PerfectBefore
<1>2. ASSUME NEW q \in Requests PROVE pc'[q] # "deleting" /\ (Works(q)' => Progress(q)')
  <2>1. CASE q = r BY <2>1
  <2>2. CASE q # r
    <3>1. pc'[q] = pc[q] /\ job'[q] = job[q] BY <2>2 DEF Others
    <3>2. Works(q)' <=> Works(q) BY <3>1 DEF Works
    <3>3. pc[q] # "deleting" /\ (Works(q) => Progress(q)) BY <1>1 DEF CurrentInv
    <3> QED BY <1>1, <3>1, <3>2, <3>3, ProgressStands
  <2> QED BY <2>1, <2>2
<1>3. ASSUME row' = None PROVE NoComment'
  BY <1>1, <1>3 DEF CurrentInv, Undisturbed, RowStands, NoComment
<1>4. ASSUME row' # None, \A q \in Requests : ~Works(q)' PROVE AtRest'
  <2>1. CASE row = None
    <3>1. NoComment' BY <1>1, <2>1 DEF CurrentInv, Undisturbed, NoComment
    <3>2. row'.state = "requested" BY <1>1, <1>4, <2>1 DEF Undisturbed, RowStands
    <3> QED BY <3>1, <3>2 DEF AtRest
  <2>2. CASE row # None
    <3>1. \A q \in Requests : ~Works(q) BY <1>4 DEF Others, Works
    <3> QED BY <1>1, <2>2, <3>1, RestStands DEF CurrentInv
  <2> QED BY <2>1, <2>2
<1> QED BY <1>2, <1>3, <1>4


(* What follows the bindings still does when no visibility change is dropped. *)
LEMMA PendingStands ==
    ASSUME NEW r \in Requests, Others(r), bound' = bound, public' = public,
           \A t \in bound : Pends(r, t) => Pends(r, t)'
    PROVE  \A S : Follows(S) => Follows(S)'
<1> SUFFICES ASSUME NEW S, Follows(S) PROVE Follows(S)'
  OBVIOUS
<1>1. ASSUME NEW t \in bound, ~(t \in S <=> t \in public) PROVE \E q \in Requests : Pends(q, t)'
  <2>1. PICK q \in Requests : Pends(q, t) BY <1>1 DEF Follows
  <2>2. CASE q = r BY <2>1, <2>2
  <2>3. CASE q # r
    BY <2>1, <2>3 DEF Others, Pends
  <2> QED BY <2>2, <2>3
<1> QED BY <1>1 DEF Follows

(* The pull request at rest is at rest for the row a command acts on. *)
LEMMA EnsuredAtRest ==
    ASSUME Inv, NEW r \in Requests, Others(r), pc[r] = "idle", row' = Ensured,
           UNCHANGED <<bound, public, live, comments>>,
           row = None => NoComment, row # None => AtRest
    PROVE  AtRest'
<1>1. CASE row = None
  <2>1. row'.state = "requested" BY <1>1 DEF Ensured
  <2> QED BY <1>1, <2>1 DEF AtRest, NoComment
<1>2. CASE row # None
  <2>1. row' = row BY <1>2 DEF Ensured
  <2>2. \A S : Follows(S) => Follows(S)' BY PendingStands DEF Pends
  <2>3. Undisturbed BY <2>1, <2>2 DEF Undisturbed, RowStands
  <2> QED BY <1>2, <2>3, RestStands
<1> QED BY <1>1, <1>2

(* Entering leaves what the pull request shows. *)
LEMMA EnterCurrent == ASSUME Inv, CurrentInv, NEW r \in Requests, Enter(r) PROVE CurrentInv'
<1> USE DEF Begins
<1>e. ASSUME Others(r), pc[r] = "idle", row' = Ensured, UNCHANGED <<bound, public, live, comments>>
      PROVE  Undisturbed
  <2>1. \A S : Follows(S) => Follows(S)' BY <1>e, PendingStands DEF Pends
  <2>2. RowStands BY <1>e, EnsuredStands
  <2>3. row # None => row' = row BY <1>e DEF Ensured
  <2> QED BY <1>e, <2>1, <2>2, <2>3 DEF Undisturbed
<1>s. ASSUME Others(r), pc[r] = "idle", row' = row, live \subseteq live',
             UNCHANGED <<bound, public, comments>>
      PROVE  Undisturbed
  <2>1. \A S : Follows(S) => Follows(S)' BY <1>s, PendingStands DEF Pends
  <2> QED BY <1>s, <2>1, SameStands DEF Undisturbed
<1>1. ASSUME Ask(r) PROVE CurrentInv'
  <2>1. Others(r) /\ pc'[r] = "done" /\ ~Works(r)' BY <1>1, Returned DEF Ask
  <2>2. Undisturbed BY <1>1, <1>e, <2>1 DEF Ask
  <2> QED BY <1>1, <2>1, <2>2, IdleCurrent DEF Ask, Works
<1>2. ASSUME AttachCommand(r) PROVE CurrentInv'
  <2>1. PICK why \in {"new", "head"} :
             Continue(r, "match",
                        [NoJob EXCEPT !.mode = IF Ensured.state = "attached" THEN "refresh" ELSE "click",
                                      !.why = why, !.snap = Ensured])
    BY <1>2 DEF AttachCommand
  <2> DEFINE j == [NoJob EXCEPT !.mode = IF Ensured.state = "attached" THEN "refresh" ELSE "click",
                                !.why = why, !.snap = Ensured]
  <2>2. Others(r) /\ pc'[r] = "match" /\ job'[r] = j
    BY <2>1, WentOn DEF Continue
  <2>3. /\ j.snap = Ensured /\ j.why = why
        /\ j.mode = IF Ensured.state = "attached" THEN "refresh" ELSE "click"
    BY DEF NoJob
  <2> HIDE DEF j
  <2>4. row' = Ensured /\ row' # None /\ Works(r)' /\ ~Works(r)
    BY <1>2, <2>2, EnsuredRow DEF AttachCommand, Works
  <2>5. ASSUME row = None => NoComment, row # None => AtRest PROVE Progress(r)'
    <3>1. AtRest' BY <1>2, <2>2, <2>5, EnsuredAtRest DEF AttachCommand
    <3>2. CASE Ensured.state = "attached"
      <4>1. Refreshes(r)'
        BY <2>2, <2>3, <2>4, <3>1, <3>2 DEF Refreshes, AtRest
      <4> QED BY <2>2, <2>3, <3>2, <4>1 DEF Progress
    <3>3. CASE Ensured.state # "attached"
      <4>1. Waits(r)'
        BY <2>2, <2>3, <2>4, <3>1, <3>3 DEF Waits
      <4> QED BY <2>2, <2>3, <3>3, <4>1 DEF Progress
    <3> QED BY <3>2, <3>3
  <2> QED BY <1>2, <2>2, <2>4, <2>5, StartCurrent DEF AttachCommand
<1>3. ASSUME DetachCommand(r) PROVE CurrentInv'
  <2>0. row' = Ensured /\ row' # None BY <1>3, EnsuredRow DEF DetachCommand
  <2>1. CASE ~CanTransition(Ensured.state, "detached")
    <3>1. Others(r) /\ pc'[r] = "done" /\ ~Works(r)' BY <1>3, <2>1, Returned DEF DetachCommand
    <3>2. Undisturbed BY <1>3, <1>e, <3>1 DEF DetachCommand
    <3> QED BY <1>3, <2>1, <3>1, <3>2, IdleCurrent DEF DetachCommand, Works
  <2>2. CASE CanTransition(Ensured.state, "detached")
    <3> DEFINE j == [NoJob EXCEPT !.mode = "detach", !.snap = Ensured]
    <3>1. Others(r) /\ pc'[r] = "erase" /\ job'[r] = j
      BY <1>3, <2>2, WentOn DEF DetachCommand, Continue
    <3>2. j.snap = Ensured /\ j.mode = "detach"
      BY DEF NoJob
    <3> HIDE DEF j
    <3>3. CanTransition(row.state, "detached")' BY <2>0, <2>2 DEF CanTransition
    <3>4. Detaches(r)' BY <3>1, <3>3 DEF Detaches
    <3>5. Progress(r)' BY <3>1, <3>2, <3>4 DEF Progress
    <3> QED BY <1>3, <2>0, <2>2, <3>1, <3>5, StartCurrent DEF DetachCommand, Works
  <2> QED BY <2>1, <2>2
<1>4. ASSUME Push(r) PROVE CurrentInv'
  <2>1. PICK why \in {"new", "head"} :
             Continue(r, "match", [NoJob EXCEPT !.mode = "refresh", !.why = why, !.snap = row])
    BY <1>4 DEF Push
  <2> DEFINE j == [NoJob EXCEPT !.mode = "refresh", !.why = why, !.snap = row]
  <2>2. Others(r) /\ pc'[r] = "match" /\ job'[r] = j
    BY <2>1, WentOn DEF Continue
  <2>3. j.snap = row /\ j.mode = "refresh" /\ j.why = why
    BY DEF NoJob
  <2> HIDE DEF j
  <2>4. row # None /\ row.state = "attached" /\ row' = row
    BY <1>4, AttachmentAssumption DEF Push, State, States
  <2>5. ASSUME AtRest PROVE Progress(r)'
    <3>1. AtRest' BY <1>4, <1>s, <2>2, <2>4, <2>5, RestStands DEF Push
    <3>2. Refreshes(r)' BY <2>2, <2>3, <2>4, <3>1 DEF Refreshes, AtRest
    <3> QED BY <2>2, <2>3, <3>2 DEF Progress
  <2> QED BY <1>4, <2>2, <2>4, <2>5, StartCurrent DEF Push, Works
<1>5. ASSUME NEW k \in {"confirm", "unlink", "refresh", "opened"}, Queue(r, k) PROVE CurrentInv'
  <2>1. Others(r) /\ pc'[r] = "lock"
    BY <1>5, WentOn DEF Queue, Continue
  <2>2. Undisturbed BY <1>5, <1>e, <1>s, <2>1 DEF Queue
  <2> QED BY <1>5, <2>1, <2>2, IdleCurrent DEF Queue, Works
<1>6. ASSUME NEW t \in Transcripts, Publish(r, t) PROVE CurrentInv'
  <2>1. Others(r) /\ pc'[r] = "list"
    BY <1>6, WentOn DEF Publish, Continue
  <2>2. Undisturbed BY <1>6, <1>s, <2>1 DEF Publish
  <2> QED BY <1>6, <2>1, <2>2, IdleCurrent DEF Publish, Works
<1>7. ASSUME NEW t \in Transcripts, ChangeVisibility(r, t) PROVE CurrentInv'
  <2> DEFINE j == [NoJob EXCEPT !.kind = "visibility", !.about = t]
  <2>0. j.kind = "visibility" /\ j.about = t BY DEF NoJob
  <2>1. Others(r) /\ pc'[r] = "list" /\ job'[r] = j
    BY <1>7, WentOn DEF ChangeVisibility, Continue
  <2> HIDE DEF j
  <2>2. ASSUME NEW S, Follows(S) PROVE Follows(S)'
    <3>1. ASSUME NEW u \in bound, ~(u \in S <=> u \in public')
          PROVE  \E q \in Requests : Pends(q, u)'
      <4>1. CASE u = t
        <5>1. Pends(r, u)' BY <2>0, <2>1, <4>1 DEF Pends
        <5> QED BY <5>1
      <4>2. CASE u # t
        <5>1. ~(u \in S <=> u \in public) BY <1>7, <3>1, <4>2 DEF ChangeVisibility
        <5>2. PICK q \in Requests : Pends(q, u) BY <2>2, <5>1 DEF Follows
        <5>3. q # r BY <1>7, <5>2 DEF Pends, ChangeVisibility
        <5>4. Pends(q, u)' BY <2>1, <5>2, <5>3 DEF Pends, Others
        <5> QED BY <5>4
      <4> QED BY <4>1, <4>2
    <3> QED BY <1>7, <2>2, <3>1 DEF Follows, ChangeVisibility
  <2>3. Undisturbed BY <1>7, <2>2, SameStands DEF Undisturbed, ChangeVisibility
  <2> QED BY <1>7, <2>1, <2>3, IdleCurrent DEF ChangeVisibility, Works
<1>8. ASSUME NEW t \in Transcripts, DeleteLists(r, t) PROVE CurrentInv'
  BY <1>8 DEF DeleteLists, Happens, CurrentInv, Perfect, Without, Incidents
<1> QED BY <1>1, <1>2, <1>3, <1>4, <1>5, <1>6, <1>7, <1>8 DEF Enter


(* Queueing and the lock: a visibility change leaves the queue only when the
   attachment is not attached or does not bind the transcript, or for a refresh
   that reposts whatever it finds. *)
LEMMA QueueCurrent ==
    ASSUME Inv, CurrentInv, NEW r \in Requests,
           ListAttachments(r) \/ DeleteCommits(r) \/ DeleteRollsBack(r) \/ Acquire(r)
    PROVE  CurrentInv'
<1>1. ASSUME ListAttachments(r) PROVE CurrentInv'
  <2> DEFINE j == [job[r] EXCEPT !.about = None]
  <2>0. j.kind = job[r].kind BY DEF Inv, TypeOK, Job
  <2>1. /\ Others(r) /\ pc'[r] \in {"lock", "done"}
        /\ pc'[r] = "lock" => job'[r] = j
    BY <1>1, WentOn, Returned DEF ListAttachments, Continue
  <2>2. ASSUME row # None, row.state = "attached" PROVE \A S : Follows(S) => Follows(S)'
    <3>1. ASSUME NEW t \in bound, Pends(r, t) PROVE Pends(r, t)'
      <4>1. job[r].kind = "visibility" /\ job[r].about = t
        BY <1>1, <3>1 DEF ListAttachments, Pends
      <4>2. Continue(r, "lock", j)
        BY <1>1, <2>2, <3>1, <4>1 DEF ListAttachments, State
      <4> HIDE DEF j
      <4>3. pc'[r] = "lock" /\ job'[r] = j BY <4>2, WentOn DEF Continue
      <4> QED BY <2>0, <4>1, <4>3 DEF Pends
    <3> QED BY <1>1, <2>1, <3>1, PendingStands DEF ListAttachments
  <2>3. Undisturbed BY <1>1, <2>2, SameStands DEF Undisturbed, ListAttachments
  <2> QED BY <1>1, <2>1, <2>3, IdleCurrent DEF ListAttachments, Works
<1>2. ASSUME DeleteCommits(r) \/ DeleteRollsBack(r) PROVE CurrentInv'
  BY <1>2, PerfectBefore DEF DeleteCommits, DeleteRollsBack, CurrentInv
<1>3. ASSUME Acquire(r) PROVE CurrentInv'
  <2> DEFINE m == LockedMode(job[r].kind, row.state)
  <2>0. /\ row \in Row /\ row # None /\ pc[r] = "lock"
        /\ UNCHANGED <<row, bound, public, live, comments>>
    BY <1>3 DEF Acquire, Inv, TypeOK, Loaded
  <2>1. ASSUME Others(r), row.state # "attached" \/ job[r].kind # "visibility"
        PROVE  Undisturbed
    <3>1. ASSUME row.state = "attached" PROVE \A S : Follows(S) => Follows(S)'
      BY <2>0, <2>1, <3>1, PendingStands DEF Pends
    <3> QED BY <2>0, <3>1, SameStands DEF Undisturbed
  <2>2. CASE m = None
    <3>1. row.state # "attached" \/ job[r].kind # "visibility"
      BY <2>2, AttachmentAssumption DEF LockedMode, Modes
    <3>2. Return(r) /\ UNCHANGED incidents BY <1>3, <2>2 DEF Acquire
    <3>3. Others(r) /\ pc'[r] = "done" BY <3>2, Returned
    <3> QED BY <2>0, <2>1, <3>1, <3>2, <3>3, IdleCurrent DEF Works
  <2>3. CASE m # None
    <3>1. /\ m \in {"attach", "detach", "refresh", "consent"}
          /\ m = "attach" => row.state = "preview"
          /\ m = "detach" => CanTransition(row.state, "detached")
          /\ m = "refresh" => row.state = "attached"
          /\ m = "consent" => row.state # "attached"
      BY <2>3 DEF LockedMode
    <3> HIDE DEF m
    <3>2. PICK why \in CASE m # "refresh" \/ job[r].kind = "publish" -> {"new"}
                         [] job[r].kind = "opened" -> {"new", "head"}
                         [] OTHER -> {"force"} :
             job' = [job EXCEPT ![r] = [NoJob EXCEPT !.mode = m, !.why = why, !.snap = row]]
      BY <1>3, <2>3, Zenon DEF Acquire, m
    <3>3. m = "refresh" /\ job[r].kind = "visibility" => why = "force"
      BY <3>2
    <3> DEFINE j == [NoJob EXCEPT !.mode = m, !.why = why, !.snap = row]
               label == IF m = "detach" THEN "erase" ELSE "match"
    <3>4. j.mode = m /\ j.snap = row /\ j.why = why
      BY DEF NoJob
    <3>5. Goto(r, label) /\ StartsWork(r)
      BY <1>3, <2>3 DEF Acquire, m
    <3>6. job' = [job EXCEPT ![r] = j] BY <3>2
    <3> HIDE DEF j
    <3>7. Others(r) /\ pc'[r] = label /\ job'[r] = j
      BY <3>5, <3>6, WentOn
    <3>8. ASSUME AtRest PROVE Progress(r)'
      <4>1. ASSUME row.state # "attached" \/ job[r].kind # "visibility" PROVE AtRest'
        BY <2>0, <2>1, <3>7, <3>8, <4>1, RestStands
      <4>2. CASE m = "attach"
        <5>1. Attaches(r)' BY <2>0, <3>1, <3>7, <4>1, <4>2 DEF Attaches
        <5> QED BY <3>4, <3>7, <4>2, <5>1 DEF Progress
      <4>3. CASE m = "detach"
        <5>1. CanTransition(row.state, "detached")' BY <2>0, <3>1, <4>3 DEF CanTransition
        <5>2. Detaches(r)' BY <3>7, <4>3, <5>1 DEF Detaches
        <5> QED BY <3>4, <3>7, <4>3, <5>2 DEF Progress
      <4>4. CASE m = "refresh"
        <5>1. row.comment # None BY <3>1, <3>8, <4>4 DEF AtRest
        <5>2. job'[r].why # "force" => AtRest' BY <3>3, <3>4, <3>7, <4>1, <4>4
        <5>3. Refreshes(r)' BY <2>0, <3>1, <3>7, <4>4, <5>1, <5>2 DEF Refreshes
        <5> QED BY <3>4, <3>7, <4>4, <5>3 DEF Progress
      <4>5. CASE m = "consent"
        <5>1. Waits(r)' BY <2>0, <3>1, <3>4, <3>7, <4>1, <4>5 DEF Waits
        <5> QED BY <3>4, <3>7, <4>5, <5>1 DEF Progress
      <4> QED BY <3>1, <4>2, <4>3, <4>4, <4>5
    <3> QED BY <2>0, <3>5, <3>7, <3>8, StartCurrent DEF Works
  <2> QED BY <2>2, <2>3
<1> QED BY <1>1, <1>2, <1>3


(* A request at work drops no visibility change. *)
LEMMA WorkerPends ==
    ASSUME NEW r \in Requests, Works(r), Others(r), UNCHANGED <<bound, public>>
    PROVE  \A S : Follows(S) => Follows(S)'
  BY PendingStands DEF Works, Pends

(* What it does not touch, it leaves at rest. *)
LEMMA WorkerRests ==
    ASSUME NEW r \in Requests, Works(r), Others(r), row # None, AtRest,
           UNCHANGED <<row, comments, public, live>>,
           bound' = bound \/ row.state # "attached"
    PROVE  AtRest'
<1>1. CASE bound' = bound
  <2>1. Undisturbed BY <1>1, WorkerPends, SameStands DEF Undisturbed
  <2> QED BY <2>1, RestStands
<1>2. CASE row.state # "attached"
  BY <1>2 DEF AtRest, Carries, NoComment
<1> QED BY <1>1, <1>2

(* Matching, building and binding. *)
LEMMA PrepareCurrent ==
    ASSUME Inv, StickyInv, CurrentInv, NEW r \in Requests,
           \/ MatchRefresh(r) \/ MatchNothing(r) \/ MatchAccepted(r) \/ MatchFails(r)
           \/ Build(r) \/ Clear(r) \/ Bind(r)
    PROVE  CurrentInv'
<1>0. pc[r] \in {"match", "build", "clear", "bind"} /\ Works(r)
  BY DEF MatchRefresh, MatchNothing, MatchAccepted, MatchFails, Build, Clear, Bind, Works
<1>f. /\ job[r] \in Job /\ job[r].mode \in Modes
      /\ job[r].snap \in Row /\ row # None /\ row \in Row
  BY <1>0, AtWork DEF WorkLabels, PcValues
<1>t. live \subseteq Transcripts /\ bound \subseteq live /\ public \subseteq live
  BY DEF Inv, TypeOK
<1>i. /\ incidents \subseteq incidents'
      /\ UNCHANGED <<row, comments, public, live>>
  BY DEF MatchRefresh, MatchNothing, MatchAccepted, MatchFails, Build, Clear, Bind, Happens
<1>d. ASSUME ~Perfect' PROVE CurrentInv'
  BY <1>d DEF CurrentInv
<1> SUFFICES ASSUME Perfect' PROVE CurrentInv'
  BY <1>d
<1>c. Perfect /\ Progress(r) /\ Keeps(r)
  BY <1>0, <1>i, PerfectBefore DEF CurrentInv, StickyInv
<1>r. ASSUME Return(r), AtRest, bound' = bound PROVE CurrentInv'
  <2>1. Others(r) /\ pc'[r] = "done" /\ ~Works(r)' BY <1>r, Returned
  <2>2. AtRest' BY <1>0, <1>f, <1>i, <1>r, <2>1, WorkerRests
  <2> QED BY <1>0, <1>f, <1>i, <2>1, <2>2, WorkerCurrent
<1>w. ASSUME Others(r), Progress(r)', row' # None, pc'[r] # "deleting", Works(r)' PROVE CurrentInv'
  BY <1>0, <1>i, <1>w, WorkerCurrent
<1>1. ASSUME MatchRefresh(r) PROVE CurrentInv'
  <2>0. job[r].mode = "refresh" /\ Refreshes(r) /\ pc[r] = "match" /\ bound' = bound
    BY <1>1, <1>c DEF MatchRefresh, Progress
  <2>1. CASE Return(r)
    <3>1. job[r].why # "force"
      BY <1>1, <2>1, Returned, WentOn DEF MatchRefresh, Continue
    <3> QED BY <1>r, <2>0, <2>1, <3>1 DEF Refreshes
  <2>2. CASE ~Return(r)
    <3> DEFINE newly == live \ bound
               j == [job[r] EXCEPT !.todo = newly, !.fresh = newly, !.dig = bound \union newly]
               label == IF newly = {} THEN "build" ELSE "bind"
    <3>1. Continue(r, label, j) BY <1>1, <2>2 DEF MatchRefresh
    <3>2. /\ j.mode = "refresh" /\ j.todo = newly /\ j.dig = bound \union newly
      BY <1>f, <2>0 DEF Job
    <3>3. label \in {"build", "bind"} /\ (label = "build" => newly = {})
      OBVIOUS
    <3> HIDE DEF j, label
    <3>4. Others(r) /\ pc'[r] = label /\ job'[r] = j BY <3>1, WentOn DEF Continue
    <3>5. Refreshes(r)' BY <1>i, <1>t, <2>0, <3>2, <3>3, <3>4 DEF Refreshes
    <3>6. Progress(r)' BY <3>2, <3>3, <3>4, <3>5 DEF Progress
    <3> QED BY <1>f, <1>i, <1>w, <3>3, <3>4, <3>6 DEF Works
  <2> QED BY <2>1, <2>2
<1>2. ASSUME MatchNothing(r) PROVE CurrentInv'
  <2>0. /\ job[r].mode \in {"click", "consent", "attach"} /\ pc[r] = "match" /\ bound' = bound
        /\ AtRest /\ (job[r].mode # "attach" => Waits(r))
    BY <1>2, <1>c DEF MatchNothing, Progress, Attaches, Waits
  <2>1. CASE Return(r) BY <1>r, <2>0, <2>1
  <2>2. CASE ~Return(r)
    <3>1. /\ Continue(r, "moveRead", job[r]) /\ job[r].mode # "attach"
          /\ CanTransition(job[r].snap.state, "waiting")
      BY <1>2, <2>2 DEF MatchNothing
    <3>2. Others(r) /\ pc'[r] = "moveRead" /\ job'[r] = job[r] BY <3>1, WentOn DEF Continue
    <3>3. AtRest' BY <1>0, <1>f, <1>i, <2>0, <3>2, WorkerRests
    <3>4. CanTransition(row.state, "waiting")'
      BY <1>i, <2>0, <3>1 DEF Waits, CanTransition
    <3>5. Waits(r)' BY <1>i, <2>0, <3>1, <3>2, <3>3, <3>4 DEF Waits
    <3>6. Progress(r)' BY <2>0, <3>1, <3>2, <3>5 DEF Progress
    <3> QED BY <1>f, <1>i, <1>w, <3>2, <3>6 DEF Works
  <2> QED BY <2>1, <2>2
<1>3. ASSUME MatchAccepted(r) PROVE CurrentInv'
  <2> DEFINE a == [job[r] EXCEPT !.mode = "attach"]
             b == [job[r] EXCEPT !.mode = IF @ = "attach" THEN @ ELSE "preview", !.dig = live]
             completes == job[r].mode = "consent" /\ job[r].snap.state \in {"requested", "waiting"}
  <2>0. /\ job[r].mode \in {"click", "consent", "attach"} /\ pc[r] = "match" /\ bound' = bound
        /\ AtRest /\ (job[r].mode # "attach" => Waits(r)) /\ (job[r].mode = "attach" => Attaches(r))
    BY <1>3, <1>c DEF MatchAccepted, Progress, Attaches, Waits
  <2>1. CASE completes
    <3>1. Continue(r, "match", a) BY <1>3, <2>1 DEF MatchAccepted
    <3>2. a.mode = "attach" BY <1>f DEF Job
    <3> HIDE DEF a
    <3>3. Others(r) /\ pc'[r] = "match" /\ job'[r] = a BY <3>1, WentOn DEF Continue
    <3>4. AtRest' BY <1>0, <1>f, <1>i, <2>0, <3>3, WorkerRests
    <3>5. row.state \in {"requested", "waiting"} BY <2>0, <2>1 DEF Waits
    <3>6. Attaches(r)' BY <1>i, <3>3, <3>4, <3>5 DEF Attaches
    <3>7. Progress(r)' BY <3>2, <3>3, <3>6 DEF Progress
    <3> QED BY <1>f, <1>i, <1>w, <3>3, <3>7 DEF Works
  <2>2. CASE ~completes
    <3>1. Continue(r, "build", b) BY <1>3, <2>2 DEF MatchAccepted
    <3>2. /\ b.mode = IF job[r].mode = "attach" THEN "attach" ELSE "preview"
          /\ b.dig = live /\ b.snap = job[r].snap
      BY <1>f, <1>t DEF Job
    <3> HIDE DEF b, completes
    <3>3. Others(r) /\ pc'[r] = "build" /\ job'[r] = b BY <3>1, WentOn DEF Continue
    <3>4. AtRest' BY <1>0, <1>f, <1>i, <2>0, <3>3, WorkerRests
    <3>5. ASSUME job[r].mode = "attach" PROVE Attaches(r)'
      BY <1>i, <2>0, <3>2, <3>3, <3>4, <3>5 DEF Attaches
    <3>6. ASSUME job[r].mode # "attach" PROVE Previews(r)'
      BY <1>i, <2>0, <3>2, <3>3, <3>4, <3>6 DEF Previews, Waits
    <3>7. Progress(r)' BY <3>2, <3>3, <3>5, <3>6 DEF Progress
    <3> QED BY <1>f, <1>i, <1>w, <3>3, <3>7 DEF Works
  <2> QED BY <2>1, <2>2
<1>4. ASSUME MatchFails(r) PROVE CurrentInv'
  BY <1>4 DEF MatchFails, Happens, Perfect, Without, Incidents
<1>5. ASSUME Build(r) PROVE CurrentInv'
  <2> DEFINE j == [job[r] EXCEPT !.shown = job[r].dig \intersect public]
             label == IF job[r].mode = "attach" THEN "clear" ELSE "post"
  <2>0. pc[r] = "build" /\ bound' = bound /\ job[r].mode \in {"preview", "attach", "refresh"}
    BY <1>5, <1>c DEF Build, Keeps
  <2>1. job[r].dig \subseteq live
    BY <1>c, <2>0 DEF Progress, Attaches, Refreshes, Previews
  <2>2. Continue(r, label, j) BY <1>5, <2>1 DEF Build
  <2>3. /\ j.mode = job[r].mode /\ j.dig = job[r].dig /\ j.snap = job[r].snap
        /\ j.shown = job[r].dig \intersect public
    BY <1>f DEF Job
  <2>4. label \in {"clear", "post"} /\ (label = "clear" <=> job[r].mode = "attach")
    OBVIOUS
  <2> HIDE DEF j, label
  <2>5. Others(r) /\ pc'[r] = label /\ job'[r] = j BY <2>2, WentOn DEF Continue
  <2>6. AtRest => AtRest' BY <1>0, <1>f, <1>i, <2>0, <2>5, WorkerRests
  <2>7. ASSUME job[r].mode = "attach" PROVE Attaches(r)'
    BY <1>c, <1>i, <2>0, <2>1, <2>3, <2>4, <2>5, <2>6, <2>7 DEF Progress, Attaches
  <2>8. ASSUME job[r].mode = "preview" PROVE Previews(r)'
    BY <1>c, <1>i, <2>0, <2>1, <2>3, <2>4, <2>5, <2>6, <2>8 DEF Progress, Previews
  <2>9. ASSUME job[r].mode = "refresh" PROVE Refreshes(r)'
    <3>1. Refreshes(r) BY <1>c, <2>9 DEF Progress
    <3>2. job[r].dig = bound BY <2>0, <3>1 DEF Refreshes
    <3>3. Follows(job[r].shown)' BY <1>i, <2>0, <2>3, <2>5, <3>2 DEF Follows
    <3> QED BY <1>i, <2>0, <2>1, <2>3, <2>4, <2>5, <2>9, <3>1, <3>2, <3>3 DEF Refreshes
  <2>10. Progress(r)' BY <2>0, <2>3, <2>4, <2>5, <2>7, <2>8, <2>9 DEF Progress
  <2> QED BY <1>f, <1>i, <1>w, <2>4, <2>5, <2>10 DEF Works
<1>6. ASSUME Clear(r) PROVE CurrentInv'
  <2> DEFINE j == [job[r] EXCEPT !.todo = job[r].dig]
  <2>0. pc[r] = "clear" /\ bound' = {} /\ job[r].mode = "attach" /\ Attaches(r)
    BY <1>6, <1>c DEF Clear, Keeps, Progress, Refreshes, Previews
  <2>1. Continue(r, "bind", j) BY <1>6 DEF Clear
  <2>2. j.mode = "attach" /\ j.dig = job[r].dig /\ j.todo = job[r].dig
    BY <1>f, <2>0 DEF Job
  <2> HIDE DEF j
  <2>3. Others(r) /\ pc'[r] = "bind" /\ job'[r] = j BY <2>1, WentOn DEF Continue
  <2>4. AtRest' BY <1>0, <1>f, <1>i, <2>0, <2>3, WorkerRests DEF Attaches
  <2>5. Attaches(r)' BY <1>i, <2>0, <2>2, <2>3, <2>4 DEF Attaches
  <2>6. Progress(r)' BY <2>2, <2>3, <2>5 DEF Progress
  <2> QED BY <1>f, <1>i, <1>w, <2>3, <2>6 DEF Works
<1>7. ASSUME Bind(r) PROVE CurrentInv'
  <2>0. pc[r] = "bind" /\ job[r].mode \in {"attach", "refresh"}
    BY <1>7, <1>c DEF Bind, Keeps, Progress, Previews
  <2>1. job[r].dig \subseteq live /\ bound \union job[r].todo = job[r].dig
    BY <1>c, <2>0 DEF Progress, Attaches, Refreshes
  <2>2. PICK t \in job[r].todo :
           /\ bound' = bound \union {t}
           /\ Continue(r, IF job[r].todo \ {t} # {} THEN "bind"
                          ELSE IF job[r].mode = "attach" THEN "post" ELSE "build",
                       [job[r] EXCEPT !.todo = job[r].todo \ {t}])
    BY <1>7, <2>1 DEF Bind, Bindable
  <2> DEFINE j == [job[r] EXCEPT !.todo = job[r].todo \ {t}]
             label == IF job[r].todo \ {t} # {} THEN "bind"
                      ELSE IF job[r].mode = "attach" THEN "post" ELSE "build"
  <2>3. j.mode = job[r].mode /\ j.dig = job[r].dig /\ j.todo = job[r].todo \ {t}
    BY <1>f DEF Job
  <2>4. /\ label \in {"bind", "post", "build"}
        /\ label # "bind" => job[r].todo \ {t} = {}
        /\ label = "post" => job[r].mode = "attach"
        /\ label = "build" => job[r].mode # "attach"
    OBVIOUS
  <2>5. Continue(r, label, j) BY <2>2
  <2> HIDE DEF j, label
  <2>6. Others(r) /\ pc'[r] = label /\ job'[r] = j BY <2>5, WentOn DEF Continue
  <2>7. /\ bound' \union job'[r].todo = job'[r].dig
        /\ label # "bind" => bound' = job'[r].dig
    BY <2>1, <2>2, <2>3, <2>4, <2>6
  <2>8. ASSUME job[r].mode = "attach" PROVE Attaches(r)'
    <3>1. Attaches(r) BY <1>c, <2>8 DEF Progress
    <3>2. AtRest' BY <1>0, <1>f, <1>i, <2>0, <2>6, <3>1, WorkerRests DEF Attaches
    <3> QED BY <1>i, <2>0, <2>1, <2>3, <2>4, <2>6, <2>7, <2>8, <3>1, <3>2 DEF Attaches
  <2>9. ASSUME job[r].mode = "refresh" PROVE Refreshes(r)'
    <3>1. Refreshes(r) BY <1>c, <2>9 DEF Progress
    <3> QED BY <1>i, <2>0, <2>1, <2>3, <2>4, <2>6, <2>7, <2>9, <3>1 DEF Refreshes
  <2>10. Progress(r)' BY <2>0, <2>3, <2>4, <2>6, <2>8, <2>9 DEF Progress
  <2> QED BY <1>f, <1>i, <1>w, <2>4, <2>6, <2>10 DEF Works
<1> QED BY <1>1, <1>2, <1>3, <1>4, <1>5, <1>6, <1>7


(* The calls to GitHub: a post puts up what was built, and any failure is an
   incident. *)
LEMMA PostCurrent ==
    ASSUME Inv, StickyInv, CurrentInv, NEW r \in Requests,
           \/ Post(r) \/ PostFails(r) \/ PostLost(r) \/ Unbind(r) \/ Erase(r) \/ EraseFails(r)
    PROVE  CurrentInv'
<1>0. pc[r] \in {"post", "unbind", "erase"} /\ Works(r)
  BY DEF Post, PostFails, PostLost, Unbind, Erase, EraseFails, Works
<1>f. /\ job[r] \in Job /\ job[r].mode \in Modes /\ job[r].snap \in Row /\ row # None
  BY <1>0, AtWork DEF WorkLabels, PcValues
<1>i. incidents \subseteq incidents' /\ UNCHANGED <<row, public, live>>
  BY DEF Post, PostFails, PostLost, Unbind, Erase, EraseFails, Happens
<1>d. ASSUME ~Perfect' PROVE CurrentInv'
  BY <1>d DEF CurrentInv
<1> SUFFICES ASSUME Perfect' PROVE CurrentInv'
  BY <1>d
<1>c. Perfect /\ Progress(r) /\ Keeps(r)
  BY <1>0, <1>i, PerfectBefore DEF CurrentInv, StickyInv
<1>1. ASSUME Post(r) PROVE CurrentInv'
  <2> DEFINE j == [job[r] EXCEPT !.posted = Target(r)]
  <2>1. /\ j.snap = job[r].snap /\ j.mode = job[r].mode /\ j.posted = Target(r)
        /\ j.dig = job[r].dig /\ j.shown = job[r].shown
    BY <1>f DEF Job
  <2>2. Others(r) /\ pc'[r] = "store" /\ job'[r] = j
    BY <1>1, WentOn DEF Post, Continue
  <2> HIDE DEF j
  <2>3. /\ comments' = [comments EXCEPT ![Target(r)] = Listing(r)]
        /\ bound' = bound /\ pc[r] = "post"
    BY <1>1 DEF Post, Upsert
  <2>4. Target(r) \in Requests /\ comments \in [Requests -> (SUBSET Transcripts) \union {None}]
    BY <1>f DEF Target, Row, Inv, TypeOK
  <2>5. comments'[job'[r].posted] = Listing(r) BY <2>1, <2>2, <2>3, <2>4
  <2>6. job[r].mode \in {"preview", "attach", "refresh"} BY <1>c, <2>3 DEF Keeps
  <2>7. ASSUME job[r].mode = "attach" PROVE Attaches(r)'
    BY <1>c, <1>i, <2>1, <2>2, <2>3, <2>5, <2>7 DEF Progress, Attaches, Listing
  <2>8. ASSUME job[r].mode = "preview" PROVE Previews(r)'
    BY <1>c, <1>i, <2>1, <2>2, <2>3, <2>5, <2>8 DEF Progress, Previews, Listing
  <2>9. ASSUME job[r].mode = "refresh" PROVE Refreshes(r)'
    <3>1. Refreshes(r) BY <1>c, <2>9 DEF Progress
    <3>2. Follows(job[r].shown) BY <2>3, <3>1 DEF Refreshes
    <3>3. \A S : Follows(S) => Follows(S)' BY <1>0, <1>i, <2>2, <2>3, WorkerPends
    <3>4. Follows(job[r].shown)' BY <2>1, <2>2, <3>2, <3>3 DEF Follows
    <3> QED BY <1>i, <2>1, <2>2, <2>3, <2>5, <2>9, <3>1, <3>4 DEF Refreshes, Listing
  <2>10. Progress(r)' BY <2>1, <2>2, <2>6, <2>7, <2>8, <2>9 DEF Progress
  <2> QED BY <1>0, <1>f, <1>i, <2>2, <2>10, WorkerCurrent DEF Works
<1>2. ASSUME PostFails(r) \/ PostLost(r) \/ EraseFails(r) PROVE CurrentInv'
  BY <1>2 DEF PostFails, PostLost, EraseFails, Happens, Perfect, Without, Incidents
<1>3. ASSUME Unbind(r) PROVE CurrentInv'
  BY <1>3, <1>c DEF Unbind, Keeps, Progress, Attaches, Refreshes, Previews
<1>4. ASSUME Erase(r) PROVE CurrentInv'
  <2> DEFINE j == [job[r] EXCEPT !.posted = None]
  <2>1. j.mode = job[r].mode
    BY <1>f DEF Job
  <2>2. Others(r) /\ pc'[r] = "store" /\ job'[r] = j
    BY <1>4, WentOn DEF Erase, Continue
  <2> HIDE DEF j
  <2>3. job[r].mode = "detach" /\ Detaches(r)
    BY <1>4, <1>c DEF Erase, Keeps, Progress
  <2>4. CanTransition(row.state, "detached")' BY <1>i, <2>3 DEF Detaches, CanTransition
  <2>5. Detaches(r)' BY <2>2, <2>4 DEF Detaches
  <2>6. Progress(r)' BY <2>1, <2>2, <2>3, <2>5 DEF Progress
  <2> QED BY <1>0, <1>f, <1>i, <2>2, <2>6, WorkerCurrent DEF Works
<1> QED BY <1>1, <1>2, <1>3, <1>4

(* Recording the result, moving the state, looking at the audience again. *)
LEMMA RecordCurrent ==
    ASSUME Inv, StickyInv, CurrentInv, NEW r \in Requests,
           Store(r) \/ MoveRead(r) \/ MoveWrite(r) \/ Recheck(r) \/ Stop(r)
    PROVE  CurrentInv'
<1>0. Works(r)
  BY DEF Store, MoveRead, MoveWrite, Recheck, Stop, Works
<1>f. /\ job[r] \in Job /\ job[r].mode \in Modes
      /\ job[r].snap \in Row /\ row \in Row /\ row # None
  BY <1>0, AtWork DEF WorkLabels, Works, Inv, TypeOK
<1>t. live \subseteq Transcripts /\ bound \subseteq live /\ public \subseteq live
  BY DEF Inv, TypeOK
<1>i. incidents \subseteq incidents' /\ UNCHANGED <<bound, comments, public, live>>
  BY DEF Store, MoveRead, MoveWrite, Recheck, Stop, Happens
<1>d. ASSUME ~Perfect' PROVE CurrentInv'
  BY <1>d DEF CurrentInv
<1> SUFFICES ASSUME Perfect' PROVE CurrentInv'
  BY <1>d
<1>c. Perfect /\ Progress(r) /\ Keeps(r)
  BY <1>0, <1>i, PerfectBefore DEF CurrentInv, StickyInv
<1>g. ASSUME Others(r), Refreshes(r), pc[r] \in {"store", "moveRead", "moveWrite"},
             job'[r].shown = job[r].shown
      PROVE  Follows(job[r].shown)'
  <2>1. Follows(job[r].shown) BY <1>g DEF Refreshes
  <2>2. \A S : Follows(S) => Follows(S)' BY <1>0, <1>g, <1>i, WorkerPends
  <2> QED BY <1>g, <2>1, <2>2 DEF Follows
<1>1. ASSUME Store(r) PROVE CurrentInv'
  <2>0. pc[r] = "store" BY <1>1 DEF Store
  <2>1. PICK d \in SUBSET Transcripts :
          /\ row' = [row EXCEPT !.comment = job[r].posted, !.digest = d]
          /\ d = (IF job[r].mode = "detach" THEN job[r].snap.digest ELSE job[r].dig) \intersect live
    BY <1>1, <1>t DEF Store
  <2>2. row'.comment = job[r].posted /\ row'.state = row.state /\ row'.digest = d
    BY <1>f, <2>1 DEF Row
  <2>3. row' # None
    <3>1. job[r].posted \in Requests \union {None} BY <1>f DEF Job
    <3> QED BY <1>f, <2>1, <3>1, AttachmentAssumption DEF Row
  <2>4. job[r].mode # "detach" => job[r].posted # None
    BY <1>c, <2>0, AttachmentAssumption DEF Keeps, Target
  <2>5. job[r].mode \in {"attach", "refresh", "preview", "detach"}
    BY <1>c, <1>f, <2>0 DEF Progress, Waits, Modes
  <2>6. CASE Return(r)
    <3>1. job[r].mode = "preview" /\ job[r].snap.state = "preview"
      BY <1>1, <2>6, Returned, WentOn DEF Store, Continue
    <3>2. Previews(r) BY <1>c, <3>1 DEF Progress
    <3>3. AtRest' BY <1>i, <2>0, <2>2, <2>4, <3>1, <3>2 DEF Previews, AtRest, Carries
    <3> QED BY <1>0, <1>i, <2>3, <2>6, <3>3, Returned, WorkerCurrent
  <2>7. CASE ~Return(r)
    <3>1. /\ Continue(r, "moveRead", job[r])
          /\ ~(job[r].mode = "preview" /\ job[r].snap.state = "preview")
      BY <1>1, <2>7 DEF Store
    <3>2. Others(r) /\ pc'[r] = "moveRead" /\ job'[r] = job[r] BY <3>1, WentOn DEF Continue
    <3>3. ASSUME job[r].mode \in {"attach", "refresh"} PROVE Carries(job[r].shown)' /\ row'.digest = bound'
      <4>1. comments[job[r].posted] = job[r].shown /\ bound = job[r].dig /\ job[r].dig \subseteq live
        BY <1>c, <2>0, <3>3 DEF Progress, Attaches, Refreshes
      <4>2. d = bound BY <2>1, <3>3, <4>1
      <4> QED BY <1>i, <2>2, <2>4, <3>2, <3>3, <4>1, <4>2 DEF Carries
    <3>4. ASSUME job[r].mode = "attach" PROVE Attaches(r)'
      BY <1>c, <1>i, <2>0, <2>2, <3>2, <3>3, <3>4 DEF Progress, Attaches
    <3>5. ASSUME job[r].mode = "refresh" PROVE Refreshes(r)'
      <4>1. Refreshes(r) BY <1>c, <3>5 DEF Progress
      <4>2. Follows(job[r].shown)' BY <1>g, <2>0, <3>2, <4>1
      <4> QED BY <1>i, <2>0, <2>2, <2>4, <3>2, <3>3, <3>5, <4>1, <4>2 DEF Refreshes
    <3>6. ASSUME job[r].mode = "preview" PROVE Previews(r)'
      BY <1>c, <1>i, <2>0, <2>2, <2>4, <3>1, <3>2, <3>6 DEF Progress, Previews, Carries
    <3>7. ASSUME job[r].mode = "detach" PROVE Detaches(r)'
      <4>1. CanTransition(row.state, "detached")'
        BY <1>c, <2>2, <3>7 DEF Progress, Detaches, CanTransition
      <4> QED BY <3>2, <4>1 DEF Detaches
    <3>8. Progress(r)' BY <2>5, <3>2, <3>4, <3>5, <3>6, <3>7 DEF Progress
    <3> QED BY <1>0, <1>i, <2>3, <3>2, <3>8, WorkerCurrent DEF Works
  <2> QED BY <2>6, <2>7
<1>2. ASSUME MoveRead(r) PROVE CurrentInv'
  <2>0. pc[r] = "moveRead" /\ row' = row BY <1>2 DEF MoveRead
  <2>1. CanTransition(row.state, Goal(job[r].mode))
    <3>1. CASE job[r].mode = "attach"
      <4>1. row.state \in {"requested", "waiting", "preview"} BY <1>c, <2>0, <3>1 DEF Progress, Attaches
      <4> QED BY <3>1, <4>1 DEF CanTransition, Goal
    <3>2. CASE job[r].mode = "refresh"
      <4>1. row.state = "attached" BY <1>c, <3>2 DEF Progress, Refreshes
      <4> QED BY <3>2, <4>1 DEF CanTransition, Goal
    <3>3. CASE job[r].mode = "preview"
      <4>1. row.state \in {"requested", "waiting", "detached"}
        BY <1>c, <1>f, <2>0, <3>3 DEF Progress, Previews, Row, States
      <4> QED BY <3>3, <4>1 DEF CanTransition, Goal
    <3>4. CASE job[r].mode = "detach"
      BY <1>c, <3>4 DEF Progress, Detaches, Goal
    <3>5. CASE job[r].mode \in {"click", "consent"}
      <4>1. CanTransition(row.state, "waiting") BY <1>c, <2>0, <3>5 DEF Progress, Waits
      <4> QED BY <3>5, <4>1 DEF Goal
    <3> QED BY <1>f, <3>1, <3>2, <3>3, <3>4, <3>5 DEF Modes
  <2> DEFINE j == [job[r] EXCEPT !.from = row.state]
  <2>2. Continue(r, "moveWrite", j) BY <1>2, <2>1 DEF MoveRead
  <2>3. /\ j.mode = job[r].mode /\ j.dig = job[r].dig /\ j.shown = job[r].shown
        /\ j.snap = job[r].snap /\ j.from = row.state
    BY <1>f DEF Job
  <2> HIDE DEF j
  <2>4. Others(r) /\ pc'[r] = "moveWrite" /\ job'[r] = j BY <2>2, WentOn DEF Continue
  <2>5. ASSUME Carries(job[r].shown) PROVE Carries(job[r].shown)'
    BY <1>i, <2>0, <2>3, <2>4, <2>5 DEF Carries
  <2>6. ASSUME job[r].mode = "attach" PROVE Attaches(r)'
    BY <1>c, <1>i, <2>0, <2>3, <2>4, <2>5, <2>6 DEF Progress, Attaches
  <2>7. ASSUME job[r].mode = "refresh" PROVE Refreshes(r)'
    <3>1. Refreshes(r) BY <1>c, <2>7 DEF Progress
    <3>2. Follows(job[r].shown)' BY <1>g, <2>0, <2>3, <2>4, <3>1
    <3> QED BY <1>i, <2>0, <2>3, <2>4, <2>5, <2>7, <3>1, <3>2 DEF Refreshes
  <2>8. ASSUME job[r].mode = "preview" PROVE Previews(r)'
    BY <1>c, <1>i, <2>0, <2>3, <2>4, <2>8 DEF Progress, Previews, Carries
  <2>9. ASSUME job[r].mode = "detach" PROVE Detaches(r)'
    <3>1. CanTransition(row.state, "detached")'
      BY <1>c, <2>0, <2>9 DEF Progress, Detaches, CanTransition
    <3> QED BY <2>4, <3>1 DEF Detaches
  <2>10. ASSUME job[r].mode \in {"click", "consent"} PROVE Waits(r)'
    <3>1. Waits(r) BY <1>c, <2>10 DEF Progress
    <3>2. AtRest' BY <1>0, <1>f, <1>i, <2>0, <2>4, <3>1, WorkerRests DEF Waits
    <3>3. CanTransition(row.state, "waiting")' BY <2>0, <3>1 DEF Waits, CanTransition
    <3> QED BY <2>0, <2>3, <2>4, <3>1, <3>2, <3>3 DEF Waits
  <2>11. Progress(r)'
    BY <1>f, <2>0, <2>3, <2>4, <2>6, <2>7, <2>8, <2>9, <2>10 DEF Progress, Modes
  <2> QED BY <1>0, <1>f, <1>i, <2>0, <2>4, <2>11, WorkerCurrent DEF Works
<1>3. ASSUME MoveWrite(r) PROVE CurrentInv'
  <2> DEFINE moved == [row EXCEPT !.state = Goal(job[r].mode)]
  <2>0. pc[r] = "moveWrite" /\ Moves(r) /\ row' = moved
    BY <1>3, <1>c DEF MoveWrite, Progress, Moves
  <2>1. /\ row'.comment = row.comment /\ row'.digest = row.digest
        /\ row'.state = Goal(job[r].mode) /\ row' # None
    BY <1>f, <2>0, GoalState, AttachmentAssumption DEF Row
  <2>2. CASE job[r].mode = "attach"
    <3> DEFINE j == [job[r] EXCEPT !.snap = moved]
    <3>1. Continue(r, "recheck", j) BY <1>3, <2>0, <2>2 DEF MoveWrite
    <3>2. j.mode = "attach" /\ j.dig = job[r].dig /\ j.shown = job[r].shown
      BY <1>f, <2>2 DEF Job
    <3> HIDE DEF j
    <3>3. Others(r) /\ pc'[r] = "recheck" /\ job'[r] = j BY <3>1, WentOn DEF Continue
    <3>4. row'.state = "attached" BY <2>1, <2>2 DEF Goal
    <3>5. Attaches(r) BY <1>c, <2>2 DEF Progress
    <3>6. Carries(job[r].shown)' BY <1>i, <2>0, <2>1, <3>2, <3>3, <3>5 DEF Carries, Attaches
    <3>7. Attaches(r)' BY <1>i, <2>0, <2>1, <3>2, <3>3, <3>4, <3>5, <3>6 DEF Attaches
    <3>8. Progress(r)' BY <3>2, <3>3, <3>7 DEF Progress
    <3> QED BY <1>0, <1>i, <2>1, <3>3, <3>8, WorkerCurrent DEF Works
  <2>3. CASE job[r].mode # "attach"
    <3>1. Return(r) BY <1>3, <2>3 DEF MoveWrite
    <3>2. Others(r) /\ pc'[r] = "done" /\ ~Works(r)' BY <3>1, Returned
    <3>3. CASE job[r].mode = "refresh"
      <4>1. Refreshes(r) BY <1>c, <3>3 DEF Progress
      <4>2. row'.state = "attached" BY <2>1, <3>3 DEF Goal
      <4>3. PICK S \in SUBSET Transcripts : S = job[r].shown BY <1>f DEF Job
      <4>4. Follows(S) /\ Carries(S) /\ row.digest = bound BY <2>0, <4>1, <4>3 DEF Refreshes
      <4>5. Follows(S)' BY <1>0, <1>i, <3>2, <4>4, WorkerPends
      <4>6. Carries(S)' BY <1>i, <2>1, <4>4 DEF Carries
      <4>7. AtRest' BY <1>i, <2>1, <4>2, <4>4, <4>5, <4>6 DEF AtRest, Carries
      <4> QED BY <1>0, <1>i, <2>1, <3>2, <4>7, WorkerCurrent
    <3>4. CASE job[r].mode = "preview"
      <4>1. Previews(r) BY <1>c, <3>4 DEF Progress
      <4>2. row'.state = "preview" BY <2>1, <3>4 DEF Goal
      <4>3. AtRest' BY <1>i, <2>0, <2>1, <4>1, <4>2 DEF AtRest, Carries, Previews
      <4> QED BY <1>0, <1>i, <2>1, <3>2, <4>3, WorkerCurrent
    <3>5. CASE job[r].mode = "detach"
      <4>1. NoComment BY <1>c, <2>0, <3>5 DEF Keeps
      <4>2. row'.state = "detached" BY <2>1, <3>5 DEF Goal
      <4>3. AtRest' BY <1>i, <4>1, <4>2 DEF AtRest, NoComment
      <4> QED BY <1>0, <1>i, <2>1, <3>2, <4>3, WorkerCurrent
    <3>6. CASE job[r].mode \in {"click", "consent"}
      <4>1. Waits(r) BY <1>c, <3>6 DEF Progress
      <4>2. row.state \in {"requested", "detached"}
        BY <1>f, <2>0, <4>1 DEF Waits, CanTransition, Row, States
      <4>3. NoComment BY <4>1, <4>2 DEF Waits, AtRest
      <4>4. row'.state = "waiting" BY <2>1, <3>6 DEF Goal
      <4>5. AtRest' BY <1>i, <4>3, <4>4 DEF AtRest, NoComment
      <4> QED BY <1>0, <1>i, <2>1, <3>2, <4>5, WorkerCurrent
    <3> QED BY <1>f, <2>3, <3>3, <3>4, <3>5, <3>6 DEF Modes
  <2> QED BY <2>2, <2>3
<1>4. ASSUME Recheck(r) PROVE CurrentInv'
  <2>0. pc[r] = "recheck" /\ row' = row /\ job[r].mode = "attach" BY <1>4, <1>c DEF Recheck, Keeps
  <2>1. Attaches(r) BY <1>c, <2>0 DEF Progress
  <2>2. CASE AudienceMoved(r)
    <3> DEFINE j == [NoJob EXCEPT !.mode = "refresh", !.why = "force", !.snap = job[r].snap]
    <3>1. Continue(r, "match", j) BY <1>4, <2>2 DEF Recheck
    <3>2. j.mode = "refresh" /\ j.why = "force" BY DEF NoJob
    <3> HIDE DEF j
    <3>3. Others(r) /\ pc'[r] = "match" /\ job'[r] = j BY <3>1, WentOn DEF Continue
    <3>4. Refreshes(r)' BY <2>0, <2>1, <3>2, <3>3 DEF Attaches, Refreshes, Carries
    <3>5. Progress(r)' BY <3>2, <3>3, <3>4 DEF Progress
    <3> QED BY <1>0, <1>f, <1>i, <2>0, <3>3, <3>5, WorkerCurrent DEF Works
  <2>3. CASE ~AudienceMoved(r)
    <3>1. Return(r) BY <1>4, <2>3 DEF Recheck
    <3>2. Others(r) /\ pc'[r] = "done" /\ ~Works(r)' BY <3>1, Returned
    <3>3. /\ job[r].shown = bound \intersect public /\ row.state = "attached"
          /\ Carries(job[r].shown) /\ row.digest = bound
      BY <2>0, <2>1, <2>3 DEF AudienceMoved, Attaches
    <3>4. PICK S \in SUBSET Transcripts : S = job[r].shown BY <1>f DEF Job
    <3>5. Follows(S)' BY <1>i, <3>3, <3>4 DEF Follows
    <3>6. Carries(S)' BY <1>i, <2>0, <3>3, <3>4 DEF Carries
    <3>7. AtRest' BY <1>i, <2>0, <3>3, <3>5, <3>6 DEF AtRest, Carries
    <3> QED BY <1>0, <1>f, <1>i, <2>0, <3>2, <3>7, WorkerCurrent
  <2> QED BY <2>2, <2>3
<1>5. ASSUME Stop(r) PROVE CurrentInv'
  BY <1>5 DEF Stop, Happens, Perfect, Without, Incidents
<1> QED BY <1>1, <1>2, <1>3, <1>4, <1>5


(* Every step keeps the pull request in line with its attachment. *)
LEMMA CurrentStep == ASSUME Inv, StickyInv, CurrentInv, [Next]_vars PROVE CurrentInv'
<1>1. ASSUME NEW r \in Requests, Enter(r) PROVE CurrentInv'
  BY <1>1, EnterCurrent
<1>2. ASSUME NEW r \in Requests, Work(r) PROVE CurrentInv'
  BY <1>2, QueueCurrent, PrepareCurrent, PostCurrent, RecordCurrent DEF Work
<1>3. ASSUME UNCHANGED vars PROVE CurrentInv'
  <2>1. \A S : Follows(S) => Follows(S)' BY <1>3 DEF vars, Follows, Pends
  <2>2. Undisturbed BY <1>3, <2>1, SameStands DEF vars, Undisturbed
  <2>3. ASSUME NEW q \in Requests PROVE Works(q)' <=> Works(q) BY <1>3 DEF vars, Works
  <2>4. ASSUME NEW q \in Requests, Works(q), Progress(q) PROVE Progress(q)'
    BY <1>3, <2>2, <2>4, ProgressStands DEF vars
  <2>5. row # None /\ AtRest => AtRest' BY <2>2, RestStands
  <2> QED BY <1>3, <2>3, <2>4, <2>5 DEF vars, CurrentInv, Perfect, Without, NoComment
<1> QED BY <1>1, <1>2, <1>3 DEF Next, Finished

(* At the start nothing is listed and nobody works. *)
LEMMA CurrentInit == ASSUME Init PROVE CurrentInv
  BY DEF Init, CurrentInv, Works, NoComment

(* With no request left, no visibility change is on its way. *)
LEMMA QuietCurrent == ASSUME Inv, CurrentInv PROVE ListingCurrent
<1> SUFFICES ASSUME Perfect, Quiet, row # None
             PROVE  CASE row.state = "attached" ->
                           /\ row.comment # None
                           /\ comments[row.comment] = bound \intersect public
                           /\ row.digest = bound
                      [] row.state = "preview" ->
                           /\ row.comment # None
                           /\ comments[row.comment] = {}
                      [] OTHER -> \A r \in Requests : comments[r] = None
  BY Zenon DEF ListingCurrent, Perfect
<1>1. AtRest
  BY DEF CurrentInv, Quiet, Works
<1>2. CASE row.state = "attached"
  <2>1. PICK S \in SUBSET Transcripts : Carries(S) /\ Follows(S) BY <1>1, <1>2 DEF AtRest
  <2>2. \A q \in Requests, t \in bound : ~Pends(q, t) BY DEF Quiet, Pends
  <2>3. S = bound \intersect public BY <2>1, <2>2 DEF Follows
  <2>4. row.comment # None /\ comments[row.comment] = bound \intersect public /\ row.digest = bound
    BY <1>1, <1>2, <2>1, <2>3 DEF Carries, AtRest
  <2> QED BY <1>2, <2>4
<1>3. CASE row.state = "preview"
  <2>1. row.comment # None /\ comments[row.comment] = {}
    BY <1>1, <1>3 DEF AtRest, Carries
  <2> QED BY <1>3, <2>1
<1>4. CASE row.state \notin {"attached", "preview"}
  <2>1. \A r \in Requests : comments[r] = None BY <1>1, <1>4 DEF AtRest, NoComment
  <2> QED BY <1>4, <2>1
<1> QED BY <1>2, <1>3, <1>4

(* However many requests queue, publish, change visibility or push, when nothing
   failed and nothing overlapped the finished work leaves the pull request showing
   what its attachment holds: the digests built before a change of audience are
   reposted, by the attach that looks again or by the change's own refresh. *)
THEOREM ListingStaysCurrent == Spec => []ListingCurrent
<1>1. Inv /\ CurrentInv => ListingCurrent BY QuietCurrent
<1>2. Init => Inv /\ StickyInv /\ CurrentInv BY InvInit, StickyInit, CurrentInit
<1>3. (Inv /\ StickyInv /\ CurrentInv) /\ [Next]_vars => (Inv /\ StickyInv /\ CurrentInv)'
  BY InvStep, StickyStep, CurrentStep
<1> QED BY <1>1, <1>2, <1>3, PTL DEF Spec
=============================================================================
