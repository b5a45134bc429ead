----------------------- MODULE PromptAttachmentProofs -----------------------
(***************************************************************************)
(* Type correctness of PromptAttachment, and that no race moves the state  *)
(* along an edge the transition table does not have, for any number of     *)
(* requests and transcripts and any subset of the faults.                  *)
(***************************************************************************)
EXTENDS PromptAttachment, TLAPS

WorkLabels == PcValues \ {"idle", "list", "lock", "deleting", "done"}

(* A request at work has a path and a row it read; the row exists from then on.
   A request about to write a state validated the edge from the state it read. *)
Loaded ==
    \A r \in Requests :
        /\ pc[r] \in WorkLabels => job[r].mode # None /\ job[r].snap # None
        /\ pc[r] \in WorkLabels \union {"lock"} => row # None
        /\ job[r].snap # None => row # None
        /\ rowLock = r => row # None
        /\ pc[r] = "moveWrite" => CanTransition(job[r].from, Goal(job[r].mode))

Inv == TypeOK /\ Loaded

(* What every step asks of the shared state. *)
Shared ==
    /\ live' \subseteq Transcripts
    /\ public' \subseteq live'
    /\ row' \in Row \union {None}
    /\ row # None => row' # None
    /\ bound' \subseteq live'
    /\ comments' \in [Requests -> (SUBSET Transcripts) \union {None}]
    /\ consent' \in BOOLEAN
    /\ incidents' \subseteq Incidents

(* A request that returns leaves the invariant as it was. *)
LEMMA ReturnKeeps ==
    ASSUME Inv, NEW r \in Requests, Return(r), Shared,
           rowLock' = rowLock \/ rowLock' = None
    PROVE  Inv'
<1>1. TypeOK'
  BY AttachmentAssumption DEF Inv, TypeOK, Return, Goto, Shared, PcValues, Job, NoJob, Reasons
<1>2. Loaded'
  <2> SUFFICES ASSUME NEW q \in Requests
               PROVE  /\ pc'[q] \in WorkLabels => job'[q].mode # None /\ job'[q].snap # None
                      /\ pc'[q] \in WorkLabels \union {"lock"} => row' # None
                      /\ job'[q].snap # None => row' # None
                      /\ rowLock' = q => row' # None
                      /\ pc'[q] = "moveWrite" => CanTransition(job'[q].from, Goal(job'[q].mode))
    BY DEF Loaded
  <2>1. CASE q = r
    BY <2>1, AttachmentAssumption DEF Inv, TypeOK, Loaded, Return, Goto, Shared, NoJob, WorkLabels
  <2>2. CASE q # r
    BY <2>2, AttachmentAssumption DEF Inv, TypeOK, Loaded, Return, Goto, Shared
  <2> QED BY <2>1, <2>2
<1> QED BY <1>1, <1>2 DEF Inv

(* A request that goes on does so too, if what it remembers fits where it goes. *)
LEMMA GoingOnKeeps ==
    ASSUME Inv, NEW r \in Requests, NEW label \in PcValues, NEW j \in Job,
           Goto(r, label), job' = [job EXCEPT ![r] = j], lock' \in {lock, r}, Shared,
           \/ rowLock' = rowLock
           \/ rowLock' = None
           \/ rowLock' = r /\ row' # None,
           label \in WorkLabels => j.mode # None /\ j.snap # None,
           label \in WorkLabels \union {"lock"} => row' # None,
           j.snap # None => row' # None,
           label = "moveWrite" => CanTransition(j.from, Goal(j.mode))
    PROVE  Inv'
<1>1. TypeOK'
  BY AttachmentAssumption DEF Inv, TypeOK, Goto, Shared
<1>2. Loaded'
  <2> SUFFICES ASSUME NEW q \in Requests
               PROVE  /\ pc'[q] \in WorkLabels => job'[q].mode # None /\ job'[q].snap # None
                      /\ pc'[q] \in WorkLabels \union {"lock"} => row' # None
                      /\ job'[q].snap # None => row' # None
                      /\ rowLock' = q => row' # None
                      /\ pc'[q] = "moveWrite" => CanTransition(job'[q].from, Goal(job'[q].mode))
    BY DEF Loaded
  <2>1. CASE q = r
    BY <2>1, AttachmentAssumption DEF Inv, TypeOK, Loaded, Goto, Shared
  <2>2. CASE q # r
    BY <2>2, AttachmentAssumption DEF Inv, TypeOK, Loaded, Goto, Shared
  <2> QED BY <2>1, <2>2
<1> QED BY <1>1, <1>2 DEF Inv

(* A request that goes on to a label with a job that the label allows keeps the
   invariant. *)
LEMMA ContinueKeeps ==
    ASSUME Inv, NEW r \in Requests, NEW label \in PcValues, NEW j \in Job,
           Continue(r, label, j), Shared,
           \/ rowLock' = rowLock
           \/ rowLock' = None
           \/ rowLock' = r /\ row' # None,
           label \in WorkLabels => j.mode # None /\ j.snap # None,
           label \in WorkLabels \union {"lock"} => row' # None,
           j.snap # None => row' # None,
           label = "moveWrite" => CanTransition(j.from, Goal(j.mode))
    PROVE  Inv'
  BY GoingOnKeeps DEF Continue

(* The row a command acts on is a row. *)
LEMMA EnsuredRow == ASSUME Inv PROVE Ensured \in Row /\ Ensured # None
  BY AttachmentAssumption DEF Inv, TypeOK, Ensured, Row, States

(* What starting to work records is an incident. *)
LEMMA StartsWorkType == ASSUME Inv, NEW r \in Requests, StartsWork(r) PROVE incidents' \subseteq Incidents
  BY DEF Inv, TypeOK, StartsWork, Happens, Incidents

(* The steps that take a request to the attachment. *)
LEMMA EnterKeeps == ASSUME Inv, NEW r \in Requests, Enter(r) PROVE Inv'
<1> USE DEF Begins
<1>1. ASSUME Ask(r) PROVE Inv'
  <2>1. Shared BY <1>1, EnsuredRow DEF Ask, Inv, TypeOK, Shared
  <2> QED BY <1>1, <2>1, ReturnKeeps DEF Ask
<1>2. ASSUME AttachCommand(r) PROVE Inv'
  <2>1. Shared BY <1>2, EnsuredRow, StartsWorkType DEF AttachCommand, Inv, TypeOK, Shared
  <2>2. PICK why \in {"new", "head"} :
               Continue(r, "match",
                        [NoJob EXCEPT !.mode = IF Ensured.state = "attached" THEN "refresh" ELSE "click",
                                      !.why = why, !.snap = Ensured])
    BY <1>2 DEF AttachCommand
  <2> DEFINE j == [NoJob EXCEPT !.mode = IF Ensured.state = "attached" THEN "refresh" ELSE "click",
                                !.why = why, !.snap = Ensured]
  <2>3. j \in Job /\ j.mode # None /\ j.snap # None
    BY EnsuredRow, AttachmentAssumption DEF Job, NoJob, Reasons, Modes
  <2>4. Continue(r, "match", j) BY <2>2
  <2> HIDE DEF j
  <2> QED BY <1>2, <2>1, <2>3, <2>4, EnsuredRow, ContinueKeeps DEF AttachCommand, PcValues
<1>3. ASSUME DetachCommand(r) PROVE Inv'
  <2>1. Shared BY <1>3, EnsuredRow, StartsWorkType DEF DetachCommand, Inv, TypeOK, Shared
  <2>2. CASE CanTransition(Ensured.state, "detached")
    <3> DEFINE j == [NoJob EXCEPT !.mode = "detach", !.snap = Ensured]
    <3>0. j \in Job /\ j.mode # None /\ j.snap # None
      BY EnsuredRow, AttachmentAssumption DEF Job, NoJob, Reasons, Modes
    <3>1. Continue(r, "erase", j) BY <1>3, <2>2 DEF DetachCommand
    <3> HIDE DEF j
    <3> QED BY <1>3, <2>1, <3>0, <3>1, EnsuredRow, ContinueKeeps DEF DetachCommand, PcValues
  <2>3. CASE ~CanTransition(Ensured.state, "detached")
    BY <1>3, <2>1, <2>3, ReturnKeeps DEF DetachCommand
  <2> QED BY <2>2, <2>3
<1>4. ASSUME Push(r) PROVE Inv'
  <2>1. Shared BY <1>4, StartsWorkType DEF Push, Inv, TypeOK, Shared
  <2>2. row \in Row /\ row # None
    BY <1>4, AttachmentAssumption DEF Push, State, States, Inv, TypeOK
  <2>3. PICK why \in {"new", "head"} :
               Continue(r, "match", [NoJob EXCEPT !.mode = "refresh", !.why = why, !.snap = row])
    BY <1>4 DEF Push
  <2> DEFINE j == [NoJob EXCEPT !.mode = "refresh", !.why = why, !.snap = row]
  <2>4. j \in Job /\ j.mode # None /\ j.snap # None
    BY <2>2, AttachmentAssumption DEF Job, NoJob, Reasons, Modes
  <2>5. Continue(r, "match", j) BY <2>3
  <2> HIDE DEF j
  <2> QED BY <1>4, <2>1, <2>2, <2>4, <2>5, ContinueKeeps DEF Push, PcValues
<1>5. ASSUME NEW k \in {"confirm", "unlink", "refresh", "opened"}, Queue(r, k) PROVE Inv'
  <2>1. Shared BY <1>5, EnsuredRow DEF Queue, Inv, TypeOK, Shared
  <2> DEFINE j == [NoJob EXCEPT !.kind = k]
  <2>2. j \in Job /\ j.snap = None
    BY DEF NoJob, Job, Reasons, AllKinds
  <2>4. Continue(r, "lock", j) BY <1>5 DEF Queue
  <2> HIDE DEF j
  <2>3. row' # None
    BY <1>5, EnsuredRow, AttachmentAssumption DEF Queue, State, States, Inv, TypeOK
  <2> QED BY <1>5, <2>1, <2>2, <2>3, <2>4, ContinueKeeps DEF Queue, PcValues, WorkLabels
<1>6. ASSUME NEW t \in Transcripts, Publish(r, t) PROVE Inv'
  <2>1. Shared BY <1>6 DEF Publish, Inv, TypeOK, Shared
  <2> DEFINE j == [NoJob EXCEPT !.kind = "publish"]
  <2>2. j \in Job /\ j.snap = None
    BY DEF NoJob, Job, Reasons, AllKinds
  <2>3. Continue(r, "list", j) BY <1>6 DEF Publish
  <2> HIDE DEF j
  <2> QED BY <1>6, <2>1, <2>2, <2>3, ContinueKeeps DEF Publish, PcValues, WorkLabels
<1>7. ASSUME NEW t \in Transcripts, ChangeVisibility(r, t) PROVE Inv'
  <2>1. Shared BY <1>7 DEF ChangeVisibility, Inv, TypeOK, Shared
  <2> DEFINE j == [NoJob EXCEPT !.kind = "visibility", !.about = t]
  <2>2. j \in Job /\ j.snap = None
    BY DEF NoJob, Job, Reasons, AllKinds
  <2>3. Continue(r, "list", j) BY <1>7 DEF ChangeVisibility
  <2> HIDE DEF j
  <2> QED BY <1>7, <2>1, <2>2, <2>3, ContinueKeeps DEF ChangeVisibility, PcValues, WorkLabels
<1>8. ASSUME NEW t \in Transcripts, DeleteLists(r, t) PROVE Inv'
  <2>1. Shared BY <1>8 DEF DeleteLists, Inv, TypeOK, Shared, Happens, Incidents
  <2> DEFINE affected == row # None /\ t \in row.digest \union bound
  <2> DEFINE j == [NoJob EXCEPT !.kind = "delete", !.about = t,
                                !.snap = IF affected THEN row ELSE None]
  <2>2. j \in Job /\ (j.snap # None => row # None)
    BY DEF NoJob, Job, Reasons, AllKinds, Inv, TypeOK
  <2>3. Continue(r, "deleting", j) BY <1>8 DEF DeleteLists
  <2>4. rowLock' = rowLock \/ (rowLock' = r /\ row' # None)
    BY <1>8 DEF DeleteLists
  <2> HIDE DEF j
  <2> QED BY <1>8, <2>1, <2>2, <2>3, <2>4, ContinueKeeps DEF DeleteLists, PcValues, WorkLabels
<1> QED BY <1>1, <1>2, <1>3, <1>4, <1>5, <1>6, <1>7, <1>8 DEF Enter

(* What a request at work can count on. *)
LEMMA AtWork ==
    ASSUME Inv, NEW r \in Requests, pc[r] \in WorkLabels
    PROVE  /\ job[r] \in Job
           /\ job[r].mode \in Modes /\ job[r].mode # None
           /\ job[r].snap \in Row /\ job[r].snap # None
           /\ row \in Row /\ row # None
  BY AttachmentAssumption DEF Inv, TypeOK, Loaded, Job

(* An edge's goal is a state. *)
LEMMA GoalState == ASSUME NEW m \in Modes PROVE Goal(m) \in States
  BY DEF Modes, Goal, States

(* The steps before a request has the lock, and deletions. *)
LEMMA QueueKeeps ==
    ASSUME Inv, NEW r \in Requests,
           ListAttachments(r) \/ DeleteCommits(r) \/ DeleteRollsBack(r) \/ Acquire(r)
    PROVE  Inv'
<1>0. job[r] \in Job
  BY DEF Inv, TypeOK
<1>1. ASSUME ListAttachments(r) PROVE Inv'
  <2>1. Shared BY <1>1 DEF ListAttachments, Inv, TypeOK, Shared
  <2> DEFINE j == [job[r] EXCEPT !.about = None]
  <2>2. j \in Job /\ j.snap = job[r].snap
    BY <1>0 DEF Job
  <2>3. CASE Return(r)
    BY <1>1, <2>1, <2>3, ReturnKeeps DEF ListAttachments
  <2>4. CASE Continue(r, "lock", j) /\ row # None
    <3>1. j.snap # None => row' # None
      BY <1>1, <2>4 DEF ListAttachments
    <3> HIDE DEF j
    <3> QED BY <1>1, <2>1, <2>2, <2>4, <3>1, ContinueKeeps DEF ListAttachments, PcValues, WorkLabels
  <2> QED BY <1>1, <2>3, <2>4, AttachmentAssumption DEF ListAttachments, State, States
<1>2. ASSUME DeleteCommits(r) PROVE Inv'
  <2>1. Shared
    <3>1. row' \in Row \union {None} /\ (row # None => row' # None)
      BY <1>2, AttachmentAssumption DEF DeleteCommits, Inv, TypeOK, Loaded, Row
    <3> QED BY <1>2, <3>1 DEF DeleteCommits, Inv, TypeOK, Shared
  <2> DEFINE j == [NoJob EXCEPT !.kind = "delete"]
  <2>2. j \in Job /\ j.snap = None
    BY DEF NoJob, Job, Reasons, AllKinds
  <2>3. CASE Return(r)
    BY <1>2, <2>1, <2>3, ReturnKeeps DEF DeleteCommits
  <2>4. CASE Continue(r, "lock", j) /\ job[r].snap # None
    <3>1. row' # None
      BY <2>1, <2>4 DEF Inv, Loaded, Shared
    <3>2. rowLock' = rowLock \/ rowLock' = None
      BY <1>2 DEF DeleteCommits
    <3> HIDE DEF j
    <3> QED BY <2>1, <2>2, <2>4, <3>1, <3>2, ContinueKeeps DEF PcValues, WorkLabels
  <2> QED BY <1>2, <2>3, <2>4 DEF DeleteCommits
<1>3. ASSUME DeleteRollsBack(r) PROVE Inv'
  <2>1. Shared BY <1>3 DEF DeleteRollsBack, Inv, TypeOK, Shared
  <2> QED BY <1>3, <2>1, ReturnKeeps DEF DeleteRollsBack
<1>4. ASSUME Acquire(r) PROVE Inv'
  <2> DEFINE m == LockedMode(job[r].kind, row.state)
  <2>1. Shared
    <3>1. consent' \in BOOLEAN
      BY <1>4 DEF Acquire
    <3>2. incidents' \subseteq Incidents
      BY <1>4, StartsWorkType DEF Acquire, Inv, TypeOK
    <3> QED BY <1>4, <3>1, <3>2 DEF Acquire, Inv, TypeOK, Shared
  <2>2. row \in Row /\ row # None /\ row' = row
    BY <1>4 DEF Acquire, Inv, TypeOK, Loaded
  <2>3. CASE m = None
    BY <1>4, <2>1, <2>3, ReturnKeeps DEF Acquire
  <2>4. CASE m # None
    <3>1. m \in Modes
      BY <2>4 DEF LockedMode, Modes
    <3> HIDE DEF m
    <3>2. PICK why \in Reasons :
             job' = [job EXCEPT ![r] = [NoJob EXCEPT !.mode = m, !.why = why, !.snap = row]]
      BY <1>4, <2>4 DEF Acquire, Reasons, m
    <3> DEFINE j == [NoJob EXCEPT !.mode = m, !.why = why, !.snap = row]
               label == IF m = "detach" THEN "erase" ELSE "match"
    <3>3. j \in Job /\ j.mode # None /\ j.snap # None
      BY <2>2, <2>4, <3>1 DEF Job, NoJob
    <3>4. label \in PcValues /\ label # "moveWrite"
      BY DEF PcValues
    <3>5. Goto(r, label) /\ lock' = r
      BY <1>4, <2>4 DEF Acquire, m
    <3>6. job' = [job EXCEPT ![r] = j] BY <3>2
    <3> HIDE DEF j, label
    <3> QED BY <1>4, <2>1, <2>2, <3>3, <3>4, <3>5, <3>6, GoingOnKeeps DEF Acquire
  <2> QED BY <2>3, <2>4
<1> QED BY <1>1, <1>2, <1>3, <1>4

(* Matching, building and binding. *)
LEMMA PrepareKeeps ==
    ASSUME Inv, NEW r \in Requests,
           \/ MatchRefresh(r) \/ MatchNothing(r) \/ MatchAccepted(r) \/ MatchFails(r)
           \/ Build(r) \/ Clear(r) \/ Bind(r)
    PROVE  Inv'
<1>0. pc[r] \in WorkLabels
  BY DEF MatchRefresh, MatchNothing, MatchAccepted, MatchFails, Build, Clear, Bind,
         WorkLabels, PcValues
<1> DEFINE Facts == /\ job[r] \in Job
                    /\ job[r].mode \in Modes /\ job[r].mode # None
                    /\ job[r].snap \in Row /\ job[r].snap # None
                    /\ row \in Row /\ row # None
<1>f. Facts BY <1>0, AtWork
<1>t. live \subseteq Transcripts /\ bound \subseteq live
  BY DEF Inv, TypeOK
<1>1. ASSUME MatchRefresh(r) PROVE Inv'
  <2>1. Shared BY <1>1 DEF MatchRefresh, Inv, TypeOK, Shared
  <2>2. CASE Return(r)
    BY <1>1, <2>1, <2>2, ReturnKeeps DEF MatchRefresh
  <2>3. CASE ~Return(r)
    <3> DEFINE newly == live \ bound
               j == [job[r] EXCEPT !.todo = newly, !.fresh = newly, !.dig = bound \union newly]
               label == IF newly = {} THEN "build" ELSE "bind"
    <3>1. Continue(r, label, j) /\ UNCHANGED <<row, rowLock>>
      BY <1>1, <2>3 DEF MatchRefresh
    <3>2. j \in Job /\ j.mode # None /\ j.snap # None
      BY <1>f, <1>t DEF Job
    <3>3. label \in PcValues /\ label # "moveWrite"
      BY DEF PcValues
    <3> HIDE DEF j, label
    <3> QED BY <1>f, <2>1, <3>1, <3>2, <3>3, ContinueKeeps
  <2> QED BY <2>2, <2>3
<1>2. ASSUME MatchNothing(r) PROVE Inv'
  <2>1. Shared BY <1>2 DEF MatchNothing, Inv, TypeOK, Shared
  <2>2. CASE Return(r)
    BY <1>2, <2>1, <2>2, ReturnKeeps DEF MatchNothing
  <2>3. CASE Continue(r, "moveRead", job[r])
    BY <1>2, <1>f, <2>1, <2>3, ContinueKeeps DEF MatchNothing, PcValues
  <2> QED BY <1>2, <2>2, <2>3 DEF MatchNothing
<1>3. ASSUME MatchAccepted(r) PROVE Inv'
  <2>1. Shared BY <1>3 DEF MatchAccepted, Inv, TypeOK, Shared
  <2> DEFINE a == [job[r] EXCEPT !.mode = "attach"]
             b == [job[r] EXCEPT !.mode = IF @ = "attach" THEN @ ELSE "preview", !.dig = live]
  <2>2. a \in Job /\ a.mode # None /\ a.snap # None
    BY <1>f, AttachmentAssumption DEF Job, Modes
  <2>3. b \in Job /\ b.mode # None /\ b.snap # None
    BY <1>f, <1>t, AttachmentAssumption DEF Job, Modes
  <2>4. Continue(r, "match", a) \/ Continue(r, "build", b)
    BY <1>3 DEF MatchAccepted
  <2>5. UNCHANGED <<row, rowLock>>
    BY <1>3 DEF MatchAccepted
  <2> HIDE DEF a, b
  <2> QED BY <1>f, <2>1, <2>2, <2>3, <2>4, <2>5, ContinueKeeps DEF PcValues
<1>4. ASSUME MatchFails(r) PROVE Inv'
  <2>1. Shared BY <1>4 DEF MatchFails, Inv, TypeOK, Shared, Happens, Incidents
  <2> QED BY <1>4, <2>1, ReturnKeeps DEF MatchFails
<1>5. ASSUME Build(r) PROVE Inv'
  <2>1. Shared BY <1>5 DEF Build, Inv, TypeOK, Shared
  <2>2. CASE Return(r)
    BY <1>5, <2>1, <2>2, ReturnKeeps DEF Build
  <2>3. CASE ~Return(r)
    <3> DEFINE j == [job[r] EXCEPT !.shown = job[r].dig \intersect public]
               label == IF job[r].mode = "attach" THEN "clear" ELSE "post"
    <3>1. Continue(r, label, j) /\ UNCHANGED <<row, rowLock>>
      BY <1>5, <2>3 DEF Build
    <3>2. j \in Job /\ j.mode # None /\ j.snap # None
      BY <1>f DEF Job
    <3>3. label \in PcValues /\ label # "moveWrite"
      BY DEF PcValues
    <3> HIDE DEF j, label
    <3> QED BY <1>f, <2>1, <3>1, <3>2, <3>3, ContinueKeeps
  <2> QED BY <2>2, <2>3
<1>6. ASSUME Clear(r) PROVE Inv'
  <2>1. Shared BY <1>6 DEF Clear, Inv, TypeOK, Shared
  <2> DEFINE j == [job[r] EXCEPT !.todo = job[r].dig]
  <2>2. j \in Job /\ j.mode # None /\ j.snap # None
    BY <1>f DEF Job
  <2>3. Continue(r, "bind", j) /\ UNCHANGED <<row, rowLock>>
    BY <1>6 DEF Clear
  <2> HIDE DEF j
  <2> QED BY <1>f, <2>1, <2>2, <2>3, ContinueKeeps DEF PcValues
<1>7. ASSUME Bind(r) PROVE Inv'
  <2>1. Shared BY <1>7 DEF Bind, Bindable, Inv, TypeOK, Shared
  <2>2. CASE Return(r)
    BY <1>7, <2>1, <2>2, ReturnKeeps DEF Bind
  <2>3. CASE ~Return(r)
    <3>1. PICK t \in job[r].todo :
             Continue(r, IF job[r].todo \ {t} # {} THEN "bind"
                         ELSE IF job[r].mode = "attach" THEN "post" ELSE "build",
                      [job[r] EXCEPT !.todo = job[r].todo \ {t}])
      BY <1>7, <2>3 DEF Bind
    <3> DEFINE j == [job[r] EXCEPT !.todo = job[r].todo \ {t}]
               label == IF job[r].todo \ {t} # {} THEN "bind"
                        ELSE IF job[r].mode = "attach" THEN "post" ELSE "build"
    <3>2. j \in Job /\ j.mode # None /\ j.snap # None
      BY <1>f DEF Job
    <3>3. label \in PcValues /\ label # "moveWrite"
      BY DEF PcValues
    <3>4. Continue(r, label, j) BY <3>1
    <3>5. UNCHANGED <<row, rowLock>> BY <1>7 DEF Bind
    <3> HIDE DEF j, label
    <3> QED BY <1>f, <2>1, <3>2, <3>3, <3>4, <3>5, ContinueKeeps
  <2> QED BY <2>2, <2>3
<1> QED BY <1>1, <1>2, <1>3, <1>4, <1>5, <1>6, <1>7

(* A post that failed is compensated, or the request returns. *)
LEMMA CompensatesKeeps ==
    ASSUME Inv, NEW r \in Requests, pc[r] = "post", Compensates(r), Shared,
           UNCHANGED <<row, rowLock>>
    PROVE  Inv'
<1>0. /\ job[r] \in Job
      /\ job[r].mode # None /\ job[r].snap # None
      /\ row # None
  BY AtWork DEF WorkLabels, PcValues
<1> DEFINE j == [job[r] EXCEPT !.todo = IF job[r].mode = "attach" THEN job[r].dig ELSE job[r].fresh]
<1>1. j \in Job /\ j.mode # None /\ j.snap # None
  BY <1>0 DEF Job
<1>2. Return(r) \/ Continue(r, "unbind", j)
  BY DEF Compensates
<1> HIDE DEF j
<1> QED BY <1>0, <1>1, <1>2, ReturnKeeps, ContinueKeeps DEF PcValues

(* The calls to GitHub. *)
LEMMA PostKeeps ==
    ASSUME Inv, NEW r \in Requests,
           \/ Post(r) \/ PostFails(r) \/ PostLost(r) \/ Unbind(r) \/ Erase(r) \/ EraseFails(r)
    PROVE  Inv'
<1>0. pc[r] \in WorkLabels
  BY DEF Post, PostFails, PostLost, Unbind, Erase, EraseFails, WorkLabels, PcValues
<1>f. /\ job[r] \in Job
      /\ job[r].mode # None
      /\ job[r].snap \in Row /\ job[r].snap # None
      /\ row # None
  BY <1>0, AtWork
<1>t. Target(r) \in Requests
  BY <1>f DEF Target, Row
<1>u. ASSUME Upsert(r) PROVE comments' \in [Requests -> (SUBSET Transcripts) \union {None}]
  <2>1. Listing(r) \in SUBSET Transcripts
    BY <1>f DEF Listing, Job
  <2> QED BY <1>u, <1>t, <2>1 DEF Upsert, Inv, TypeOK
<1>e. Erased(r) \in [Requests -> (SUBSET Transcripts) \union {None}]
  BY <1>f DEF Erased, Inv, TypeOK, Row
<1>1. ASSUME Post(r) PROVE Inv'
  <2>1. Shared BY <1>1, <1>u DEF Post, Inv, TypeOK, Shared
  <2> DEFINE j == [job[r] EXCEPT !.posted = Target(r)]
  <2>2. j \in Job /\ j.mode # None /\ j.snap # None
    BY <1>f, <1>t DEF Job
  <2>3. Continue(r, "store", j) /\ UNCHANGED <<row, rowLock>>
    BY <1>1 DEF Post
  <2> HIDE DEF j
  <2> QED BY <1>f, <2>1, <2>2, <2>3, ContinueKeeps DEF PcValues
<1>2. ASSUME PostFails(r) PROVE Inv'
  <2>1. Shared BY <1>2 DEF PostFails, Inv, TypeOK, Shared, Happens, Incidents
  <2> QED BY <1>2, <2>1, CompensatesKeeps DEF PostFails
<1>3. ASSUME PostLost(r) PROVE Inv'
  <2>1. Shared BY <1>3, <1>u DEF PostLost, Inv, TypeOK, Shared, Happens, Incidents
  <2> QED BY <1>3, <2>1, CompensatesKeeps DEF PostLost
<1>4. ASSUME Unbind(r) PROVE Inv'
  <2>1. Shared BY <1>4 DEF Unbind, Inv, TypeOK, Shared
  <2> QED BY <1>4, <2>1, ReturnKeeps DEF Unbind
<1>5. ASSUME Erase(r) PROVE Inv'
  <2>1. Shared BY <1>5, <1>e DEF Erase, Inv, TypeOK, Shared
  <2> DEFINE j == [job[r] EXCEPT !.posted = None]
  <2>2. j \in Job /\ j.mode # None /\ j.snap # None
    BY <1>f DEF Job
  <2>3. Continue(r, "store", j) /\ UNCHANGED <<row, rowLock>>
    BY <1>5 DEF Erase
  <2> HIDE DEF j
  <2> QED BY <1>f, <2>1, <2>2, <2>3, ContinueKeeps DEF PcValues
<1>6. ASSUME EraseFails(r) PROVE Inv'
  <2>1. Shared BY <1>6, <1>e DEF EraseFails, Inv, TypeOK, Shared, Happens, Incidents
  <2> QED BY <1>6, <2>1, ReturnKeeps DEF EraseFails
<1> QED BY <1>1, <1>2, <1>3, <1>4, <1>5, <1>6

(* Recording the result, moving the state, looking at the audience again. *)
LEMMA RecordKeeps ==
    ASSUME Inv, NEW r \in Requests,
           Store(r) \/ MoveRead(r) \/ MoveWrite(r) \/ Recheck(r) \/ Stop(r)
    PROVE  Inv'
<1>0. pc[r] \in WorkLabels
  BY DEF Store, MoveRead, MoveWrite, Recheck, Stop, Works, WorkLabels, PcValues, Inv, TypeOK
<1>f. /\ job[r] \in Job
      /\ job[r].mode \in Modes /\ job[r].mode # None
      /\ job[r].snap \in Row /\ job[r].snap # None
      /\ row \in Row /\ row # None
  BY <1>0, AtWork
<1>1. ASSUME Store(r) PROVE Inv'
  <2>0. row' \in Row /\ row' # None
    <3>1. PICK d \in SUBSET Transcripts : row' = [row EXCEPT !.comment = job[r].posted, !.digest = d]
      BY <1>1 DEF Store, Inv, TypeOK
    <3>2. job[r].posted \in Requests \union {None}
      BY <1>f DEF Job
    <3> QED BY <1>f, <3>1, <3>2, AttachmentAssumption DEF Row
  <2>1. Shared BY <1>1, <2>0 DEF Store, Inv, TypeOK, Shared
  <2>2. CASE Return(r)
    BY <1>1, <2>1, <2>2, ReturnKeeps DEF Store
  <2>3. CASE Continue(r, "moveRead", job[r])
    BY <1>1, <1>f, <2>0, <2>1, <2>3, ContinueKeeps DEF Store, PcValues
  <2> QED BY <1>1, <2>2, <2>3 DEF Store
<1>2. ASSUME MoveRead(r) PROVE Inv'
  <2>1. Shared BY <1>2 DEF MoveRead, Inv, TypeOK, Shared
  <2>2. CASE Return(r)
    BY <1>2, <2>1, <2>2, ReturnKeeps DEF MoveRead
  <2>3. CASE ~Return(r)
    <3> DEFINE j == [job[r] EXCEPT !.from = row.state]
    <3>1. /\ Continue(r, "moveWrite", j)
          /\ CanTransition(row.state, Goal(job[r].mode))
          /\ UNCHANGED <<row, rowLock>>
      BY <1>2, <2>3 DEF MoveRead
    <3>2. /\ j \in Job /\ j.mode # None /\ j.snap # None
          /\ j.from = row.state /\ j.mode = job[r].mode
      BY <1>f DEF Job, Row
    <3> HIDE DEF j
    <3> QED BY <1>f, <2>1, <3>1, <3>2, ContinueKeeps DEF PcValues
  <2> QED BY <2>2, <2>3
<1>3. ASSUME MoveWrite(r) PROVE Inv'
  <2> DEFINE moved == [row EXCEPT !.state = Goal(job[r].mode)]
  <2>0. moved \in Row /\ moved # None
    BY <1>f, GoalState, AttachmentAssumption DEF Row
  <2>1. row' \in Row /\ row' # None /\ consent' \in BOOLEAN
    BY <1>3, <1>f, <2>0 DEF MoveWrite
  <2>2. Shared BY <1>3, <2>1 DEF MoveWrite, Inv, TypeOK, Shared
  <2>3. CASE Return(r)
    BY <1>3, <2>2, <2>3, ReturnKeeps DEF MoveWrite
  <2>4. CASE ~Return(r)
    <3> DEFINE j == [job[r] EXCEPT !.snap = moved]
    <3>1. Continue(r, "recheck", j) /\ UNCHANGED rowLock
      BY <1>3, <2>4 DEF MoveWrite
    <3>2. j \in Job /\ j.mode # None /\ j.snap # None
      BY <1>f, <2>0 DEF Job
    <3> HIDE DEF j
    <3> QED BY <2>1, <2>2, <3>1, <3>2, ContinueKeeps DEF PcValues
  <2> QED BY <2>3, <2>4
<1>4. ASSUME Recheck(r) PROVE Inv'
  <2>1. Shared BY <1>4 DEF Recheck, Inv, TypeOK, Shared
  <2>2. CASE Return(r)
    BY <1>4, <2>1, <2>2, ReturnKeeps DEF Recheck
  <2>3. CASE ~Return(r)
    <3> DEFINE j == [NoJob EXCEPT !.mode = "refresh", !.why = "force", !.snap = job[r].snap]
    <3>1. Continue(r, "match", j) /\ UNCHANGED <<row, rowLock>>
      BY <1>4, <2>3 DEF Recheck
    <3>2. j \in Job /\ j.mode # None /\ j.snap # None
      BY <1>f, AttachmentAssumption DEF Job, NoJob, Reasons, Modes
    <3> HIDE DEF j
    <3> QED BY <1>f, <2>1, <3>1, <3>2, ContinueKeeps DEF PcValues
  <2> QED BY <2>2, <2>3
<1>5. ASSUME Stop(r) PROVE Inv'
  <2>1. Shared BY <1>5 DEF Stop, Inv, TypeOK, Shared, Happens, Incidents
  <2> QED BY <1>5, <2>1, ReturnKeeps DEF Stop
<1> QED BY <1>1, <1>2, <1>3, <1>4, <1>5

(* Every step preserves the invariant. *)
LEMMA InvStep == ASSUME Inv, [Next]_vars PROVE Inv'
<1>1. ASSUME NEW r \in Requests, Enter(r) PROVE Inv'
  BY <1>1, EnterKeeps
<1>2. ASSUME NEW r \in Requests, Work(r) PROVE Inv'
  BY <1>2, QueueKeeps, PrepareKeeps, PostKeeps, RecordKeeps DEF Work
<1>3. ASSUME UNCHANGED vars PROVE Inv'
  BY <1>3 DEF vars, Inv, TypeOK, Loaded
<1> QED BY <1>1, <1>2, <1>3 DEF Next, Finished

(* It holds initially. *)
LEMMA InvInit == ASSUME Init PROVE Inv
  BY AttachmentAssumption DEF Init, Inv, TypeOK, Loaded, Job, NoJob, Reasons, PcValues,
                              WorkLabels, Incidents

(* Every request of PromptAttachment works from a row it read and leaves a
   well-formed one, bindings of stored transcripts included. *)
THEOREM AttachmentTypeCorrect == Spec => []TypeOK
<1>1. Inv => TypeOK BY DEF Inv
<1> QED BY <1>1, InvInit, InvStep, PTL DEF Spec

(* A single step follows the table: the conditional update writes the goal of
   an edge that starts at the state the row still has. *)
LEMMA MoveStep ==
    ASSUME Inv, [Next]_vars, row # None
    PROVE  row'.state = row.state \/ CanTransition(row.state, row'.state)
<1>1. ASSUME NEW r \in Requests, Enter(r) PROVE row' = row
  BY <1>1 DEF Enter, Ask, AttachCommand, DetachCommand, Push, Queue, Publish,
              ChangeVisibility, DeleteLists, Ensured
<1>2. ASSUME NEW r \in Requests, Work(r), ~MoveWrite(r) PROVE row'.state = row.state
  <2>0. row \in Row BY DEF Inv, TypeOK
  <2>1. CASE Store(r) BY <2>0, <2>1 DEF Store, Row
  <2>2. CASE DeleteCommits(r) BY <2>0, <2>2 DEF DeleteCommits, Row
  <2> QED BY <1>2, <2>1, <2>2
        DEF Work, ListAttachments, DeleteRollsBack, Acquire, MatchRefresh, MatchNothing,
            MatchAccepted, MatchFails, Build, Clear, Bind, Post, PostFails, PostLost, Unbind,
            Erase, EraseFails, MoveRead, Recheck, Stop
<1>3. ASSUME NEW r \in Requests, MoveWrite(r)
      PROVE  row'.state = row.state \/ CanTransition(row.state, row'.state)
  <2>0. row \in Row BY DEF Inv, TypeOK
  <2>1. CASE row.state = job[r].from
    <3>1. CanTransition(row.state, Goal(job[r].mode))
      BY <1>3, <2>1 DEF MoveWrite, Inv, Loaded
    <3>2. row'.state = Goal(job[r].mode)
      BY <1>3, <2>0, <2>1 DEF MoveWrite, Moves, Row
    <3> QED BY <3>1, <3>2
  <2>2. CASE row.state # job[r].from
    BY <1>3, <2>2 DEF MoveWrite, Moves
  <2> QED BY <2>1, <2>2
<1>4. ASSUME UNCHANGED vars PROVE row'.state = row.state
  BY <1>4 DEF vars
<1> QED BY <1>1, <1>2, <1>3, <1>4 DEF Next, Finished

(* However webhook commands, pushes and the holders of the lock race, every
   change of the attachment's state is an edge of allowedTransitions from the
   state it replaces. *)
THEOREM MovesAllowed == Spec => OnlyAllowedMoves
<1>1. Inv /\ [Next]_vars
        => [ row # None => \/ row'.state = row.state
                          \/ CanTransition(row.state, row'.state) ]_vars
  BY MoveStep
<1> QED BY <1>1, InvInit, InvStep, PTL DEF Spec, OnlyAllowedMoves
=============================================================================
