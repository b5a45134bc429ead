-------------------------- MODULE PromptAttachment --------------------------
(***************************************************************************)
(* The prompt attachment of one pull request: the row that carries its     *)
(* state, its posted comment and its stored digest, the bindings of the    *)
(* author's transcripts, the sticky comment on GitHub, and the requests    *)
(* that move them.  The work of one request spans several transactions and *)
(* GitHub calls.  Most entry points take the attachment's advisory lock    *)
(* and read the row again inside it; the webhook commands and pushes do    *)
(* not.                                                                    *)
(*                                                                         *)
(* Every stored transcript matches the pull request, so the matcher        *)
(* accepts exactly the live ones.  A comment is named by the request that  *)
(* created it: a request creates at most one.  A comment and a digest are  *)
(* the sets of transcripts whose prompts they quote.                       *)
(***************************************************************************)

CONSTANTS
    Requests,       \* requests, each of any kind
    Transcripts,    \* the author's transcripts
    Kinds,          \* which of AllKinds this instance receives
    Faults,         \* which of FaultKinds this instance may suffer
    None

(* ask, attach, detach: a command in a comment or a button of the check run, by
   a non-author with standing and by the author.  push, opened: pull request
   events.  confirm, unlink: the author's POST and DELETE routes.  refresh: the
   check run's button.  publish, visibility, delete: what the author does to a
   transcript, with the attachment work that follows it. *)
AllKinds == {"ask", "attach", "detach", "push", "opened", "confirm", "unlink",
             "refresh", "publish", "visibility", "delete"}

(* "github": a GitHub call answers with an error, performed or not.
   "stop": a request ends early (its context expires, a database call fails, the
   process dies), which releases its locks. *)
FaultKinds == {"github", "stop"}

States == {"requested", "waiting", "preview", "attached", "detached"}

Row == [state   : States,
        comment : Requests \union {None},       \* comment_id
        digest  : SUBSET Transcripts]           \* transcripts the digest quotes

PcValues == {"idle", "list", "lock", "match", "clear", "bind", "build", "post",
             "unbind", "erase", "store", "moveRead", "moveWrite", "recheck",
             "deleting", "done"}

(* A refresh with nothing new reposts for a head that moved, if anything is bound,
   and always when forceRepost is set. *)
Reasons == {"new", "head", "force"}

Modes == {"click", "consent", "preview", "attach", "refresh", "detach"}

(* What a request remembers between its steps. *)
Job == [kind   : AllKinds \union {None},
        about  : Transcripts \union {None},    \* the transcript it changes
        mode   : Modes \union {None},          \* which path of the lifecycle it follows
        why    : Reasons,                      \* why it reposts what is attached
        snap   : Row \union {None},            \* the attachment row it works from
        todo   : SUBSET Transcripts,           \* still to bind or unbind
        fresh  : SUBSET Transcripts,           \* newlyAccepted
        dig    : SUBSET Transcripts,           \* transcripts of its digest
        shown  : SUBSET Transcripts,           \* those of dig public when it was built
        posted : Requests \union {None},       \* the comment id to record
        from   : States \union {None}]         \* the state Transition read

NoJob == [kind |-> None, about |-> None, mode |-> None, why |-> "new",
          snap |-> None, todo |-> {}, fresh |-> {}, dig |-> {}, shown |-> {},
          posted |-> None, from |-> None]

ASSUME AttachmentAssumption ==
    /\ Kinds \subseteq AllKinds
    /\ Faults \subseteq FaultKinds
    /\ None \notin Requests \union Transcripts \union Modes \union States
    /\ None \notin Row

VARIABLES
    live,       \* transcripts stored
    public,     \* transcripts anyone can read
    row,        \* pull_request_attachments, or None
    bound,      \* pull_request_attachment_transcripts
    comments,   \* on GitHub: what each comment quotes, None when there is none
    lock,       \* holder of the attachment's advisory lock
    rowLock,    \* the delete transaction that holds the row FOR UPDATE
    pc,         \* where each request is
    job,        \* what it remembers
    consent,    \* history: the author agreed since the last detach
    incidents   \* history: which of Incidents happened

vars == <<live, public, row, bound, comments, lock, rowLock, pc, job, consent, incidents>>

(* overlap: an unlocked request worked while another did.  failed: a call failed
   and was not performed.  lost: a call was performed and not recorded.
   deleted: a transcript was deleted. *)
Incidents == {"overlap", "failed", "lost", "deleted"}

TypeOK ==
    /\ live \subseteq Transcripts
    /\ public \subseteq live
    /\ row \in Row \union {None}
    /\ bound \subseteq live
    /\ comments \in [Requests -> (SUBSET Transcripts) \union {None}]
    /\ lock \in Requests \union {None}
    /\ rowLock \in Requests \union {None}
    /\ pc \in [Requests -> PcValues]
    /\ job \in [Requests -> Job]
    /\ consent \in BOOLEAN
    /\ incidents \subseteq Incidents

Init ==
    /\ live \in SUBSET Transcripts
    /\ public \in SUBSET live
    /\ row = None
    /\ bound = {}
    /\ comments = [r \in Requests |-> None]
    /\ lock = None
    /\ rowLock = None
    /\ pc = [r \in Requests |-> "idle"]
    /\ job = [r \in Requests |-> NoJob]
    /\ consent = FALSE
    /\ incidents = {}

------------------------------------------------------------------------------
(* allowedTransitions *)
CanTransition(s, t) ==
    t \in CASE s = "requested" -> {"attached", "preview", "waiting"}
            [] s = "waiting"   -> {"attached", "preview", "detached"}
            [] s = "preview"   -> {"attached", "detached"}
            [] s = "attached"  -> {"attached", "detached"}
            [] s = "detached"  -> {"attached", "preview", "waiting"}

State == IF row = None THEN None ELSE row.state

(* A statement that writes the row, or inserts a row that references it, waits
   for the delete transaction that locked it. *)
RowFree(r) == rowLock \in {None, r}

Goto(r, label) == pc' = [pc EXCEPT ![r] = label]

(* The request ends.  withAttachmentLock releases on every path. *)
Return(r) ==
    /\ Goto(r, "done")
    /\ job' = [job EXCEPT ![r] = NoJob]
    /\ lock' = IF lock = r THEN None ELSE lock

(* It goes on. *)
Continue(r, label, j) ==
    /\ Goto(r, label)
    /\ job' = [job EXCEPT ![r] = j]
    /\ UNCHANGED lock

Happens(what) == incidents' = incidents \union {what}

Works(r) == pc[r] \notin {"idle", "list", "lock", "deleting", "done"}

(* The request starts to work on the attachment. *)
StartsWork(r) ==
    IF \E q \in Requests \ {r} : Works(q) THEN Happens("overlap") ELSE UNCHANGED incidents

------------------------------------------------------------------------------
(* Entry points. *)

Begins(r, k) == pc[r] = "idle" /\ k \in Kinds

(* ensureAttachment: the row a command or an opened pull request acts on. *)
Ensured ==
    IF row = None THEN [state |-> "requested", comment |-> None, digest |-> {}] ELSE row

(* applyPromptCommand for a non-author with standing: only the request. *)
Ask(r) ==
    /\ Begins(r, "ask")
    /\ row' = Ensured
    /\ Return(r)
    /\ UNCHANGED <<live, public, bound, comments, rowLock, consent, incidents>>

(* applyPromptCommand, attach by the author: no attachment lock is taken. *)
AttachCommand(r) ==
    /\ Begins(r, "attach")
    /\ row' = Ensured
    /\ LET attached == Ensured.state = "attached"
       IN  \E why \in {"new"} \union (IF attached THEN {"head"} ELSE {}) :
              Continue(r, "match",
                       [NoJob EXCEPT !.mode = IF attached THEN "refresh" ELSE "click",
                                     !.why = why, !.snap = Ensured])
    /\ StartsWork(r)
    /\ UNCHANGED <<live, public, bound, comments, rowLock, consent>>

(* applyPromptCommand, detach by the author: no attachment lock either. *)
DetachCommand(r) ==
    /\ Begins(r, "detach")
    /\ row' = Ensured
    /\ IF CanTransition(Ensured.state, "detached")
       THEN /\ Continue(r, "erase", [NoJob EXCEPT !.mode = "detach", !.snap = Ensured])
            /\ StartsWork(r)
       ELSE Return(r) /\ UNCHANGED incidents
    /\ UNCHANGED <<live, public, bound, comments, rowLock, consent>>

(* syncAttachmentForPullRequest: a push refreshes what is attached, unlocked. *)
Push(r) ==
    /\ Begins(r, "push")
    /\ State = "attached"
    /\ \E why \in {"new", "head"} :
          Continue(r, "match", [NoJob EXCEPT !.mode = "refresh", !.why = why, !.snap = row])
    /\ StartsWork(r)
    /\ UNCHANGED <<live, public, row, bound, comments, rowLock, consent>>

(* The routes, the refresh button and an opened pull request queue for the
   lock; the button does so only for something attached. *)
Queue(r, k) ==
    /\ Begins(r, k)
    /\ \/ k \in {"confirm", "unlink"} /\ row # None /\ UNCHANGED row
       \/ k = "refresh" /\ State = "attached" /\ UNCHANGED row
       \/ k = "opened" /\ row' = Ensured
    /\ Continue(r, "lock", [NoJob EXCEPT !.kind = k])
    /\ UNCHANGED <<live, public, bound, comments, rowLock, consent, incidents>>

(* A transcript is stored, private. *)
Publish(r, t) ==
    /\ Begins(r, "publish")
    /\ t \notin live
    /\ live' = live \union {t}
    /\ Continue(r, "list", [NoJob EXCEPT !.kind = "publish"])
    /\ UNCHANGED <<public, row, bound, comments, rowLock, consent, incidents>>

(* The owner changes who can read a transcript. *)
ChangeVisibility(r, t) ==
    /\ Begins(r, "visibility")
    /\ t \in live
    /\ public' = IF t \in public THEN public \ {t} ELSE public \union {t}
    /\ Continue(r, "list", [NoJob EXCEPT !.kind = "visibility", !.about = t])
    /\ UNCHANGED <<live, row, bound, comments, rowLock, consent, incidents>>

(* The publish hook reads the author's attachments that a publish can move; a
   visibility change the attached ones that bind the transcript. *)
ListAttachments(r) ==
    /\ pc[r] = "list"
    /\ IF \/ job[r].kind = "publish" /\ State \in {"waiting", "attached"}
          \/ job[r].kind = "visibility" /\ State = "attached" /\ job[r].about \in bound
       THEN Continue(r, "lock", [job[r] EXCEPT !.about = None])
       ELSE Return(r)
    /\ UNCHANGED <<live, public, row, bound, comments, rowLock, consent, incidents>>

(* DeleteTranscript: the first statement locks the attachment if its digest
   quotes the transcript or it binds it. *)
DeleteLists(r, t) ==
    /\ Begins(r, "delete")
    /\ rowLock = None
    /\ t \in live
    /\ LET affected == row # None /\ t \in row.digest \union bound
       IN  /\ rowLock' = IF affected THEN r ELSE None
           /\ Continue(r, "deleting", [NoJob EXCEPT !.kind = "delete", !.about = t,
                                                    !.snap = IF affected THEN row ELSE None])
    /\ Happens("deleted")
    /\ UNCHANGED <<live, public, row, bound, comments, consent>>

(* It prunes the digest it locked and removes the transcript, whose bindings go
   with it; an attachment that was attached is refreshed. *)
DeleteCommits(r) ==
    LET t == job[r].about
    IN  /\ pc[r] = "deleting"
        /\ t \in live
        /\ live' = live \ {t}
        /\ public' = public \ {t}
        /\ bound' = bound \ {t}
        /\ row' = IF rowLock = r THEN [row EXCEPT !.digest = @ \ {t}] ELSE row
        /\ rowLock' = IF rowLock = r THEN None ELSE rowLock
        /\ IF job[r].snap # None /\ job[r].snap.state = "attached"
           THEN Continue(r, "lock", [NoJob EXCEPT !.kind = "delete"])
           ELSE Return(r)
        /\ UNCHANGED <<comments, consent, incidents>>

(* The transcript is gone already, or a statement failed. *)
DeleteRollsBack(r) ==
    /\ pc[r] = "deleting"
    /\ rowLock' = IF rowLock = r THEN None ELSE rowLock
    /\ Return(r)
    /\ UNCHANGED <<live, public, row, bound, comments, consent, incidents>>

------------------------------------------------------------------------------
(* withAttachmentLock, and what each caller makes of the row it reads inside. *)

(* Seeded fault: confirm does not look at the state again inside the lock. *)
LockedModeStale(k, s) ==
    CASE k = "confirm" -> "attach"
      [] k = "unlink" /\ CanTransition(s, "detached") -> "detach"
      [] s = "attached" /\ k \notin {"confirm", "unlink"} -> "refresh"
      [] s # "attached" /\ k = "publish" -> "consent"
      [] s \in {"requested", "waiting"} /\ k = "opened" -> "consent"
      [] OTHER -> None

(* What a locked request does next for the row's state: its mode, or None. *)
LockedMode(k, s) ==
    CASE k = "confirm" /\ s = "preview" -> "attach"
      [] k = "unlink" /\ CanTransition(s, "detached") -> "detach"
      [] s = "attached" /\ k \notin {"confirm", "unlink"} -> "refresh"
      [] s # "attached" /\ k = "publish" -> "consent"
      [] s \in {"requested", "waiting"} /\ k = "opened" -> "consent"
      [] OTHER -> None

(* The pull request's head may have moved since the row recorded it, which only
   the opened event brings along; the publish hook passes the recorded head. *)
Acquire(r) ==
    LET k == job[r].kind
        m == LockedMode(k, row.state)
    IN  /\ pc[r] = "lock"
        /\ lock = None
        /\ IF m = None
           THEN Return(r) /\ UNCHANGED incidents
           ELSE /\ \E why \in CASE m # "refresh" \/ k = "publish" -> {"new"}
                                [] k = "opened" -> {"new", "head"}
                                [] OTHER -> {"force"} :
                     job' = [job EXCEPT ![r] = [NoJob EXCEPT !.mode = m, !.why = why, !.snap = row]]
                /\ lock' = r
                /\ Goto(r, IF m = "detach" THEN "erase" ELSE "match")
                /\ StartsWork(r)
        /\ consent' = (consent \/ (k = "confirm" /\ row.state = "preview"))
        /\ UNCHANGED <<live, public, row, bound, comments, rowLock>>

------------------------------------------------------------------------------
(* matchAttachmentCandidates, and what authorAttachOrPreview,
   attachAcceptedAndPost and refreshAttachedAttachment make of its answer. *)

MatchRefresh(r) ==
    LET newly == live \ bound
        known == bound \union newly
    IN  /\ pc[r] = "match"
        /\ job[r].mode = "refresh"
        /\ IF \/ newly = {} /\ job[r].why = "new"
              \/ known = {} /\ job[r].why = "head"
           THEN Return(r)
           ELSE Continue(r, IF newly = {} THEN "build" ELSE "bind",
                         [job[r] EXCEPT !.todo = newly, !.fresh = newly, !.dig = known])
        /\ UNCHANGED <<live, public, row, bound, comments, rowLock, consent, incidents>>

(* Nothing is accepted: a state that can wait waits. *)
MatchNothing(r) ==
    /\ pc[r] = "match"
    /\ job[r].mode \in {"click", "consent", "attach"}
    /\ live = {}
    /\ IF /\ job[r].mode # "attach"
          /\ job[r].snap.state # "waiting"
          /\ CanTransition(job[r].snap.state, "waiting")
       THEN Continue(r, "moveRead", job[r])
       ELSE Return(r)
    /\ UNCHANGED <<live, public, row, bound, comments, rowLock, consent, incidents>>

(* The author's publish or setting completes a new or a waiting request; every
   click previews. *)
MatchAccepted(r) ==
    LET completes == /\ job[r].mode = "consent"
                     /\ job[r].snap.state \in {"requested", "waiting"}
    IN  /\ pc[r] = "match"
        /\ job[r].mode \in {"click", "consent", "attach"}
        /\ live # {}
        /\ IF completes
           THEN Continue(r, "match", [job[r] EXCEPT !.mode = "attach"])
           ELSE Continue(r, "build",
                         [job[r] EXCEPT !.mode = IF @ = "attach" THEN @ ELSE "preview",
                                        !.dig = live])
        /\ consent' = (consent \/ completes)
        /\ UNCHANGED <<live, public, row, bound, comments, rowLock, incidents>>

(* Listing the pull request's commits fails. *)
MatchFails(r) ==
    /\ "github" \in Faults
    /\ pc[r] = "match"
    /\ Return(r)
    /\ Happens("failed")
    /\ UNCHANGED <<live, public, row, bound, comments, rowLock, consent>>

(* buildAttachmentDigests: a transcript deleted since is an error, which leaves
   what a refresh has just bound. *)
Build(r) ==
    /\ pc[r] = "build"
    /\ IF job[r].dig \subseteq live
       THEN Continue(r, IF job[r].mode = "attach" THEN "clear" ELSE "post",
                     [job[r] EXCEPT !.shown = job[r].dig \intersect public])
       ELSE Return(r)
    /\ UNCHANGED <<live, public, row, bound, comments, rowLock, consent, incidents>>

(* clearEarlierBindings *)
Clear(r) ==
    /\ pc[r] = "clear"
    /\ bound' = {}
    /\ Continue(r, "bind", [job[r] EXCEPT !.todo = job[r].dig])
    /\ UNCHANGED <<live, public, row, comments, rowLock, consent, incidents>>

(* Seeded fault: bindOneTranscript does not read the transcript first. *)
BindableUnread(t) == TRUE

(* bindOneTranscript reads the transcript, which may be gone. *)
Bindable(t) == t \in live

(* bindAcceptedTranscripts; a transcript deleted since ends the request, and leaves
   the ones it bound. *)
Bind(r) ==
    /\ pc[r] = "bind"
    /\ RowFree(r)
    /\ \E t \in job[r].todo :
          IF Bindable(t)
          THEN /\ bound' = bound \union {t}
               /\ LET rest == job[r].todo \ {t}
                  IN  Continue(r, IF rest # {} THEN "bind"
                                  ELSE IF job[r].mode = "attach" THEN "post" ELSE "build",
                               [job[r] EXCEPT !.todo = rest])
          ELSE Return(r) /\ UNCHANGED bound
    /\ UNCHANGED <<live, public, row, comments, rowLock, consent, incidents>>

------------------------------------------------------------------------------
(* postAttachment, postPreviewComment *)

(* What the comment quotes: a preview names no prompt, an attachment those of
   the transcripts anyone can read. *)
Listing(r) == IF job[r].mode = "preview" THEN {} ELSE job[r].shown

(* Seeded fault: every post creates a comment. *)
TargetNew(r) == r

(* UpsertIssueComment creates a comment when none is recorded. *)
Target(r) == IF job[r].snap.comment = None THEN r ELSE job[r].snap.comment

Upsertable(r) == Target(r) = r \/ comments[Target(r)] # None

Upsert(r) == comments' = [comments EXCEPT ![Target(r)] = Listing(r)]

Post(r) ==
    /\ pc[r] = "post"
    /\ Upsertable(r)
    /\ Upsert(r)
    /\ Continue(r, "store", [job[r] EXCEPT !.posted = Target(r)])
    /\ UNCHANGED <<live, public, row, bound, rowLock, consent, incidents>>

(* A post that fails is followed by unbindTranscripts for what the request
   bound. *)
Compensates(r) ==
    IF job[r].mode = "preview"
    THEN Return(r)
    ELSE Continue(r, "unbind",
                  [job[r] EXCEPT !.todo = IF job[r].mode = "attach" THEN job[r].dig
                                                                    ELSE job[r].fresh])

(* The check run's call fails, or GitHub does not know the comment. *)
PostFails(r) ==
    /\ pc[r] = "post"
    /\ "github" \in Faults \/ ~Upsertable(r)
    /\ Compensates(r)
    /\ Happens("failed")
    /\ UNCHANGED <<live, public, row, bound, comments, rowLock, consent>>

(* GitHub performs the call and its answer is lost. *)
PostLost(r) ==
    /\ "github" \in Faults
    /\ pc[r] = "post"
    /\ Upsertable(r)
    /\ Upsert(r)
    /\ Compensates(r)
    /\ Happens("lost")
    /\ UNCHANGED <<live, public, row, bound, rowLock, consent>>

Unbind(r) ==
    /\ pc[r] = "unbind"
    /\ bound' = bound \ job[r].todo
    /\ Return(r)
    /\ UNCHANGED <<live, public, row, comments, rowLock, consent, incidents>>

(* detachAttachment deletes the recorded comment; one that is gone is no error. *)
Erased(r) ==
    IF job[r].snap.comment = None
    THEN comments
    ELSE [comments EXCEPT ![job[r].snap.comment] = None]

Erase(r) ==
    /\ pc[r] = "erase"
    /\ comments' = Erased(r)
    /\ Continue(r, "store", [job[r] EXCEPT !.posted = None])
    /\ UNCHANGED <<live, public, row, bound, rowLock, consent, incidents>>

(* Deleting the comment fails, or resetting the check run after it. *)
EraseFails(r) ==
    /\ "github" \in Faults
    /\ pc[r] = "erase"
    /\ \/ comments' = comments /\ Happens("failed")
       \/ comments' = Erased(r) /\ Happens("lost")
    /\ Return(r)
    /\ UNCHANGED <<live, public, row, bound, rowLock, consent>>

------------------------------------------------------------------------------
(* storeAttachmentArtifacts: the digest loses the transcripts that are gone. *)
Store(r) ==
    LET quoted == IF job[r].mode = "detach" THEN job[r].snap.digest ELSE job[r].dig
    IN  /\ pc[r] = "store"
        /\ RowFree(r)
        /\ row' = [row EXCEPT !.comment = job[r].posted, !.digest = quoted \intersect live]
        /\ IF job[r].mode = "preview" /\ job[r].snap.state = "preview"
           THEN Return(r)
           ELSE Continue(r, "moveRead", job[r])
        /\ UNCHANGED <<live, public, bound, comments, rowLock, consent, incidents>>

(* The state a path of the lifecycle ends in. *)
Goal(m) ==
    CASE m \in {"click", "consent"}  -> "waiting"
      [] m = "preview"               -> "preview"
      [] m \in {"attach", "refresh"} -> "attached"
      [] m = "detach"                -> "detached"

(* Transition reads the state and validates the edge ... *)
MoveRead(r) ==
    /\ pc[r] = "moveRead"
    /\ IF CanTransition(row.state, Goal(job[r].mode))
       THEN Continue(r, "moveWrite", [job[r] EXCEPT !.from = row.state])
       ELSE Return(r)
    /\ UNCHANGED <<live, public, row, bound, comments, rowLock, consent, incidents>>

(* Seeded fault: the write is not conditional on the state that was read. *)
MovesAnyway(r) == TRUE

Moves(r) == row.state = job[r].from

(* ... and writes the new one if the state is still the one it read.  An attach
   then looks at its audience again; the others return. *)
MoveWrite(r) ==
    LET moved == [row EXCEPT !.state = Goal(job[r].mode)]
    IN  /\ pc[r] = "moveWrite"
        /\ RowFree(r)
        /\ row' = IF Moves(r) THEN moved ELSE row
        /\ IF Moves(r) /\ job[r].mode = "attach"
           THEN Continue(r, "recheck", [job[r] EXCEPT !.snap = moved])
           ELSE Return(r)
        /\ consent' = (consent /\ ~(Moves(r) /\ Goal(job[r].mode) = "detached"))
        /\ UNCHANGED <<live, public, bound, comments, rowLock, incidents>>

(* Seeded fault: the audience is not looked at again. *)
AudienceMovedNever(r) == FALSE

(* audienceMovedSince *)
AudienceMoved(r) ==
    ~(job[r].dig \subseteq live) \/ job[r].dig \intersect public # job[r].shown

Recheck(r) ==
    /\ pc[r] = "recheck"
    /\ IF AudienceMoved(r)
       THEN Continue(r, "match", [NoJob EXCEPT !.mode = "refresh", !.why = "force",
                                               !.snap = job[r].snap])
       ELSE Return(r)
    /\ UNCHANGED <<live, public, row, bound, comments, rowLock, consent, incidents>>

(* A request ends between two of its steps. *)
Stop(r) ==
    /\ "stop" \in Faults
    /\ Works(r)
    /\ Return(r)
    /\ Happens("lost")
    /\ UNCHANGED <<live, public, row, bound, comments, rowLock, consent>>

------------------------------------------------------------------------------
Enter(r) ==
    \/ Ask(r)
    \/ AttachCommand(r)
    \/ DetachCommand(r)
    \/ Push(r)
    \/ \E k \in {"confirm", "unlink", "refresh", "opened"} : Queue(r, k)
    \/ \E t \in Transcripts :
          Publish(r, t) \/ ChangeVisibility(r, t) \/ DeleteLists(r, t)

Work(r) ==
    \/ ListAttachments(r)
    \/ DeleteCommits(r)
    \/ DeleteRollsBack(r)
    \/ Acquire(r)
    \/ MatchRefresh(r)
    \/ MatchNothing(r)
    \/ MatchAccepted(r)
    \/ MatchFails(r)
    \/ Build(r)
    \/ Clear(r)
    \/ Bind(r)
    \/ Post(r)
    \/ PostFails(r)
    \/ PostLost(r)
    \/ Unbind(r)
    \/ Erase(r)
    \/ EraseFails(r)
    \/ Store(r)
    \/ MoveRead(r)
    \/ MoveWrite(r)
    \/ Recheck(r)
    \/ Stop(r)

Finished ==
    /\ \A r \in Requests : pc[r] = "done"
    /\ UNCHANGED vars

Next == (\E r \in Requests : Enter(r) \/ Work(r)) \/ Finished

Spec == Init /\ [][Next]_vars

------------------------------------------------------------------------------
(* Properties. *)

Without(S) == incidents \intersect S = {}

Quiet == \A r \in Requests : pc[r] \in {"idle", "done"}

(* Whatever races, a move follows an edge of the transition table from the
   state the row holds when it is written: Transition's two statements are not
   one transaction, and the webhook commands run beside the lock's holder. *)
OnlyAllowedMoves ==
    [][ row # None => \/ row'.state = row.state
                      \/ CanTransition(row.state, row'.state) ]_vars

(* The pull request carries one sticky comment, as long as no unlocked command
   overlapped other work and no performed call went unrecorded: no two requests
   create one each, and a detach deletes the one there is. *)
OneComment ==
    Without({"overlap", "lost"})
        => \A q, r \in Requests : comments[q] # None /\ comments[r] # None => q = r

(* A prompt is on the pull request only by the author's confirmation, publish or
   setting since the last detach. *)
QuotedByConsent ==
    Without({"overlap", "lost"})
        => \A r \in Requests : comments[r] \notin {None, {}} => consent

(* When the work is done the pull request shows what its attachment holds: an
   attached one quotes exactly the bound transcripts anyone can read, with a
   digest of all of them, a preview quotes none, the others have no comment.  No
   visibility change that raced the attach or a refresh is missed. *)
ListingCurrent ==
    Without(Incidents) /\ Quiet /\ row # None
        => CASE row.state = "attached" ->
                  /\ row.comment # None
                  /\ comments[row.comment] = bound \intersect public
                  /\ row.digest = bound
             [] row.state = "preview" ->
                  /\ row.comment # None
                  /\ comments[row.comment] = {}
             [] OTHER -> \A r \in Requests : comments[r] = None

(* The stored digest quotes no transcript that has been deleted: "its earlier
   digest must never restore that transcript's prompt text in the attachment
   row" (storeAttachmentArtifacts). *)
DigestNamesLive == row # None => row.digest \subseteq live
=============================================================================
