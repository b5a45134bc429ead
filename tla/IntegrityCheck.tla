--------------------------- MODULE IntegrityCheck ---------------------------
(***************************************************************************)
(* The background integrity check of one publisher session: the copies its *)
(* owner publishes and deletes one after the other, the answers, attempts, *)
(* inherited flags and post-deletion record PostgreSQL keeps for them, and *)
(* the workers (one per server instance) that send a copy to the checking  *)
(* service and record what it says.                                        *)
(*                                                                         *)
(* A key is what one answer or one attempt row is about: a copy (its       *)
(* transcript id, fresh for every first publish), a content hash and a     *)
(* checker version.  Versions are naturals: compareScryVersions orders     *)
(* MAJOR.MINOR.PATCH numerically, and only the order is used.              *)
(***************************************************************************)
EXTENDS Naturals

CONSTANTS
    Workers,        \* server instances running StartIntegrityWorker
    Copies,         \* transcript ids, each used by one first publish
    Hashes,         \* content hashes
    LastVersion,    \* bound: the newest checker version
    MaxAttempts,    \* maxIntegrityAttempts
    Faults,         \* which of FaultKinds this instance may suffer
    None

(***************************************************************************)
(* "crash": a server dies with an attempt in hand.                         *)
(* "database": a statement of a worker fails, or its answer is lost.       *)
(* "refused": the service refuses the shared secret.                       *)
(* "rollback": the service goes back to an older checker.                  *)
(***************************************************************************)
FaultKinds == {"crash", "database", "refused", "rollback"}

Versions == 1 .. LastVersion

Keys == Copies \X Hashes \X Versions

CopyOf(k) == k[1]

HashOf(k) == k[2]

VersionOf(k) == k[3]

Copy == [id : Copies, hash : Hashes, inSet : BOOLEAN]

Verdicts == {"flagged", "clean", "unchecked"}

(* "of" is history: the content the service really examined. *)
Result == [verdict : Verdicts, of : Hashes]

Attempt == [status : {"pending", "done", "skipped", "failed"},
            n      : 1 .. MaxAttempts,
            due    : BOOLEAN]           \* next_attempt_at <= now()

Answer == [version : Versions, verdict : Verdicts]

ASSUME IntegrityAssumption ==
    /\ LastVersion \in Nat \ {0}
    /\ MaxAttempts \in Nat \ {0}
    /\ Faults \subseteq FaultKinds
    /\ None \notin Copies \union Hashes \union Copy \union Result \union Attempt

WorkingAt == {"reload", "checkSet", "read", "send", "record",
              "settled", "skipped", "failed", "release", "refused"}

VARIABLES
    copy,       \* the transcripts row of the session, or None
    born,       \* ids already used
    results,    \* transcript_integrity_results
    attempts,   \* transcript_integrity_attempts
    inherited,  \* transcript_integrity_inherited_flags
    tombstone,  \* whether integrity_flag_tombstones names the session
    deleting,   \* what an open delete transaction recorded, or None
    serving,    \* the checker versions that answer
    held,       \* the version each worker holds, 0 before the first report
    pc,         \* where each worker is
    job,        \* the key of the listed row it works on, or None
    took,       \* the count its claim returned
    got,        \* hash of the content it read, or None
    answer,     \* what the service answered, or None
    spent,      \* history: claims of each key that were not given back
    exposed,    \* history: contents readable by others at some time
    sent        \* history: contents sent to the service

rowVars == <<copy, born, inherited, tombstone, deleting, exposed>>

localVars == <<held, job, took, got, answer>>

vars == <<copy, born, results, attempts, inherited, tombstone, deleting, serving,
          held, pc, job, took, got, answer, spent, exposed, sent>>

Max2(a, b) == IF a >= b THEN a ELSE b

Exists(id) == copy # None /\ copy.id = id

Goto(w, label) == pc' = [pc EXCEPT ![w] = label]

Working(w) == pc[w] \in WorkingAt

(* Some worker is between its claim of k and the end of its work on it. *)
InHand(k) == \E w \in Workers : Working(w) /\ job[w] = k

(* The flagged result of key k is not void: no later version's checked answer
   on the same content named no turns. *)
FlagOpen(rs, k) ==
    /\ rs[k] # None
    /\ rs[k].verdict = "flagged"
    /\ \A v \in Versions : LET c == rs[<<CopyOf(k), HashOf(k), v>>]
                           IN  v > VersionOf(k) => ~(c # None /\ c.verdict = "clean")

(* transcript_integrity_open_flags has a row for the copy. *)
OpenFlag(id) ==
    \/ id \in inherited
    \/ \E k \in Keys : CopyOf(k) = id /\ FlagOpen(results, k)

------------------------------------------------------------------------------
(* The owner. *)

SetCopy(c) ==
    /\ copy' = c
    /\ exposed' = IF c # None /\ c.inSet THEN exposed \union {<<c.id, c.hash>>}
                                        ELSE exposed

(* Seeded fault: a first publish does not look for a post-deletion record. *)
PublishForgets(id, h) ==
    /\ copy = None
    /\ id \notin born
    /\ SetCopy([id |-> id, hash |-> h, inSet |-> FALSE])
    /\ born' = born \union {id}
    /\ UNCHANGED <<inherited, results, attempts, tombstone, deleting, serving,
                   pc, localVars, spent, sent>>

(* A first publish: the row is private, and InheritIntegrityTombstone runs in
   the same transaction. *)
Publish(id, h) ==
    /\ copy = None
    /\ id \notin born
    /\ SetCopy([id |-> id, hash |-> h, inSet |-> FALSE])
    /\ born' = born \union {id}
    /\ inherited' = IF tombstone THEN inherited \union {id} ELSE inherited
    /\ UNCHANGED <<results, attempts, tombstone, deleting, serving, pc,
                   localVars, spent, sent>>

(* A republish or a canonical rewrite replaces the content; what was recorded
   about the earlier content stays. *)
Replace(h) ==
    /\ copy # None
    /\ SetCopy([copy EXCEPT !.hash = h])
    /\ UNCHANGED <<born, results, attempts, inherited, tombstone, deleting,
                   serving, pc, localVars, spent, sent>>

(* The copy enters or leaves the checked set: public, or shared anywhere. *)
ChangeAudience ==
    /\ copy # None
    /\ SetCopy([copy EXCEPT !.inSet = ~@])
    /\ UNCHANGED <<born, results, attempts, inherited, tombstone, deleting,
                   serving, pc, localVars, spent, sent>>

(* DeleteTranscript, first statement: RecordIntegrityTombstone reads the open
   flags.  It locks no row of transcripts. *)
DeleteRecordsFlag ==
    /\ deleting = None
    /\ copy # None
    /\ deleting' = [id |-> copy.id, flagged |-> OpenFlag(copy.id)]
    /\ UNCHANGED <<copy, born, results, attempts, inherited, tombstone, serving,
                   pc, localVars, spent, exposed, sent>>

Cascade(f, id, empty) ==
    [k \in Keys |-> IF CopyOf(k) = id THEN empty ELSE f[k]]

(* Second statement and commit: the row goes, and everything that references
   it with ON DELETE CASCADE. *)
DeleteCommits ==
    /\ deleting # None
    /\ SetCopy(None)
    /\ tombstone' = (tombstone \/ deleting.flagged)
    /\ results' = Cascade(results, deleting.id, None)
    /\ attempts' = Cascade(attempts, deleting.id, None)
    /\ inherited' = inherited \ {deleting.id}
    /\ deleting' = None
    /\ UNCHANGED <<born, serving, pc, localVars, spent, sent>>

DeleteRollsBack ==
    /\ deleting # None
    /\ deleting' = None
    /\ UNCHANGED <<copy, born, results, attempts, inherited, tombstone, serving,
                   pc, localVars, spent, exposed, sent>>

------------------------------------------------------------------------------
(* The checking service. *)

ServingIs(vs) ==
    /\ serving' = vs
    /\ UNCHANGED <<rowVars, results, attempts, pc, localVars, spent, sent>>

(* A rollout: for a while instances of both versions answer. *)
RolloutBegins ==
    \E v \in Versions :
        /\ \A u \in serving : v > u
        /\ ServingIs(serving \union {v})

RolloutEnds ==
    \E v \in serving :
        /\ \A u \in serving : v >= u
        /\ serving # {v}
        /\ ServingIs({v})

Rollback ==
    /\ "rollback" \in Faults
    /\ \E v \in serving :
          /\ \A u \in serving : v <= u
          /\ serving # {v}
          /\ ServingIs({v})

------------------------------------------------------------------------------
(* integrityTick: health, then list under the held version. *)

Health(w) ==
    /\ pc[w] = "idle"
    /\ \E v \in serving : held' = [held EXCEPT ![w] = Max2(@, v)]
    /\ Goto(w, "list")
    /\ UNCHANGED <<rowVars, results, attempts, serving, job, took, got, answer,
                   spent, sent>>

KeyUnder(v) == <<copy.id, copy.hash, v>>

(* ListIntegrityCandidates returns the copy. *)
Candidate(v) ==
    /\ copy # None
    /\ copy.inSet
    /\ results[KeyUnder(v)] = None
    /\ LET a == attempts[KeyUnder(v)]
       IN  a # None => a.status = "pending" /\ a.due /\ a.n < MaxAttempts

List(w) ==
    /\ pc[w] = "list"
    /\ IF Candidate(held[w])
       THEN /\ job' = [job EXCEPT ![w] = KeyUnder(held[w])]
            /\ Goto(w, "claim")
       ELSE /\ Goto(w, "idle")
            /\ UNCHANGED job
    /\ UNCHANGED <<rowVars, results, attempts, serving, held, took, got, answer,
                   spent, sent>>

(* The work on the listed row is over: the pass goes on under a version that
   moved forward, or ends. *)
Finish(w, stop) ==
    /\ Goto(w, IF ~stop /\ held[w] # VersionOf(job[w]) THEN "list" ELSE "idle")
    /\ job' = [job EXCEPT ![w] = None]
    /\ took' = [took EXCEPT ![w] = 0]
    /\ got' = [got EXCEPT ![w] = None]
    /\ answer' = [answer EXCEPT ![w] = None]

(* Seeded fault: a claim takes a held attempt too. *)
ClaimableWhileHeld(k) ==
    /\ Exists(CopyOf(k))
    /\ attempts[k] # None => attempts[k].status = "pending" /\ attempts[k].n < MaxAttempts

(* ClaimIntegrityAttempt returns a row: the foreign key holds, and the
   conditional upsert inserts or matches. *)
Claimable(k) ==
    /\ Exists(CopyOf(k))
    /\ attempts[k] # None => /\ attempts[k].status = "pending"
                             /\ attempts[k].due
                             /\ attempts[k].n < MaxAttempts

Taken(k) ==
    [status |-> "pending",
     n      |-> IF attempts[k] = None THEN 1 ELSE attempts[k].n + 1,
     due    |-> FALSE]

Claim(w) ==
    /\ pc[w] = "claim"
    /\ Claimable(job[w])
    /\ attempts' = [attempts EXCEPT ![job[w]] = Taken(job[w])]
    /\ took' = [took EXCEPT ![w] = Taken(job[w]).n]
    /\ Goto(w, "reload")
    /\ UNCHANGED <<rowVars, results, serving, held, job, got, answer, spent, sent>>

(* Held by another instance, finished since the listing, or deleted. *)
ClaimNothing(w) ==
    /\ pc[w] = "claim"
    /\ ~Claimable(job[w])
    /\ Finish(w, FALSE)
    /\ UNCHANGED <<rowVars, results, attempts, serving, held, spent, sent>>

(* The claim is committed and its answer lost. *)
ClaimLost(w) ==
    /\ "database" \in Faults
    /\ pc[w] = "claim"
    /\ Claimable(job[w])
    /\ attempts' = [attempts EXCEPT ![job[w]] = Taken(job[w])]
    /\ spent' = [spent EXCEPT ![job[w]] = @ + 1]
    /\ Finish(w, FALSE)
    /\ UNCHANGED <<rowVars, results, serving, held, sent>>

(* The listing or the claim fails and changed nothing. *)
PassFails(w) ==
    /\ "database" \in Faults
    /\ \/ /\ pc[w] = "list"
          /\ Goto(w, "idle")
          /\ UNCHANGED <<job, took, got, answer>>
       \/ /\ pc[w] = "claim"
          /\ Finish(w, FALSE)
    /\ UNCHANGED <<rowVars, results, attempts, serving, held, spent, sent>>

------------------------------------------------------------------------------
(* checkTranscript. *)

Decide(w, label) ==
    /\ Goto(w, label)
    /\ UNCHANGED <<rowVars, results, attempts, serving, localVars, spent, sent>>

(* GetTranscriptByID: the copy still holds the listed content. *)
Reload(w) ==
    /\ pc[w] = "reload"
    /\ Decide(w, IF Exists(CopyOf(job[w])) /\ copy.hash = HashOf(job[w])
                 THEN "checkSet" ELSE "release")

(* IsInIntegrityCheckedSet. *)
CheckSet(w) ==
    /\ pc[w] = "checkSet"
    /\ Decide(w, IF Exists(CopyOf(job[w])) /\ copy.inSet THEN "read" ELSE "release")

(* Contents readEncryptedTranscript may return: the generation the reloaded
   row named or, when its object is gone, the one a fresh row in the checked
   set names. *)
Readable(w) ==
    {HashOf(job[w])} \union
    {c.hash : c \in {d \in {copy} : Exists(CopyOf(job[w])) /\ d.inSet}}

(* Seeded fault: the hash of what was read is not compared again. *)
ReadUncompared(w) ==
    /\ pc[w] = "read"
    /\ \E h \in Readable(w) :
          /\ got' = [got EXCEPT ![w] = h]
          /\ Goto(w, "send")
    /\ UNCHANGED <<rowVars, results, attempts, serving, held, job, took, answer,
                   spent, sent>>

Read(w) ==
    /\ pc[w] = "read"
    /\ \E h \in Readable(w) :
          /\ got' = [got EXCEPT ![w] = h]
          /\ Goto(w, IF h = HashOf(job[w]) THEN "send" ELSE "release")
    /\ UNCHANGED <<rowVars, results, attempts, serving, held, job, took, answer,
                   spent, sent>>

(* Legacy content, by its rewrite lineage or its shape, is never sent. *)
ReadLegacy(w) == pc[w] = "read" /\ Decide(w, "skipped")

(* The object, its metadata or the migrated payload cannot be read. *)
ReadFails(w) == pc[w] = "read" /\ Decide(w, "failed")

StatementFails(w) ==
    /\ "database" \in Faults
    /\ pc[w] \in {"reload", "checkSet", "record"}
    /\ Decide(w, "failed")

(* Checker.Check answers; observeVersion only moves the held version forward. *)
CheckAnswers(w) ==
    /\ pc[w] = "send"
    /\ \E v \in serving, verdict \in Verdicts :
          /\ answer' = [answer EXCEPT ![w] = [version |-> v, verdict |-> verdict]]
          /\ held' = [held EXCEPT ![w] = Max2(@, v)]
    /\ sent' = sent \union {<<CopyOf(job[w]), got[w]>>}
    /\ Goto(w, "record")
    /\ UNCHANGED <<rowVars, results, attempts, serving, job, took, got, spent>>

(* Too large is skipped, a refused secret is given back, the rest fails. *)
CheckFails(w) ==
    /\ pc[w] = "send"
    /\ \/ Goto(w, "skipped")
       \/ Goto(w, "failed")
       \/ "refused" \in Faults /\ Goto(w, "refused")
    /\ sent' = sent \union {<<CopyOf(job[w]), got[w]>>}
    /\ UNCHANGED <<rowVars, results, attempts, serving, localVars, spent>>

AnsweredKey(w) == <<CopyOf(job[w]), HashOf(job[w]), answer[w].version>>

(* Seeded fault: a repeated answer replaces the first. *)
StoredOverwriting(w) == [verdict |-> answer[w].verdict, of |-> got[w]]

(* INSERT ... ON CONFLICT DO NOTHING *)
Stored(w) ==
    IF results[AnsweredKey(w)] # None THEN results[AnsweredKey(w)]
    ELSE [verdict |-> answer[w].verdict, of |-> got[w]]

(* Seeded fault: an older checker's answer settles the attempt. *)
SettlesAlways(w) == TRUE

Settles(w) == answer[w].version >= VersionOf(job[w])

(* recordIntegrityResult; the copy may be gone by now. *)
Record(w) ==
    /\ pc[w] = "record"
    /\ IF Exists(CopyOf(job[w]))
       THEN /\ results' = [results EXCEPT ![AnsweredKey(w)] = Stored(w)]
            /\ Goto(w, IF Settles(w) THEN "settled" ELSE "release")
       ELSE /\ Goto(w, "failed")
            /\ UNCHANGED results
    /\ UNCHANGED <<rowVars, attempts, serving, localVars, spent, sent>>

(* The answer is stored and village does not learn it. *)
RecordLost(w) ==
    /\ "database" \in Faults
    /\ pc[w] = "record"
    /\ Exists(CopyOf(job[w]))
    /\ results' = [results EXCEPT ![AnsweredKey(w)] = Stored(w)]
    /\ Goto(w, "failed")
    /\ UNCHANGED <<rowVars, attempts, serving, localVars, spent, sent>>

------------------------------------------------------------------------------
(* The end of checkCandidate. *)

(* Seeded fault: the last failed attempt backs off like the others. *)
CompletedNeverFails(w) ==
    LET a == attempts[job[w]]
    IN  CASE pc[w] = "settled" -> [a EXCEPT !.status = "done", !.due = TRUE]
          [] pc[w] = "skipped" -> [a EXCEPT !.status = "skipped", !.due = TRUE]
          [] OTHER -> [a EXCEPT !.status = "pending", !.due = FALSE]

Completed(w) ==
    LET a == attempts[job[w]]
    IN  CASE pc[w] = "settled" -> [a EXCEPT !.status = "done", !.due = TRUE]
          [] pc[w] = "skipped" -> [a EXCEPT !.status = "skipped", !.due = TRUE]
          [] OTHER -> IF took[w] >= MaxAttempts
                      THEN [a EXCEPT !.status = "failed", !.due = TRUE]
                      ELSE [a EXCEPT !.status = "pending", !.due = FALSE]

(* CompleteIntegrityAttempt *)
Complete(w) ==
    /\ pc[w] \in {"settled", "skipped", "failed"}
    /\ attempts' = IF attempts[job[w]] = None THEN attempts
                   ELSE [attempts EXCEPT ![job[w]] = Completed(w)]
    /\ spent' = [spent EXCEPT ![job[w]] = @ + 1]
    /\ Finish(w, FALSE)
    /\ UNCHANGED <<rowVars, results, serving, held, sent>>

(* Seeded fault: a release gives the time back and not the count. *)
ReleasedKeepsCount(k) ==
    LET a == attempts[k]
    IN  IF a # None /\ a.status = "pending" THEN [a EXCEPT !.due = TRUE] ELSE a

(* Seeded fault: a release decrements and never deletes. *)
ReleasedKeepsRow(k) ==
    LET a == attempts[k]
    IN  IF a # None /\ a.status = "pending"
        THEN [a EXCEPT !.n = @ - 1, !.due = TRUE] ELSE a

(* ReleaseIntegrityAttempt: a first attempt leaves no row. *)
Released(k) ==
    LET a == attempts[k]
    IN  IF a # None /\ a.status = "pending"
        THEN IF a.n > 1 THEN [a EXCEPT !.n = @ - 1, !.due = TRUE] ELSE None
        ELSE a

Release(w) ==
    /\ pc[w] \in {"release", "refused"}
    /\ attempts' = [attempts EXCEPT ![job[w]] = Released(job[w])]
    /\ Finish(w, pc[w] = "refused")
    /\ UNCHANGED <<rowVars, results, serving, held, spent, sent>>

(* The last statement fails: the hold stays until its time passes. *)
EndLost(w) ==
    /\ "database" \in Faults
    /\ pc[w] \in {"settled", "skipped", "failed", "release", "refused"}
    /\ spent' = [spent EXCEPT ![job[w]] = @ + 1]
    /\ Finish(w, pc[w] = "refused")
    /\ UNCHANGED <<rowVars, results, attempts, serving, held, sent>>

------------------------------------------------------------------------------
(* next_attempt_at passes.  The work on a claimed key runs under a deadline
   set before the claim and as long as its hold, so no worker is still at it
   when the hold ends. *)
TimePasses(k) ==
    /\ attempts[k] # None
    /\ ~attempts[k].due
    /\ ~InHand(k)
    /\ attempts' = [attempts EXCEPT ![k].due = TRUE]
    /\ UNCHANGED <<rowVars, results, serving, pc, localVars, spent, sent>>

(* The server dies and starts again, holding no version. *)
Crash(w) ==
    /\ "crash" \in Faults
    /\ Working(w)
    /\ spent' = [spent EXCEPT ![job[w]] = @ + 1]
    /\ Goto(w, "idle")
    /\ held' = [held EXCEPT ![w] = 0]
    /\ job' = [job EXCEPT ![w] = None]
    /\ took' = [took EXCEPT ![w] = 0]
    /\ got' = [got EXCEPT ![w] = None]
    /\ answer' = [answer EXCEPT ![w] = None]
    /\ UNCHANGED <<rowVars, results, attempts, serving, sent>>

------------------------------------------------------------------------------
OwnerStep ==
    \/ \E id \in Copies, h \in Hashes : Publish(id, h)
    \/ \E h \in Hashes : Replace(h)
    \/ ChangeAudience
    \/ DeleteRecordsFlag
    \/ DeleteCommits
    \/ DeleteRollsBack

ServiceStep == RolloutBegins \/ RolloutEnds \/ Rollback

WorkerStep(w) ==
    \/ Health(w)
    \/ List(w)
    \/ Claim(w)
    \/ ClaimNothing(w)
    \/ ClaimLost(w)
    \/ PassFails(w)
    \/ Reload(w)
    \/ CheckSet(w)
    \/ Read(w)
    \/ ReadLegacy(w)
    \/ ReadFails(w)
    \/ StatementFails(w)
    \/ CheckAnswers(w)
    \/ CheckFails(w)
    \/ Record(w)
    \/ RecordLost(w)
    \/ Complete(w)
    \/ Release(w)
    \/ EndLost(w)

Init ==
    /\ copy = None
    /\ born = {}
    /\ results = [k \in Keys |-> None]
    /\ attempts = [k \in Keys |-> None]
    /\ inherited = {}
    /\ tombstone = FALSE
    /\ deleting = None
    /\ serving = {1}
    /\ held = [w \in Workers |-> 0]
    /\ pc = [w \in Workers |-> "idle"]
    /\ job = [w \in Workers |-> None]
    /\ took = [w \in Workers |-> 0]
    /\ got = [w \in Workers |-> None]
    /\ answer = [w \in Workers |-> None]
    /\ spent = [k \in Keys |-> 0]
    /\ exposed = {}
    /\ sent = {}

Next ==
    \/ OwnerStep
    \/ ServiceStep
    \/ \E w \in Workers : WorkerStep(w) \/ Crash(w)
    \/ \E k \in Keys : TimePasses(k)

Spec == Init /\ [][Next]_vars

(***************************************************************************)
(* Each worker's goroutine keeps ticking and every call it makes returns   *)
(* or reaches its deadline; time passes; a rollout that began ends.  The   *)
(* owner owes nothing.                                                     *)
(***************************************************************************)
Fairness ==
    /\ \A w \in Workers : WF_vars(WorkerStep(w))
    /\ \A k \in Keys : WF_vars(TimePasses(k))
    /\ WF_vars(RolloutEnds)

FairSpec == Spec /\ Fairness

------------------------------------------------------------------------------
(* Properties. *)

(* Every variable holds a value of its kind. *)
TypeOK ==
    /\ copy \in Copy \union {None}
    /\ born \subseteq Copies
    /\ results \in [Keys -> Result \union {None}]
    /\ attempts \in [Keys -> Attempt \union {None}]
    /\ inherited \subseteq Copies
    /\ tombstone \in BOOLEAN
    /\ deleting \in [id : Copies, flagged : BOOLEAN] \union {None}
    /\ serving \subseteq Versions /\ serving # {}
    /\ held \in [Workers -> Versions \union {0}]
    /\ pc \in [Workers -> WorkingAt \union {"idle", "list", "claim"}]
    /\ job \in [Workers -> Keys \union {None}]
    /\ took \in [Workers -> 0 .. MaxAttempts]
    /\ got \in [Workers -> Hashes \union {None}]
    /\ answer \in [Workers -> Answer \union {None}]
    /\ spent \in [Keys -> Nat]
    /\ exposed \subseteq Copies \X Hashes
    /\ sent \subseteq Copies \X Hashes

(* However two servers list, claim, time out and die, at most one of them
   works on a key at a time: the conditional upsert of ClaimIntegrityAttempt
   and the deadline on the work keep the attempt exclusive. *)
ExclusiveAttempt ==
    \A u, w \in Workers : Working(u) /\ Working(w) /\ job[u] = job[w] => u = w

(* The stored count is exactly the claims that were not given back, one in
   hand included, across releases, failures, crashes and lost statements: the
   cap of maxIntegrityAttempts therefore bounds what it says it bounds. *)
AttemptsAccounted ==
    \A k \in Keys :
        Exists(CopyOf(k)) =>
            (IF attempts[k] = None THEN 0 ELSE attempts[k].n)
                = spent[k] + (IF InHand(k) THEN 1 ELSE 0)

(* An attempt marked done has an answer of its version or a later one behind
   it: an older checker's answer never settles what the held version owes. *)
DoneMeansAnswered ==
    \A k \in Keys :
        attempts[k] # None /\ attempts[k].status = "done" =>
            \E v \in Versions :
                v >= VersionOf(k) /\ results[<<CopyOf(k), HashOf(k), v>>] # None

(* A stored answer is about the content its hash names, although the content
   may be replaced between the listing, the reload, the object read and its
   retry. *)
AnswersMatchContent ==
    \A k \in Keys : results[k] # None => results[k].of = HashOf(k)

(* Nothing is sent to the service that nobody but the owner could ever read. *)
SentWasExposed == sent \subseteq exposed

(* What is sent was exposed, and what is stored is about what was sent. *)
ContentGuarded == AnswersMatchContent /\ SentWasExposed

(* While a post-deletion record exists the session's present copy starts out
   flagged, however often the session is deleted and published again. *)
RecordInherited == tombstone /\ copy # None => copy.id \in inherited

(* An answer, once stored, is changed by nothing but the deletion of its copy:
   a repeated answer of the same version keeps the first. *)
FirstAnswerStays ==
    [][\A k \in Keys :
          results[k] # None /\ Exists(CopyOf(k)) /\ copy' # None
              => results'[k] = results[k]]_vars

(* An open flag on a copy that stays is closed only by a checked answer with
   no turns, on the same content, of a later version: an older checker that
   answers late voids nothing. *)
OnlyLaterCleanVoids ==
    [][\A k \in Keys :
          FlagOpen(results, k) /\ copy' # None /\ ~FlagOpen(results', k) =>
              \E v \in Versions :
                  LET c == <<CopyOf(k), HashOf(k), v>>
                  IN  /\ v > VersionOf(k)
                      /\ results[c] = None
                      /\ results'[c] # None
                      /\ results'[c].verdict = "clean"]_vars

(* An answer, and the flag it raises, stand until something later settles
   them. *)
AnswersStand == FirstAnswerStays /\ OnlyLaterCleanVoids

Finished(k) ==
    \/ results[k] # None
    \/ attempts[k] # None /\ attempts[k].status \in {"done", "skipped", "failed"}

(* Content that stays in the checked set under one checker version is
   answered, skipped or left failed after the attempt cap: no release,
   backoff or race between two servers starves it. *)
EventuallyFinished ==
    \A id \in Copies, h \in Hashes, v \in Versions :
        LET Owed == /\ copy = [id |-> id, hash |-> h, inSet |-> TRUE]
                    /\ serving = {v}
                    /\ ~Finished(<<id, h, v>>)
        IN  Owed ~> ~Owed

(* An open flag outlives the row. *)
FlagOutlivesDelete ==
    [][copy # None /\ copy' = None /\ OpenFlag(copy.id) => tombstone']_vars
==============================================================================
