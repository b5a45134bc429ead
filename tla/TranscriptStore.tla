--------------------------- MODULE TranscriptStore ---------------------------
(***************************************************************************)
(* The encrypted storage of one published session: the transcripts row of  *)
(* one (owner, local id), the immutable object generations it names, and   *)
(* the requests that create, replace, rewrite, rewrap, delete and read     *)
(* them while sharing nothing but PostgreSQL and the object store.         *)
(*                                                                         *)
(* A generation is the pair of objects one WriteGeneration call uploads: a *)
(* body and, when the publish carried metadata, a metadata object sealed   *)
(* under the same data key.  Object keys are fresh UUIDs and every request *)
(* writes at most one generation, so a generation is named by the request  *)
(* that wrote it.  A wrapped data key is named by the request that wrapped *)
(* it, for the same reason.                                                *)
(***************************************************************************)

CONSTANTS
    Publishers,     \* PublishTranscript requests for the session
    Rewriters,      \* content reads that migrate an old generation in place
    Deleters,       \* DeleteTranscript requests
    Rewrappers,     \* key-rotation visits to the row
    Readers,        \* content reads by someone who is not the owner
    Contents,       \* what a body decrypts to
    Submitted,      \* the content each publish request carries
    Authoritative,  \* the publish requests that carry authoritative metadata
    Faults,         \* which of FaultKinds this instance may suffer
    None

Writers == Publishers \union Rewriters

Requests == Writers \union Deleters \union Rewrappers \union Readers

(***************************************************************************)
(* "ambiguous": COMMIT is not confirmed and may or may not have happened.  *)
(* "connection": the pinned connection dies, and its advisory lock with it.*)
(* "crash": the process serving a request dies between two of its steps.   *)
(* "latePut": an upload that was reported failed is stored all the same.   *)
(***************************************************************************)
FaultKinds == {"ambiguous", "connection", "crash", "latePut"}

Visibilities == {"private", "shared", "public"}

ASSUME RequestsAssumption ==
    /\ Publishers \intersect (Rewriters \union Deleters \union Rewrappers \union Readers) = {}
    /\ Rewriters \intersect (Deleters \union Rewrappers \union Readers) = {}
    /\ Deleters \intersect (Rewrappers \union Readers) = {}
    /\ Rewrappers \intersect Readers = {}
    /\ None \notin Requests \union Contents \union Visibilities

ASSUME PublishAssumption ==
    /\ Submitted \in [Publishers -> Contents]
    /\ Authoritative \subseteq Publishers
    /\ Faults \subseteq FaultKinds

Objects == {"body", "meta"} \X Writers

Row == [ id   : Writers,                        \* the publish that inserted it
         gen  : Writers,                        \* blob_key
         wrap : Writers \union Rewrappers,      \* wrapped_data_key, key_version
         meta : Writers \union {None},          \* publish_metadata_key
         vis  : Visibilities,
         fp   : Contents \union {None} ]        \* accepted fingerprint

ASSUME RowAssumption == None \notin Row

PcValues == { "idle", "probe", "load", "narrow", "reload", "putBody", "putMeta",
              "persist", "restore", "cleanCandidate", "release",
              "cleanSuperseded", "delete", "install", "read", "retry",
              "reread", "absent", "done", "crashed" }

VARIABLES
    row,        \* the transcripts row, or None
    objects,    \* what the object store holds
    content,    \* what each generation's body decrypts to
    evidence,   \* objects named by transcript_blob_reconciliation_required
    lock,       \* holder of the session's publish advisory lock
    pc,         \* where each request is
    seen,       \* the row each request last read
    narrowed,   \* narrowedFrom of each publish, None when it narrowed nothing
    todo,       \* objects each request still has to delete
    audience,   \* history: the visibility the owner last chose
    warned,     \* history: a publish answered "may now be private" since then
    exposed,    \* history: generations the row named while not private
    served      \* the generation each reader was given

vars == <<row, objects, content, evidence, lock, pc, seen, narrowed, todo,
          audience, warned, exposed, served>>

BodyOf(g) == <<"body", g>>

MetaOf(g) == <<"meta", g>>

(* Objects a row, or a snapshot of one, names. *)
ObjectsOf(r) ==
    IF r = None THEN {}
    ELSE {BodyOf(r.gen)} \union (IF r.meta = None THEN {} ELSE {MetaOf(r.meta)})

(* Whether the generation of request w comes with a metadata object. *)
WithMeta(w) ==
    IF w \in Publishers THEN w \in Authoritative ELSE seen[w].meta # None

CandidateObjects(w) ==
    {BodyOf(w)} \union (IF WithMeta(w) THEN {MetaOf(w)} ELSE {})

(* What the compare-and-swaps compare: blob_key, wrapped key, key version. *)
SameDescriptor(r, s) == r.gen = s.gen /\ r.wrap = s.wrap

Goto(r, label) == pc' = [pc EXCEPT ![r] = label]

(* The handler returns, or dies, and its local state is gone. *)
Leave(r, label) == Goto(r, label) /\ seen' = [seen EXCEPT ![r] = None]

SetRow(r) ==
    /\ row' = r
    /\ exposed' = IF r # None /\ r.vis # "private" THEN exposed \union {r.gen}
                                                  ELSE exposed

(* Seeded fault: the restore writes back narrowedFrom even when it is empty. *)
RestoreTargetUnchecked(locked, from) == from

(* republishRestoreTarget *)
RestoreTarget(locked, from) ==
    IF from # None /\ locked = "private" THEN from ELSE locked

------------------------------------------------------------------------------
(* withPublishLocks: a session-level advisory lock on a pinned connection. *)

AcquirePublishLock(p) ==
    /\ pc[p] = "idle"
    /\ lock = None
    /\ lock' = p
    /\ Goto(p, "probe")
    /\ UNCHANGED <<row, objects, content, evidence, seen, narrowed, todo,
                   audience, warned, exposed, served>>

(* GetTranscriptIDByOwnerAndLocalID decides create or republish. *)
Probe(p) ==
    /\ pc[p] = "probe"
    /\ lock = p
    /\ seen' = [seen EXCEPT ![p] = row]
    /\ Goto(p, IF row = None THEN "putBody" ELSE "load")
    /\ UNCHANGED <<row, objects, content, evidence, lock, narrowed, todo,
                   audience, warned, exposed, served>>

(* The row a publish found by id, on a connection that is still alive. *)
Holds(p) == lock = p /\ row # None /\ row.id = seen[p].id

(* The accepted fingerprint is this request's; a legacy publish has none. *)
IsReplay(p) == p \in Authoritative /\ row.fp = Submitted[p]

(* GetTranscriptByID before the candidate write: the superseded generation,
   the exact-replay answer, and whether the audience must be narrowed. *)
LoadCurrent(p) ==
    /\ pc[p] = "load"
    /\ Holds(p)
    /\ seen' = [seen EXCEPT ![p] = row]
    /\ Goto(p, IF IsReplay(p) THEN "cleanCandidate"
               ELSE IF row.vis # "private" THEN "narrow" ELSE "putBody")
    /\ UNCHANGED <<row, objects, content, evidence, lock, narrowed, todo,
                   audience, warned, exposed, served>>

(* narrowForRepublish, in a transaction of its own; when its commit fails or
   cannot be confirmed the answer says the transcript may now be private. *)
Narrow(p) ==
    /\ pc[p] = "narrow"
    /\ Holds(p)
    /\ narrowed' = [narrowed EXCEPT ![p] = IF row.vis = "private" THEN None ELSE row.vis]
    /\ \/ /\ SetRow([row EXCEPT !.vis = "private"])
          /\ Goto(p, "putBody")
          /\ UNCHANGED warned
       \/ /\ \/ "ambiguous" \in Faults /\ SetRow([row EXCEPT !.vis = "private"])
             \/ UNCHANGED <<row, exposed>>
          /\ Goto(p, "cleanCandidate")
          /\ warned' = (warned \/ row.vis # "private")
    /\ UNCHANGED <<objects, content, evidence, lock, seen, todo, audience, served>>

(* The probe, the association preflight, the load or the narrowing is refused
   or fails for certain (a dead connection and a deleted row among the
   reasons): nothing was written and nothing is owed. *)
FailBeforeWrite(p) ==
    /\ pc[p] \in {"probe", "load", "narrow"}
    /\ Goto(p, "cleanCandidate")
    /\ UNCHANGED <<row, objects, content, evidence, lock, seen, narrowed, todo,
                   audience, warned, exposed, served>>

------------------------------------------------------------------------------
(* EncryptedTranscriptStore.WriteGeneration, for a publish or a rewrite. *)

(* Seeded fault: a failed republish forgets that it narrowed the audience. *)
AfterFailureForgets(w) == "cleanCandidate"

(* What follows a definite failure once the candidate needs no cleanup. *)
AfterFailure(w) ==
    IF w \in Publishers /\ narrowed[w] # None THEN "restore" ELSE "cleanCandidate"

PutBody(w) ==
    /\ pc[w] = "putBody"
    /\ objects' = objects \union {BodyOf(w)}
    /\ content' = [content EXCEPT ![w] =
                      IF w \in Publishers THEN Submitted[w] ELSE content[seen[w].gen]]
    /\ Goto(w, IF WithMeta(w) THEN "putMeta" ELSE "persist")
    /\ UNCHANGED <<row, evidence, lock, seen, narrowed, todo, audience, warned,
                   exposed, served>>

PutBodyFailed(w) ==
    /\ pc[w] = "putBody"
    /\ \/ UNCHANGED objects
       \/ /\ "latePut" \in Faults
          /\ objects' = objects \union {BodyOf(w)}
    /\ Goto(w, AfterFailure(w))
    /\ UNCHANGED <<row, content, evidence, lock, seen, narrowed, todo, audience,
                   warned, exposed, served>>

PutMeta(w) ==
    /\ pc[w] = "putMeta"
    /\ objects' = objects \union {MetaOf(w)}
    /\ Goto(w, "persist")
    /\ UNCHANGED <<row, content, evidence, lock, seen, narrowed, todo, audience,
                   warned, exposed, served>>

(* The body is deleted best effort; when that fails too its key is carried by
   UncommittedObjectCleanupError into the reconciliation evidence. *)
PutMetaFailed(w) ==
    /\ pc[w] = "putMeta"
    /\ \E late \in SUBSET {MetaOf(w)} :
          /\ late = {} \/ "latePut" \in Faults
          /\ \/ /\ objects' = (objects \union late) \ {BodyOf(w)}
                /\ UNCHANGED evidence
             \/ /\ objects' = objects \union late
                /\ evidence' = evidence \union {BodyOf(w)}
    /\ Goto(w, AfterFailure(w))
    /\ UNCHANGED <<row, content, lock, seen, narrowed, todo, audience, warned,
                   exposed, served>>

------------------------------------------------------------------------------
(* The publish persistence transaction. *)

(* The row a committed publish leaves: CreateTranscript inserts a private
   row; UpdateTranscriptByOwnerAndLocalID replaces the descriptor of whatever
   the row holds and writes back the visibility pinRepublishGovernance chose. *)
PublishedRow(p) ==
    [ id   |-> IF seen[p] = None THEN p ELSE row.id,
      gen  |-> p,
      wrap |-> p,
      meta |-> IF WithMeta(p) THEN p ELSE None,
      vis  |-> IF seen[p] = None THEN "private" ELSE RestoreTarget(row.vis, narrowed[p]),
      fp   |-> IF p \in Authoritative THEN Submitted[p] ELSE None ]

(* The transaction can reach COMMIT: its connection is alive, and the row is
   still absent for an insert or still there for an update. *)
PersistReachesCommit(p) ==
    IF seen[p] = None THEN lock = p /\ row = None ELSE Holds(p)

InstallPublished(p) ==
    /\ SetRow(PublishedRow(p))
    /\ audience' = IF seen[p] = None THEN "private" ELSE audience

PersistCommitted(p) ==
    /\ p \in Publishers
    /\ pc[p] = "persist"
    /\ PersistReachesCommit(p)
    /\ InstallPublished(p)
    /\ todo' = [todo EXCEPT ![p] = ObjectsOf(seen[p])]
    /\ Goto(p, "release")
    /\ UNCHANGED <<objects, content, evidence, lock, seen, narrowed, warned, served>>

(* Seeded fault: a rollback deletes the generation the publish had loaded. *)
PersistRolledBackDeletesLoaded(p) ==
    /\ p \in Publishers
    /\ pc[p] = "persist"
    /\ todo' = [todo EXCEPT ![p] = ObjectsOf(seen[p])]
    /\ Goto(p, AfterFailure(p))
    /\ UNCHANGED <<row, objects, content, evidence, lock, seen, narrowed,
                   audience, warned, exposed, served>>

(* Known rollback: an association binding conflict, a failed statement, a row
   deleted meanwhile, or a dead connection. *)
PersistRolledBack(p) ==
    /\ p \in Publishers
    /\ pc[p] = "persist"
    /\ todo' = [todo EXCEPT ![p] = CandidateObjects(p)]
    /\ Goto(p, AfterFailure(p))
    /\ UNCHANGED <<row, objects, content, evidence, lock, seen, narrowed,
                   audience, warned, exposed, served>>

(* Seeded fault: an unconfirmed commit is treated as a rollback. *)
PersistAmbiguousCleansUp(p) ==
    /\ "ambiguous" \in Faults
    /\ p \in Publishers
    /\ pc[p] = "persist"
    /\ PersistReachesCommit(p)
    /\ \/ InstallPublished(p)
       \/ UNCHANGED <<row, exposed, audience>>
    /\ todo' = [todo EXCEPT ![p] = CandidateObjects(p)]
    /\ warned' = (warned \/ narrowed[p] # None)
    /\ Goto(p, "cleanCandidate")
    /\ UNCHANGED <<objects, content, evidence, lock, seen, narrowed, served>>

(* COMMIT was sent and not confirmed: nothing is deleted, the candidate is
   named, and the audience is reported as possibly left private. *)
PersistAmbiguous(p) ==
    /\ "ambiguous" \in Faults
    /\ p \in Publishers
    /\ pc[p] = "persist"
    /\ PersistReachesCommit(p)
    /\ \/ InstallPublished(p)
       \/ UNCHANGED <<row, exposed, audience>>
    /\ evidence' = evidence \union CandidateObjects(p)
    /\ warned' = (warned \/ narrowed[p] # None)
    /\ Goto(p, "cleanCandidate")
    /\ UNCHANGED <<objects, content, lock, seen, narrowed, todo, served>>

(* restoreRepublishAudience: the compensating transaction. *)
RestoreAudience(p) ==
    /\ pc[p] = "restore"
    /\ Holds(p)
    /\ SetRow([row EXCEPT !.vis = RestoreTarget(row.vis, narrowed[p])])
    /\ Goto(p, "cleanCandidate")
    /\ UNCHANGED <<objects, content, evidence, lock, seen, narrowed, todo,
                   audience, warned, served>>

RestoreAudienceFailed(p) ==
    /\ pc[p] = "restore"
    /\ \/ UNCHANGED <<row, exposed>>
       \/ /\ "ambiguous" \in Faults
          /\ Holds(p)
          /\ SetRow([row EXCEPT !.vis = RestoreTarget(row.vis, narrowed[p])])
    /\ warned' = TRUE
    /\ Goto(p, "cleanCandidate")
    /\ UNCHANGED <<objects, content, evidence, lock, seen, narrowed, todo,
                   audience, served>>

(* withPublishLocks returns; only then is the superseded generation deleted. *)
ReleasePublishLock(p) ==
    /\ pc[p] = "release"
    /\ lock' = IF lock = p THEN None ELSE lock
    /\ Goto(p, "cleanSuperseded")
    /\ UNCHANGED <<row, objects, content, evidence, seen, narrowed, todo,
                   audience, warned, exposed, served>>

(* deleteBlobForCleanup and deleteMetadataForCleanup: one object each; a
   failed deletion leaves evidence, whether or not the store performed it. *)
Cleanup(r) ==
    /\ pc[r] \in {"cleanCandidate", "cleanSuperseded"}
    /\ \E o \in todo[r] :
          /\ todo' = [todo EXCEPT ![r] = @ \ {o}]
          /\ \/ /\ objects' = objects \ {o}
                /\ UNCHANGED evidence
             \/ /\ objects' \in {objects, objects \ {o}}
                /\ evidence' = evidence \union {o}
    /\ UNCHANGED <<row, content, lock, pc, seen, narrowed, audience, warned,
                   exposed, served>>

(* Seeded fault: a failed publish returns without releasing its lock. *)
AnswerKeepsLock(r) ==
    /\ pc[r] \in {"cleanCandidate", "cleanSuperseded"}
    /\ todo[r] = {}
    /\ Leave(r, "done")
    /\ UNCHANGED <<row, objects, content, evidence, lock, narrowed, todo,
                   audience, warned, exposed, served>>

(* The request answers; a publish that failed still held its lock. *)
Answer(r) ==
    /\ pc[r] \in {"cleanCandidate", "cleanSuperseded"}
    /\ todo[r] = {}
    /\ lock' = IF lock = r THEN None ELSE lock
    /\ Leave(r, "done")
    /\ UNCHANGED <<row, objects, content, evidence, narrowed, todo,
                   audience, warned, exposed, served>>

------------------------------------------------------------------------------
(* rewriteCanonicalTranscript, which takes no publish lock. *)

RewriteRead(w) ==
    /\ pc[w] = "idle"
    /\ row # None
    /\ BodyOf(row.gen) \in objects
    /\ seen' = [seen EXCEPT ![w] = row]
    /\ Goto(w, "reload")
    /\ UNCHANGED <<row, objects, content, evidence, lock, narrowed, todo,
                   audience, warned, exposed, served>>

(* The reload compares descriptors, then reads the metadata to carry over. *)
RewriteReload(w) ==
    /\ pc[w] = "reload"
    /\ IF /\ row # None
          /\ row.id = seen[w].id
          /\ SameDescriptor(row, seen[w])
          /\ ObjectsOf(row) \subseteq objects
       THEN /\ seen' = [seen EXCEPT ![w] = row]
            /\ Goto(w, "putBody")
       ELSE Leave(w, "done")
    /\ UNCHANGED <<row, objects, content, evidence, lock, narrowed, todo,
                   audience, warned, exposed, served>>

(* Seeded fault: the rewrite swaps by id alone. *)
RewriteMatchesById(w) == row # None /\ row.id = seen[w].id

(* CompareAndSwapTranscriptBlob and ReplaceTranscriptPublishMetadataObject
   both match the row. *)
RewriteMatches(w) ==
    /\ row # None
    /\ row.id = seen[w].id
    /\ SameDescriptor(row, seen[w])
    /\ seen[w].meta # None => row.meta = seen[w].meta

(* Seeded fault: the rewrite moves the body and leaves the metadata columns. *)
RewrittenRowKeepsMeta(w) == [row EXCEPT !.gen = w, !.wrap = w]

RewrittenRow(w) ==
    [ id   |-> row.id,
      gen  |-> w,
      wrap |-> w,
      meta |-> IF seen[w].meta # None THEN w ELSE row.meta,
      vis  |-> row.vis,
      fp   |-> row.fp ]

RewriteCommitted(w) ==
    /\ w \in Rewriters
    /\ pc[w] = "persist"
    /\ RewriteMatches(w)
    /\ SetRow(RewrittenRow(w))
    /\ todo' = [todo EXCEPT ![w] = ObjectsOf(seen[w])]
    /\ Goto(w, "cleanSuperseded")
    /\ UNCHANGED <<objects, content, evidence, lock, seen, narrowed, audience,
                   warned, served>>

RewriteRolledBack(w) ==
    /\ w \in Rewriters
    /\ pc[w] = "persist"
    /\ todo' = [todo EXCEPT ![w] = CandidateObjects(w)]
    /\ Goto(w, "cleanCandidate")
    /\ UNCHANGED <<row, objects, content, evidence, lock, seen, narrowed,
                   audience, warned, exposed, served>>

RewriteAmbiguous(w) ==
    /\ "ambiguous" \in Faults
    /\ w \in Rewriters
    /\ pc[w] = "persist"
    /\ RewriteMatches(w)
    /\ \/ SetRow(RewrittenRow(w))
       \/ UNCHANGED <<row, exposed>>
    /\ evidence' = evidence \union CandidateObjects(w)
    /\ Leave(w, "done")
    /\ UNCHANGED <<objects, content, lock, narrowed, todo, audience,
                   warned, served>>

------------------------------------------------------------------------------
(* Rewrap: the data key is wrapped again, the objects stay. *)

RewrapRead(w) ==
    /\ pc[w] = "idle"
    /\ row # None
    /\ seen' = [seen EXCEPT ![w] = row]
    /\ Goto(w, "install")
    /\ UNCHANGED <<row, objects, content, evidence, lock, narrowed, todo,
                   audience, warned, exposed, served>>

(* CompareAndSwapWrappedDataKey: stale, failed and uncertain visits may leave
   the row alone; an installed or uncertain one may have swapped the key. *)
RewrapInstall(w) ==
    /\ pc[w] = "install"
    /\ \/ UNCHANGED <<row, exposed>>
       \/ /\ row # None
          /\ row.id = seen[w].id
          /\ SameDescriptor(row, seen[w])
          /\ SetRow([row EXCEPT !.wrap = w])
    /\ Leave(w, "done")
    /\ UNCHANGED <<objects, content, evidence, lock, narrowed, todo,
                   audience, warned, served>>

------------------------------------------------------------------------------
(* DeleteTranscript: pre-read without the publish lock, then row first. *)

DeleteRead(d) ==
    /\ pc[d] = "idle"
    /\ row # None
    /\ seen' = [seen EXCEPT ![d] = row]
    /\ Goto(d, "delete")
    /\ UNCHANGED <<row, objects, content, evidence, lock, narrowed, todo,
                   audience, warned, exposed, served>>

(* Seeded fault: the deletion cleans up what its pre-read named. *)
DeleteCommittedPreRead(d) ==
    /\ pc[d] = "delete"
    /\ row # None
    /\ row.id = seen[d].id
    /\ SetRow(None)
    /\ todo' = [todo EXCEPT ![d] = ObjectsOf(seen[d])]
    /\ Goto(d, "cleanSuperseded")
    /\ UNCHANGED <<objects, content, evidence, lock, seen, narrowed, audience,
                   warned, served>>

(* The objects to delete are the ones the DELETE returned, not the pre-read. *)
DeleteCommitted(d) ==
    /\ pc[d] = "delete"
    /\ row # None
    /\ row.id = seen[d].id
    /\ SetRow(None)
    /\ todo' = [todo EXCEPT ![d] = ObjectsOf(row)]
    /\ Goto(d, "cleanSuperseded")
    /\ UNCHANGED <<objects, content, evidence, lock, seen, narrowed, audience,
                   warned, served>>

DeleteRolledBack(d) ==
    /\ pc[d] = "delete"
    /\ Leave(d, "done")
    /\ UNCHANGED <<row, objects, content, evidence, lock, narrowed, todo,
                   audience, warned, exposed, served>>

DeleteAmbiguous(d) ==
    /\ "ambiguous" \in Faults
    /\ pc[d] = "delete"
    /\ row # None
    /\ row.id = seen[d].id
    /\ \/ SetRow(None)
       \/ UNCHANGED <<row, exposed>>
    /\ evidence' = evidence \union ObjectsOf(seen[d])
    /\ Leave(d, "done")
    /\ UNCHANGED <<objects, content, lock, narrowed, todo, audience,
                   warned, served>>

------------------------------------------------------------------------------
(* readEncryptedTranscript, for a viewer who may read what is not private. *)

Authorized(r) == r # None /\ r.vis # "private"

ReadAuthorize(r) ==
    /\ pc[r] = "idle"
    /\ Authorized(row)
    /\ seen' = [seen EXCEPT ![r] = row]
    /\ Goto(r, "read")
    /\ UNCHANGED <<row, objects, content, evidence, lock, narrowed, todo,
                   audience, warned, exposed, served>>

(* The first read, and the sole retry after a reload. *)
ReadBody(r) ==
    /\ pc[r] \in {"read", "reread"}
    /\ IF BodyOf(seen[r].gen) \in objects
       THEN /\ served' = [served EXCEPT ![r] = seen[r].gen]
            /\ Leave(r, "done")
       ELSE /\ IF pc[r] = "read" THEN Goto(r, "retry") /\ UNCHANGED seen
                                 ELSE Leave(r, "done")
            /\ UNCHANGED served
    /\ UNCHANGED <<row, objects, content, evidence, lock, narrowed, todo,
                   audience, warned, exposed>>

(* Seeded fault: the retry trusts the first authorization. *)
ReadReloadUnauthorized(r) ==
    /\ pc[r] = "retry"
    /\ IF row = None \/ row.id # seen[r].id
       THEN Leave(r, "done")
       ELSE /\ Goto(r, IF SameDescriptor(row, seen[r]) THEN "absent" ELSE "reread")
            /\ seen' = [seen EXCEPT ![r] = row]
    /\ UNCHANGED <<row, objects, content, evidence, lock, narrowed, todo,
                   audience, warned, exposed, served>>

(* Only a missing object reloads: the fresh row is authorized again, and an
   unchanged descriptor is an anomaly rather than a second attempt. *)
ReadReload(r) ==
    /\ pc[r] = "retry"
    /\ IF ~Authorized(row) \/ row.id # seen[r].id
       THEN Leave(r, "done")
       ELSE /\ Goto(r, IF SameDescriptor(row, seen[r]) THEN "absent" ELSE "reread")
            /\ seen' = [seen EXCEPT ![r] = row]
    /\ UNCHANGED <<row, objects, content, evidence, lock, narrowed, todo,
                   audience, warned, exposed, served>>

------------------------------------------------------------------------------
(* The owner's other writers of visibility.  Each is one transaction inside
   the same publish lock, so it is one step taken while the lock is free. *)

OwnerChooses(v) ==
    /\ SetRow([row EXCEPT !.vis = v])
    /\ audience' = v
    /\ warned' = FALSE
    /\ UNCHANGED <<objects, content, evidence, lock, pc, seen, narrowed, todo, served>>

UpdateVisibility(v) ==
    /\ lock = None
    /\ row # None
    /\ OwnerChooses(v)

(* Seeded fault: sharing skips the publish lock. *)
ShareTranscriptUnlocked ==
    /\ row # None
    /\ row.vis = "private"
    /\ OwnerChooses("shared")

ShareTranscript ==
    /\ lock = None
    /\ row # None
    /\ row.vis = "private"
    /\ OwnerChooses("shared")

UnshareTranscript ==
    /\ lock = None
    /\ row # None
    /\ row.vis = "shared"
    /\ OwnerChooses("private")

------------------------------------------------------------------------------
(* Failures no statement of the program performs. *)

LoseConnection(p) ==
    /\ "connection" \in Faults
    /\ lock = p
    /\ lock' = None
    /\ UNCHANGED <<row, objects, content, evidence, pc, seen, narrowed, todo,
                   audience, warned, exposed, served>>

Crash(r) ==
    /\ "crash" \in Faults
    /\ pc[r] \notin {"idle", "done", "absent", "crashed"}
    /\ lock' = IF lock = r THEN None ELSE lock
    /\ Leave(r, "crashed")
    /\ todo' = [todo EXCEPT ![r] = {}]
    /\ UNCHANGED <<row, objects, content, evidence, narrowed,
                   audience, warned, exposed, served>>

------------------------------------------------------------------------------
PublishStep(p) ==
    \/ AcquirePublishLock(p)
    \/ Probe(p)
    \/ LoadCurrent(p)
    \/ Narrow(p)
    \/ FailBeforeWrite(p)
    \/ PersistCommitted(p)
    \/ PersistRolledBack(p)
    \/ PersistAmbiguous(p)
    \/ RestoreAudience(p)
    \/ RestoreAudienceFailed(p)
    \/ ReleasePublishLock(p)

RewriteStep(w) ==
    \/ RewriteRead(w)
    \/ RewriteReload(w)
    \/ RewriteCommitted(w)
    \/ RewriteRolledBack(w)
    \/ RewriteAmbiguous(w)

WriteStep(w) ==
    \/ PutBody(w)
    \/ PutBodyFailed(w)
    \/ PutMeta(w)
    \/ PutMetaFailed(w)

RewrapStep(w) == RewrapRead(w) \/ RewrapInstall(w)

DeleteStep(d) ==
    \/ DeleteRead(d)
    \/ DeleteCommitted(d)
    \/ DeleteRolledBack(d)
    \/ DeleteAmbiguous(d)

ReadStep(r) == ReadAuthorize(r) \/ ReadBody(r) \/ ReadReload(r)

CleanupStep(r) == Cleanup(r) \/ Answer(r)

OwnerStep ==
    \/ \E v \in {"private", "public"} : UpdateVisibility(v)
    \/ ShareTranscript
    \/ UnshareTranscript

Init ==
    /\ row = None
    /\ objects = {}
    /\ content = [w \in Writers |-> None]
    /\ evidence = {}
    /\ lock = None
    /\ pc = [r \in Requests |-> "idle"]
    /\ seen = [r \in Requests |-> None]
    /\ narrowed = [p \in Publishers |-> None]
    /\ todo = [r \in Requests |-> {}]
    /\ audience = "private"
    /\ warned = FALSE
    /\ exposed = {}
    /\ served = [r \in Readers |-> None]

Next ==
    \/ \E p \in Publishers : PublishStep(p) \/ LoseConnection(p)
    \/ \E w \in Rewriters : RewriteStep(w)
    \/ \E w \in Writers : WriteStep(w)
    \/ \E w \in Rewrappers : RewrapStep(w)
    \/ \E d \in Deleters : DeleteStep(d)
    \/ \E r \in Readers : ReadStep(r)
    \/ \E r \in Requests : CleanupStep(r) \/ Crash(r)
    \/ OwnerStep

Spec == Init /\ [][Next]_vars

(***************************************************************************)
(* Every step a handler has begun is finished by its goroutine: each call  *)
(* it waits on returns, fails or hits a deadline, and PostgreSQL grants an *)
(* advisory lock that stays free.  No reader, rewrite, rewrap or deletion  *)
(* has to be requested, and the owner may do nothing.                      *)
(***************************************************************************)
Started(r) == pc[r] # "idle" \/ r \in Publishers

Progress(r) ==
    /\ Started(r)
    /\ \/ r \in Publishers /\ PublishStep(r)
       \/ r \in Rewriters /\ RewriteStep(r)
       \/ r \in Writers /\ WriteStep(r)
       \/ r \in Rewrappers /\ RewrapStep(r)
       \/ r \in Deleters /\ DeleteStep(r)
       \/ r \in Readers /\ ReadStep(r)
       \/ CleanupStep(r)

Fairness == \A r \in Requests : WF_vars(Progress(r))

FairSpec == Spec /\ Fairness

------------------------------------------------------------------------------
(* Properties. *)

(* Every variable holds a value of its kind. *)
TypeOK ==
    /\ row \in Row \union {None}
    /\ objects \subseteq Objects
    /\ content \in [Writers -> Contents \union {None}]
    /\ evidence \subseteq Objects
    /\ lock \in Publishers \union {None}
    /\ pc \in [Requests -> PcValues]
    /\ seen \in [Requests -> Row \union {None}]
    /\ narrowed \in [Publishers -> Visibilities \union {None}]
    /\ todo \in [Requests -> SUBSET Objects]
    /\ audience \in Visibilities
    /\ warned \in BOOLEAN
    /\ exposed \subseteq Writers
    /\ served \in [Readers -> Writers \union {None}]

(* Whatever publishes, rewrites, rewraps, deletions, failures and unconfirmed
   commits interleave, the body and the metadata object the row names are in
   the object store: no cleanup ever deletes a generation the row refers to
   or will refer to. *)
ReferencedStored == ObjectsOf(row) \subseteq objects

(* The metadata object the row names was sealed under the data key of the
   body it names; a row that mixed two generations could not decrypt one of
   them (ReadMetadata opens it with the row's wrapped key). *)
MetadataPaired == row # None /\ row.meta # None => row.meta = row.gen

(* The accepted fingerprint, which answers an exact replay without writing
   anything, describes the content the row's body really holds, although a
   rewrite replaces bodies without touching the fingerprint. *)
FingerprintMatches ==
    row # None /\ row.fp # None => content[row.gen] = row.fp

(* A visibility other than the one the owner last chose is the narrowed one,
   and it is being repaired, was reported to the owner by
   republishAudienceNote, or belongs to a publish whose process died. *)
AudienceAccounted ==
    row # None /\ row.vis # audience =>
        /\ row.vis = "private"
        /\ \/ warned
           \/ \E p \in Publishers : narrowed[p] # None /\ pc[p] # "done"

(* From the narrowing to the end of the replacement the row is private for as
   long as the republish holds its lock: no other writer of visibility gets
   in between (private-before-write). *)
PrivateWindow ==
    \A p \in Publishers :
        /\ lock = p
        /\ pc[p] \in {"putBody", "putMeta", "persist", "restore"}
        /\ row # None
        => row.vis = "private"

(* What the row names, an operator was told of, a request still has to delete,
   or a request is about to name. *)
AccountedFor ==
    ObjectsOf(row) \union evidence
    \union (UNION {todo[r] : r \in Requests})
    \union {o \in Objects : pc[o[2]] \in {"putMeta", "persist"}}

(* The process responsible for the object dies. *)
ForgottenByCrash(o) ==
    /\ "crash" \in Faults
    /\ \E r \in Requests :
          /\ pc[r] # "crashed" /\ pc'[r] = "crashed"
          /\ o \in todo[r] \/ o[2] = r

(* The store keeps an upload that it had reported as failed. *)
ForgottenByLateUpload(o) == "latePut" \in Faults /\ o \notin objects

(* A COMMIT that stays unconfirmed took the object out of the row: a publish
   and a rewrite report only their candidate, a deletion what it had read. *)
ForgottenByUnknownCommit(o) ==
    /\ "ambiguous" \in Faults
    /\ o \in ObjectsOf(row) \ ObjectsOf(row')
    /\ \E r \in Requests :
          \/ pc[r] = "persist" /\ pc'[r] \in {"cleanCandidate", "done"}
          \/ pc[r] = "delete" /\ pc'[r] = "done" /\ o \notin ObjectsOf(seen[r])

(* A publish replaced a generation that a rewrite had installed after the
   publish read the row, and deletes the one it read. *)
ForgottenByRepublish(o) ==
    /\ o \in ObjectsOf(row) \ ObjectsOf(row')
    /\ o[2] \in Rewriters
    /\ \E p \in Publishers :
          pc[p] = "persist" /\ pc'[p] = "release" /\ o \notin ObjectsOf(seen[p])

(* Whatever fails and whoever interleaves, these are the only ways in which
   an object is left in the store that no row names, no request will delete
   and no transcript_blob_reconciliation_required record mentions. *)
OnlyNamedLapses ==
    [][\A o \in objects' \ AccountedFor' :
          \/ o \in objects \ AccountedFor
          \/ ForgottenByCrash(o)
          \/ ForgottenByLateUpload(o)
          \/ ForgottenByUnknownCommit(o)
          \/ ForgottenByRepublish(o)]_vars

(* A reader whose object was missing never finds the row still naming that
   object: the "unchanged immutable generation is absent" answer of
   readEncryptedTranscript is unreachable. *)
NeverAbsent == \A r \in Readers : pc[r] # "absent"

(* A viewer who is not the owner is served only generations the row named
   while it was not private, the retry after a missing object included. *)
ServedWasExposed == \A r \in Readers : served[r] # None => served[r] \in exposed

(* The session as PublishedSession has it: what identifies it, what the row or a
   snapshot of it decrypts to, who may see it, which publishes and deletions may
   still change it and which session they found, and what the readers are given. *)
SessionId == IF row = None THEN None ELSE row.id

ContentOf(r) == IF r = None THEN None ELSE content[r.gen]

InForce == IF row = None THEN "private" ELSE row.vis

Undecided(r) ==
    pc[r] \in {"idle", "probe", "load", "narrow", "putBody", "putMeta", "persist", "delete"}

OpenEffects == {r \in Publishers \union Deleters : Undecided(r)}

Found ==
    [r \in Publishers \union Deleters |->
        IF Undecided(r) /\ seen[r] # None THEN seen[r].id ELSE None]

BeingRead == [r \in Readers |-> ContentOf(seen[r])]

Given == [r \in Readers |-> IF served[r] = None THEN None ELSE content[served[r]]]

Session ==
    INSTANCE PublishedSession WITH
        session <- SessionId, value <- ContentOf(row),
        visible <- InForce, chosen <- audience,
        open <- OpenEffects, target <- Found,
        reading <- BeingRead, answer <- Given

(* Generations, wrapped keys, rewrites, rewraps, cleanups and every failure are
   invisible from outside: the storage is one value that publishes and deletions
   change at most once each, and that readers are given as of one moment of
   their request at which they were allowed to see it. *)
ImplementsSession == Session!SessionSpec

(* Every request that began is answered: no publish waits for ever on the
   advisory lock, and no cleanup or restore blocks the answer. *)
EveryRequestAnswered ==
    \A r \in Requests : Started(r) ~> pc[r] \in {"done", "absent", "crashed"}

(* A republish installs its candidate only over the descriptor it read. *)
RepublishIsCompareAndSwap ==
    [][\A p \in Publishers :
          pc[p] = "persist" /\ pc'[p] = "release" /\ seen[p] # None
              => SameDescriptor(row, seen[p])]_vars
==============================================================================
