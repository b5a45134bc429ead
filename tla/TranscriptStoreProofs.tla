----------------------- MODULE TranscriptStoreProofs -----------------------
(***************************************************************************)
(* Proofs about TranscriptStore for every set of requests and every subset *)
(* of the faults.                                                          *)
(***************************************************************************)
EXTENDS TranscriptStore, TLAPS

USE RequestsAssumption, PublishAssumption DEF Writers, Requests

(* SetRow installs a row and remembers whether it was readable by others. *)
LEMMA SetRowType ==
    ASSUME NEW r \in Row \union {None}, SetRow(r), exposed \subseteq Writers
    PROVE  row' = r /\ exposed' \subseteq Writers
  BY DEF SetRow, Row

(* TypeOK needs to know which steps have a row in hand: a reader opens the
   generation of the row it loaded, and a rewrite copies its content. *)
SeenLoaded ==
    \A r \in Requests :
        \/ pc[r] \in {"reload", "read", "retry", "reread", "delete", "install"}
        \/ r \in Rewriters /\ pc[r] \in {"putBody", "putMeta", "persist"}
        => seen[r] # None

TypeInv == TypeOK /\ SeenLoaded

(* Every step keeps the variables typed and the snapshots loaded. *)
LEMMA TypeStep == ASSUME TypeInv, [Next]_vars PROVE TypeInv'
<1>1. ASSUME NEW p \in Publishers, AcquirePublishLock(p)  PROVE TypeInv'
  BY <1>1 DEF AcquirePublishLock, Goto, TypeInv, TypeOK, SeenLoaded, Row, Objects,
              PcValues, Visibilities, BodyOf, MetaOf, ObjectsOf,
              CandidateObjects
<1>2. ASSUME NEW p \in Publishers, Probe(p)  PROVE TypeInv'
  BY <1>2 DEF Probe, Goto, TypeInv, TypeOK, SeenLoaded, Row, Objects, PcValues,
              Visibilities, BodyOf, MetaOf, ObjectsOf,
              CandidateObjects
<1>3. ASSUME NEW p \in Publishers, LoadCurrent(p)  PROVE TypeInv'
  BY <1>3 DEF LoadCurrent, Goto, Holds, IsReplay, TypeInv, TypeOK, SeenLoaded, Row,
              Objects, PcValues, Visibilities, BodyOf, MetaOf,
              ObjectsOf, CandidateObjects
<1>4. ASSUME NEW p \in Publishers, Narrow(p)  PROVE TypeInv'
  <2>1. row \in Row /\ [row EXCEPT !.vis = "private"] \in Row
    BY <1>4 DEF Narrow, Holds, TypeInv, TypeOK, Row, Visibilities
  <2>2. row' \in Row /\ exposed' \subseteq Writers
    BY <1>4, <2>1, SetRowType DEF Narrow, TypeInv, TypeOK
  <2>3. narrowed' \in [Publishers -> Visibilities \union {None}]
    BY <1>4, <2>1 DEF Narrow, TypeInv, TypeOK, Row
  <2>4. pc' \in [Requests -> PcValues] /\ warned' \in BOOLEAN
    BY <1>4 DEF Narrow, Goto, TypeInv, TypeOK, PcValues
  <2>5. SeenLoaded'
    BY <1>4 DEF Narrow, Goto, TypeInv, TypeOK, SeenLoaded
  <2> QED BY <1>4, <2>2, <2>3, <2>4, <2>5 DEF Narrow, TypeInv, TypeOK
<1>5. ASSUME NEW p \in Publishers, FailBeforeWrite(p)  PROVE TypeInv'
  BY <1>5 DEF FailBeforeWrite, Goto, TypeInv, TypeOK, SeenLoaded, Row, Objects,
              PcValues, Visibilities, BodyOf, MetaOf, ObjectsOf,
              CandidateObjects
<1>6. ASSUME NEW p \in Publishers, PersistCommitted(p)  PROVE TypeInv'
  BY <1>6 DEF PersistCommitted, Goto, PersistReachesCommit, InstallPublished,
              SetRow, PublishedRow, RestoreTarget, Holds, TypeInv,
              TypeOK, SeenLoaded, Row, Objects, PcValues,
              Visibilities, BodyOf, MetaOf, ObjectsOf,
              CandidateObjects
<1>7. ASSUME NEW p \in Publishers, PersistRolledBack(p)  PROVE TypeInv'
  BY <1>7 DEF PersistRolledBack, Goto, AfterFailure, TypeInv, TypeOK, SeenLoaded,
              Row, Objects, PcValues, Visibilities, BodyOf, MetaOf,
              ObjectsOf, CandidateObjects
<1>8. ASSUME NEW p \in Publishers, PersistAmbiguous(p)  PROVE TypeInv'
  BY <1>8 DEF PersistAmbiguous, Goto, PersistReachesCommit, InstallPublished,
              SetRow, PublishedRow, RestoreTarget, Holds, TypeInv,
              TypeOK, SeenLoaded, Row, Objects, PcValues,
              Visibilities, BodyOf, MetaOf, ObjectsOf,
              CandidateObjects
<1>9. ASSUME NEW p \in Publishers, RestoreAudience(p)  PROVE TypeInv'
  BY <1>9 DEF RestoreAudience, Goto, Holds, SetRow, RestoreTarget, TypeInv, TypeOK,
              SeenLoaded, Row, Objects, PcValues, Visibilities,
              BodyOf, MetaOf, ObjectsOf, CandidateObjects
<1>10. ASSUME NEW p \in Publishers, RestoreAudienceFailed(p)  PROVE TypeInv'
  <2>1. row' \in Row \union {None} /\ exposed' \subseteq Writers
    <3>1. CASE UNCHANGED <<row, exposed>>
      BY <3>1 DEF TypeInv, TypeOK
    <3>2. CASE Holds(p) /\ SetRow([row EXCEPT !.vis = RestoreTarget(row.vis, narrowed[p])])
      <4>1. [row EXCEPT !.vis = RestoreTarget(row.vis, narrowed[p])] \in Row
        BY <3>2 DEF Holds, RestoreTarget, TypeInv, TypeOK, Row
      <4> QED BY <3>2, <4>1, SetRowType DEF TypeInv, TypeOK
    <3> QED BY <1>10, <3>1, <3>2 DEF RestoreAudienceFailed
  <2>2. pc' \in [Requests -> PcValues] /\ SeenLoaded'
    BY <1>10 DEF RestoreAudienceFailed, Goto, TypeInv, TypeOK, PcValues, SeenLoaded
  <2> QED BY <1>10, <2>1, <2>2 DEF RestoreAudienceFailed, TypeInv, TypeOK
<1>11. ASSUME NEW p \in Publishers, ReleasePublishLock(p)  PROVE TypeInv'
  BY <1>11 DEF ReleasePublishLock, Goto, TypeInv, TypeOK, SeenLoaded, Row, Objects,
              PcValues, Visibilities, BodyOf, MetaOf, ObjectsOf,
              CandidateObjects
<1>12. ASSUME NEW p \in Publishers, LoseConnection(p)  PROVE TypeInv'
  BY <1>12 DEF LoseConnection, TypeInv, TypeOK, SeenLoaded, Row, Objects, PcValues,
              Visibilities, BodyOf, MetaOf, ObjectsOf,
              CandidateObjects
<1>13. ASSUME NEW w \in Writers, PutBody(w)  PROVE TypeInv'
  BY <1>13 DEF PutBody, Goto, TypeInv, TypeOK, SeenLoaded, Row, Objects, PcValues,
              Visibilities, BodyOf, MetaOf, ObjectsOf,
              CandidateObjects
<1>14. ASSUME NEW w \in Writers, PutBodyFailed(w)  PROVE TypeInv'
  BY <1>14 DEF PutBodyFailed, Goto, AfterFailure, TypeInv, TypeOK, SeenLoaded, Row,
              Objects, PcValues, Visibilities, BodyOf, MetaOf,
              ObjectsOf, CandidateObjects
<1>15. ASSUME NEW w \in Writers, PutMeta(w)  PROVE TypeInv'
  BY <1>15 DEF PutMeta, Goto, TypeInv, TypeOK, SeenLoaded, Row, Objects, PcValues,
              Visibilities, BodyOf, MetaOf, ObjectsOf,
              CandidateObjects
<1>16. ASSUME NEW w \in Writers, PutMetaFailed(w)  PROVE TypeInv'
  BY <1>16 DEF PutMetaFailed, Goto, AfterFailure, TypeInv, TypeOK, SeenLoaded, Row,
              Objects, PcValues, Visibilities, BodyOf, MetaOf,
              ObjectsOf, CandidateObjects
<1>17. ASSUME NEW x \in Rewriters, RewriteRead(x)  PROVE TypeInv'
  BY <1>17 DEF RewriteRead, Goto, TypeInv, TypeOK, SeenLoaded, Row, Objects,
              PcValues, Visibilities, BodyOf, MetaOf, ObjectsOf,
              CandidateObjects
<1>18. ASSUME NEW x \in Rewriters, RewriteReload(x)  PROVE TypeInv'
  <2>1. seen' \in [Requests -> Row \union {None}]
    BY <1>18 DEF RewriteReload, Leave, TypeInv, TypeOK
  <2>2. pc' \in [Requests -> PcValues]
    BY <1>18 DEF RewriteReload, Leave, Goto, TypeInv, TypeOK, PcValues
  <2>3. SeenLoaded'
    BY <1>18 DEF RewriteReload, Leave, Goto, TypeInv, TypeOK, SeenLoaded
  <2> QED BY <1>18, <2>1, <2>2, <2>3 DEF RewriteReload, TypeInv, TypeOK
<1>19. ASSUME NEW x \in Rewriters, RewriteCommitted(x)  PROVE TypeInv'
  <2>1. RewrittenRow(x) \in Row
    BY <1>19 DEF RewriteCommitted, RewriteMatches, RewrittenRow, TypeInv, TypeOK, Row
  <2>2. row' \in Row /\ exposed' \subseteq Writers
    BY <1>19, <2>1, SetRowType DEF RewriteCommitted, TypeInv, TypeOK
  <2>3. todo' \in [Requests -> SUBSET Objects]
    BY <1>19 DEF RewriteCommitted, TypeInv, TypeOK, ObjectsOf, BodyOf, MetaOf, Objects, Row
  <2>4. pc' \in [Requests -> PcValues] /\ SeenLoaded'
    BY <1>19 DEF RewriteCommitted, Goto, TypeInv, TypeOK, PcValues, SeenLoaded
  <2> QED BY <1>19, <2>2, <2>3, <2>4 DEF RewriteCommitted, TypeInv, TypeOK
<1>20. ASSUME NEW x \in Rewriters, RewriteRolledBack(x)  PROVE TypeInv'
  BY <1>20 DEF RewriteRolledBack, Goto, TypeInv, TypeOK, SeenLoaded, Row, Objects,
              PcValues, Visibilities, BodyOf, MetaOf, ObjectsOf,
              CandidateObjects
<1>21. ASSUME NEW x \in Rewriters, RewriteAmbiguous(x)  PROVE TypeInv'
  <2>1. RewrittenRow(x) \in Row
    BY <1>21 DEF RewriteAmbiguous, RewriteMatches, RewrittenRow, TypeInv, TypeOK, Row
  <2>2. row' \in Row \union {None} /\ exposed' \subseteq Writers
    BY <1>21, <2>1, SetRowType DEF RewriteAmbiguous, TypeInv, TypeOK
  <2>3. evidence' \subseteq Objects
    BY <1>21 DEF RewriteAmbiguous, TypeInv, TypeOK, CandidateObjects, BodyOf, MetaOf, Objects
  <2>4. pc' \in [Requests -> PcValues] /\ seen' \in [Requests -> Row \union {None}]
        /\ SeenLoaded'
    BY <1>21 DEF RewriteAmbiguous, Leave, Goto, TypeInv, TypeOK, PcValues, SeenLoaded
  <2> QED BY <1>21, <2>2, <2>3, <2>4 DEF RewriteAmbiguous, TypeInv, TypeOK
<1>22. ASSUME NEW k \in Rewrappers, RewrapRead(k)  PROVE TypeInv'
  BY <1>22 DEF RewrapRead, Goto, TypeInv, TypeOK, SeenLoaded, Row, Objects, PcValues,
              Visibilities, BodyOf, MetaOf, ObjectsOf,
              CandidateObjects
<1>23. ASSUME NEW k \in Rewrappers, RewrapInstall(k)  PROVE TypeInv'
  BY <1>23 DEF RewrapInstall, Goto, SetRow, SameDescriptor, Leave, TypeInv, TypeOK,
              SeenLoaded, Row, Objects, PcValues, Visibilities,
              BodyOf, MetaOf, ObjectsOf, CandidateObjects
<1>24. ASSUME NEW d \in Deleters, DeleteRead(d)  PROVE TypeInv'
  BY <1>24 DEF DeleteRead, Goto, TypeInv, TypeOK, SeenLoaded, Row, Objects, PcValues,
              Visibilities, BodyOf, MetaOf, ObjectsOf,
              CandidateObjects
<1>25. ASSUME NEW d \in Deleters, DeleteCommitted(d)  PROVE TypeInv'
  BY <1>25 DEF DeleteCommitted, Goto, SetRow, TypeInv, TypeOK, SeenLoaded, Row,
              Objects, PcValues, Visibilities, BodyOf, MetaOf,
              ObjectsOf, CandidateObjects
<1>26. ASSUME NEW d \in Deleters, DeleteRolledBack(d)  PROVE TypeInv'
  BY <1>26 DEF DeleteRolledBack, Goto, Leave, TypeInv, TypeOK, SeenLoaded, Row,
              Objects, PcValues, Visibilities, BodyOf, MetaOf,
              ObjectsOf, CandidateObjects
<1>27. ASSUME NEW d \in Deleters, DeleteAmbiguous(d)  PROVE TypeInv'
  BY <1>27 DEF DeleteAmbiguous, Goto, SetRow, Leave, TypeInv, TypeOK, SeenLoaded,
              Row, Objects, PcValues, Visibilities, BodyOf, MetaOf,
              ObjectsOf, CandidateObjects
<1>28. ASSUME NEW r \in Readers, ReadAuthorize(r)  PROVE TypeInv'
  BY <1>28 DEF ReadAuthorize, Goto, Authorized, TypeInv, TypeOK, SeenLoaded, Row,
              Objects, PcValues, Visibilities, BodyOf, MetaOf,
              ObjectsOf, CandidateObjects
<1>29. ASSUME NEW r \in Readers, ReadBody(r)  PROVE TypeInv'
  <2>1. seen[r] \in Row
    BY <1>29 DEF ReadBody, TypeInv, TypeOK, SeenLoaded
  <2>2. served' \in [Readers -> Writers \union {None}]
    BY <1>29, <2>1 DEF ReadBody, TypeInv, TypeOK, Row
  <2>3. pc' \in [Requests -> PcValues] /\ seen' \in [Requests -> Row \union {None}]
    BY <1>29 DEF ReadBody, Leave, Goto, TypeInv, TypeOK, PcValues
  <2>4. SeenLoaded'
    BY <1>29 DEF ReadBody, Leave, Goto, TypeInv, TypeOK, SeenLoaded
  <2> QED BY <1>29, <2>2, <2>3, <2>4 DEF ReadBody, TypeInv, TypeOK
<1>30. ASSUME NEW r \in Readers, ReadReload(r)  PROVE TypeInv'
  BY <1>30 DEF ReadReload, Goto, Leave, Authorized, SameDescriptor, TypeInv, TypeOK,
              SeenLoaded, Row, Objects, PcValues, Visibilities,
              BodyOf, MetaOf, ObjectsOf, CandidateObjects
<1>31. ASSUME NEW q \in Requests, Cleanup(q)  PROVE TypeInv'
  BY <1>31 DEF Cleanup, TypeInv, TypeOK, SeenLoaded, Row, Objects, PcValues,
              Visibilities, BodyOf, MetaOf, ObjectsOf,
              CandidateObjects
<1>32. ASSUME NEW q \in Requests, Answer(q)  PROVE TypeInv'
  BY <1>32 DEF Answer, Goto, Leave, TypeInv, TypeOK, SeenLoaded, Row, Objects,
              PcValues, Visibilities, BodyOf, MetaOf, ObjectsOf,
              CandidateObjects
<1>33. ASSUME NEW q \in Requests, Crash(q)  PROVE TypeInv'
  BY <1>33 DEF Crash, Goto, Leave, TypeInv, TypeOK, SeenLoaded, Row, Objects,
              PcValues, Visibilities, BodyOf, MetaOf, ObjectsOf,
              CandidateObjects
<1>34. ASSUME NEW v \in {"private", "public"}, UpdateVisibility(v)  PROVE TypeInv'
  BY <1>34 DEF UpdateVisibility, OwnerChooses, SetRow, TypeInv, TypeOK, SeenLoaded,
              Row, Objects, PcValues, Visibilities, BodyOf, MetaOf,
              ObjectsOf, CandidateObjects
<1>35. CASE ShareTranscript
  BY <1>35 DEF ShareTranscript, OwnerChooses, SetRow, TypeInv, TypeOK, SeenLoaded,
              Row, Objects, PcValues, Visibilities, BodyOf, MetaOf,
              ObjectsOf, CandidateObjects
<1>36. CASE UnshareTranscript
  BY <1>36 DEF UnshareTranscript, OwnerChooses, SetRow, TypeInv, TypeOK, SeenLoaded,
              Row, Objects, PcValues, Visibilities, BodyOf, MetaOf,
              ObjectsOf, CandidateObjects
<1>37. CASE UNCHANGED vars
  BY <1>37 DEF vars, TypeInv, TypeOK, SeenLoaded, Row, Objects, PcValues, Visibilities, BodyOf, MetaOf, ObjectsOf, CandidateObjects
<1> QED
  BY <1>1, <1>2, <1>3, <1>4, <1>5, <1>6, <1>7, <1>8, <1>9, <1>10, <1>11,
     <1>12, <1>13, <1>14, <1>15, <1>16, <1>17, <1>18, <1>19, <1>20,
     <1>21, <1>22, <1>23, <1>24, <1>25, <1>26, <1>27, <1>28, <1>29,
     <1>30, <1>31, <1>32, <1>33, <1>34, <1>35, <1>36, <1>37
  DEF Next, PublishStep, WriteStep, RewriteStep, RewrapStep, DeleteStep,
      ReadStep, CleanupStep, OwnerStep

(* The type invariant of TranscriptStore, for any number of requests. *)
THEOREM TypeCorrect == Spec => []TypeOK
<1>1. Init => TypeInv
  BY DEF Init, TypeInv, TypeOK, SeenLoaded, Row, Objects, PcValues, Visibilities
<1>2. TypeInv /\ [Next]_vars => TypeInv'
  BY TypeStep
<1>3. TypeInv => TypeOK
  BY DEF TypeInv
<1> QED BY <1>1, <1>2, <1>3, PTL DEF Spec

-----------------------------------------------------------------------------
(* A generation is settled once its request is past the transaction that
   could install it: from then on nothing but the row already naming it can
   make it referenced. *)
Settled(w) ==
    pc[w] \in {"restore", "cleanCandidate", "release", "cleanSuperseded",
               "done", "crashed"}

RowSettled(r) ==
    r # None => Settled(r.gen) /\ (r.meta # None => Settled(r.meta))

(* Snapshots, the row itself and pending deletions only name settled
   generations, so none of them can name a candidate still to be installed. *)
NamesSettled ==
    /\ RowSettled(row)
    /\ \A q \in Requests : RowSettled(seen[q])
    /\ \A q \in Requests : \A g \in Writers :
          BodyOf(g) \in todo[q] \/ MetaOf(g) \in todo[q] => Settled(g)

(* No pending deletion names what the row names. *)
TodoUnreferenced ==
    \A q \in Requests : todo[q] \intersect ObjectsOf(row) = {}

(* A candidate about to be installed is completely uploaded. *)
CandidateStored ==
    \A w \in Writers :
        /\ pc[w] = "putMeta" => BodyOf(w) \in objects
        /\ pc[w] = "persist" => CandidateObjects(w) \subseteq objects

(* A generation has one metadata object, so a snapshot that names the row's
   body names the row's metadata object too. *)
SnapshotsAgree ==
    \A q \in Requests :
        row # None /\ seen[q] # None /\ seen[q].gen = row.gen
            => seen[q].meta = row.meta

StoreInv ==
    /\ NamesSettled
    /\ TodoUnreferenced
    /\ CandidateStored
    /\ SnapshotsAgree
    /\ MetadataPaired
    /\ ReferencedStored

(* What a publish or a rewrite installs: its own generation, whole. *)
OwnRow(w, r) ==
    r \in Row /\ r.gen = w /\ r.meta = (IF WithMeta(w) THEN w ELSE None)

(* A writer that installs its own, completely uploaded generation and then
   owes at most the objects of its snapshot preserves StoreInv. *)
LEMMA InstallOwn ==
    ASSUME TypeInv, StoreInv, NEW w \in Writers, pc[w] = "persist",
           OwnRow(w, row'),
           NEW label \in {"release", "cleanSuperseded", "cleanCandidate", "done"},
           pc' = [pc EXCEPT ![w] = label],
           NEW T, T = ObjectsOf(seen[w]) \/ T = todo[w],
           todo' = [todo EXCEPT ![w] = T],
           seen' = seen \/ seen' = [seen EXCEPT ![w] = None],
           objects' = objects
    PROVE  StoreInv'
<1>1. ~Settled(w) /\ Settled(w)' /\ \A g \in Writers : Settled(g) => Settled(g)'
  BY DEF Settled, TypeInv, TypeOK
<1>2. row' \in Row /\ row'.gen = w /\ row'.meta \in {w, None} /\ w # None
  BY DEF OwnRow
<1>3. \A q \in Requests : \A g \in Writers :
         BodyOf(g) \in todo'[q] \/ MetaOf(g) \in todo'[q] => Settled(g)
  BY DEF StoreInv, NamesSettled, RowSettled, ObjectsOf, BodyOf, MetaOf, TypeInv, TypeOK
<1>4. \A q \in Requests : RowSettled(seen'[q])
  BY DEF StoreInv, NamesSettled, RowSettled, TypeInv, TypeOK
<1>5. NamesSettled'
  <2>1. RowSettled(row)'
    BY <1>1, <1>2 DEF RowSettled
  <2>2. \A q \in Requests : RowSettled(seen[q])'
    BY <1>1, <1>4 DEF RowSettled, TypeInv, TypeOK, Row
  <2> QED BY <1>1, <1>3, <2>1, <2>2 DEF NamesSettled, BodyOf, MetaOf
<1>6. TodoUnreferenced'
  <2>1. ObjectsOf(row') \subseteq {BodyOf(w), MetaOf(w)}
    BY <1>2 DEF ObjectsOf
  <2>2. \A q \in Requests : BodyOf(w) \notin todo'[q] /\ MetaOf(w) \notin todo'[q]
    BY <1>1, <1>3
  <2> QED BY <2>1, <2>2 DEF TodoUnreferenced, ObjectsOf
<1>7. CandidateStored'
  BY DEF StoreInv, CandidateStored, CandidateObjects, WithMeta, TypeInv, TypeOK
<1>8. SnapshotsAgree'
  BY <1>1, <1>2, <1>4 DEF SnapshotsAgree, RowSettled
<1>9. MetadataPaired' /\ ReferencedStored'
  <2>1. CandidateObjects(w) \subseteq objects
    BY DEF StoreInv, CandidateStored
  <2>2. ObjectsOf(row') \subseteq CandidateObjects(w)
    BY <1>2 DEF OwnRow, ObjectsOf, CandidateObjects
  <2> QED BY <1>2, <2>1, <2>2 DEF MetadataPaired, ReferencedStored, ObjectsOf
<1> QED BY <1>5, <1>6, <1>7, <1>8, <1>9 DEF StoreInv

(* What a publish installs is its own generation. *)
LEMMA PublishedOwn ==
    ASSUME TypeInv, NEW p \in Publishers, PersistReachesCommit(p)
    PROVE  OwnRow(p, PublishedRow(p))
  BY DEF OwnRow, PublishedRow, PersistReachesCommit, Holds, RestoreTarget, TypeInv,
         TypeOK, Row, Visibilities

(* What a rewrite installs is its own generation: the swap matched the
   descriptor, hence the metadata object, of the row it copied. *)
LEMMA RewrittenOwn ==
    ASSUME TypeInv, StoreInv, NEW w \in Rewriters, pc[w] = "persist", RewriteMatches(w)
    PROVE  OwnRow(w, RewrittenRow(w))
<1>1. seen[w] # None /\ row \in Row
  BY DEF RewriteMatches, TypeInv, TypeOK, SeenLoaded
<1>2. seen[w].meta = None => row.meta = None
  BY <1>1 DEF RewriteMatches, SameDescriptor, StoreInv, SnapshotsAgree
<1>3. RewrittenRow(w).meta = IF WithMeta(w) THEN w ELSE None
  BY <1>1, <1>2 DEF RewrittenRow, WithMeta
<1> QED BY <1>1, <1>3 DEF OwnRow, RewrittenRow, TypeInv, TypeOK, Row

(* The row changes without changing the objects it names. *)
LEMMA SameObjects ==
    ASSUME TypeInv, StoreInv, row \in Row, row # None, row' \in Row,
           row'.gen = row.gen, row'.meta = row.meta,
           \A g \in Writers : Settled(g) => Settled(g)',
           UNCHANGED <<seen, todo, objects>>, CandidateStored'
    PROVE  StoreInv'
<1>1. ObjectsOf(row') = ObjectsOf(row) \/ row' = None
  BY DEF ObjectsOf
<1>2. NamesSettled'
  <2>1. RowSettled(row)'
    BY DEF StoreInv, NamesSettled, RowSettled, Row
  <2>2. \A q \in Requests : RowSettled(seen[q])'
    BY DEF StoreInv, NamesSettled, RowSettled, TypeInv, TypeOK, Row
  <2> QED BY <2>1, <2>2 DEF StoreInv, NamesSettled, BodyOf, MetaOf
<1>3. TodoUnreferenced' /\ ReferencedStored'
  BY <1>1 DEF StoreInv, TodoUnreferenced, ReferencedStored, ObjectsOf
<1>4. SnapshotsAgree' /\ MetadataPaired'
  BY DEF StoreInv, SnapshotsAgree, MetadataPaired
<1> QED BY <1>2, <1>3, <1>4 DEF StoreInv

(* A request takes, or drops, a snapshot and moves on; a rewrite that goes on
   to write has not written yet. *)
LEMMA SnapshotOnly ==
    ASSUME TypeInv, StoreInv, NEW r \in Requests,
           \/ seen' = seen
           \/ seen' = [seen EXCEPT ![r] = row]
           \/ seen' = [seen EXCEPT ![r] = None],
           ~Settled(r), NEW label \in PcValues \ {"putMeta", "persist"},
           pc' = [pc EXCEPT ![r] = label],
           UNCHANGED <<row, todo, objects>>
    PROVE  StoreInv'
<1>1. \A g \in Writers : Settled(g) => Settled(g)'
  BY DEF Settled, TypeInv, TypeOK
<1>2. \A q \in Requests : seen'[q] \in {seen[q], row, None}
  BY DEF TypeInv, TypeOK
<1>3. NamesSettled'
  <2>1. RowSettled(row)'
    BY <1>1 DEF StoreInv, NamesSettled, RowSettled, TypeInv, TypeOK, Row
  <2>2. \A q \in Requests : RowSettled(seen[q])'
    BY <1>1, <1>2, <2>1 DEF StoreInv, NamesSettled, RowSettled, TypeInv, TypeOK, Row
  <2> QED BY <1>1, <2>1, <2>2 DEF StoreInv, NamesSettled, BodyOf, MetaOf
<1>4. TodoUnreferenced' /\ ReferencedStored' /\ MetadataPaired'
  BY DEF StoreInv, TodoUnreferenced, ReferencedStored, MetadataPaired, ObjectsOf,
         BodyOf, MetaOf
<1>5. SnapshotsAgree'
  BY <1>2 DEF StoreInv, SnapshotsAgree
<1>6. CandidateStored'
  BY DEF StoreInv, CandidateStored, CandidateObjects, WithMeta, TypeInv, TypeOK,
         BodyOf, MetaOf
<1> QED BY <1>3, <1>4, <1>5, <1>6 DEF StoreInv

(* An installation whose commit is unconfirmed and did not happen. *)
LEMMA AdvanceOnly ==
    ASSUME TypeInv, StoreInv, NEW w \in Writers, pc[w] = "persist",
           NEW label \in {"restore", "cleanCandidate"},
           pc' = [pc EXCEPT ![w] = label], UNCHANGED <<row, seen, todo, objects>>
    PROVE  StoreInv'
<1>1. ~Settled(w) /\ label \in PcValues \ {"putMeta", "persist"}
  BY DEF Settled, PcValues
<1> QED BY <1>1, SnapshotOnly

(* Every step preserves StoreInv. *)
LEMMA StoreStep == ASSUME TypeInv, StoreInv, [Next]_vars PROVE StoreInv'
<1>1. ASSUME NEW p \in Publishers, AcquirePublishLock(p)  PROVE StoreInv'
  BY <1>1 DEF AcquirePublishLock, Goto, StoreInv, NamesSettled, SnapshotsAgree,
              MetadataPaired, RowSettled, Settled, TodoUnreferenced,
              CandidateStored, ReferencedStored, CandidateObjects,
              WithMeta, ObjectsOf, BodyOf, MetaOf, TypeInv, TypeOK,
              SeenLoaded, Row, Objects, PcValues
<1>2. ASSUME NEW p \in Publishers, Probe(p)  PROVE StoreInv'
  BY <1>2 DEF Probe, Goto, StoreInv, NamesSettled, SnapshotsAgree, MetadataPaired,
              RowSettled, Settled, TodoUnreferenced, CandidateStored,
              ReferencedStored, CandidateObjects, WithMeta, ObjectsOf,
              BodyOf, MetaOf, TypeInv, TypeOK, SeenLoaded, Row,
              Objects, PcValues
<1>3. ASSUME NEW p \in Publishers, LoadCurrent(p)  PROVE StoreInv'
  BY <1>3 DEF LoadCurrent, Goto, Holds, IsReplay, StoreInv, NamesSettled,
              SnapshotsAgree, MetadataPaired, RowSettled, Settled,
              TodoUnreferenced, CandidateStored, ReferencedStored,
              CandidateObjects, WithMeta, ObjectsOf, BodyOf, MetaOf,
              TypeInv, TypeOK, SeenLoaded, Row, Objects, PcValues
<1>4. ASSUME NEW p \in Publishers, Narrow(p)  PROVE StoreInv'
  <2>1. row \in Row /\ row' \in Row /\ row'.gen = row.gen /\ row'.meta = row.meta
    BY <1>4 DEF Narrow, Holds, SetRow, TypeInv, TypeOK, Row, Visibilities
  <2>2. \A g \in Writers : Settled(g) => Settled(g)'
    BY <1>4 DEF Narrow, Goto, Settled, TypeInv, TypeOK
  <2>3. UNCHANGED <<seen, todo, objects>> /\ row # None
    BY <1>4 DEF Narrow, Holds
  <2>4. CandidateStored'
    BY <1>4 DEF Narrow, Goto, StoreInv, CandidateStored, CandidateObjects, WithMeta,
             TypeInv, TypeOK
  <2> QED BY <2>1, <2>2, <2>3, <2>4, SameObjects
<1>5. ASSUME NEW p \in Publishers, FailBeforeWrite(p)  PROVE StoreInv'
  BY <1>5 DEF FailBeforeWrite, Goto, StoreInv, NamesSettled, SnapshotsAgree,
              MetadataPaired, RowSettled, Settled, TodoUnreferenced,
              CandidateStored, ReferencedStored, CandidateObjects,
              WithMeta, ObjectsOf, BodyOf, MetaOf, TypeInv, TypeOK,
              SeenLoaded, Row, Objects, PcValues
<1>6. ASSUME NEW p \in Publishers, PersistCommitted(p)  PROVE StoreInv'
  <2>1. OwnRow(p, row') /\ pc[p] = "persist" /\ pc' = [pc EXCEPT ![p] = "release"]
        /\ todo' = [todo EXCEPT ![p] = ObjectsOf(seen[p])] /\ UNCHANGED <<objects, seen>>
    BY <1>6, PublishedOwn DEF PersistCommitted, InstallPublished, SetRow, Goto
  <2> QED BY <2>1, InstallOwn
<1>7. ASSUME NEW p \in Publishers, PersistRolledBack(p)  PROVE StoreInv'
  BY <1>7 DEF PersistRolledBack, Goto, AfterFailure, StoreInv, NamesSettled,
              SnapshotsAgree, MetadataPaired, RowSettled, Settled,
              TodoUnreferenced, CandidateStored, ReferencedStored,
              CandidateObjects, WithMeta, ObjectsOf, BodyOf, MetaOf,
              TypeInv, TypeOK, SeenLoaded, Row, Objects, PcValues
<1>8. ASSUME NEW p \in Publishers, PersistAmbiguous(p)  PROVE StoreInv'
  <2>1. pc[p] = "persist" /\ pc' = [pc EXCEPT ![p] = "cleanCandidate"]
        /\ UNCHANGED <<objects, seen, todo>>
    BY <1>8 DEF PersistAmbiguous, Goto
  <2>2. CASE InstallPublished(p)
    <3>1. OwnRow(p, row')
      BY <1>8, <2>2, PublishedOwn DEF PersistAmbiguous, InstallPublished, SetRow
    <3>2. todo' = [todo EXCEPT ![p] = todo[p]]
      BY <2>1 DEF TypeInv, TypeOK
    <3> QED BY <2>1, <3>1, <3>2, InstallOwn
  <2>3. CASE row' = row
    BY <2>1, <2>3, AdvanceOnly
  <2> QED BY <1>8, <2>2, <2>3 DEF PersistAmbiguous
<1>9. ASSUME NEW p \in Publishers, RestoreAudience(p)  PROVE StoreInv'
  BY <1>9 DEF RestoreAudience, Goto, Holds, SetRow, RestoreTarget, StoreInv,
              NamesSettled, SnapshotsAgree, MetadataPaired,
              RowSettled, Settled, TodoUnreferenced, CandidateStored,
              ReferencedStored, CandidateObjects, WithMeta, ObjectsOf,
              BodyOf, MetaOf, TypeInv, TypeOK, SeenLoaded, Row,
              Objects, PcValues
<1>10. ASSUME NEW p \in Publishers, RestoreAudienceFailed(p)  PROVE StoreInv'
  BY <1>10 DEF RestoreAudienceFailed, Goto, Holds, SetRow, RestoreTarget, StoreInv,
              NamesSettled, SnapshotsAgree, MetadataPaired,
              RowSettled, Settled, TodoUnreferenced, CandidateStored,
              ReferencedStored, CandidateObjects, WithMeta, ObjectsOf,
              BodyOf, MetaOf, TypeInv, TypeOK, SeenLoaded, Row,
              Objects, PcValues
<1>11. ASSUME NEW p \in Publishers, ReleasePublishLock(p)  PROVE StoreInv'
  BY <1>11 DEF ReleasePublishLock, Goto, StoreInv, NamesSettled, SnapshotsAgree,
              MetadataPaired, RowSettled, Settled, TodoUnreferenced,
              CandidateStored, ReferencedStored, CandidateObjects,
              WithMeta, ObjectsOf, BodyOf, MetaOf, TypeInv, TypeOK,
              SeenLoaded, Row, Objects, PcValues
<1>12. ASSUME NEW p \in Publishers, LoseConnection(p)  PROVE StoreInv'
  BY <1>12 DEF LoseConnection, StoreInv, NamesSettled, SnapshotsAgree,
              MetadataPaired, RowSettled, Settled, TodoUnreferenced,
              CandidateStored, ReferencedStored, CandidateObjects,
              WithMeta, ObjectsOf, BodyOf, MetaOf, TypeInv, TypeOK,
              SeenLoaded, Row, Objects, PcValues
<1>13. ASSUME NEW w \in Writers, PutBody(w)  PROVE StoreInv'
  BY <1>13 DEF PutBody, Goto, StoreInv, NamesSettled, SnapshotsAgree, MetadataPaired,
              RowSettled, Settled, TodoUnreferenced, CandidateStored,
              ReferencedStored, CandidateObjects, WithMeta, ObjectsOf,
              BodyOf, MetaOf, TypeInv, TypeOK, SeenLoaded, Row,
              Objects, PcValues
<1>14. ASSUME NEW w \in Writers, PutBodyFailed(w)  PROVE StoreInv'
  BY <1>14 DEF PutBodyFailed, Goto, AfterFailure, StoreInv, NamesSettled,
              SnapshotsAgree, MetadataPaired, RowSettled, Settled,
              TodoUnreferenced, CandidateStored, ReferencedStored,
              CandidateObjects, WithMeta, ObjectsOf, BodyOf, MetaOf,
              TypeInv, TypeOK, SeenLoaded, Row, Objects, PcValues
<1>15. ASSUME NEW w \in Writers, PutMeta(w)  PROVE StoreInv'
  BY <1>15 DEF PutMeta, Goto, StoreInv, NamesSettled, SnapshotsAgree, MetadataPaired,
              RowSettled, Settled, TodoUnreferenced, CandidateStored,
              ReferencedStored, CandidateObjects, WithMeta, ObjectsOf,
              BodyOf, MetaOf, TypeInv, TypeOK, SeenLoaded, Row,
              Objects, PcValues
<1>16. ASSUME NEW w \in Writers, PutMetaFailed(w)  PROVE StoreInv'
  BY <1>16 DEF PutMetaFailed, Goto, AfterFailure, StoreInv, NamesSettled,
              SnapshotsAgree, MetadataPaired, RowSettled, Settled,
              TodoUnreferenced, CandidateStored, ReferencedStored,
              CandidateObjects, WithMeta, ObjectsOf, BodyOf, MetaOf,
              TypeInv, TypeOK, SeenLoaded, Row, Objects, PcValues
<1>17. ASSUME NEW x \in Rewriters, RewriteRead(x)  PROVE StoreInv'
  BY <1>17 DEF RewriteRead, Goto, StoreInv, NamesSettled, SnapshotsAgree,
              MetadataPaired, RowSettled, Settled, TodoUnreferenced,
              CandidateStored, ReferencedStored, CandidateObjects,
              WithMeta, ObjectsOf, BodyOf, MetaOf, TypeInv, TypeOK,
              SeenLoaded, Row, Objects, PcValues
<1>18. ASSUME NEW x \in Rewriters, RewriteReload(x)  PROVE StoreInv'
  <2>1. seen' = [seen EXCEPT ![x] = row] \/ seen' = [seen EXCEPT ![x] = None]
    BY <1>18 DEF RewriteReload, Leave
  <2>2. ~Settled(x) /\ \E label \in {"putBody", "done"} : pc' = [pc EXCEPT ![x] = label]
    BY <1>18 DEF RewriteReload, Leave, Goto, Settled
  <2>3. UNCHANGED <<row, todo, objects>>
    BY <1>18 DEF RewriteReload
  <2> QED BY <2>1, <2>2, <2>3, SnapshotOnly DEF PcValues
<1>19. ASSUME NEW x \in Rewriters, RewriteCommitted(x)  PROVE StoreInv'
  <2>1. OwnRow(x, row') /\ pc[x] = "persist" /\ pc' = [pc EXCEPT ![x] = "cleanSuperseded"]
        /\ todo' = [todo EXCEPT ![x] = ObjectsOf(seen[x])] /\ UNCHANGED <<objects, seen>>
    BY <1>19, RewrittenOwn DEF RewriteCommitted, SetRow, Goto
  <2> QED BY <2>1, InstallOwn
<1>20. ASSUME NEW x \in Rewriters, RewriteRolledBack(x)  PROVE StoreInv'
  BY <1>20 DEF RewriteRolledBack, Goto, StoreInv, NamesSettled, SnapshotsAgree,
              MetadataPaired, RowSettled, Settled, TodoUnreferenced,
              CandidateStored, ReferencedStored, CandidateObjects,
              WithMeta, ObjectsOf, BodyOf, MetaOf, TypeInv, TypeOK,
              SeenLoaded, Row, Objects, PcValues
<1>21. ASSUME NEW x \in Rewriters, RewriteAmbiguous(x)  PROVE StoreInv'
  <2>1. pc[x] = "persist" /\ pc' = [pc EXCEPT ![x] = "done"]
        /\ seen' = [seen EXCEPT ![x] = None] /\ UNCHANGED <<objects, todo>>
    BY <1>21 DEF RewriteAmbiguous, Leave, Goto
  <2>2. CASE row' = RewrittenRow(x)
    <3>1. OwnRow(x, row')
      BY <1>21, <2>2, RewrittenOwn DEF RewriteAmbiguous
    <3>2. todo' = [todo EXCEPT ![x] = todo[x]]
      BY <2>1 DEF TypeInv, TypeOK
    <3> QED BY <2>1, <3>1, <3>2, InstallOwn
  <2>3. CASE row' = row
    BY <2>1, <2>3, SnapshotOnly DEF Settled, PcValues
  <2> QED BY <1>21, <2>2, <2>3 DEF RewriteAmbiguous, SetRow
<1>22. ASSUME NEW k \in Rewrappers, RewrapRead(k)  PROVE StoreInv'
  BY <1>22 DEF RewrapRead, Goto, StoreInv, NamesSettled, SnapshotsAgree,
              MetadataPaired, RowSettled, Settled, TodoUnreferenced,
              CandidateStored, ReferencedStored, CandidateObjects,
              WithMeta, ObjectsOf, BodyOf, MetaOf, TypeInv, TypeOK,
              SeenLoaded, Row, Objects, PcValues
<1>23. ASSUME NEW k \in Rewrappers, RewrapInstall(k)  PROVE StoreInv'
  BY <1>23 DEF RewrapInstall, Goto, SetRow, SameDescriptor, Leave, StoreInv,
              NamesSettled, SnapshotsAgree, MetadataPaired,
              RowSettled, Settled, TodoUnreferenced, CandidateStored,
              ReferencedStored, CandidateObjects, WithMeta, ObjectsOf,
              BodyOf, MetaOf, TypeInv, TypeOK, SeenLoaded, Row,
              Objects, PcValues
<1>24. ASSUME NEW d \in Deleters, DeleteRead(d)  PROVE StoreInv'
  BY <1>24 DEF DeleteRead, Goto, StoreInv, NamesSettled, SnapshotsAgree,
              MetadataPaired, RowSettled, Settled, TodoUnreferenced,
              CandidateStored, ReferencedStored, CandidateObjects,
              WithMeta, ObjectsOf, BodyOf, MetaOf, TypeInv, TypeOK,
              SeenLoaded, Row, Objects, PcValues
<1>25. ASSUME NEW d \in Deleters, DeleteCommitted(d)  PROVE StoreInv'
  BY <1>25 DEF DeleteCommitted, Goto, SetRow, StoreInv, NamesSettled, SnapshotsAgree,
              MetadataPaired, RowSettled, Settled, TodoUnreferenced,
              CandidateStored, ReferencedStored, CandidateObjects,
              WithMeta, ObjectsOf, BodyOf, MetaOf, TypeInv, TypeOK,
              SeenLoaded, Row, Objects, PcValues
<1>26. ASSUME NEW d \in Deleters, DeleteRolledBack(d)  PROVE StoreInv'
  BY <1>26 DEF DeleteRolledBack, Goto, Leave, StoreInv, NamesSettled, SnapshotsAgree,
              MetadataPaired, RowSettled, Settled, TodoUnreferenced,
              CandidateStored, ReferencedStored, CandidateObjects,
              WithMeta, ObjectsOf, BodyOf, MetaOf, TypeInv, TypeOK,
              SeenLoaded, Row, Objects, PcValues
<1>27. ASSUME NEW d \in Deleters, DeleteAmbiguous(d)  PROVE StoreInv'
  BY <1>27 DEF DeleteAmbiguous, Goto, SetRow, Leave, StoreInv, NamesSettled,
              SnapshotsAgree, MetadataPaired, RowSettled, Settled,
              TodoUnreferenced, CandidateStored, ReferencedStored,
              CandidateObjects, WithMeta, ObjectsOf, BodyOf, MetaOf,
              TypeInv, TypeOK, SeenLoaded, Row, Objects, PcValues
<1>28. ASSUME NEW r \in Readers, ReadAuthorize(r)  PROVE StoreInv'
  BY <1>28 DEF ReadAuthorize, Goto, Authorized, StoreInv, NamesSettled,
              SnapshotsAgree, MetadataPaired, RowSettled, Settled,
              TodoUnreferenced, CandidateStored, ReferencedStored,
              CandidateObjects, WithMeta, ObjectsOf, BodyOf, MetaOf,
              TypeInv, TypeOK, SeenLoaded, Row, Objects, PcValues
<1>29. ASSUME NEW r \in Readers, ReadBody(r)  PROVE StoreInv'
  <2>1. seen' = seen \/ seen' = [seen EXCEPT ![r] = None]
    BY <1>29 DEF ReadBody, Leave
  <2>2. ~Settled(r) /\ \E label \in {"retry", "done"} : pc' = [pc EXCEPT ![r] = label]
    BY <1>29 DEF ReadBody, Leave, Goto, Settled
  <2>3. UNCHANGED <<row, todo, objects>>
    BY <1>29 DEF ReadBody
  <2> QED BY <2>1, <2>2, <2>3, SnapshotOnly DEF PcValues
<1>30. ASSUME NEW r \in Readers, ReadReload(r)  PROVE StoreInv'
  <2>1. seen' = [seen EXCEPT ![r] = row] \/ seen' = [seen EXCEPT ![r] = None]
    BY <1>30 DEF ReadReload, Leave
  <2>2. ~Settled(r) /\ \E label \in {"absent", "reread", "done"} :
                          pc' = [pc EXCEPT ![r] = label]
    BY <1>30 DEF ReadReload, Leave, Goto, Settled
  <2>3. UNCHANGED <<row, todo, objects>>
    BY <1>30 DEF ReadReload
  <2> QED BY <2>1, <2>2, <2>3, SnapshotOnly DEF PcValues
<1>31. ASSUME NEW q \in Requests, Cleanup(q)  PROVE StoreInv'
  <2>1. PICK o \in todo[q] :
           todo' = [todo EXCEPT ![q] = todo[q] \ {o}] /\ objects \ {o} \subseteq objects'
    BY <1>31 DEF Cleanup
  <2>2. UNCHANGED <<row, pc, seen>>
    BY <1>31 DEF Cleanup
  <2>3. \A s \in Requests : todo'[s] \subseteq todo[s]
    BY <2>1 DEF TypeInv, TypeOK
  <2>4. PICK g \in Writers : o = BodyOf(g) \/ o = MetaOf(g)
    BY <2>1 DEF TypeInv, TypeOK, Objects, BodyOf, MetaOf
  <2>5. Settled(g)
    BY <2>1, <2>4 DEF StoreInv, NamesSettled
  <2>6. NamesSettled' /\ TodoUnreferenced'
    BY <2>2, <2>3 DEF StoreInv, NamesSettled, RowSettled, Settled, TodoUnreferenced,
                      ObjectsOf, BodyOf, MetaOf
  <2>7. CandidateStored'
    <3> SUFFICES ASSUME NEW w \in Writers
                 PROVE  /\ pc[w] = "putMeta" => BodyOf(w) \in objects'
                        /\ pc[w] = "persist" => CandidateObjects(w) \subseteq objects'
      BY <2>2 DEF CandidateStored, CandidateObjects, WithMeta, BodyOf, MetaOf
    <3>1. pc[w] \in {"putMeta", "persist"} => o # BodyOf(w) /\ o # MetaOf(w)
      BY <2>4, <2>5 DEF Settled, BodyOf, MetaOf
    <3> QED BY <2>1, <3>1 DEF StoreInv, CandidateStored, CandidateObjects
  <2>8. ReferencedStored'
    <3>1. o \notin ObjectsOf(row)
      BY <2>1 DEF StoreInv, TodoUnreferenced
    <3> QED BY <2>1, <2>2, <3>1 DEF StoreInv, ReferencedStored, ObjectsOf
  <2> QED BY <2>2, <2>6, <2>7, <2>8 DEF StoreInv, SnapshotsAgree, MetadataPaired
<1>32. ASSUME NEW q \in Requests, Answer(q)  PROVE StoreInv'
  BY <1>32 DEF Answer, Goto, Leave, StoreInv, NamesSettled, SnapshotsAgree,
              MetadataPaired, RowSettled, Settled, TodoUnreferenced,
              CandidateStored, ReferencedStored, CandidateObjects,
              WithMeta, ObjectsOf, BodyOf, MetaOf, TypeInv, TypeOK,
              SeenLoaded, Row, Objects, PcValues
<1>33. ASSUME NEW q \in Requests, Crash(q)  PROVE StoreInv'
  BY <1>33 DEF Crash, Goto, Leave, StoreInv, NamesSettled, SnapshotsAgree,
              MetadataPaired, RowSettled, Settled, TodoUnreferenced,
              CandidateStored, ReferencedStored, CandidateObjects,
              WithMeta, ObjectsOf, BodyOf, MetaOf, TypeInv, TypeOK,
              SeenLoaded, Row, Objects, PcValues
<1>34. ASSUME NEW v \in {"private", "public"}, UpdateVisibility(v)  PROVE StoreInv'
  BY <1>34 DEF UpdateVisibility, OwnerChooses, SetRow, StoreInv, NamesSettled,
              SnapshotsAgree, MetadataPaired, RowSettled, Settled,
              TodoUnreferenced, CandidateStored, ReferencedStored,
              CandidateObjects, WithMeta, ObjectsOf, BodyOf, MetaOf,
              TypeInv, TypeOK, SeenLoaded, Row, Objects, PcValues
<1>35. CASE ShareTranscript
  BY <1>35 DEF ShareTranscript, OwnerChooses, SetRow, StoreInv, NamesSettled,
              SnapshotsAgree, MetadataPaired, RowSettled, Settled,
              TodoUnreferenced, CandidateStored, ReferencedStored,
              CandidateObjects, WithMeta, ObjectsOf, BodyOf, MetaOf,
              TypeInv, TypeOK, SeenLoaded, Row, Objects, PcValues
<1>36. CASE UnshareTranscript
  BY <1>36 DEF UnshareTranscript, OwnerChooses, SetRow, StoreInv, NamesSettled,
              SnapshotsAgree, MetadataPaired, RowSettled, Settled,
              TodoUnreferenced, CandidateStored, ReferencedStored,
              CandidateObjects, WithMeta, ObjectsOf, BodyOf, MetaOf,
              TypeInv, TypeOK, SeenLoaded, Row, Objects, PcValues
<1>37. CASE UNCHANGED vars
  BY <1>37 DEF vars, StoreInv, NamesSettled, SnapshotsAgree, MetadataPaired, RowSettled, Settled, TodoUnreferenced, CandidateStored, ReferencedStored, CandidateObjects, WithMeta, ObjectsOf, BodyOf, MetaOf, TypeInv, TypeOK, SeenLoaded, Row, Objects, PcValues
<1> QED
  BY <1>1, <1>2, <1>3, <1>4, <1>5, <1>6, <1>7, <1>8, <1>9, <1>10, <1>11,
     <1>12, <1>13, <1>14, <1>15, <1>16, <1>17, <1>18, <1>19, <1>20,
     <1>21, <1>22, <1>23, <1>24, <1>25, <1>26, <1>27, <1>28, <1>29,
     <1>30, <1>31, <1>32, <1>33, <1>34, <1>35, <1>36, <1>37
  DEF Next, PublishStep, WriteStep, RewriteStep, RewrapStep, DeleteStep,
      ReadStep, CleanupStep, OwnerStep

(* Together: no interleaving of requests and faults deletes a generation the
   row names, or leaves the row naming halves of two generations. *)
THEOREM StoreSafe == Spec => [](ReferencedStored /\ MetadataPaired)
<1>1. Init => TypeInv /\ StoreInv
  BY DEF Init, TypeInv, TypeOK, SeenLoaded, Row, Objects, PcValues, Visibilities,
         StoreInv, NamesSettled, RowSettled, TodoUnreferenced, CandidateStored,
         SnapshotsAgree, MetadataPaired, ReferencedStored, ObjectsOf
<1>2. TypeInv /\ StoreInv /\ [Next]_vars => (TypeInv /\ StoreInv)'
  BY TypeStep, StoreStep
<1>3. StoreInv => ReferencedStored /\ MetadataPaired
  BY DEF StoreInv
<1> QED BY <1>1, <1>2, <1>3, PTL DEF Spec

(* The metadata object the row names is always the one sealed with the body
   it names: no rewrite, rewrap or republish mixes two generations. *)
THEOREM MetadataStaysPaired == Spec => []MetadataPaired
  BY StoreSafe, PTL

-----------------------------------------------------------------------------
(* A candidate's body holds what its request set out to store, and the row's
   accepted fingerprint describes its body. *)
ContentInv ==
    /\ \A p \in Publishers : pc[p] \in {"putMeta", "persist"} => content[p] = Submitted[p]
    /\ \A w \in Rewriters : pc[w] \in {"putMeta", "persist"} =>
                               content[w] = content[seen[w].gen]
    /\ FingerprintMatches

(* Every step preserves ContentInv. *)
LEMMA ContentStep == ASSUME TypeInv, StoreInv, ContentInv, [Next]_vars PROVE ContentInv'
<1>1. ASSUME NEW p \in Publishers, AcquirePublishLock(p)  PROVE ContentInv'
  BY <1>1 DEF AcquirePublishLock, Goto, ContentInv, FingerprintMatches, StoreInv,
              NamesSettled, RowSettled, Settled, TypeInv, TypeOK,
              SeenLoaded, Row
<1>2. ASSUME NEW p \in Publishers, Probe(p)  PROVE ContentInv'
  BY <1>2 DEF Probe, Goto, ContentInv, FingerprintMatches, StoreInv, NamesSettled,
              RowSettled, Settled, TypeInv, TypeOK, SeenLoaded, Row
<1>3. ASSUME NEW p \in Publishers, LoadCurrent(p)  PROVE ContentInv'
  BY <1>3 DEF LoadCurrent, Goto, Holds, IsReplay, ContentInv, FingerprintMatches,
              StoreInv, NamesSettled, RowSettled, Settled, TypeInv,
              TypeOK, SeenLoaded, Row
<1>4. ASSUME NEW p \in Publishers, Narrow(p)  PROVE ContentInv'
  BY <1>4 DEF Narrow, Goto, Holds, SetRow, ContentInv, FingerprintMatches, StoreInv,
              NamesSettled, RowSettled, Settled, TypeInv, TypeOK,
              SeenLoaded, Row
<1>5. ASSUME NEW p \in Publishers, FailBeforeWrite(p)  PROVE ContentInv'
  BY <1>5 DEF FailBeforeWrite, Goto, ContentInv, FingerprintMatches, StoreInv,
              NamesSettled, RowSettled, Settled, TypeInv, TypeOK,
              SeenLoaded, Row
<1>6. ASSUME NEW p \in Publishers, PersistCommitted(p)  PROVE ContentInv'
  BY <1>6 DEF PersistCommitted, Goto, PersistReachesCommit, InstallPublished,
              SetRow, PublishedRow, RestoreTarget, Holds, ContentInv,
              FingerprintMatches, StoreInv, NamesSettled, RowSettled,
              Settled, TypeInv, TypeOK, SeenLoaded, Row
<1>7. ASSUME NEW p \in Publishers, PersistRolledBack(p)  PROVE ContentInv'
  BY <1>7 DEF PersistRolledBack, Goto, AfterFailure, ContentInv, FingerprintMatches,
              StoreInv, NamesSettled, RowSettled, Settled, TypeInv,
              TypeOK, SeenLoaded, Row
<1>8. ASSUME NEW p \in Publishers, PersistAmbiguous(p)  PROVE ContentInv'
  BY <1>8 DEF PersistAmbiguous, Goto, PersistReachesCommit, InstallPublished,
              SetRow, PublishedRow, RestoreTarget, Holds, ContentInv,
              FingerprintMatches, StoreInv, NamesSettled, RowSettled,
              Settled, TypeInv, TypeOK, SeenLoaded, Row
<1>9. ASSUME NEW p \in Publishers, RestoreAudience(p)  PROVE ContentInv'
  BY <1>9 DEF RestoreAudience, Goto, Holds, SetRow, RestoreTarget, ContentInv,
              FingerprintMatches, StoreInv, NamesSettled, RowSettled,
              Settled, TypeInv, TypeOK, SeenLoaded, Row
<1>10. ASSUME NEW p \in Publishers, RestoreAudienceFailed(p)  PROVE ContentInv'
  BY <1>10 DEF RestoreAudienceFailed, Goto, Holds, SetRow, RestoreTarget, ContentInv,
              FingerprintMatches, StoreInv, NamesSettled, RowSettled,
              Settled, TypeInv, TypeOK, SeenLoaded, Row
<1>11. ASSUME NEW p \in Publishers, ReleasePublishLock(p)  PROVE ContentInv'
  BY <1>11 DEF ReleasePublishLock, Goto, ContentInv, FingerprintMatches, StoreInv,
              NamesSettled, RowSettled, Settled, TypeInv, TypeOK,
              SeenLoaded, Row
<1>12. ASSUME NEW p \in Publishers, LoseConnection(p)  PROVE ContentInv'
  BY <1>12 DEF LoseConnection, ContentInv, FingerprintMatches, StoreInv,
              NamesSettled, RowSettled, Settled, TypeInv, TypeOK,
              SeenLoaded, Row
<1>13. ASSUME NEW w \in Writers, PutBody(w)  PROVE ContentInv'
  <2>1. ~Settled(w) /\ pc' = [pc EXCEPT ![w] = IF WithMeta(w) THEN "putMeta" ELSE "persist"]
        /\ UNCHANGED <<row, seen>>
    BY <1>13 DEF PutBody, Goto, Settled
  <2>2. \A g \in Writers : g # w => content'[g] = content[g] /\ pc'[g] = pc[g]
    BY <1>13, <2>1 DEF PutBody, TypeInv, TypeOK
  <2>3. w \in Publishers => content'[w] = Submitted[w]
    BY <1>13 DEF PutBody, TypeInv, TypeOK
  <2>4. ASSUME NEW x \in Rewriters, pc[x] \in {"putBody", "putMeta", "persist"}
        PROVE  seen[x].gen \in Writers /\ seen[x].gen # w
    <3>1. seen[x] \in Row /\ seen[x] # None
      BY <2>4 DEF TypeInv, TypeOK, SeenLoaded, Row
    <3>2. Settled(seen[x].gen)
      BY <3>1 DEF StoreInv, NamesSettled, RowSettled
    <3> QED BY <2>1, <3>1, <3>2 DEF Row
  <2>5. w \in Rewriters => content'[w] = content'[seen[w].gen]
    <3>1. w \in Rewriters => content'[w] = content[seen[w].gen] /\ pc[w] = "putBody"
      BY <1>13 DEF PutBody, TypeInv, TypeOK
    <3> QED BY <2>2, <2>4, <3>1
  <2>6. \A p \in Publishers : pc'[p] \in {"putMeta", "persist"} => content'[p] = Submitted[p]
    BY <2>2, <2>3 DEF ContentInv
  <2>7. ASSUME NEW x \in Rewriters, pc'[x] \in {"putMeta", "persist"}
        PROVE  content'[x] = content'[seen[x].gen]
    BY <2>2, <2>4, <2>5, <2>7 DEF ContentInv
  <2>8. FingerprintMatches'
    <3>1. row # None => row.gen \in Writers /\ row.gen # w
      BY <2>1 DEF StoreInv, NamesSettled, RowSettled, TypeInv, TypeOK, Row
    <3> QED BY <2>1, <2>2, <3>1 DEF ContentInv, FingerprintMatches
  <2> QED BY <2>1, <2>6, <2>7, <2>8 DEF ContentInv
<1>14. ASSUME NEW w \in Writers, PutBodyFailed(w)  PROVE ContentInv'
  BY <1>14 DEF PutBodyFailed, Goto, AfterFailure, ContentInv, FingerprintMatches,
              StoreInv, NamesSettled, RowSettled, Settled, TypeInv,
              TypeOK, SeenLoaded, Row
<1>15. ASSUME NEW w \in Writers, PutMeta(w)  PROVE ContentInv'
  BY <1>15 DEF PutMeta, Goto, ContentInv, FingerprintMatches, StoreInv, NamesSettled,
              RowSettled, Settled, TypeInv, TypeOK, SeenLoaded, Row
<1>16. ASSUME NEW w \in Writers, PutMetaFailed(w)  PROVE ContentInv'
  BY <1>16 DEF PutMetaFailed, Goto, AfterFailure, ContentInv, FingerprintMatches,
              StoreInv, NamesSettled, RowSettled, Settled, TypeInv,
              TypeOK, SeenLoaded, Row
<1>17. ASSUME NEW x \in Rewriters, RewriteRead(x)  PROVE ContentInv'
  BY <1>17 DEF RewriteRead, Goto, ContentInv, FingerprintMatches, StoreInv,
              NamesSettled, RowSettled, Settled, TypeInv, TypeOK,
              SeenLoaded, Row
<1>18. ASSUME NEW x \in Rewriters, RewriteReload(x)  PROVE ContentInv'
  BY <1>18 DEF RewriteReload, Goto, Leave, SameDescriptor, ContentInv,
              FingerprintMatches, StoreInv, NamesSettled, RowSettled,
              Settled, TypeInv, TypeOK, SeenLoaded, Row
<1>19. ASSUME NEW x \in Rewriters, RewriteCommitted(x)  PROVE ContentInv'
  BY <1>19 DEF RewriteCommitted, Goto, RewriteMatches, RewrittenRow, SetRow,
              SameDescriptor, ContentInv, FingerprintMatches,
              StoreInv, NamesSettled, RowSettled, Settled, TypeInv,
              TypeOK, SeenLoaded, Row
<1>20. ASSUME NEW x \in Rewriters, RewriteRolledBack(x)  PROVE ContentInv'
  BY <1>20 DEF RewriteRolledBack, Goto, ContentInv, FingerprintMatches, StoreInv,
              NamesSettled, RowSettled, Settled, TypeInv, TypeOK,
              SeenLoaded, Row
<1>21. ASSUME NEW x \in Rewriters, RewriteAmbiguous(x)  PROVE ContentInv'
  BY <1>21 DEF RewriteAmbiguous, Goto, RewriteMatches, RewrittenRow, SetRow,
              SameDescriptor, Leave, ContentInv, FingerprintMatches,
              StoreInv, NamesSettled, RowSettled, Settled, TypeInv,
              TypeOK, SeenLoaded, Row
<1>22. ASSUME NEW k \in Rewrappers, RewrapRead(k)  PROVE ContentInv'
  BY <1>22 DEF RewrapRead, Goto, ContentInv, FingerprintMatches, StoreInv,
              NamesSettled, RowSettled, Settled, TypeInv, TypeOK,
              SeenLoaded, Row
<1>23. ASSUME NEW k \in Rewrappers, RewrapInstall(k)  PROVE ContentInv'
  BY <1>23 DEF RewrapInstall, Goto, SetRow, SameDescriptor, Leave, ContentInv,
              FingerprintMatches, StoreInv, NamesSettled, RowSettled,
              Settled, TypeInv, TypeOK, SeenLoaded, Row
<1>24. ASSUME NEW d \in Deleters, DeleteRead(d)  PROVE ContentInv'
  BY <1>24 DEF DeleteRead, Goto, ContentInv, FingerprintMatches, StoreInv,
              NamesSettled, RowSettled, Settled, TypeInv, TypeOK,
              SeenLoaded, Row
<1>25. ASSUME NEW d \in Deleters, DeleteCommitted(d)  PROVE ContentInv'
  BY <1>25 DEF DeleteCommitted, Goto, SetRow, ContentInv, FingerprintMatches,
              StoreInv, NamesSettled, RowSettled, Settled, TypeInv,
              TypeOK, SeenLoaded, Row
<1>26. ASSUME NEW d \in Deleters, DeleteRolledBack(d)  PROVE ContentInv'
  BY <1>26 DEF DeleteRolledBack, Goto, Leave, ContentInv, FingerprintMatches,
              StoreInv, NamesSettled, RowSettled, Settled, TypeInv,
              TypeOK, SeenLoaded, Row
<1>27. ASSUME NEW d \in Deleters, DeleteAmbiguous(d)  PROVE ContentInv'
  BY <1>27 DEF DeleteAmbiguous, Goto, SetRow, Leave, ContentInv, FingerprintMatches,
              StoreInv, NamesSettled, RowSettled, Settled, TypeInv,
              TypeOK, SeenLoaded, Row
<1>28. ASSUME NEW r \in Readers, ReadAuthorize(r)  PROVE ContentInv'
  BY <1>28 DEF ReadAuthorize, Goto, Authorized, ContentInv, FingerprintMatches,
              StoreInv, NamesSettled, RowSettled, Settled, TypeInv,
              TypeOK, SeenLoaded, Row
<1>29. ASSUME NEW r \in Readers, ReadBody(r)  PROVE ContentInv'
  <2>1. /\ row' = row /\ content' = content
        /\ \A w \in Writers : pc'[w] = pc[w] /\ seen'[w] = seen[w]
    BY <1>29 DEF ReadBody, Goto, Leave, TypeInv, TypeOK
  <2> QED BY <2>1 DEF ContentInv, FingerprintMatches
<1>30. ASSUME NEW r \in Readers, ReadReload(r)  PROVE ContentInv'
  BY <1>30 DEF ReadReload, Goto, Leave, Authorized, SameDescriptor, ContentInv,
              FingerprintMatches, StoreInv, NamesSettled, RowSettled,
              Settled, TypeInv, TypeOK, SeenLoaded, Row
<1>31. ASSUME NEW q \in Requests, Cleanup(q)  PROVE ContentInv'
  BY <1>31 DEF Cleanup, ContentInv, FingerprintMatches, StoreInv, NamesSettled,
              RowSettled, Settled, TypeInv, TypeOK, SeenLoaded, Row
<1>32. ASSUME NEW q \in Requests, Answer(q)  PROVE ContentInv'
  BY <1>32 DEF Answer, Goto, Leave, ContentInv, FingerprintMatches, StoreInv,
              NamesSettled, RowSettled, Settled, TypeInv, TypeOK,
              SeenLoaded, Row
<1>33. ASSUME NEW q \in Requests, Crash(q)  PROVE ContentInv'
  BY <1>33 DEF Crash, Goto, Leave, ContentInv, FingerprintMatches, StoreInv,
              NamesSettled, RowSettled, Settled, TypeInv, TypeOK,
              SeenLoaded, Row
<1>34. ASSUME NEW v \in {"private", "public"}, UpdateVisibility(v)  PROVE ContentInv'
  BY <1>34 DEF UpdateVisibility, OwnerChooses, SetRow, ContentInv,
              FingerprintMatches, StoreInv, NamesSettled, RowSettled,
              Settled, TypeInv, TypeOK, SeenLoaded, Row
<1>35. CASE ShareTranscript
  BY <1>35 DEF ShareTranscript, OwnerChooses, SetRow, ContentInv, FingerprintMatches,
              StoreInv, NamesSettled, RowSettled, Settled, TypeInv,
              TypeOK, SeenLoaded, Row
<1>36. CASE UnshareTranscript
  BY <1>36 DEF UnshareTranscript, OwnerChooses, SetRow, ContentInv,
              FingerprintMatches, StoreInv, NamesSettled, RowSettled,
              Settled, TypeInv, TypeOK, SeenLoaded, Row
<1>37. CASE UNCHANGED vars
  BY <1>37 DEF vars, ContentInv, FingerprintMatches, StoreInv, NamesSettled, RowSettled, Settled, TypeInv, TypeOK, SeenLoaded, Row
<1> QED
  BY <1>1, <1>2, <1>3, <1>4, <1>5, <1>6, <1>7, <1>8, <1>9, <1>10, <1>11,
     <1>12, <1>13, <1>14, <1>15, <1>16, <1>17, <1>18, <1>19, <1>20,
     <1>21, <1>22, <1>23, <1>24, <1>25, <1>26, <1>27, <1>28, <1>29,
     <1>30, <1>31, <1>32, <1>33, <1>34, <1>35, <1>36, <1>37
  DEF Next, PublishStep, WriteStep, RewriteStep, RewrapStep, DeleteStep,
      ReadStep, CleanupStep, OwnerStep

(* What an exact replay is answered from is always true of the stored body. *)
THEOREM FingerprintSound == Spec => []FingerprintMatches
<1>1. Init => TypeInv /\ StoreInv /\ ContentInv
  BY DEF Init, TypeInv, TypeOK, SeenLoaded, Row, Objects, PcValues, Visibilities,
         StoreInv, NamesSettled, RowSettled, TodoUnreferenced, CandidateStored,
         SnapshotsAgree, MetadataPaired, ReferencedStored, ObjectsOf, ContentInv,
         FingerprintMatches
<1>2. TypeInv /\ StoreInv /\ ContentInv /\ [Next]_vars => (TypeInv /\ StoreInv /\ ContentInv)'
  BY TypeStep, StoreStep, ContentStep
<1>3. ContentInv => FingerprintMatches
  BY DEF ContentInv
<1> QED BY <1>1, <1>2, <1>3, PTL DEF Spec

-----------------------------------------------------------------------------
(* A reader that is about to reload saw its object missing, and an object
   that is missing stays missing. *)
ReaderInv ==
    \A r \in Readers :
        /\ pc[r] = "retry" => BodyOf(seen[r].gen) \notin objects
        /\ pc[r] # "absent"

(* Every step preserves ReaderInv. *)
LEMMA ReaderStep == ASSUME TypeInv, StoreInv, ReaderInv, [Next]_vars PROVE ReaderInv'
<1>1. ASSUME NEW p \in Publishers, AcquirePublishLock(p)  PROVE ReaderInv'
  BY <1>1 DEF AcquirePublishLock, Goto, ReaderInv, StoreInv, NamesSettled,
              RowSettled, Settled, TypeInv, TypeOK, SeenLoaded, Row,
              BodyOf, MetaOf, ReferencedStored, ObjectsOf
<1>2. ASSUME NEW p \in Publishers, Probe(p)  PROVE ReaderInv'
  BY <1>2 DEF Probe, Goto, ReaderInv, StoreInv, NamesSettled, RowSettled, Settled,
              TypeInv, TypeOK, SeenLoaded, Row, BodyOf, MetaOf,
              ReferencedStored, ObjectsOf
<1>3. ASSUME NEW p \in Publishers, LoadCurrent(p)  PROVE ReaderInv'
  BY <1>3 DEF LoadCurrent, Goto, Holds, IsReplay, ReaderInv, StoreInv, NamesSettled,
              RowSettled, Settled, TypeInv, TypeOK, SeenLoaded, Row,
              BodyOf, MetaOf, ReferencedStored, ObjectsOf
<1>4. ASSUME NEW p \in Publishers, Narrow(p)  PROVE ReaderInv'
  BY <1>4 DEF Narrow, Goto, Holds, SetRow, ReaderInv, StoreInv, NamesSettled,
              RowSettled, Settled, TypeInv, TypeOK, SeenLoaded, Row,
              BodyOf, MetaOf, ReferencedStored, ObjectsOf
<1>5. ASSUME NEW p \in Publishers, FailBeforeWrite(p)  PROVE ReaderInv'
  BY <1>5 DEF FailBeforeWrite, Goto, ReaderInv, StoreInv, NamesSettled, RowSettled,
              Settled, TypeInv, TypeOK, SeenLoaded, Row, BodyOf,
              MetaOf, ReferencedStored, ObjectsOf
<1>6. ASSUME NEW p \in Publishers, PersistCommitted(p)  PROVE ReaderInv'
  BY <1>6 DEF PersistCommitted, Goto, PersistReachesCommit, InstallPublished,
              SetRow, PublishedRow, RestoreTarget, Holds, ReaderInv,
              StoreInv, NamesSettled, RowSettled, Settled, TypeInv,
              TypeOK, SeenLoaded, Row, BodyOf, MetaOf,
              ReferencedStored, ObjectsOf
<1>7. ASSUME NEW p \in Publishers, PersistRolledBack(p)  PROVE ReaderInv'
  BY <1>7 DEF PersistRolledBack, Goto, AfterFailure, ReaderInv, StoreInv,
              NamesSettled, RowSettled, Settled, TypeInv, TypeOK,
              SeenLoaded, Row, BodyOf, MetaOf, ReferencedStored,
              ObjectsOf
<1>8. ASSUME NEW p \in Publishers, PersistAmbiguous(p)  PROVE ReaderInv'
  BY <1>8 DEF PersistAmbiguous, Goto, PersistReachesCommit, InstallPublished,
              SetRow, PublishedRow, RestoreTarget, Holds, ReaderInv,
              StoreInv, NamesSettled, RowSettled, Settled, TypeInv,
              TypeOK, SeenLoaded, Row, BodyOf, MetaOf,
              ReferencedStored, ObjectsOf
<1>9. ASSUME NEW p \in Publishers, RestoreAudience(p)  PROVE ReaderInv'
  BY <1>9 DEF RestoreAudience, Goto, Holds, SetRow, RestoreTarget, ReaderInv,
              StoreInv, NamesSettled, RowSettled, Settled, TypeInv,
              TypeOK, SeenLoaded, Row, BodyOf, MetaOf,
              ReferencedStored, ObjectsOf
<1>10. ASSUME NEW p \in Publishers, RestoreAudienceFailed(p)  PROVE ReaderInv'
  BY <1>10 DEF RestoreAudienceFailed, Goto, Holds, SetRow, RestoreTarget, ReaderInv,
              StoreInv, NamesSettled, RowSettled, Settled, TypeInv,
              TypeOK, SeenLoaded, Row, BodyOf, MetaOf,
              ReferencedStored, ObjectsOf
<1>11. ASSUME NEW p \in Publishers, ReleasePublishLock(p)  PROVE ReaderInv'
  BY <1>11 DEF ReleasePublishLock, Goto, ReaderInv, StoreInv, NamesSettled,
              RowSettled, Settled, TypeInv, TypeOK, SeenLoaded, Row,
              BodyOf, MetaOf, ReferencedStored, ObjectsOf
<1>12. ASSUME NEW p \in Publishers, LoseConnection(p)  PROVE ReaderInv'
  BY <1>12 DEF LoseConnection, ReaderInv, StoreInv, NamesSettled, RowSettled,
              Settled, TypeInv, TypeOK, SeenLoaded, Row, BodyOf,
              MetaOf, ReferencedStored, ObjectsOf
<1>13. ASSUME NEW w \in Writers, PutBody(w)  PROVE ReaderInv'
  BY <1>13 DEF PutBody, Goto, ReaderInv, StoreInv, NamesSettled, RowSettled, Settled,
              TypeInv, TypeOK, SeenLoaded, Row, BodyOf, MetaOf,
              ReferencedStored, ObjectsOf
<1>14. ASSUME NEW w \in Writers, PutBodyFailed(w)  PROVE ReaderInv'
  BY <1>14 DEF PutBodyFailed, Goto, AfterFailure, ReaderInv, StoreInv, NamesSettled,
              RowSettled, Settled, TypeInv, TypeOK, SeenLoaded, Row,
              BodyOf, MetaOf, ReferencedStored, ObjectsOf
<1>15. ASSUME NEW w \in Writers, PutMeta(w)  PROVE ReaderInv'
  BY <1>15 DEF PutMeta, Goto, ReaderInv, StoreInv, NamesSettled, RowSettled, Settled,
              TypeInv, TypeOK, SeenLoaded, Row, BodyOf, MetaOf,
              ReferencedStored, ObjectsOf
<1>16. ASSUME NEW w \in Writers, PutMetaFailed(w)  PROVE ReaderInv'
  BY <1>16 DEF PutMetaFailed, Goto, AfterFailure, ReaderInv, StoreInv, NamesSettled,
              RowSettled, Settled, TypeInv, TypeOK, SeenLoaded, Row,
              BodyOf, MetaOf, ReferencedStored, ObjectsOf
<1>17. ASSUME NEW x \in Rewriters, RewriteRead(x)  PROVE ReaderInv'
  BY <1>17 DEF RewriteRead, Goto, ReaderInv, StoreInv, NamesSettled, RowSettled,
              Settled, TypeInv, TypeOK, SeenLoaded, Row, BodyOf,
              MetaOf, ReferencedStored, ObjectsOf
<1>18. ASSUME NEW x \in Rewriters, RewriteReload(x)  PROVE ReaderInv'
  BY <1>18 DEF RewriteReload, Goto, Leave, SameDescriptor, ReaderInv, StoreInv,
              NamesSettled, RowSettled, Settled, TypeInv, TypeOK,
              SeenLoaded, Row, BodyOf, MetaOf, ReferencedStored,
              ObjectsOf
<1>19. ASSUME NEW x \in Rewriters, RewriteCommitted(x)  PROVE ReaderInv'
  BY <1>19 DEF RewriteCommitted, Goto, RewriteMatches, RewrittenRow, SetRow,
              SameDescriptor, ReaderInv, StoreInv, NamesSettled,
              RowSettled, Settled, TypeInv, TypeOK, SeenLoaded, Row,
              BodyOf, MetaOf, ReferencedStored, ObjectsOf
<1>20. ASSUME NEW x \in Rewriters, RewriteRolledBack(x)  PROVE ReaderInv'
  BY <1>20 DEF RewriteRolledBack, Goto, ReaderInv, StoreInv, NamesSettled,
              RowSettled, Settled, TypeInv, TypeOK, SeenLoaded, Row,
              BodyOf, MetaOf, ReferencedStored, ObjectsOf
<1>21. ASSUME NEW x \in Rewriters, RewriteAmbiguous(x)  PROVE ReaderInv'
  BY <1>21 DEF RewriteAmbiguous, Goto, RewriteMatches, RewrittenRow, SetRow,
              SameDescriptor, Leave, ReaderInv, StoreInv,
              NamesSettled, RowSettled, Settled, TypeInv, TypeOK,
              SeenLoaded, Row, BodyOf, MetaOf, ReferencedStored,
              ObjectsOf
<1>22. ASSUME NEW k \in Rewrappers, RewrapRead(k)  PROVE ReaderInv'
  BY <1>22 DEF RewrapRead, Goto, ReaderInv, StoreInv, NamesSettled, RowSettled,
              Settled, TypeInv, TypeOK, SeenLoaded, Row, BodyOf,
              MetaOf, ReferencedStored, ObjectsOf
<1>23. ASSUME NEW k \in Rewrappers, RewrapInstall(k)  PROVE ReaderInv'
  BY <1>23 DEF RewrapInstall, Goto, SetRow, SameDescriptor, Leave, ReaderInv,
              StoreInv, NamesSettled, RowSettled, Settled, TypeInv,
              TypeOK, SeenLoaded, Row, BodyOf, MetaOf,
              ReferencedStored, ObjectsOf
<1>24. ASSUME NEW d \in Deleters, DeleteRead(d)  PROVE ReaderInv'
  BY <1>24 DEF DeleteRead, Goto, ReaderInv, StoreInv, NamesSettled, RowSettled,
              Settled, TypeInv, TypeOK, SeenLoaded, Row, BodyOf,
              MetaOf, ReferencedStored, ObjectsOf
<1>25. ASSUME NEW d \in Deleters, DeleteCommitted(d)  PROVE ReaderInv'
  BY <1>25 DEF DeleteCommitted, Goto, SetRow, ReaderInv, StoreInv, NamesSettled,
              RowSettled, Settled, TypeInv, TypeOK, SeenLoaded, Row,
              BodyOf, MetaOf, ReferencedStored, ObjectsOf
<1>26. ASSUME NEW d \in Deleters, DeleteRolledBack(d)  PROVE ReaderInv'
  BY <1>26 DEF DeleteRolledBack, Goto, Leave, ReaderInv, StoreInv, NamesSettled,
              RowSettled, Settled, TypeInv, TypeOK, SeenLoaded, Row,
              BodyOf, MetaOf, ReferencedStored, ObjectsOf
<1>27. ASSUME NEW d \in Deleters, DeleteAmbiguous(d)  PROVE ReaderInv'
  BY <1>27 DEF DeleteAmbiguous, Goto, SetRow, Leave, ReaderInv, StoreInv,
              NamesSettled, RowSettled, Settled, TypeInv, TypeOK,
              SeenLoaded, Row, BodyOf, MetaOf, ReferencedStored,
              ObjectsOf
<1>28. ASSUME NEW r \in Readers, ReadAuthorize(r)  PROVE ReaderInv'
  BY <1>28 DEF ReadAuthorize, Goto, Authorized, ReaderInv, StoreInv, NamesSettled,
              RowSettled, Settled, TypeInv, TypeOK, SeenLoaded, Row,
              BodyOf, MetaOf, ReferencedStored, ObjectsOf
<1>29. ASSUME NEW r \in Readers, ReadBody(r)  PROVE ReaderInv'
  <2> SUFFICES ASSUME NEW t \in Readers
               PROVE  /\ pc'[t] = "retry" => BodyOf(seen'[t].gen) \notin objects'
                      /\ pc'[t] # "absent"
    BY DEF ReaderInv, BodyOf
  <2>1. objects' = objects
    BY <1>29 DEF ReadBody
  <2>2. CASE t # r
    BY <1>29, <2>1, <2>2 DEF ReadBody, Leave, Goto, ReaderInv, TypeInv, TypeOK
  <2>3. CASE t = r
    <3>1. CASE BodyOf(seen[r].gen) \in objects
      BY <1>29, <2>3, <3>1 DEF ReadBody, Leave, Goto, TypeInv, TypeOK
    <3>2. CASE BodyOf(seen[r].gen) \notin objects
      BY <1>29, <2>1, <2>3, <3>2 DEF ReadBody, Leave, Goto, TypeInv, TypeOK
    <3> QED BY <3>1, <3>2
  <2> QED BY <2>2, <2>3
<1>30. ASSUME NEW r \in Readers, ReadReload(r)  PROVE ReaderInv'
  BY <1>30 DEF ReadReload, Goto, Leave, Authorized, SameDescriptor, ReaderInv,
              StoreInv, NamesSettled, RowSettled, Settled, TypeInv,
              TypeOK, SeenLoaded, Row, BodyOf, MetaOf,
              ReferencedStored, ObjectsOf
<1>31. ASSUME NEW q \in Requests, Cleanup(q)  PROVE ReaderInv'
  BY <1>31 DEF Cleanup, ReaderInv, StoreInv, NamesSettled, RowSettled, Settled,
              TypeInv, TypeOK, SeenLoaded, Row, BodyOf, MetaOf,
              ReferencedStored, ObjectsOf
<1>32. ASSUME NEW q \in Requests, Answer(q)  PROVE ReaderInv'
  BY <1>32 DEF Answer, Goto, Leave, ReaderInv, StoreInv, NamesSettled, RowSettled,
              Settled, TypeInv, TypeOK, SeenLoaded, Row, BodyOf,
              MetaOf, ReferencedStored, ObjectsOf
<1>33. ASSUME NEW q \in Requests, Crash(q)  PROVE ReaderInv'
  BY <1>33 DEF Crash, Goto, Leave, ReaderInv, StoreInv, NamesSettled, RowSettled,
              Settled, TypeInv, TypeOK, SeenLoaded, Row, BodyOf,
              MetaOf, ReferencedStored, ObjectsOf
<1>34. ASSUME NEW v \in {"private", "public"}, UpdateVisibility(v)  PROVE ReaderInv'
  BY <1>34 DEF UpdateVisibility, OwnerChooses, SetRow, ReaderInv, StoreInv,
              NamesSettled, RowSettled, Settled, TypeInv, TypeOK,
              SeenLoaded, Row, BodyOf, MetaOf, ReferencedStored,
              ObjectsOf
<1>35. CASE ShareTranscript
  BY <1>35 DEF ShareTranscript, OwnerChooses, SetRow, ReaderInv, StoreInv,
              NamesSettled, RowSettled, Settled, TypeInv, TypeOK,
              SeenLoaded, Row, BodyOf, MetaOf, ReferencedStored,
              ObjectsOf
<1>36. CASE UnshareTranscript
  BY <1>36 DEF UnshareTranscript, OwnerChooses, SetRow, ReaderInv, StoreInv,
              NamesSettled, RowSettled, Settled, TypeInv, TypeOK,
              SeenLoaded, Row, BodyOf, MetaOf, ReferencedStored,
              ObjectsOf
<1>37. CASE UNCHANGED vars
  BY <1>37 DEF vars, ReaderInv, StoreInv, NamesSettled, RowSettled, Settled, TypeInv, TypeOK, SeenLoaded, Row, BodyOf, MetaOf, ReferencedStored, ObjectsOf
<1> QED
  BY <1>1, <1>2, <1>3, <1>4, <1>5, <1>6, <1>7, <1>8, <1>9, <1>10, <1>11,
     <1>12, <1>13, <1>14, <1>15, <1>16, <1>17, <1>18, <1>19, <1>20,
     <1>21, <1>22, <1>23, <1>24, <1>25, <1>26, <1>27, <1>28, <1>29,
     <1>30, <1>31, <1>32, <1>33, <1>34, <1>35, <1>36, <1>37
  DEF Next, PublishStep, WriteStep, RewriteStep, RewrapStep, DeleteStep,
      ReadStep, CleanupStep, OwnerStep

(* The retry of a content read never finds the row still naming the object it
   missed. *)
THEOREM ReadersRecover == Spec => []NeverAbsent
<1>1. Init => TypeInv /\ StoreInv /\ ReaderInv
  BY DEF Init, TypeInv, TypeOK, SeenLoaded, Row, Objects, PcValues, Visibilities,
         StoreInv, NamesSettled, RowSettled, TodoUnreferenced, CandidateStored,
         SnapshotsAgree, MetadataPaired, ReferencedStored, ObjectsOf, ReaderInv
<1>2. TypeInv /\ StoreInv /\ ReaderInv /\ [Next]_vars => (TypeInv /\ StoreInv /\ ReaderInv)'
  BY TypeStep, StoreStep, ReaderStep
<1>3. ReaderInv => NeverAbsent
  BY DEF ReaderInv, NeverAbsent
<1> QED BY <1>1, <1>2, <1>3, PTL DEF Spec

-----------------------------------------------------------------------------
(* Who may read.  A publish is replacing the session's content between its
   narrowing (or a row that was already private) and its answer. *)
Replacing == {"putBody", "putMeta", "persist", "restore"}

(* A publish has narrowed nothing before it narrows. *)
NotYetNarrowed ==
    \A p \in Publishers :
        pc[p] \in {"idle", "probe", "load", "narrow"} => narrowed[p] = None

(* What a publish that still holds the lock will restore is what the owner
   last chose: every other writer of visibility waits for that lock. *)
ChoiceKept ==
    \A p \in Publishers :
        lock = p /\ pc[p] \in Replacing /\ narrowed[p] # None => narrowed[p] = audience

(* A publish that narrowed and has neither repaired nor reported it. *)
Owing(p) == narrowed[p] # None /\ pc[p] \in Replacing \union {"crashed"}

(* AudienceAccounted, naming the publishes that still owe the repair: one that
   only has its cleanup left owes nothing. *)
AudienceOwed ==
    row # None /\ row.vis # audience =>
        /\ row.vis = "private"
        /\ warned \/ \E p \in Publishers : Owing(p)

AudienceInv == NotYetNarrowed /\ ChoiceKept /\ AudienceOwed /\ PrivateWindow

(* A step of a request that is no publish: it may remove the row and replace
   its descriptor, and leaves the audience and the publishes alone. *)
LeavesAudience ==
    /\ row' # None => row # None /\ row'.vis = row.vis
    /\ UNCHANGED <<lock, narrowed, audience, warned>>
    /\ \A p \in Publishers : pc'[p] = pc[p]

(* Such a step keeps what is known about the audience. *)
LEMMA AudienceLeft == ASSUME AudienceInv, LeavesAudience PROVE AudienceInv'
<1>1. NotYetNarrowed' /\ ChoiceKept' /\ PrivateWindow'
  BY DEF AudienceInv, LeavesAudience, NotYetNarrowed, ChoiceKept, PrivateWindow, Replacing
<1>2. AudienceOwed'
  BY DEF AudienceInv, LeavesAudience, AudienceOwed, Owing
<1> QED BY <1>1, <1>2 DEF AudienceInv

(* The steps that are no publish's and not the owner's are of that kind. *)
LEMMA OthersLeaveAudience ==
    ASSUME TypeInv,
           \/ \E w \in Rewriters : RewriteStep(w) \/ WriteStep(w)
           \/ \E w \in Rewrappers : RewrapStep(w)
           \/ \E d \in Deleters : DeleteStep(d)
           \/ \E r \in Readers : ReadStep(r)
           \/ \E r \in Requests \ Publishers : CleanupStep(r) \/ Crash(r)
    PROVE  LeavesAudience
<1>1. ASSUME NEW w \in Rewriters, RewriteStep(w)  PROVE LeavesAudience
  <2>1. UNCHANGED <<lock, narrowed, audience, warned>> /\ \A p \in Publishers : pc'[p] = pc[p]
    BY <1>1 DEF RewriteStep, RewriteRead, RewriteReload, RewriteCommitted, RewriteRolledBack,
                RewriteAmbiguous, Leave, Goto, TypeInv, TypeOK
  <2>2. row' # None => row # None /\ row'.vis = row.vis
    BY <1>1 DEF RewriteStep, RewriteRead, RewriteReload, RewriteCommitted, RewriteRolledBack,
                RewriteAmbiguous, RewriteMatches, RewrittenRow, SetRow, TypeInv, TypeOK, Row
  <2> QED BY <2>1, <2>2 DEF LeavesAudience
<1>2. ASSUME NEW w \in Rewriters, WriteStep(w)  PROVE LeavesAudience
  BY <1>2 DEF WriteStep, PutBody, PutBodyFailed, PutMeta, PutMetaFailed, Goto,
              TypeInv, TypeOK, LeavesAudience
<1>3. ASSUME NEW w \in Rewrappers, RewrapStep(w)  PROVE LeavesAudience
  <2>1. UNCHANGED <<lock, narrowed, audience, warned>> /\ \A p \in Publishers : pc'[p] = pc[p]
    BY <1>3 DEF RewrapStep, RewrapRead, RewrapInstall, Leave, Goto, TypeInv, TypeOK
  <2>2. row' # None => row # None /\ row'.vis = row.vis
    BY <1>3 DEF RewrapStep, RewrapRead, RewrapInstall, SetRow, TypeInv, TypeOK, Row
  <2> QED BY <2>1, <2>2 DEF LeavesAudience
<1>4. ASSUME NEW d \in Deleters, DeleteStep(d)  PROVE LeavesAudience
  BY <1>4 DEF DeleteStep, DeleteRead, DeleteCommitted, DeleteRolledBack, DeleteAmbiguous,
              SetRow, Leave, Goto, TypeInv, TypeOK, LeavesAudience
<1>5. ASSUME NEW r \in Readers, ReadStep(r)  PROVE LeavesAudience
  BY <1>5 DEF ReadStep, ReadAuthorize, ReadBody, ReadReload, Leave, Goto, TypeInv, TypeOK,
              LeavesAudience
<1>6. ASSUME NEW r \in Requests \ Publishers, CleanupStep(r) \/ Crash(r)  PROVE LeavesAudience
  BY <1>6 DEF CleanupStep, Cleanup, Answer, Crash, Leave, Goto, TypeInv, TypeOK, LeavesAudience
<1> QED BY <1>1, <1>2, <1>3, <1>4, <1>5, <1>6


(* Writing back RestoreTarget under the lock gives the row the audience the
   owner chose when this publish had narrowed it, and otherwise changes
   nothing another publish is accounted for. *)
LEMMA RestoredOwed ==
    ASSUME AudienceInv, NEW p \in Publishers,
           lock = p, pc[p] \in Replacing, row # None,
           row'.vis = RestoreTarget(row.vis, narrowed[p]),
           UNCHANGED <<narrowed, audience>>,
           warned => warned',
           \A q \in Publishers : q # p => pc'[q] = pc[q]
    PROVE  AudienceOwed'
<1>1. CASE narrowed[p] # None /\ row.vis = "private"
  BY <1>1 DEF AudienceInv, ChoiceKept, AudienceOwed, RestoreTarget
<1>2. CASE ~(narrowed[p] # None /\ row.vis = "private")
  <2>1. row'.vis = row.vis
    BY <1>2 DEF RestoreTarget
  <2>2. SUFFICES ASSUME row.vis # audience
                 PROVE  row.vis = "private" /\ (warned \/ \E q \in Publishers : Owing(q)')
    BY <2>1 DEF AudienceOwed
  <2>3. row.vis = "private" /\ (warned \/ \E q \in Publishers : Owing(q))
    BY <2>2 DEF AudienceInv, AudienceOwed
  <2>4. \A q \in Publishers : Owing(q) => Owing(q)'
    BY <1>2, <2>3 DEF Owing
  <2> QED BY <2>3, <2>4
<1> QED BY <1>1, <1>2

(* A committed publish leaves the audience accounted for. *)
LEMMA PublishedAudience ==
    ASSUME AudienceInv, NEW p \in Publishers,
           pc[p] = "persist", PersistReachesCommit(p),
           row' = PublishedRow(p),
           audience' = IF seen[p] = None THEN "private" ELSE audience,
           narrowed' = narrowed,
           warned => warned',
           \A q \in Publishers : q # p => pc'[q] = pc[q]
    PROVE  AudienceOwed'
<1>1. CASE seen[p] = None
  BY <1>1 DEF PublishedRow, AudienceOwed
<1>2. CASE seen[p] # None
  <2>1. lock = p /\ row # None /\ pc[p] \in Replacing
    BY <1>2 DEF PersistReachesCommit, Holds, Replacing
  <2>2. row'.vis = RestoreTarget(row.vis, narrowed[p]) /\ audience' = audience
    BY <1>2 DEF PublishedRow
  <2> QED BY <2>1, <2>2, RestoredOwed
<1> QED BY <1>1, <1>2

(* So does the compensating transaction, which ends the replacement. *)
LEMMA RestoredAudience ==
    ASSUME AudienceInv, NEW p \in Publishers, row \in Row \union {None},
           pc[p] = "restore", Holds(p),
           row' = [row EXCEPT !.vis = RestoreTarget(row.vis, narrowed[p])],
           UNCHANGED <<lock, narrowed, audience>>,
           warned => warned',
           pc'[p] = "cleanCandidate",
           \A q \in Publishers : q # p => pc'[q] = pc[q]
    PROVE  AudienceInv'
<1>1. lock = p /\ row # None /\ pc[p] \in Replacing
  BY DEF Holds, Replacing
<1>2. row'.vis = RestoreTarget(row.vis, narrowed[p])
  BY <1>1 DEF Row
<1>3. AudienceOwed'
  BY <1>1, <1>2, RestoredOwed
<1>4. NotYetNarrowed' /\ ChoiceKept' /\ PrivateWindow'
  BY <1>1 DEF AudienceInv, NotYetNarrowed, ChoiceKept, PrivateWindow, Replacing
<1> QED BY <1>3, <1>4 DEF AudienceInv

(* A publish that keeps the row and the audience, and ends up neither waiting
   nor replacing unless it was, keeps what is known, as long as it does not
   drop a repair it owes. *)
PublishMoves(p) ==
    /\ UNCHANGED <<row, narrowed, audience, warned>>
    /\ lock' \in {lock, None}
    /\ \A q \in Publishers : q # p => pc'[q] = pc[q]
    /\ pc'[p] \notin {"idle", "probe", "load", "narrow"}
    /\ pc'[p] \in Replacing => pc[p] \in Replacing
    /\ Owing(p) => pc'[p] \in Replacing \union {"crashed"}

(* A step of a publish that leaves the audience alone keeps it accounted for. *)
LEMMA PublishMoveKeeps ==
    ASSUME AudienceInv, NEW p \in Publishers, PublishMoves(p), lock \in Publishers \union {None}
    PROVE  AudienceInv'
<1>1. NotYetNarrowed'
  BY DEF AudienceInv, PublishMoves, NotYetNarrowed
<1>2. ChoiceKept'
  BY DEF AudienceInv, PublishMoves, ChoiceKept
<1>3. PrivateWindow'
  BY DEF AudienceInv, PublishMoves, PrivateWindow, Replacing
<1>4. \A q \in Publishers : Owing(q) => Owing(q)'
  BY DEF PublishMoves, Owing
<1>5. AudienceOwed'
  BY <1>4 DEF AudienceInv, PublishMoves, AudienceOwed
<1> QED BY <1>1, <1>2, <1>3, <1>5 DEF AudienceInv

(* Every step of a publish keeps what is known about the audience. *)
LEMMA PublishKeepsAudience ==
    ASSUME TypeInv, AudienceInv, NEW p \in Publishers,
           \/ PublishStep(p)
           \/ LoseConnection(p)
           \/ WriteStep(p)
           \/ CleanupStep(p)
           \/ Crash(p)
    PROVE  AudienceInv'
<1>t. /\ lock \in Publishers \union {None}
      /\ pc \in [Requests -> PcValues]
      /\ narrowed \in [Publishers -> Visibilities \union {None}]
      /\ row \in Row \union {None}
      /\ p # None
      /\ p \notin Rewriters
  BY DEF TypeInv, TypeOK
<1>1. CASE AcquirePublishLock(p)
  BY <1>1, <1>t DEF AcquirePublishLock, Goto, AudienceInv, NotYetNarrowed, ChoiceKept, AudienceOwed,
                    Owing, PrivateWindow, Replacing
<1>2. CASE Probe(p)
  BY <1>2, <1>t DEF Probe, Goto, AudienceInv, NotYetNarrowed, ChoiceKept, AudienceOwed, Owing,
                    PrivateWindow, Replacing
<1>3. CASE LoadCurrent(p)
  BY <1>3, <1>t DEF LoadCurrent, Holds, Goto, AudienceInv, NotYetNarrowed, ChoiceKept, AudienceOwed,
                    Owing, PrivateWindow, Replacing
<1>4. CASE Narrow(p)
  <2>1. lock = p /\ row # None /\ row \in Row /\ narrowed[p] = None /\ pc[p] = "narrow"
    BY <1>4, <1>t DEF Narrow, Holds, AudienceInv, NotYetNarrowed
  <2>2. lock' = lock /\ audience' = audience /\ pc'[p] \in {"putBody", "cleanCandidate"}
        /\ \A q \in Publishers : q # p => pc'[q] = pc[q]
    BY <1>4, <1>t DEF Narrow, Goto
  <2>3. /\ narrowed'[p] = IF row.vis = "private" THEN None ELSE row.vis
        /\ \A q \in Publishers : q # p => narrowed'[q] = narrowed[q]
    BY <1>4, <1>t DEF Narrow
  <2>4. \/ row' = [row EXCEPT !.vis = "private"] /\ row' \in Row /\ row'.vis = "private"
        \/ row' = row /\ pc'[p] = "cleanCandidate"
    BY <1>4, <1>t, <2>1 DEF Narrow, SetRow, Goto, Row, Visibilities
  <2>6. \/ pc'[p] = "putBody" /\ warned' = warned
        \/ warned' = (warned \/ row.vis # "private")
    BY <1>4, <1>t DEF Narrow, Goto
  <2>7. row.vis # "private" => row.vis = audience
    BY <2>1 DEF AudienceInv, AudienceOwed
  <2>8. NotYetNarrowed' /\ ChoiceKept' /\ PrivateWindow'
    BY <2>1, <2>2, <2>3, <2>4, <2>7 DEF AudienceInv, NotYetNarrowed, ChoiceKept, PrivateWindow, Replacing
  <2>9. \A q \in Publishers : Owing(q) => Owing(q)'
    BY <2>1, <2>2, <2>3 DEF Owing, Replacing
  <2>10. CASE row.vis = "private"
    <3>1. row'.vis = row.vis
      BY <2>4, <2>10
    <3>2. warned => warned'
      BY <2>6, Zenon
    <3> QED BY <2>1, <2>2, <2>8, <2>9, <2>10, <3>1, <3>2 DEF AudienceInv, AudienceOwed
  <2>11. CASE row.vis # "private"
    <3>1. pc'[p] = "putBody" => Owing(p)'
      BY <2>3, <2>11, <2>1 DEF Owing, Replacing, Row
    <3>2. row'.vis # audience' => row'.vis = "private" /\ (warned' \/ Owing(p)')
      BY <2>2, <2>4, <2>6, <2>7, <2>11, <3>1
    <3> QED BY <2>8, <3>2 DEF AudienceInv, AudienceOwed
  <2> QED BY <2>10, <2>11
<1>5. CASE FailBeforeWrite(p)
  BY <1>5, <1>t, PublishMoveKeeps DEF FailBeforeWrite, Goto, AudienceInv, NotYetNarrowed,
                    Owing, PublishMoves, Replacing
<1>6. CASE PersistCommitted(p)
  <2>1. /\ lock = p /\ pc[p] = "persist" /\ pc'[p] = "release"
        /\ UNCHANGED <<lock, narrowed, warned>>
        /\ \A q \in Publishers : q # p => pc'[q] = pc[q]
    BY <1>6, <1>t DEF PersistCommitted, PersistReachesCommit, Holds, Goto
  <2>2. row' = PublishedRow(p) /\ audience' = IF seen[p] = None THEN "private" ELSE audience
    BY <1>6 DEF PersistCommitted, InstallPublished, SetRow
  <2>3. NotYetNarrowed' /\ ChoiceKept' /\ PrivateWindow'
    BY <2>1 DEF AudienceInv, NotYetNarrowed, ChoiceKept, PrivateWindow, Replacing
  <2>4. AudienceOwed'
    <3>1. warned => warned'
      BY <2>1
    <3> QED BY <2>1, <2>2, <3>1, <1>6, PublishedAudience DEF PersistCommitted
  <2> QED BY <2>3, <2>4 DEF AudienceInv
<1>7. CASE PersistRolledBack(p)
  BY <1>7, <1>t, PublishMoveKeeps DEF PersistRolledBack, AfterFailure, Goto, Owing, PublishMoves, Replacing
<1>8. CASE PersistAmbiguous(p)
  <2>1. /\ lock = p /\ pc[p] = "persist" /\ pc'[p] = "cleanCandidate"
        /\ UNCHANGED <<lock, narrowed>>
        /\ warned' = (warned \/ narrowed[p] # None)
        /\ \A q \in Publishers : q # p => pc'[q] = pc[q]
    BY <1>8, <1>t DEF PersistAmbiguous, PersistReachesCommit, Holds, Goto
  <2>2. NotYetNarrowed' /\ ChoiceKept' /\ PrivateWindow'
    BY <2>1 DEF AudienceInv, NotYetNarrowed, ChoiceKept, PrivateWindow, Replacing
  <2>3. CASE row' = PublishedRow(p) /\ audience' = IF seen[p] = None THEN "private" ELSE audience
    <3>1. warned => warned'
      BY <2>1
    <3>2. AudienceOwed'
      BY <2>1, <2>3, <3>1, <1>8, PublishedAudience DEF PersistAmbiguous
    <3> QED BY <2>2, <3>2 DEF AudienceInv
  <2>4. CASE UNCHANGED <<row, audience>>
    <3>1. \A q \in Publishers : Owing(q) => Owing(q)' \/ warned'
      BY <2>1 DEF Owing
    <3>2. AudienceOwed'
      BY <2>1, <2>4, <3>1 DEF AudienceInv, AudienceOwed
    <3> QED BY <2>2, <3>2 DEF AudienceInv
  <2> QED BY <1>8, <2>3, <2>4 DEF PersistAmbiguous, InstallPublished, SetRow
<1>9. CASE RestoreAudience(p)
  BY <1>9, <1>t, RestoredAudience DEF RestoreAudience, SetRow, Goto
<1>10. CASE RestoreAudienceFailed(p)
  <2>1. CASE UNCHANGED row
    BY <1>10, <1>t, <2>1 DEF RestoreAudienceFailed, Goto, AudienceInv, NotYetNarrowed, ChoiceKept,
                  AudienceOwed, PrivateWindow, Replacing
  <2>2. CASE Holds(p) /\ row' = [row EXCEPT !.vis = RestoreTarget(row.vis, narrowed[p])]
    BY <1>10, <1>t, <2>2, RestoredAudience DEF RestoreAudienceFailed, Goto
  <2> QED BY <1>10, <2>1, <2>2 DEF RestoreAudienceFailed, SetRow
<1>11. CASE ReleasePublishLock(p)
  BY <1>11, <1>t, PublishMoveKeeps DEF ReleasePublishLock, Goto, Owing, PublishMoves, Replacing
<1>12. CASE LoseConnection(p)
  BY <1>12 DEF LoseConnection, AudienceInv, NotYetNarrowed, ChoiceKept, AudienceOwed, Owing,
               PrivateWindow
<1>13. CASE WriteStep(p)
  BY <1>13, <1>t, PublishMoveKeeps DEF WriteStep, PutBody, PutBodyFailed, PutMeta, PutMetaFailed,
               AfterFailure, Goto, Owing, PublishMoves, Replacing
<1>14. CASE Cleanup(p)
  BY <1>14, AudienceLeft DEF Cleanup, LeavesAudience
<1>15. CASE Answer(p)
  BY <1>15, <1>t, PublishMoveKeeps DEF Answer, Leave, Goto, Owing, PublishMoves, Replacing
<1>16. CASE Crash(p)
  BY <1>16, <1>t, PublishMoveKeeps DEF Crash, Leave, Goto, Owing, PublishMoves, Replacing
<1> QED BY <1>1, <1>2, <1>3, <1>4, <1>5, <1>6, <1>7, <1>8, <1>9, <1>10, <1>11, <1>12, <1>13,
           <1>14, <1>15, <1>16 DEF PublishStep, CleanupStep


(* The owner's own writers of visibility wait for the publish lock, so no
   publish is replacing anything under it when they run. *)
LEMMA OwnerKeepsAudience ==
    ASSUME TypeInv, AudienceInv, OwnerStep
    PROVE  AudienceInv'
<1>1. PICK v \in Visibilities : OwnerChooses(v) /\ lock = None /\ row # None
  BY DEF OwnerStep, UpdateVisibility, ShareTranscript, UnshareTranscript, Visibilities
<1>2. row'.vis = v /\ audience' = v
  BY <1>1 DEF OwnerChooses, SetRow, TypeInv, TypeOK, Row
<1>3. lock' = None /\ UNCHANGED <<pc, narrowed>>
  BY <1>1 DEF OwnerChooses
<1> QED BY <1>2, <1>3 DEF AudienceInv, NotYetNarrowed, ChoiceKept, AudienceOwed, PrivateWindow

(* Every step preserves AudienceInv. *)
LEMMA AudienceStep == ASSUME TypeInv, AudienceInv, [Next]_vars PROVE AudienceInv'
<1>1. CASE \E p \in Publishers : \/ PublishStep(p)
                                 \/ LoseConnection(p)
                                 \/ WriteStep(p)
                                 \/ CleanupStep(p)
                                 \/ Crash(p)
  BY <1>1, PublishKeepsAudience
<1>2. CASE \/ \E w \in Rewriters : RewriteStep(w) \/ WriteStep(w)
           \/ \E w \in Rewrappers : RewrapStep(w)
           \/ \E d \in Deleters : DeleteStep(d)
           \/ \E r \in Readers : ReadStep(r)
           \/ \E r \in Requests \ Publishers : CleanupStep(r) \/ Crash(r)
  BY <1>2, OthersLeaveAudience, AudienceLeft
<1>3. CASE OwnerStep
  BY <1>3, OwnerKeepsAudience
<1>4. CASE UNCHANGED vars
  BY <1>4, AudienceLeft DEF vars, LeavesAudience
<1> QED BY <1>1, <1>2, <1>3, <1>4 DEF Next

(* Nothing is known of the audience at the start, and TypeInv and AudienceInv
   hold for ever after. *)
LEMMA AudienceHolds == Spec => [](TypeInv /\ AudienceInv)
<1>1. Init => TypeInv /\ AudienceInv
  BY DEF Init, TypeInv, TypeOK, SeenLoaded, Row, Objects, PcValues, Visibilities, AudienceInv,
         NotYetNarrowed, ChoiceKept, AudienceOwed, PrivateWindow
<1>2. TypeInv /\ AudienceInv /\ [Next]_vars => (TypeInv /\ AudienceInv)'
  BY TypeStep, AudienceStep
<1> QED BY <1>1, <1>2, PTL DEF Spec

(* Whatever fails during a republish, an audience that is not the owner's
   choice is the narrowed one and is owed, reported, or a dead process's. *)
THEOREM AudienceRepaired == Spec => []AudienceAccounted
<1>1. AudienceInv => AudienceAccounted
  <2>1. \A p \in Publishers : Owing(p) => narrowed[p] # None /\ pc[p] # "done"
    BY DEF Owing, Replacing
  <2> QED BY <2>1 DEF AudienceInv, AudienceOwed, AudienceAccounted
<1> QED BY <1>1, AudienceHolds, PTL

(* While a republish that holds its lock replaces the content, nobody but the
   owner can read the row. *)
THEOREM PrivateWhileReplacing == Spec => []PrivateWindow
<1>1. AudienceInv => PrivateWindow
  BY DEF AudienceInv
<1> QED BY <1>1, AudienceHolds, PTL

-----------------------------------------------------------------------------
(* What readers were given.  A generation the row names while it is not
   private is remembered as exposed, and a reader holds only such a row. *)
RowExposed == row # None /\ row.vis # "private" => row.gen \in exposed

ReadersExposed ==
    \A r \in Readers :
        pc[r] \in {"read", "retry", "reread"} => seen[r].gen \in exposed

ExposedInv == RowExposed /\ ReadersExposed /\ ServedWasExposed

(* The row is only ever written through SetRow, so it stays exposed when it
   is readable, and nothing is forgotten. *)
LEMMA RowStaysExposed ==
    ASSUME TypeInv, RowExposed, [Next]_vars
    PROVE  RowExposed' /\ exposed \subseteq exposed'
<1>1. UNCHANGED <<row, exposed>> \/ \E r \in {row'} : SetRow(r)
  <2>1. CASE \E p \in Publishers : PublishStep(p) \/ LoseConnection(p)
    BY <2>1 DEF PublishStep, AcquirePublishLock, Probe, LoadCurrent, Narrow, FailBeforeWrite,
         PersistCommitted, PersistRolledBack, PersistAmbiguous, InstallPublished, RestoreAudience,
         RestoreAudienceFailed, ReleasePublishLock, LoseConnection, SetRow
  <2>2. CASE \E w \in Rewriters : RewriteStep(w)
    BY <2>2 DEF RewriteStep, RewriteRead, RewriteReload, RewriteCommitted, RewriteRolledBack,
         RewriteAmbiguous, SetRow
  <2>3. CASE \E w \in Writers : WriteStep(w)
    BY <2>3 DEF WriteStep, PutBody, PutBodyFailed, PutMeta, PutMetaFailed
  <2>4. CASE \E w \in Rewrappers : RewrapStep(w)
    BY <2>4 DEF RewrapStep, RewrapRead, RewrapInstall, SetRow
  <2>5. CASE \E d \in Deleters : DeleteStep(d)
    BY <2>5 DEF DeleteStep, DeleteRead, DeleteCommitted, DeleteRolledBack, DeleteAmbiguous, SetRow
  <2>6. CASE \E r \in Readers : ReadStep(r)
    BY <2>6 DEF ReadStep, ReadAuthorize, ReadBody, ReadReload
  <2>7. CASE \E r \in Requests : CleanupStep(r) \/ Crash(r)
    BY <2>7 DEF CleanupStep, Cleanup, Answer, Crash
  <2>8. CASE OwnerStep
    BY <2>8 DEF OwnerStep, UpdateVisibility, ShareTranscript, UnshareTranscript, OwnerChooses, SetRow
  <2>9. CASE UNCHANGED vars
    BY <2>9 DEF vars
  <2> QED BY <2>1, <2>2, <2>3, <2>4, <2>5, <2>6, <2>7, <2>8, <2>9 DEF Next
<1> QED BY <1>1 DEF SetRow, RowExposed

(* A reader's snapshot and answer change only by the reader's own steps, each
   of which takes an exposed row or gives the snapshot up. *)
LEMMA ExposedStep == ASSUME TypeInv, ExposedInv, [Next]_vars PROVE ExposedInv'
<1>1. RowExposed' /\ exposed \subseteq exposed'
  BY RowStaysExposed DEF ExposedInv
<1>2. SUFFICES ReadersExposed' /\ ServedWasExposed'
  BY <1>1 DEF ExposedInv
<1>3. ASSUME NEW r \in Readers, ReadAuthorize(r)  PROVE ReadersExposed' /\ ServedWasExposed'
  BY <1>1, <1>3 DEF ReadAuthorize, Authorized, Goto, ExposedInv, RowExposed, ReadersExposed,
                    ServedWasExposed, TypeInv, TypeOK
<1>4. ASSUME NEW r \in Readers, ReadBody(r)  PROVE ReadersExposed' /\ ServedWasExposed'
  <2>1. seen[r].gen \in exposed
    BY <1>4 DEF ReadBody, ExposedInv, ReadersExposed
  <2>2. served' = served \/ served' = [served EXCEPT ![r] = seen[r].gen]
    BY <1>4 DEF ReadBody
  <2>3. ServedWasExposed'
    BY <1>1, <2>1, <2>2 DEF ExposedInv, ServedWasExposed, TypeInv, TypeOK
  <2>4. \A t \in Readers : t # r => pc'[t] = pc[t] /\ seen'[t] = seen[t]
    BY <1>4 DEF ReadBody, Leave, Goto, TypeInv, TypeOK
  <2>5. pc'[r] = "done" \/ seen'[r] = seen[r]
    BY <1>4 DEF ReadBody, Leave, Goto, TypeInv, TypeOK
  <2>6. ReadersExposed'
    BY <1>1, <2>1, <2>4, <2>5 DEF ExposedInv, ReadersExposed
  <2> QED BY <2>3, <2>6
<1>5. ASSUME NEW r \in Readers, ReadReload(r)  PROVE ReadersExposed' /\ ServedWasExposed'
  <2>1. \A t \in Readers : t # r => pc'[t] = pc[t] /\ seen'[t] = seen[t]
    BY <1>5 DEF ReadReload, Leave, Goto, TypeInv, TypeOK
  <2>2. pc'[r] = "done" \/ (Authorized(row) /\ seen'[r] = row)
    BY <1>5 DEF ReadReload, Leave, Goto, TypeInv, TypeOK
  <2>3. served' = served
    BY <1>5 DEF ReadReload
  <2> QED BY <1>1, <2>1, <2>2, <2>3 DEF Authorized, ExposedInv, RowExposed, ReadersExposed,
                    ServedWasExposed
<1>6. ASSUME served' = served,
             \A r \in Readers : \/ pc'[r] = pc[r] /\ seen'[r] = seen[r]
                                \/ pc'[r] \in {"done", "crashed"}
      PROVE  ReadersExposed' /\ ServedWasExposed'
  BY <1>1, <1>6 DEF ExposedInv, ReadersExposed, ServedWasExposed
<1>7. CASE \E p \in Publishers : PublishStep(p) \/ LoseConnection(p)
  BY <1>6, <1>7 DEF PublishStep, AcquirePublishLock, Probe, LoadCurrent, Narrow, FailBeforeWrite,
       PersistCommitted, PersistRolledBack, PersistAmbiguous, RestoreAudience,
       RestoreAudienceFailed, ReleasePublishLock, LoseConnection, Goto, TypeInv, TypeOK
<1>8. CASE \E w \in Rewriters : RewriteStep(w)
  BY <1>6, <1>8 DEF RewriteStep, RewriteRead, RewriteReload, RewriteCommitted, RewriteRolledBack,
       RewriteAmbiguous, Leave, Goto, TypeInv, TypeOK
<1>9. CASE \E w \in Writers : WriteStep(w)
  BY <1>6, <1>9 DEF WriteStep, PutBody, PutBodyFailed, PutMeta, PutMetaFailed, Goto, TypeInv, TypeOK
<1>10. CASE \E w \in Rewrappers : RewrapStep(w)
  BY <1>6, <1>10 DEF RewrapStep, RewrapRead, RewrapInstall, Leave, Goto, TypeInv, TypeOK
<1>11. CASE \E d \in Deleters : DeleteStep(d)
  BY <1>6, <1>11 DEF DeleteStep, DeleteRead, DeleteCommitted, DeleteRolledBack, DeleteAmbiguous,
       Leave, Goto, TypeInv, TypeOK
<1>12. CASE \E r \in Requests : CleanupStep(r) \/ Crash(r)
  BY <1>6, <1>12 DEF CleanupStep, Cleanup, Answer, Crash, Leave, Goto, TypeInv, TypeOK
<1>13. CASE OwnerStep
  BY <1>6, <1>13 DEF OwnerStep, UpdateVisibility, ShareTranscript, UnshareTranscript, OwnerChooses
<1>14. CASE UNCHANGED vars
  BY <1>6, <1>14 DEF vars
<1> QED BY <1>3, <1>4, <1>5, <1>7, <1>8, <1>9, <1>10, <1>11, <1>12, <1>13, <1>14 DEF Next, ReadStep

(* A reader who is not the owner was only ever served a generation that was
   readable by others, the retry after a missing object included. *)
THEOREM ServedOnlyExposed == Spec => []ServedWasExposed
<1>1. Init => TypeInv /\ ExposedInv
  BY DEF Init, TypeInv, TypeOK, SeenLoaded, Row, Objects, PcValues, Visibilities, ExposedInv,
         RowExposed, ReadersExposed, ServedWasExposed
<1>2. TypeInv /\ ExposedInv /\ [Next]_vars => (TypeInv /\ ExposedInv)'
  BY TypeStep, ExposedStep
<1>3. ExposedInv => ServedWasExposed
  BY DEF ExposedInv
<1> QED BY <1>1, <1>2, <1>3, PTL DEF Spec

-----------------------------------------------------------------------------
(* What is kept, and what is left behind.  A request owes deletions only once
   it is past the step that names them, so no later step overwrites the list. *)
OwedLater ==
    \A r \in Requests :
        todo[r] # {} => pc[r] \in {"restore", "cleanCandidate", "release", "cleanSuperseded"}

(* A metadata object is the last one its writer uploads, and only a writer that
   carries metadata uploads one. *)
MetaLast ==
    \A w \in Writers :
        /\ pc[w] = "putMeta" => WithMeta(w)
        /\ MetaOf(w) \in objects =>
              /\ pc[w] \notin {"idle", "probe", "load", "narrow", "reload", "putBody", "putMeta"}
              /\ pc[w] = "persist" => WithMeta(w)

(* Under the lock no other publish installs a generation, so the row still
   names what the lock's holder found, unless a rewrite moved it. *)
LockedSnapshot ==
    \A p \in Publishers :
        lock = p /\ pc[p] \in {"narrow", "putBody", "putMeta", "persist"} /\ row # None =>
            seen[p] # None /\ row.gen \in {seen[p].gen} \union Rewriters

RetentionInv == OwedLater /\ MetaLast /\ LockedSnapshot

(* Why an object may be in the store. *)
Explained(o) ==
    \/ o \in ObjectsOf(row)
    \/ o \in evidence
    \/ \E r \in Requests : o \in todo[r]
    \/ pc[o[2]] \in {"putMeta", "persist"}

(* The four ways in which an object may stop being accounted for. *)
Forgotten(o) ==
    \/ ForgottenByCrash(o)
    \/ ForgottenByLateUpload(o)
    \/ ForgottenByUnknownCommit(o)
    \/ ForgottenByRepublish(o)

(* What a step does for an object of the store after it. *)
Kept(o) == (o \in objects /\ ~Explained(o)) \/ Explained(o)' \/ Forgotten(o)

(* Being accounted for, object by object. *)
LEMMA AccountedIsExplained ==
    \A o \in Objects : o \in AccountedFor <=> Explained(o)
<1> DEFINE Candidates == {o \in Objects : pc[o[2]] \in {"putMeta", "persist"}}
           Owed == UNION {todo[r] : r \in Requests}
<1>1. \A o \in Objects : o \in Candidates <=> pc[o[2]] \in {"putMeta", "persist"}
  BY Zenon
<1>2. \A o : o \in Owed <=> \E r \in Requests : o \in todo[r]
  OBVIOUS
<1>3. AccountedFor = ObjectsOf(row) \union evidence \union Owed \union Candidates
  BY DEF AccountedFor
<1> HIDE DEF Candidates, Owed
<1> QED BY <1>1, <1>2, <1>3, Zenon DEF Explained

(* The forms that the steps below use. *)
LEMMA RetentionTypes ==
    ASSUME TypeInv
    PROVE  /\ pc \in [Requests -> PcValues]
           /\ seen \in [Requests -> Row \union {None}]
           /\ todo \in [Requests -> SUBSET Objects]
           /\ lock \in Publishers \union {None}
           /\ row \in Row \union {None}
           /\ objects \subseteq Objects
           /\ None \notin Publishers
  BY RequestsAssumption DEF TypeInv, TypeOK, Requests, Writers

(* Deletions are only ever owed from the step that names them on. *)
LEMMA OwedStep == ASSUME TypeInv, OwedLater, [Next]_vars PROVE OwedLater'
<1> USE RetentionTypes DEF OwedLater, Goto, Leave
<1>1. CASE \E p \in Publishers : PublishStep(p) \/ LoseConnection(p)
  BY <1>1 DEF PublishStep, AcquirePublishLock, Probe, LoadCurrent, Narrow, FailBeforeWrite,
       PersistCommitted, PersistRolledBack, PersistAmbiguous, RestoreAudience,
       RestoreAudienceFailed, ReleasePublishLock, LoseConnection, AfterFailure
<1>2. CASE \E w \in Rewriters : RewriteStep(w)
  BY <1>2 DEF RewriteStep, RewriteRead, RewriteReload, RewriteCommitted, RewriteRolledBack,
       RewriteAmbiguous
<1>3. CASE \E w \in Writers : WriteStep(w)
  BY <1>3 DEF WriteStep, PutBody, PutBodyFailed, PutMeta, PutMetaFailed, AfterFailure
<1>4. CASE \E w \in Rewrappers : RewrapStep(w)
  BY <1>4 DEF RewrapStep, RewrapRead, RewrapInstall
<1>5. CASE \E d \in Deleters : DeleteStep(d)
  BY <1>5 DEF DeleteStep, DeleteRead, DeleteCommitted, DeleteRolledBack, DeleteAmbiguous
<1>6. CASE \E r \in Readers : ReadStep(r)
  BY <1>6 DEF ReadStep, ReadAuthorize, ReadBody, ReadReload
<1>7. CASE \E r \in Requests : CleanupStep(r) \/ Crash(r)
  BY <1>7 DEF CleanupStep, Cleanup, Answer, Crash
<1>8. CASE OwnerStep
  BY <1>8 DEF OwnerStep, UpdateVisibility, ShareTranscript, UnshareTranscript, OwnerChooses
<1>9. CASE UNCHANGED vars
  BY <1>9 DEF vars
<1> QED BY <1>1, <1>2, <1>3, <1>4, <1>5, <1>6, <1>7, <1>8, <1>9 DEF Next

(* Metadata objects stay last.  Only an upload stores one, and a snapshot does
   not change between the upload and the commit. *)
LEMMA MetaStep == ASSUME TypeInv, MetaLast, [Next]_vars PROVE MetaLast'
<1> USE RetentionTypes, RequestsAssumption DEF MetaLast, Goto, Leave, BodyOf, MetaOf, WithMeta, Requests, Writers
<1>1. CASE \E p \in Publishers : PublishStep(p) \/ LoseConnection(p)
  <2>1. PICK p \in Publishers : PublishStep(p) \/ LoseConnection(p)
    BY <1>1
  <2>2. /\ objects' = objects
        /\ \A q \in Writers : q # p => pc'[q] = pc[q] /\ seen'[q] = seen[q]
    BY <2>1 DEF PublishStep, AcquirePublishLock, Probe, LoadCurrent, Narrow, FailBeforeWrite,
       PersistCommitted, PersistRolledBack, PersistAmbiguous, RestoreAudience,
       RestoreAudienceFailed, ReleasePublishLock, LoseConnection
  <2>3. \/ pc'[p] = pc[p]
        \/ pc[p] \in {"idle", "probe", "load", "narrow"} /\ pc'[p] \notin {"putMeta", "persist"}
        \/ pc'[p] \in {"restore", "cleanCandidate", "release", "cleanSuperseded"}
    BY <2>1 DEF PublishStep, AcquirePublishLock, Probe, LoadCurrent, Narrow, FailBeforeWrite,
       PersistCommitted, PersistRolledBack, PersistAmbiguous, RestoreAudience,
       RestoreAudienceFailed, ReleasePublishLock, LoseConnection, AfterFailure
  <2> QED BY <2>2, <2>3
<1>2. CASE \E w \in Rewriters : RewriteStep(w)
  <2>1. PICK w \in Rewriters : RewriteStep(w)
    BY <1>2
  <2>2. /\ objects' = objects
        /\ \A q \in Writers : q # w => pc'[q] = pc[q] /\ seen'[q] = seen[q]
        /\ pc'[w] \notin {"putMeta", "persist"}
        /\ pc'[w] \in {"reload", "putBody"} => pc[w] \in {"idle", "reload"}
        /\ pc'[w] \in {"reload", "putBody", "done", "cleanSuperseded", "cleanCandidate"}
    BY <2>1 DEF RewriteStep, RewriteRead, RewriteReload, RewriteCommitted, RewriteRolledBack,
       RewriteAmbiguous
  <2> QED BY <2>2
<1>3. CASE \E w \in Writers : WriteStep(w)
  <2>1. PICK w \in Writers : WriteStep(w)
    BY <1>3
  <2>2. CASE PutBody(w)
    BY <2>2 DEF PutBody
  <2>3. CASE PutBodyFailed(w)
    <3>1. /\ pc[w] = "putBody" /\ pc'[w] \in {"restore", "cleanCandidate"} /\ seen' = seen
          /\ \A q \in Writers : q # w => pc'[q] = pc[q]
          /\ objects' \subseteq objects \union {BodyOf(w)}
      BY <2>3 DEF PutBodyFailed, AfterFailure
    <3> QED BY <3>1
  <2>4. CASE PutMeta(w)
    BY <2>4 DEF PutMeta
  <2>5. CASE PutMetaFailed(w)
    <3>1. /\ pc[w] = "putMeta" /\ pc'[w] \in {"restore", "cleanCandidate"} /\ seen' = seen
          /\ \A q \in Writers : q # w => pc'[q] = pc[q]
          /\ objects' \subseteq objects \union {MetaOf(w)}
      BY <2>5 DEF PutMetaFailed, AfterFailure
    <3> QED BY <3>1
  <2> QED BY <2>1, <2>2, <2>3, <2>4, <2>5 DEF WriteStep
<1>4. CASE \E w \in Rewrappers : RewrapStep(w)
  BY <1>4 DEF RewrapStep, RewrapRead, RewrapInstall
<1>5. CASE \E d \in Deleters : DeleteStep(d)
  BY <1>5 DEF DeleteStep, DeleteRead, DeleteCommitted, DeleteRolledBack, DeleteAmbiguous
<1>6. CASE \E r \in Readers : ReadStep(r)
  <2>1. objects' = objects /\ \A w \in Writers : pc'[w] = pc[w] /\ seen'[w] = seen[w]
    BY <1>6 DEF ReadStep, ReadAuthorize, ReadBody, ReadReload
  <2> QED BY <2>1
<1>7. CASE \E r \in Requests : CleanupStep(r) \/ Crash(r)
  <2>1. PICK r \in Requests : CleanupStep(r) \/ Crash(r)
    BY <1>7
  <2>2. CASE Cleanup(r)
    <3>1. pc' = pc /\ seen' = seen
      BY <2>2 DEF Cleanup
    <3>2. objects' \subseteq objects
      BY <2>2 DEF Cleanup
    <3> QED BY <3>1, <3>2
  <2>3. CASE Answer(r)
    <3>1. /\ objects' = objects /\ pc'[r] = "done"
          /\ \A w \in Writers : w # r => pc'[w] = pc[w] /\ seen'[w] = seen[w]
      BY <2>3 DEF Answer
    <3> QED BY <3>1
  <2>4. CASE Crash(r)
    <3>1. /\ objects' = objects /\ pc'[r] = "crashed"
          /\ \A w \in Writers : w # r => pc'[w] = pc[w] /\ seen'[w] = seen[w]
      BY <2>4 DEF Crash
    <3> QED BY <3>1
  <2> QED BY <2>1, <2>2, <2>3, <2>4 DEF CleanupStep
<1>8. CASE OwnerStep
  BY <1>8 DEF OwnerStep, UpdateVisibility, ShareTranscript, UnshareTranscript, OwnerChooses
<1>9. CASE UNCHANGED vars
  BY <1>9 DEF vars
<1> QED BY <1>1, <1>2, <1>3, <1>4, <1>5, <1>6, <1>7, <1>8, <1>9 DEF Next

(* The locked snapshot is kept: only the lock's holder and rewrites install
   a generation. *)
LEMMA SnapshotStep ==
    ASSUME TypeInv, LockedSnapshot, [Next]_vars
    PROVE  LockedSnapshot'
<1> USE RetentionTypes, RequestsAssumption DEF LockedSnapshot, Goto, Leave, Requests, Writers
<1>1. CASE \E p \in Publishers : PublishStep(p) \/ LoseConnection(p)
  <2>1. PICK p \in Publishers : PublishStep(p) \/ LoseConnection(p)
    BY <1>1
  <2>2. CASE AcquirePublishLock(p) \/ Probe(p) \/ FailBeforeWrite(p) \/ LoadCurrent(p)
    BY <2>2 DEF AcquirePublishLock, Probe, FailBeforeWrite, LoadCurrent, Holds
  <2>3. CASE Narrow(p)
    <3>1. /\ lock' = lock /\ lock = p /\ seen' = seen /\ pc[p] = "narrow" /\ row # None
          /\ \A q \in Publishers : q # p => pc'[q] = pc[q]
          /\ row' = row \/ row' = [row EXCEPT !.vis = "private"]
      BY <2>3 DEF Narrow, SetRow, Holds
    <3>2. row'.gen = row.gen
      BY <3>1 DEF Row
    <3> QED BY <3>1, <3>2
  <2>4. CASE PersistCommitted(p) \/ PersistRolledBack(p) \/ PersistAmbiguous(p)
    <3>1. /\ lock' = lock /\ seen' = seen /\ pc[p] = "persist"
          /\ pc'[p] \in {"release", "restore", "cleanCandidate"}
          /\ \A q \in Publishers : q # p => pc'[q] = pc[q]
          /\ row' = row \/ lock = p
      BY <2>4 DEF PersistCommitted, PersistRolledBack, PersistAmbiguous, PersistReachesCommit,
                  Holds, AfterFailure
    <3> QED BY <3>1
  <2>6. CASE RestoreAudience(p) \/ RestoreAudienceFailed(p)
    <3>1. /\ lock' = lock /\ seen' = seen /\ pc[p] = "restore"
          /\ pc'[p] = "cleanCandidate"
          /\ \A q \in Publishers : q # p => pc'[q] = pc[q]
          /\ row' = row \/ lock = p
      BY <2>6 DEF RestoreAudience, RestoreAudienceFailed, Holds
    <3> QED BY <3>1
  <2>7. CASE ReleasePublishLock(p) \/ LoseConnection(p)
    BY <2>7 DEF ReleasePublishLock, LoseConnection
  <2> QED BY <2>1, <2>2, <2>3, <2>4, <2>6, <2>7 DEF PublishStep
<1>2. CASE \E w \in Rewriters : RewriteStep(w)
  <2>1. PICK w \in Rewriters : RewriteStep(w)
    BY <1>2
  <2>2. /\ lock' = lock
        /\ \A p \in Publishers : pc'[p] = pc[p] /\ seen'[p] = seen[p]
        /\ row' = row \/ (row # None /\ row' = RewrittenRow(w))
    BY <2>1 DEF RewriteStep, RewriteRead, RewriteReload, RewriteCommitted, RewriteRolledBack,
       RewriteAmbiguous, RewriteMatches, SetRow
  <2>3. row' = row \/ (row # None /\ row'.gen \in Rewriters)
    BY <2>2 DEF RewrittenRow
  <2> QED BY <2>2, <2>3
<1>3. CASE \E w \in Writers : WriteStep(w)
  BY <1>3 DEF WriteStep, PutBody, PutBodyFailed, PutMeta, PutMetaFailed, AfterFailure
<1>4. CASE \E w \in Rewrappers : RewrapStep(w)
  <2>1. PICK w \in Rewrappers : RewrapStep(w)
    BY <1>4
  <2>2. /\ lock' = lock
        /\ \A p \in Publishers : pc'[p] = pc[p] /\ seen'[p] = seen[p]
        /\ row' = row \/ (row # None /\ row' = [row EXCEPT !.wrap = w])
    BY <2>1 DEF RewrapStep, RewrapRead, RewrapInstall, SetRow
  <2>3. row' = row \/ (row # None /\ row'.gen = row.gen)
    BY <2>2 DEF Row
  <2> QED BY <2>2, <2>3
<1>5. CASE \E d \in Deleters : DeleteStep(d)
  BY <1>5 DEF DeleteStep, DeleteRead, DeleteCommitted, DeleteRolledBack, DeleteAmbiguous, SetRow
<1>6. CASE \E r \in Readers : ReadStep(r)
  BY <1>6 DEF ReadStep, ReadAuthorize, ReadBody, ReadReload
<1>7. CASE \E r \in Requests : CleanupStep(r) \/ Crash(r)
  BY <1>7 DEF CleanupStep, Cleanup, Answer, Crash
<1>8. CASE OwnerStep
  BY <1>8 DEF OwnerStep, UpdateVisibility, ShareTranscript, UnshareTranscript, OwnerChooses
<1>9. CASE UNCHANGED vars
  BY <1>9 DEF vars
<1> QED BY <1>1, <1>2, <1>3, <1>4, <1>5, <1>6, <1>7, <1>8, <1>9 DEF Next

(* A step that stores nothing new, keeps the row's objects named, and drops
   neither a report, a debt nor a candidate leaves nothing behind. *)
LEMMA StaysExplained ==
    ASSUME TypeInv,
           objects' \subseteq objects,
           ObjectsOf(row) \subseteq ObjectsOf(row'),
           evidence \subseteq evidence',
           \A r \in Requests : todo[r] \subseteq todo'[r],
           \A w \in Writers : pc[w] \in {"putMeta", "persist"} => pc'[w] \in {"putMeta", "persist"}
    PROVE  \A o \in objects' : Kept(o)
<1>1. \A o \in objects : o[2] \in Writers
  BY RetentionTypes DEF Objects
<1> QED BY <1>1 DEF Explained, Kept

(* Until it is named or given up, a candidate has the objects its upload says. *)
LEMMA CandidateWhole ==
    ASSUME TypeInv, MetaLast, NEW w \in Writers, pc[w] = "persist"
    PROVE  \A o \in objects : o[2] = w => o \in CandidateObjects(w)
  BY RetentionTypes DEF MetaLast, CandidateObjects, BodyOf, MetaOf, Objects

(* What the row names and a snapshot of the same generation does not: nothing. *)
LEMMA SameGenerationSameObjects ==
    ASSUME StoreInv, NEW r \in Requests, row # None, seen[r] # None, seen[r].gen = row.gen
    PROVE  ObjectsOf(seen[r]) = ObjectsOf(row)
  BY DEF StoreInv, SnapshotsAgree, ObjectsOf

(* A publish's steps leave objects behind only in the named ways. *)
LEMMA PublishKeepsObjects ==
    ASSUME TypeInv, StoreInv, RetentionInv, NEW p \in Publishers, PublishStep(p) \/ LoseConnection(p)
    PROVE  \A o \in objects' : Kept(o)
<1> USE RetentionTypes, RequestsAssumption DEF Requests, Writers
<1>2. CASE AcquirePublishLock(p) \/ Probe(p) \/ FailBeforeWrite(p) \/ LoadCurrent(p)
           \/ ReleasePublishLock(p) \/ LoseConnection(p)
  BY <1>2, StaysExplained
     DEF AcquirePublishLock, Probe, FailBeforeWrite, LoadCurrent, ReleasePublishLock,
         LoseConnection, Goto
<1>3. CASE Narrow(p) \/ RestoreAudience(p) \/ RestoreAudienceFailed(p)
  <2>1. /\ UNCHANGED <<objects, evidence, todo>>
        /\ \A w \in Writers : pc[w] \in {"putMeta", "persist"} => pc'[w] = pc[w]
        /\ \/ row' = row
           \/ \E v \in {"private", RestoreTarget(row.vis, narrowed[p])} :
                 row # None /\ row' = [row EXCEPT !.vis = v]
    BY <1>3 DEF Narrow, RestoreAudience, RestoreAudienceFailed, SetRow, Holds, Goto
  <2>2. ObjectsOf(row) \subseteq ObjectsOf(row')
    BY <2>1, RowAssumption DEF ObjectsOf, Row, Visibilities, RestoreTarget, TypeInv, TypeOK
  <2> QED BY <2>1, <2>2, StaysExplained
<1>4. CASE PersistRolledBack(p)
  <2>1. /\ UNCHANGED <<row, objects, evidence>>
        /\ todo'[p] = CandidateObjects(p) /\ pc[p] = "persist"
        /\ \A q \in Requests : q # p => todo'[q] = todo[q] /\ pc'[q] = pc[q]
    BY <1>4 DEF PersistRolledBack, Goto
  <2>2. todo[p] = {}
    BY <2>1 DEF RetentionInv, OwedLater
  <2>3. \A o \in objects : o[2] = p => o \in CandidateObjects(p)
    BY <2>1, CandidateWhole DEF RetentionInv
  <2> QED BY <2>1, <2>2, <2>3 DEF Explained, Kept, Objects
<1>5. CASE PersistCommitted(p)
  <2>1. /\ UNCHANGED <<objects, evidence>>
        /\ todo'[p] = ObjectsOf(seen[p]) /\ pc[p] = "persist" /\ pc'[p] = "release" /\ lock = p
        /\ \A q \in Requests : q # p => todo'[q] = todo[q] /\ pc'[q] = pc[q]
        /\ row' = PublishedRow(p) /\ PersistReachesCommit(p)
    BY <1>5 DEF PersistCommitted, PersistReachesCommit, Holds, InstallPublished, SetRow, Goto
  <2>2. todo[p] = {}
    BY <2>1 DEF RetentionInv, OwedLater
  <2>3. \A o \in objects : o[2] = p => o \in CandidateObjects(p)
    BY <2>1, CandidateWhole DEF RetentionInv
  <2>4. \A o \in ObjectsOf(row) : o \in ObjectsOf(seen[p]) \/ o[2] \in Rewriters
    <3>1. CASE row = None
      BY <3>1 DEF ObjectsOf
    <3>2. CASE row # None
      <4>1. seen[p] # None /\ row.gen \in {seen[p].gen} \union Rewriters
        BY <2>1, <3>2 DEF RetentionInv, LockedSnapshot
      <4>2. CASE row.gen = seen[p].gen
        BY <3>2, <4>1, <4>2, SameGenerationSameObjects
      <4>3. CASE row.gen \in Rewriters
        BY <3>2, <4>3 DEF StoreInv, MetadataPaired, ObjectsOf, BodyOf, MetaOf
      <4> QED BY <4>1, <4>2, <4>3
    <3> QED BY <3>1, <3>2
  <2>5. OwnRow(p, row') /\ row' # None
    BY <2>1, PublishedOwn, RowAssumption DEF OwnRow
  <2>6. CandidateObjects(p) \subseteq ObjectsOf(row')
    BY <2>5 DEF OwnRow, CandidateObjects, ObjectsOf
  <2> SUFFICES ASSUME NEW o \in objects, Explained(o) PROVE Kept(o)
    BY <2>1 DEF Kept
  <2>7. CASE o \in ObjectsOf(row) \ ObjectsOf(row')
    BY <2>1, <2>4, <2>7 DEF Kept, Explained, Forgotten, ForgottenByRepublish
  <2>8. CASE o \notin ObjectsOf(row)
    BY <2>1, <2>2, <2>3, <2>6, <2>8 DEF Explained, Kept, Objects
  <2>9. CASE o \in ObjectsOf(row')
    BY <2>9 DEF Explained, Kept
  <2> QED BY <2>7, <2>8, <2>9
<1>6. CASE PersistAmbiguous(p)
  <2>1. /\ UNCHANGED <<objects, todo>> /\ "ambiguous" \in Faults
        /\ pc[p] = "persist" /\ pc'[p] = "cleanCandidate"
        /\ \A q \in Requests : q # p => pc'[q] = pc[q]
        /\ evidence' = evidence \union CandidateObjects(p)
    BY <1>6 DEF PersistAmbiguous, Goto
  <2>2. \A o \in objects : o[2] = p => o \in CandidateObjects(p)
    BY <2>1, CandidateWhole DEF RetentionInv
  <2> SUFFICES ASSUME NEW o \in objects, Explained(o) PROVE Kept(o)
    BY <2>1 DEF Kept
  <2>3. CASE o \in ObjectsOf(row) \ ObjectsOf(row')
    BY <2>1, <2>3 DEF Kept, Forgotten, ForgottenByUnknownCommit
  <2>4. CASE o \notin ObjectsOf(row)
    BY <2>1, <2>2, <2>4 DEF Explained, Kept, Objects
  <2>5. CASE o \in ObjectsOf(row')
    BY <2>5 DEF Explained, Kept
  <2> QED BY <2>3, <2>4, <2>5
<1> QED BY <1>2, <1>3, <1>4, <1>5, <1>6 DEF PublishStep

(* A rewrite's steps leave objects behind only in the named ways: a confirmed
   one deletes everything the row named, an unconfirmed one nothing. *)
LEMMA RewriteKeepsObjects ==
    ASSUME TypeInv, StoreInv, RetentionInv, NEW w \in Rewriters, RewriteStep(w)
    PROVE  \A o \in objects' : Kept(o)
<1> USE RetentionTypes, RequestsAssumption DEF Requests, Writers
<1>1. CASE RewriteRead(w) \/ RewriteReload(w)
  BY <1>1, StaysExplained DEF RewriteRead, RewriteReload, Goto, Leave
<1>2. CASE RewriteRolledBack(w)
  <2>1. /\ UNCHANGED <<row, objects, evidence>>
        /\ todo'[w] = CandidateObjects(w) /\ pc[w] = "persist"
        /\ \A q \in Requests : q # w => todo'[q] = todo[q] /\ pc'[q] = pc[q]
    BY <1>2 DEF RewriteRolledBack, Goto
  <2>2. todo[w] = {}
    BY <2>1 DEF RetentionInv, OwedLater
  <2>3. \A o \in objects : o[2] = w => o \in CandidateObjects(w)
    BY <2>1, CandidateWhole DEF RetentionInv
  <2> QED BY <2>1, <2>2, <2>3 DEF Explained, Kept, Objects
<1>3. CASE RewriteCommitted(w)
  <2>1. /\ UNCHANGED <<objects, evidence>> /\ seen' = seen
        /\ todo'[w] = ObjectsOf(seen[w]) /\ pc[w] = "persist"
        /\ \A q \in Requests : q # w => todo'[q] = todo[q] /\ pc'[q] = pc[q]
        /\ row' = RewrittenRow(w) /\ RewriteMatches(w)
    BY <1>3 DEF RewriteCommitted, SetRow, Goto
  <2>2. todo[w] = {}
    BY <2>1 DEF RetentionInv, OwedLater
  <2>3. \A o \in objects : o[2] = w => o \in CandidateObjects(w)
    BY <2>1, CandidateWhole DEF RetentionInv
  <2>4. row # None /\ seen[w] # None /\ seen[w].gen = row.gen
    BY <2>1 DEF RewriteMatches, SameDescriptor, TypeInv, SeenLoaded
  <2>5. ObjectsOf(row) = ObjectsOf(seen[w])
    BY <2>4, SameGenerationSameObjects
  <2>6. CandidateObjects(w) \subseteq ObjectsOf(row')
    <3>1. OwnRow(w, row') /\ row' # None
      BY <2>1, <2>4, RewrittenOwn, RowAssumption DEF OwnRow
    <3> QED BY <3>1 DEF OwnRow, CandidateObjects, ObjectsOf
  <2> QED BY <2>1, <2>2, <2>3, <2>5, <2>6 DEF Explained, Kept, Objects
<1>4. CASE RewriteAmbiguous(w)
  <2>1. /\ UNCHANGED <<objects, todo>> /\ "ambiguous" \in Faults
        /\ pc[w] = "persist" /\ pc'[w] = "done"
        /\ \A q \in Requests : q # w => pc'[q] = pc[q]
        /\ evidence' = evidence \union CandidateObjects(w)
    BY <1>4 DEF RewriteAmbiguous, Goto, Leave
  <2>2. \A o \in objects : o[2] = w => o \in CandidateObjects(w)
    BY <2>1, CandidateWhole DEF RetentionInv
  <2> SUFFICES ASSUME NEW o \in objects, Explained(o) PROVE Kept(o)
    BY <2>1 DEF Kept
  <2>3. CASE o \in ObjectsOf(row) \ ObjectsOf(row')
    BY <2>1, <2>3 DEF Kept, Forgotten, ForgottenByUnknownCommit
  <2>4. CASE o \notin ObjectsOf(row)
    BY <2>1, <2>2, <2>4 DEF Explained, Kept, Objects
  <2>5. CASE o \in ObjectsOf(row')
    BY <2>5 DEF Explained, Kept
  <2> QED BY <2>3, <2>4, <2>5
<1> QED BY <1>1, <1>2, <1>3, <1>4 DEF RewriteStep

(* Uploads leave an object behind only when a failed one is stored late. *)
LEMMA UploadKeepsObjects ==
    ASSUME TypeInv, StoreInv, RetentionInv, NEW w \in Writers, WriteStep(w)
    PROVE  \A o \in objects' : Kept(o)
<1> USE RetentionTypes DEF Requests
<1>1. CASE PutBody(w)
  BY <1>1 DEF PutBody, Goto, BodyOf, Explained, Kept, Objects
<1>2. CASE PutBodyFailed(w)
  <2>1. /\ UNCHANGED <<row, evidence, todo>> /\ pc[w] = "putBody"
        /\ \A q \in Requests : q # w => pc'[q] = pc[q]
        /\ objects' = objects \/ "latePut" \in Faults
    BY <1>2 DEF PutBodyFailed, Goto
  <2> QED BY <2>1 DEF Kept, Explained, Objects, Forgotten, ForgottenByLateUpload
<1>3. CASE PutMeta(w)
  BY <1>3 DEF PutMeta, Goto, MetaOf, Explained, Kept, Objects
<1>4. CASE PutMetaFailed(w)
  <2>1. /\ row' = row /\ todo' = todo /\ pc[w] = "putMeta"
        /\ \A q \in Requests : q # w => pc'[q] = pc[q]
        /\ evidence \subseteq evidence'
        /\ \A o \in objects' : o \notin objects => "latePut" \in Faults
        /\ BodyOf(w) \notin objects' \/ BodyOf(w) \in evidence'
    BY <1>4 DEF PutMetaFailed, Goto, BodyOf, MetaOf
  <2>2. \A o \in objects : o[2] = w => o = BodyOf(w)
    BY <2>1 DEF RetentionInv, MetaLast, BodyOf, MetaOf, Objects
  <2> QED BY <2>1, <2>2 DEF Explained, Kept, Objects, Forgotten, ForgottenByLateUpload
<1> QED BY <1>1, <1>2, <1>3, <1>4 DEF WriteStep

(* A deletion leaves objects behind only when its commit stays unconfirmed and
   the row named what it had not read. *)
LEMMA DeleteKeepsObjects ==
    ASSUME TypeInv, StoreInv, RetentionInv, NEW d \in Deleters, DeleteStep(d)
    PROVE  \A o \in objects' : Kept(o)
<1> USE RetentionTypes, RequestsAssumption DEF Requests, Writers
<1>1. CASE DeleteRead(d) \/ DeleteRolledBack(d)
  BY <1>1, StaysExplained DEF DeleteRead, DeleteRolledBack, Goto, Leave
<1>2. CASE DeleteCommitted(d)
  <2>1. todo[d] = {}
    BY <1>2 DEF DeleteCommitted, RetentionInv, OwedLater
  <2> QED BY <1>2, <2>1 DEF DeleteCommitted, Goto, Explained, Kept, Objects
<1>3. CASE DeleteAmbiguous(d)
  <2>1. /\ UNCHANGED <<objects, todo>> /\ "ambiguous" \in Faults
        /\ pc[d] = "delete" /\ pc'[d] = "done"
        /\ \A q \in Requests : q # d => pc'[q] = pc[q]
        /\ evidence' = evidence \union ObjectsOf(seen[d])
    BY <1>3 DEF DeleteAmbiguous, Goto, Leave
  <2> SUFFICES ASSUME NEW o \in objects, Explained(o) PROVE Kept(o)
    BY <2>1 DEF Kept
  <2>3. CASE o \in ObjectsOf(row) \ ObjectsOf(row')
    BY <2>1, <2>3 DEF Kept, Explained, Forgotten, ForgottenByUnknownCommit
  <2>4. CASE o \notin ObjectsOf(row)
    BY <2>1, <2>4 DEF Explained, Kept, Objects
  <2>5. CASE o \in ObjectsOf(row')
    BY <2>5 DEF Explained, Kept
  <2> QED BY <2>3, <2>4, <2>5
<1> QED BY <1>1, <1>2, <1>3 DEF DeleteStep

(* Every step leaves objects behind only in the named ways. *)
LEMMA LapseStep ==
    ASSUME TypeInv, StoreInv, RetentionInv, [Next]_vars
    PROVE  \A o \in objects' : Kept(o)
<1> USE RetentionTypes
<1>1. CASE \E p \in Publishers : PublishStep(p) \/ LoseConnection(p)
  BY <1>1, PublishKeepsObjects
<1>2. CASE \E w \in Rewriters : RewriteStep(w)
  BY <1>2, RewriteKeepsObjects
<1>3. CASE \E w \in Writers : WriteStep(w)
  BY <1>3, UploadKeepsObjects
<1>4. CASE \E w \in Rewrappers : RewrapStep(w)
  <2>1. PICK w \in Rewrappers : RewrapStep(w)
    BY <1>4
  <2>2. /\ UNCHANGED <<objects, evidence, todo>>
        /\ \A p \in Writers : pc'[p] = pc[p]
        /\ row' = row \/ (row # None /\ row' = [row EXCEPT !.wrap = w])
    BY <2>1, RequestsAssumption
       DEF RewrapStep, RewrapRead, RewrapInstall, SetRow, Goto, Leave, Requests, Writers
  <2>3. ObjectsOf(row) \subseteq ObjectsOf(row')
    BY <2>2, RowAssumption DEF ObjectsOf, Row
  <2> QED BY <2>2, <2>3, StaysExplained
<1>5. CASE \E d \in Deleters : DeleteStep(d)
  BY <1>5, DeleteKeepsObjects
<1>6. CASE \E r \in Readers : ReadStep(r)
  BY <1>6, StaysExplained, RequestsAssumption
     DEF ReadStep, ReadAuthorize, ReadBody, ReadReload, Goto, Leave, Requests, Writers
<1>7. CASE \E r \in Requests : CleanupStep(r) \/ Crash(r)
  <2>1. PICK r \in Requests : CleanupStep(r) \/ Crash(r)
    BY <1>7
  <2>2. CASE Cleanup(r)
    <3>1. PICK o \in todo[r] :
             /\ todo' = [todo EXCEPT ![r] = @ \ {o}]
             /\ \/ objects' = objects \ {o} /\ evidence' = evidence
                \/ objects' \subseteq objects /\ evidence' = evidence \union {o}
      BY <2>2 DEF Cleanup
    <3>2. row' = row /\ pc' = pc
      BY <2>2 DEF Cleanup
    <3> QED BY <3>1, <3>2 DEF Explained, Kept
  <2>3. CASE Answer(r)
    BY <2>3, StaysExplained DEF Answer, Goto, Leave
  <2>4. CASE Crash(r)
    <3>1. /\ UNCHANGED <<row, objects, evidence>> /\ "crash" \in Faults
          /\ pc[r] # "crashed" /\ pc'[r] = "crashed"
          /\ \A q \in Requests : q # r => todo'[q] = todo[q] /\ pc'[q] = pc[q]
      BY <2>4 DEF Crash, Goto, Leave
    <3> SUFFICES ASSUME NEW o \in objects, Explained(o), o \notin todo[r], o[2] # r
                 PROVE  Explained(o)'
      BY <3>1 DEF Kept, Forgotten, ForgottenByCrash
    <3>2. o[2] \in Requests
      BY DEF Objects, Requests
    <3> QED BY <3>1, <3>2 DEF Explained
  <2> QED BY <2>1, <2>2, <2>3, <2>4 DEF CleanupStep
<1>8. CASE OwnerStep
  <2>1. /\ UNCHANGED <<objects, evidence, todo, pc>>
        /\ \E v \in Visibilities : row # None /\ row' = [row EXCEPT !.vis = v]
    BY <1>8 DEF OwnerStep, UpdateVisibility, ShareTranscript, UnshareTranscript, OwnerChooses,
                SetRow, Visibilities
  <2>2. ObjectsOf(row) \subseteq ObjectsOf(row')
    BY <2>1, RowAssumption DEF ObjectsOf, Row
  <2> QED BY <2>1, <2>2, StaysExplained
<1>9. CASE UNCHANGED vars
  BY <1>9, StaysExplained DEF vars
<1> QED BY <1>1, <1>2, <1>3, <1>4, <1>5, <1>6, <1>7, <1>8, <1>9 DEF Next

(* The invariants the accounting rests on. *)
LEMMA RetentionHolds == Spec => [](TypeInv /\ StoreInv /\ RetentionInv)
<1>1. Init => TypeInv /\ StoreInv /\ RetentionInv
  BY DEF Init, TypeInv, TypeOK, SeenLoaded, Row, Objects, PcValues, Visibilities,
         StoreInv, NamesSettled, RowSettled, TodoUnreferenced, CandidateStored,
         SnapshotsAgree, MetadataPaired, ReferencedStored, ObjectsOf, RetentionInv,
         OwedLater, MetaLast, LockedSnapshot, Requests
<1>2. TypeInv /\ StoreInv /\ RetentionInv /\ [Next]_vars => (TypeInv /\ StoreInv /\ RetentionInv)'
  BY TypeStep, StoreStep, OwedStep, MetaStep, SnapshotStep DEF RetentionInv
<1> QED BY <1>1, <1>2, PTL DEF Spec

(* What a step leaves unaccounted for, set by set. *)
LEMMA LapsesStep ==
    ASSUME TypeInv, StoreInv, RetentionInv, [Next]_vars
    PROVE  \A o \in objects' \ AccountedFor' : o \in objects \ AccountedFor \/ Forgotten(o)
<1>1. (\A o \in Objects : o \in AccountedFor <=> Explained(o))'
  BY AccountedIsExplained, PTL
<1>2. objects \subseteq Objects /\ objects' \subseteq Objects
  BY TypeStep DEF TypeInv, TypeOK
<1>3. \A o \in Objects : o \in AccountedFor' <=> Explained(o)'
  BY <1>1 DEF Objects, Writers
<1> QED BY <1>2, <1>3, AccountedIsExplained, LapseStep DEF Kept

(* An object is left in the store unnamed, unowed and unreported only when a
   process died, a failed upload was stored late, a commit stayed unconfirmed,
   or a publish replaced a rewrite it had not seen: with every fault, every
   request and any number of each. *)
THEOREM LapsesAreNamed == Spec => OnlyNamedLapses
<1>1. ASSUME TypeInv, StoreInv, RetentionInv, [Next]_vars
      PROVE  [\A o \in objects' \ AccountedFor' :
                 \/ o \in objects \ AccountedFor
                 \/ ForgottenByCrash(o)
                 \/ ForgottenByLateUpload(o)
                 \/ ForgottenByUnknownCommit(o)
                 \/ ForgottenByRepublish(o)]_vars
  BY <1>1, LapsesStep DEF Forgotten
<1> QED BY <1>1, RetentionHolds, PTL DEF Spec, OnlyNamedLapses

-----------------------------------------------------------------------------
(* What is seen from outside.  Whatever the row or a snapshot names decrypts
   to something. *)
ContentKnown ==
    /\ row # None => content[row.gen] # None
    /\ \A q \in Requests : seen[q] # None => content[seen[q].gen] # None

(* A reader is given something once, at its end, and never a candidate. *)
GivenOnce ==
    \A r \in Readers : served[r] # None => pc[r] = "done" /\ Settled(served[r])

OutsideInv == ContentKnown /\ GivenOnce

(* The forms that the steps below use. *)
LEMMA OutsideTypes ==
    ASSUME TypeInv
    PROVE  /\ pc \in [Requests -> PcValues]
           /\ seen \in [Requests -> Row \union {None}]
           /\ content \in [Writers -> Contents \union {None}]
           /\ served \in [Readers -> Writers \union {None}]
           /\ lock \in Publishers \union {None}
           /\ row \in Row \union {None}
           /\ None \notin Requests
           /\ None \notin Contents
           /\ \A q \in Requests : seen[q] # None => seen[q].gen \in Writers
           /\ row # None => row.gen \in Writers
           /\ None \notin Row
  BY RequestsAssumption, RowAssumption DEF TypeInv, TypeOK, Row

(* The requests fall into kinds. *)
LEMMA KindsDisjoint ==
    /\ Publishers \subseteq Requests /\ Rewriters \subseteq Requests /\ Deleters \subseteq Requests
    /\ Rewrappers \subseteq Requests /\ Readers \subseteq Requests
    /\ Writers = Publishers \union Rewriters
    /\ \A r \in Readers : r \notin Publishers \union Deleters \union Writers \union Rewrappers
    /\ \A w \in Rewriters : w \notin Publishers \union Deleters \union Rewrappers
    /\ \A w \in Rewrappers : w \notin Publishers \union Deleters
    /\ \A d \in Deleters : d \notin Publishers
  BY RequestsAssumption DEF Requests, Writers

(* What no step does: a settled request stays settled, and the body of a
   settled generation is never written again. *)
LEMMA SettledStays ==
    ASSUME TypeInv, [Next]_vars
    PROVE  \A w \in Writers : Settled(w) => Settled(w)' /\ content'[w] = content[w]
<1> USE OutsideTypes, KindsDisjoint DEF Settled, Goto, Leave
<1>1. CASE \E p \in Publishers : PublishStep(p) \/ LoseConnection(p)
  BY <1>1 DEF PublishStep, AcquirePublishLock, Probe, LoadCurrent, Narrow, FailBeforeWrite,
       PersistCommitted, PersistRolledBack, PersistAmbiguous, RestoreAudience,
       RestoreAudienceFailed, ReleasePublishLock, LoseConnection, AfterFailure
<1>2. CASE \E w \in Rewriters : RewriteStep(w)
  BY <1>2 DEF RewriteStep, RewriteRead, RewriteReload, RewriteCommitted, RewriteRolledBack,
       RewriteAmbiguous
<1>3. CASE \E w \in Writers : WriteStep(w)
  BY <1>3 DEF WriteStep, PutBody, PutBodyFailed, PutMeta, PutMetaFailed, AfterFailure
<1>4. CASE \E w \in Rewrappers : RewrapStep(w)
  BY <1>4 DEF RewrapStep, RewrapRead, RewrapInstall
<1>5. CASE \E d \in Deleters : DeleteStep(d)
  BY <1>5 DEF DeleteStep, DeleteRead, DeleteCommitted, DeleteRolledBack, DeleteAmbiguous
<1>6. CASE \E r \in Readers : ReadStep(r)
  BY <1>6 DEF ReadStep, ReadAuthorize, ReadBody, ReadReload
<1>7. CASE \E r \in Requests : CleanupStep(r) \/ Crash(r)
  BY <1>7 DEF CleanupStep, Cleanup, Answer, Crash
<1>8. CASE OwnerStep
  BY <1>8 DEF OwnerStep, UpdateVisibility, ShareTranscript, UnshareTranscript, OwnerChooses
<1>9. CASE UNCHANGED vars
  BY <1>9 DEF vars
<1> QED BY <1>1, <1>2, <1>3, <1>4, <1>5, <1>6, <1>7, <1>8, <1>9 DEF Next

(* A snapshot is taken of the row, kept, or dropped. *)
LEMMA SnapshotsFollow ==
    ASSUME TypeInv, [Next]_vars
    PROVE  \A q \in Requests : seen'[q] \in {seen[q], row, None}
<1> USE OutsideTypes, KindsDisjoint DEF Goto, Leave
<1>1. CASE \E p \in Publishers : PublishStep(p) \/ LoseConnection(p)
  BY <1>1 DEF PublishStep, AcquirePublishLock, Probe, LoadCurrent, Narrow, FailBeforeWrite,
       PersistCommitted, PersistRolledBack, PersistAmbiguous, RestoreAudience,
       RestoreAudienceFailed, ReleasePublishLock, LoseConnection
<1>2. CASE \E w \in Rewriters : RewriteStep(w)
  BY <1>2 DEF RewriteStep, RewriteRead, RewriteReload, RewriteCommitted, RewriteRolledBack,
       RewriteAmbiguous
<1>3. CASE \E w \in Writers : WriteStep(w)
  BY <1>3 DEF WriteStep, PutBody, PutBodyFailed, PutMeta, PutMetaFailed
<1>4. CASE \E w \in Rewrappers : RewrapStep(w)
  BY <1>4 DEF RewrapStep, RewrapRead, RewrapInstall
<1>5. CASE \E d \in Deleters : DeleteStep(d)
  BY <1>5 DEF DeleteStep, DeleteRead, DeleteCommitted, DeleteRolledBack, DeleteAmbiguous
<1>6. CASE \E r \in Readers : ReadStep(r)
  BY <1>6 DEF ReadStep, ReadAuthorize, ReadBody, ReadReload
<1>7. CASE \E r \in Requests : CleanupStep(r) \/ Crash(r)
  BY <1>7 DEF CleanupStep, Cleanup, Answer, Crash
<1>8. CASE OwnerStep
  BY <1>8 DEF OwnerStep, UpdateVisibility, ShareTranscript, UnshareTranscript, OwnerChooses
<1>9. CASE UNCHANGED vars
  BY <1>9 DEF vars
<1> QED BY <1>1, <1>2, <1>3, <1>4, <1>5, <1>6, <1>7, <1>8, <1>9 DEF Next

(* What a step does to the generation the row names: it keeps it, or a writer
   about to commit installs its own. *)
LEMMA RowFollows ==
    ASSUME TypeInv, [Next]_vars
    PROVE  \/ row' = None
           \/ row # None /\ row' # None /\ row'.gen = row.gen
           \/ row' # None /\ row'.gen \in Writers /\ pc[row'.gen] = "persist" /\ content' = content
<1> USE OutsideTypes, KindsDisjoint DEF SetRow
<1>1. CASE \E p \in Publishers : PublishStep(p) \/ LoseConnection(p)
  <2>1. PICK p \in Publishers : PublishStep(p) \/ LoseConnection(p)
    BY <1>1
  <2>2. \/ row' = row
        \/ row # None /\ \E v : row' = [row EXCEPT !.vis = v]
        \/ row' = PublishedRow(p) /\ pc[p] = "persist" /\ content' = content
    BY <2>1 DEF PublishStep, AcquirePublishLock, Probe, LoadCurrent, Narrow, FailBeforeWrite,
       PersistCommitted, PersistRolledBack, PersistAmbiguous, RestoreAudience, InstallPublished,
       RestoreAudienceFailed, ReleasePublishLock, LoseConnection, Holds
  <2>3. CASE row # None /\ \E v : row' = [row EXCEPT !.vis = v]
    BY <2>3, TypeStep DEF TypeInv, TypeOK, Row
  <2>4. CASE row' = PublishedRow(p)
    BY <2>4, <2>2 DEF PublishedRow
  <2> QED BY <2>2, <2>3, <2>4
<1>2. CASE \E w \in Rewriters : RewriteStep(w)
  <2>1. PICK w \in Rewriters : RewriteStep(w)
    BY <1>2
  <2>2. row' = row \/ (row' = RewrittenRow(w) /\ pc[w] = "persist" /\ content' = content)
    BY <2>1 DEF RewriteStep, RewriteRead, RewriteReload, RewriteCommitted, RewriteRolledBack,
       RewriteAmbiguous
  <2> QED BY <2>2 DEF RewrittenRow
<1>3. CASE \E w \in Writers : WriteStep(w)
  BY <1>3 DEF WriteStep, PutBody, PutBodyFailed, PutMeta, PutMetaFailed
<1>4. CASE \E w \in Rewrappers : RewrapStep(w)
  BY <1>4 DEF RewrapStep, RewrapRead, RewrapInstall, Row
<1>5. CASE \E d \in Deleters : DeleteStep(d)
  BY <1>5 DEF DeleteStep, DeleteRead, DeleteCommitted, DeleteRolledBack, DeleteAmbiguous
<1>6. CASE \E r \in Readers : ReadStep(r)
  BY <1>6 DEF ReadStep, ReadAuthorize, ReadBody, ReadReload
<1>7. CASE \E r \in Requests : CleanupStep(r) \/ Crash(r)
  BY <1>7 DEF CleanupStep, Cleanup, Answer, Crash
<1>8. CASE OwnerStep
  <2>1. row # None /\ \E v \in Visibilities : row' = [row EXCEPT !.vis = v]
    BY <1>8 DEF OwnerStep, UpdateVisibility, ShareTranscript, UnshareTranscript, OwnerChooses, Visibilities
  <2> QED BY <2>1 DEF Row
<1>9. CASE UNCHANGED vars
  BY <1>9 DEF vars
<1> QED BY <1>1, <1>2, <1>3, <1>4, <1>5, <1>6, <1>7, <1>8, <1>9 DEF Next

(* What the row and the snapshots name stays decryptable. *)
LEMMA KnownStep ==
    ASSUME TypeInv, StoreInv, ContentInv, ContentKnown, [Next]_vars
    PROVE  ContentKnown'
<1> USE OutsideTypes
<1>1. \A g \in Writers : Settled(g) => content'[g] = content[g]
  BY SettledStays
<1>2. /\ row # None => Settled(row.gen)
      /\ \A q \in Requests : seen[q] # None => Settled(seen[q].gen)
  BY DEF StoreInv, NamesSettled, RowSettled
<1>3. row # None => content'[row.gen] # None
  BY <1>1, <1>2 DEF ContentKnown
<1>4. \A q \in Requests : seen'[q] # None => content'[seen'[q].gen] # None
  BY <1>1, <1>2, <1>3, SnapshotsFollow DEF ContentKnown
<1>5. ASSUME NEW w \in Writers, pc[w] = "persist" PROVE content[w] # None
  <2>1. CASE w \in Publishers
    BY <2>1, <1>5, PublishAssumption DEF ContentInv
  <2>2. CASE w \in Rewriters
    BY <2>2, <1>5 DEF ContentInv, ContentKnown, TypeInv, SeenLoaded, Requests, Writers
  <2> QED BY <2>1, <2>2 DEF Writers
<1>6. row' # None => content'[row'.gen] # None
  BY <1>3, <1>5, RowFollows
<1> QED BY <1>4, <1>6 DEF ContentKnown

(* Readers are given things once. *)
LEMMA GivenStep ==
    ASSUME TypeInv, StoreInv, GivenOnce, [Next]_vars
    PROVE  GivenOnce'
<1> USE OutsideTypes, KindsDisjoint
<1>1. \A w \in Writers : Settled(w) => Settled(w)'
  BY SettledStays
<1>2. \A r \in Readers :
         \/ served'[r] = served[r] /\ (pc[r] = "done" => pc'[r] = "done")
         \/ served'[r] = seen[r].gen /\ seen[r] # None /\ pc'[r] = "done"
  <2> USE DEF Goto, Leave
  <2>1. CASE \E p \in Publishers : PublishStep(p) \/ LoseConnection(p)
    BY <2>1 DEF PublishStep, AcquirePublishLock, Probe, LoadCurrent, Narrow, FailBeforeWrite,
         PersistCommitted, PersistRolledBack, PersistAmbiguous, RestoreAudience,
         RestoreAudienceFailed, ReleasePublishLock, LoseConnection
  <2>2. CASE \E w \in Rewriters : RewriteStep(w)
    BY <2>2 DEF RewriteStep, RewriteRead, RewriteReload, RewriteCommitted, RewriteRolledBack,
         RewriteAmbiguous
  <2>3. CASE \E w \in Writers : WriteStep(w)
    BY <2>3 DEF WriteStep, PutBody, PutBodyFailed, PutMeta, PutMetaFailed
  <2>4. CASE \E w \in Rewrappers : RewrapStep(w)
    BY <2>4 DEF RewrapStep, RewrapRead, RewrapInstall
  <2>5. CASE \E d \in Deleters : DeleteStep(d)
    BY <2>5 DEF DeleteStep, DeleteRead, DeleteCommitted, DeleteRolledBack, DeleteAmbiguous
  <2>6. CASE \E r \in Readers : ReadStep(r)
    BY <2>6 DEF ReadStep, ReadAuthorize, ReadBody, ReadReload, TypeInv, SeenLoaded
  <2>7. CASE \E r \in Requests : CleanupStep(r) \/ Crash(r)
    BY <2>7 DEF CleanupStep, Cleanup, Answer, Crash
  <2>8. CASE OwnerStep
    BY <2>8 DEF OwnerStep, UpdateVisibility, ShareTranscript, UnshareTranscript, OwnerChooses
  <2>9. CASE UNCHANGED vars
    BY <2>9 DEF vars
  <2> QED BY <2>1, <2>2, <2>3, <2>4, <2>5, <2>6, <2>7, <2>8, <2>9 DEF Next
<1>3. \A q \in Requests : seen[q] # None => Settled(seen[q].gen)
  BY DEF StoreInv, NamesSettled, RowSettled
<1> QED BY <1>1, <1>2, <1>3 DEF GivenOnce, Settled

(* What the readers have and were given does not change under their hands. *)
LEMMA ReadersLeft ==
    ASSUME TypeInv, StoreInv, GivenOnce, [Next]_vars,
           \A r \in Readers : seen'[r] = seen[r],
           served' = served
    PROVE  BeingRead' = BeingRead /\ Given' = Given
<1> USE OutsideTypes, KindsDisjoint
<1>1. \A r \in Readers : ContentOf(seen[r])' = ContentOf(seen[r])
  BY SettledStays DEF StoreInv, NamesSettled, RowSettled, ContentOf
<1>2. \A r \in Readers : served[r] # None => content'[served[r]] = content[served[r]]
  BY SettledStays DEF GivenOnce
<1> QED BY <1>1, <1>2 DEF BeingRead, Given

(* Everybody but r keeps its place and what it found. *)
OthersStay(r) ==
    \A q \in Publishers \union Deleters : q # r => seen'[q] = seen[q] /\ pc'[q] = pc[q]

(* The request keeps its snapshot, or takes another of the same session. *)
SameFound(r) ==
    \/ seen'[r] = seen[r]
    \/ seen[r] # None /\ seen'[r] # None /\ seen'[r].id = seen[r].id

(* A step that neither decides a request nor changes what an undecided one found
   leaves the open requests alone. *)
LEMMA EffectsLeft ==
    ASSUME \A r \in Publishers \union Deleters :
              /\ Undecided(r)' <=> Undecided(r)
              /\ Undecided(r) => SameFound(r)
    PROVE  OpenEffects' = OpenEffects /\ Found' = Found
<1>1. OpenEffects' = OpenEffects
  BY DEF OpenEffects
<1>2. Found' = Found
  BY DEF Found, SameFound
<1> QED BY <1>1, <1>2

(* A request that is undecided before and after the step in which it reads the
   row has found the session that is there. *)
LEMMA EffectFinds ==
    ASSUME NEW r \in Publishers \union Deleters, OthersStay(r),
           Undecided(r), Undecided(r)', seen'[r] = row
    PROVE  OpenEffects' = OpenEffects /\ Found' = [Found EXCEPT ![r] = SessionId]
<1>1. \A q \in Publishers \union Deleters : Undecided(q)' <=> Undecided(q)
  BY DEF OthersStay, Undecided
<1>2. OpenEffects' = OpenEffects
  BY <1>1 DEF OpenEffects
<1>3. Found' = [Found EXCEPT ![r] = SessionId]
  BY <1>1 DEF Found, SessionId, OthersStay
<1> QED BY <1>2, <1>3

(* A request that is decided by the step is closed by it. *)
LEMMA EffectCloses ==
    ASSUME NEW r \in Publishers \union Deleters, OthersStay(r), Undecided(r), ~Undecided(r)'
    PROVE  /\ r \in OpenEffects
           /\ OpenEffects' = OpenEffects \ {r}
           /\ Found' = [Found EXCEPT ![r] = None]
<1>1. \A q \in Publishers \union Deleters : q # r => (Undecided(q)' <=> Undecided(q))
  BY DEF OthersStay, Undecided
<1>2. r \in OpenEffects /\ OpenEffects' = OpenEffects \ {r}
  BY <1>1 DEF OpenEffects
<1>3. Found' = [Found EXCEPT ![r] = None]
  BY <1>1 DEF Found, OthersStay
<1> QED BY <1>2, <1>3

(* Where the row is not touched, neither is what is published, unless a body is
   being written, which is never the row's. *)
LEMMA RowLeft ==
    ASSUME TypeInv, StoreInv, [Next]_vars, row' = row
    PROVE  SessionId' = SessionId /\ ContentOf(row)' = ContentOf(row) /\ InForce' = InForce
<1>1. row # None => content'[row.gen] = content[row.gen]
  BY OutsideTypes, SettledStays DEF StoreInv, NamesSettled, RowSettled
<1> QED BY <1>1 DEF SessionId, ContentOf, InForce

(* Nor where it keeps its identity and its body decrypts to the same. *)
LEMMA RowMoved ==
    ASSUME row # None, row' # None, row'.id = row.id, content'[row'.gen] = content[row.gen]
    PROVE  /\ SessionId' = SessionId /\ ContentOf(row)' = ContentOf(row)
           /\ InForce = row.vis /\ InForce' = row'.vis /\ SessionId = row.id
  BY DEF SessionId, ContentOf, InForce

(* A request that ends without having touched the row, the audience or a reader
   is abandoned, if it had not been decided before. *)
LEMMA RequestEnds ==
    ASSUME TypeInv, StoreInv, GivenOnce, [Next]_vars,
           NEW r \in Publishers \union Deleters, OthersStay(r), ~Undecided(r)',
           UNCHANGED <<row, audience, served>>, \A q \in Readers : seen'[q] = seen[q]
    PROVE  [Session!SessionNext]_(Session!sessionVars)
<1>1. /\ SessionId' = SessionId /\ ContentOf(row)' = ContentOf(row) /\ InForce' = InForce
      /\ BeingRead' = BeingRead /\ Given' = Given
  BY RowLeft, ReadersLeft
<1>2. CASE Undecided(r)
  <2>1. Session!Abandon(r)
    BY <1>1, <1>2, EffectCloses DEF Session!Abandon, Session!Close
  <2> QED BY <2>1 DEF Session!SessionNext, Session!Effects
<1>3. CASE ~Undecided(r)
  <2>1. \A q \in Publishers \union Deleters :
           /\ Undecided(q)' <=> Undecided(q)
           /\ Undecided(q) => SameFound(q)
    BY <1>3 DEF OthersStay, Undecided, SameFound
  <2>2. OpenEffects' = OpenEffects /\ Found' = Found
    BY <2>1, EffectsLeft
  <2> QED BY <1>1, <2>2 DEF Session!sessionVars
<1> QED BY <1>2, <1>3

(* A step that touches neither the row, the audience nor what publishes,
   deletions and readers have in hand is invisible. *)
LEMMA Invisible ==
    ASSUME TypeInv, StoreInv, GivenOnce, [Next]_vars,
           \A r \in Publishers \union Deleters :
              /\ Undecided(r)' <=> Undecided(r)
              /\ Undecided(r) => SameFound(r),
           UNCHANGED <<row, audience, served>>, \A q \in Readers : seen'[q] = seen[q]
    PROVE  [Session!SessionNext]_(Session!sessionVars)
<1>1. /\ SessionId' = SessionId /\ ContentOf(row)' = ContentOf(row) /\ InForce' = InForce
      /\ BeingRead' = BeingRead /\ Given' = Given
  BY RowLeft, ReadersLeft
<1>2. OpenEffects' = OpenEffects /\ Found' = Found
  BY EffectsLeft
<1> QED BY <1>1, <1>2 DEF Session!sessionVars

(* A commit that reached the row installs the publish: it creates the session
   or replaces its value, and decides the request. *)
LEMMA CommitIsEffect ==
    ASSUME TypeInv, StoreInv, GivenOnce, ContentInv, AudienceInv, [Next]_vars,
           NEW p \in Publishers, pc[p] = "persist", pc'[p] \in {"release", "cleanCandidate"},
           PersistReachesCommit(p), InstallPublished(p), OthersStay(p),
           seen' = seen, content' = content, served' = served
    PROVE  Session!SessionNext
<1> USE OutsideTypes, KindsDisjoint
<1>1. BeingRead' = BeingRead /\ Given' = Given
  BY ReadersLeft
<1>2. Undecided(p) /\ ~Undecided(p)'
  BY DEF Undecided
<1>3. p \in OpenEffects /\ OpenEffects' = OpenEffects \ {p} /\ Found' = [Found EXCEPT ![p] = None]
  BY <1>2, EffectCloses
<1>4. content[p] = Submitted[p]
  BY DEF ContentInv
<1>5. /\ row' = PublishedRow(p) /\ row' # None
      /\ audience' = IF seen[p] = None THEN "private" ELSE audience
  BY PublishedOwn DEF InstallPublished, SetRow, OwnRow
<1>6. row'.gen = p /\ row'.id = (IF seen[p] = None THEN p ELSE row.id)
      /\ row'.vis = (IF seen[p] = None THEN "private" ELSE RestoreTarget(row.vis, narrowed[p]))
  BY <1>5 DEF PublishedRow
<1>7. ContentOf(row)' = Submitted[p] /\ SessionId' = row'.id /\ InForce' = row'.vis
  BY <1>4, <1>5, <1>6 DEF ContentOf, SessionId, InForce
<1>8. CASE seen[p] = None
  <2>1. row = None /\ SessionId = None
    BY <1>8 DEF PersistReachesCommit, SessionId
  <2>2. Found[p] = None
    BY <1>8 DEF Found
  <2>3. Session!Create(p)
    BY <1>1, <1>3, <1>5, <1>6, <1>7, <1>8, <2>1, <2>2 DEF Session!Create, Session!Close
  <2> QED BY <2>3 DEF Session!SessionNext
<1>9. CASE seen[p] # None
  <2>1. row # None /\ row.id = seen[p].id /\ lock = p
    BY <1>9 DEF PersistReachesCommit, Holds
  <2>2. SessionId = row.id /\ InForce = row.vis /\ SessionId # None
    BY <2>1 DEF SessionId, InForce, Row
  <2>3. Found[p] = SessionId
    BY <1>2, <1>9, <2>1, <2>2 DEF Found
  <2>4. RestoreTarget(row.vis, narrowed[p]) \in {row.vis, audience}
    BY <2>1 DEF AudienceInv, ChoiceKept, Replacing, RestoreTarget
  <2>5. Session!Replace(p)
    BY <1>1, <1>3, <1>5, <1>6, <1>7, <1>9, <2>1, <2>2, <2>3, <2>4
       DEF Session!Replace, Session!Close, Session!OnTarget
  <2> QED BY <2>5 DEF Session!SessionNext
<1> QED BY <1>8, <1>9

(* Writing back the audience is showing the session, or nothing. *)
LEMMA RestoreIsShow ==
    ASSUME TypeInv, StoreInv, GivenOnce, AudienceInv, [Next]_vars,
           NEW p \in Publishers, pc[p] = "restore", pc'[p] = "cleanCandidate", Holds(p),
           row' = [row EXCEPT !.vis = RestoreTarget(row.vis, narrowed[p])],
           OthersStay(p), seen' = seen, content' = content, UNCHANGED <<audience, served>>
    PROVE  [Session!SessionNext]_(Session!sessionVars)
<1> USE OutsideTypes, KindsDisjoint
<1>1. BeingRead' = BeingRead /\ Given' = Given
  BY ReadersLeft
<1>2. \A q \in Publishers \union Deleters : Undecided(q)' <=> Undecided(q)
  BY DEF OthersStay, Undecided
<1>3. OpenEffects' = OpenEffects /\ Found' = Found
  <2>1. OpenEffects' = OpenEffects
    BY <1>2 DEF OpenEffects
  <2>2. Found' = Found
    BY <1>2 DEF Found
  <2> QED BY <2>1, <2>2
<1>4. row # None /\ row' # None /\ row'.id = row.id /\ row'.gen = row.gen
      /\ row'.vis = RestoreTarget(row.vis, narrowed[p]) /\ lock = p
  <2>1. row \in Row /\ lock = p
    BY DEF Holds
  <2>2. RestoreTarget(row.vis, narrowed[p]) \in Visibilities
    BY <2>1 DEF RestoreTarget, Row, TypeInv, TypeOK
  <2> QED BY <2>1, <2>2 DEF Row
<1>5. /\ SessionId' = SessionId /\ ContentOf(row)' = ContentOf(row)
      /\ InForce = row.vis /\ InForce' = row'.vis /\ SessionId = row.id
  BY <1>4, RowMoved
<1>6. row'.vis \in {row.vis, audience}
  BY <1>4 DEF AudienceInv, ChoiceKept, Replacing, RestoreTarget
<1>7. CASE row'.vis = row.vis
  BY <1>1, <1>3, <1>5, <1>7 DEF Session!sessionVars
<1>8. CASE row'.vis = audience
  <2>1. Session!Show
    BY <1>1, <1>3, <1>4, <1>5, <1>8 DEF Session!Show, Row
  <2> QED BY <2>1 DEF Session!SessionNext
<1> QED BY <1>6, <1>7, <1>8

(* Narrowing hides the session, or ends the request. *)
LEMMA NarrowIsHide ==
    ASSUME TypeInv, StoreInv, GivenOnce, LockedSnapshot, [Next]_vars,
           NEW p \in Publishers, Narrow(p)
    PROVE  [Session!SessionNext]_(Session!sessionVars)
<1> USE OutsideTypes, KindsDisjoint
<1>1. /\ pc[p] = "narrow" /\ pc'[p] \in {"putBody", "cleanCandidate"} /\ Holds(p)
      /\ row' = row => pc'[p] \in {"cleanCandidate", "putBody"}
      /\ row' \in {row, [row EXCEPT !.vis = "private"]}
      /\ pc'[p] = "putBody" => row' = [row EXCEPT !.vis = "private"]
      /\ OthersStay(p) /\ seen' = seen /\ content' = content /\ UNCHANGED <<audience, served>>
  BY DEF Narrow, SetRow, Goto, OthersStay
<1>2. CASE row' = [row EXCEPT !.vis = "private"]
  <2>1. BeingRead' = BeingRead /\ Given' = Given
    BY <1>1, ReadersLeft
  <2>2. row \in Row /\ row.id = seen[p].id
    BY <1>1 DEF Holds
  <2>3. row # None /\ row' # None /\ row'.id = row.id /\ row'.gen = row.gen /\ row'.vis = "private"
    BY <1>2, <2>2 DEF Row, Visibilities
  <2>4. /\ SessionId' = SessionId /\ ContentOf(row)' = ContentOf(row)
        /\ InForce' = "private" /\ SessionId = row.id
    BY <1>1, <2>3, RowMoved
  <2>5. seen[p] # None
    BY <1>1, <2>3 DEF LockedSnapshot, Holds
  <2>6. p \in OpenEffects /\ Undecided(p) /\ Found[p] = SessionId /\ SessionId # None
    BY <1>1, <2>2, <2>4, <2>5 DEF OpenEffects, Undecided, Found, Row
  <2>7. CASE pc'[p] = "putBody"
    <3>1. \A q \in Publishers \union Deleters : Undecided(q)' <=> Undecided(q)
      BY <1>1, <2>7 DEF OthersStay, Undecided
    <3>2. OpenEffects' = OpenEffects
      BY <3>1 DEF OpenEffects
    <3>3. Found' = Found
      BY <1>1, <3>1 DEF Found
    <3>4. Session!Hide(p)
      BY <1>1, <2>1, <2>4, <2>6, <3>2, <3>3 DEF Session!Hide, Session!OnTarget
    <3> QED BY <3>4 DEF Session!SessionNext
  <2>8. CASE pc'[p] = "cleanCandidate"
    <3>1. ~Undecided(p)'
      BY <2>8 DEF Undecided
    <3>2. OpenEffects' = OpenEffects \ {p} /\ Found' = [Found EXCEPT ![p] = None]
      BY <1>1, <2>6, <3>1, EffectCloses
    <3>3. Session!Hide(p)
      BY <1>1, <2>1, <2>4, <2>6, <3>2 DEF Session!Hide, Session!OnTarget, Session!Close
    <3> QED BY <3>3 DEF Session!SessionNext
  <2> QED BY <1>1, <2>7, <2>8
<1>3. CASE row' = row /\ pc'[p] = "cleanCandidate"
  <2>1. ~Undecided(p)'
    BY <1>3 DEF Undecided
  <2> QED BY <1>1, <1>3, <2>1, RequestEnds
<1> QED BY <1>1, <1>2, <1>3

(* What the refinement rests on. *)
SessionInv ==
    TypeInv /\ StoreInv /\ ContentInv /\ AudienceInv /\ LockedSnapshot /\ OutsideInv

(* A publish's steps. *)
LEMMA PublishIsSession ==
    ASSUME SessionInv, [Next]_vars, NEW p \in Publishers, PublishStep(p) \/ LoseConnection(p)
    PROVE  [Session!SessionNext]_(Session!sessionVars)
<1> USE OutsideTypes, KindsDisjoint DEF SessionInv, OutsideInv
<1>1. CASE AcquirePublishLock(p) \/ ReleasePublishLock(p) \/ LoseConnection(p)
  <2>1. /\ \A r \in Publishers \union Deleters : (Undecided(r)' <=> Undecided(r)) /\ SameFound(r)
        /\ UNCHANGED <<row, audience, served>> /\ \A q \in Readers : seen'[q] = seen[q]
    BY <1>1 DEF AcquirePublishLock, ReleasePublishLock, LoseConnection, Goto, Undecided, SameFound
  <2> QED BY <2>1, Invisible
<1>2. CASE Probe(p)
  <2>1. /\ OthersStay(p) /\ Undecided(p) /\ Undecided(p)' /\ seen'[p] = row
        /\ UNCHANGED <<row, audience, served>> /\ \A q \in Readers : seen'[q] = seen[q]
    BY <1>2 DEF Probe, Goto, Undecided, OthersStay
  <2>2. OpenEffects' = OpenEffects /\ Found' = [Found EXCEPT ![p] = SessionId] /\ p \in OpenEffects
    BY <2>1, EffectFinds DEF OpenEffects
  <2>3. /\ SessionId' = SessionId /\ ContentOf(row)' = ContentOf(row) /\ InForce' = InForce
        /\ BeingRead' = BeingRead /\ Given' = Given
    BY <2>1, RowLeft, ReadersLeft
  <2>4. Session!Find(p)
    BY <2>1, <2>2, <2>3 DEF Session!Find
  <2> QED BY <2>4 DEF Session!SessionNext, Session!Effects
<1>3. CASE LoadCurrent(p)
  <2>1. /\ OthersStay(p) /\ Undecided(p) /\ seen'[p] = row /\ row # None /\ row.id = seen[p].id
        /\ UNCHANGED <<row, audience, served>> /\ \A q \in Readers : seen'[q] = seen[q]
    BY <1>3 DEF LoadCurrent, Goto, Undecided, OthersStay, Holds
  <2>2. CASE Undecided(p)'
    <3>1. CASE seen[p] # None
      <4>1. \A r \in Publishers \union Deleters : (Undecided(r)' <=> Undecided(r)) /\ SameFound(r)
        BY <2>1, <2>2, <3>1 DEF OthersStay, SameFound, Undecided
      <4> QED BY <2>1, <4>1, Invisible
    <3>2. CASE seen[p] = None
      <4>1. OpenEffects' = OpenEffects /\ Found' = [Found EXCEPT ![p] = SessionId] /\ p \in OpenEffects
        BY <2>1, <2>2, EffectFinds DEF OpenEffects
      <4>2. /\ SessionId' = SessionId /\ ContentOf(row)' = ContentOf(row) /\ InForce' = InForce
            /\ BeingRead' = BeingRead /\ Given' = Given
        BY <2>1, RowLeft, ReadersLeft
      <4>3. Session!Find(p)
        BY <2>1, <4>1, <4>2 DEF Session!Find
      <4> QED BY <4>3 DEF Session!SessionNext, Session!Effects
    <3> QED BY <3>1, <3>2
  <2>3. CASE ~Undecided(p)'
    BY <2>1, <2>3, RequestEnds
  <2> QED BY <2>2, <2>3
<1>4. CASE Narrow(p)
  BY <1>4, NarrowIsHide
<1>5. CASE FailBeforeWrite(p) \/ PersistRolledBack(p)
  <2>1. /\ OthersStay(p) /\ ~Undecided(p)'
        /\ UNCHANGED <<row, audience, served>> /\ \A q \in Readers : seen'[q] = seen[q]
    BY <1>5 DEF FailBeforeWrite, PersistRolledBack, AfterFailure, Goto, Undecided, OthersStay
  <2> QED BY <2>1, RequestEnds
<1>6. CASE PersistCommitted(p)
  <2>1. /\ OthersStay(p) /\ pc[p] = "persist" /\ pc'[p] = "release"
        /\ PersistReachesCommit(p) /\ InstallPublished(p)
        /\ seen' = seen /\ content' = content /\ served' = served
    BY <1>6 DEF PersistCommitted, Goto, OthersStay
  <2> QED BY <2>1, CommitIsEffect
<1>7. CASE PersistAmbiguous(p)
  <2>1. /\ OthersStay(p) /\ pc[p] = "persist" /\ pc'[p] = "cleanCandidate"
        /\ PersistReachesCommit(p)
        /\ InstallPublished(p) \/ UNCHANGED <<row, exposed, audience>>
        /\ seen' = seen /\ content' = content /\ served' = served
    BY <1>7 DEF PersistAmbiguous, Goto, OthersStay
  <2>2. CASE InstallPublished(p)
    BY <2>1, <2>2, CommitIsEffect
  <2>3. CASE UNCHANGED <<row, exposed, audience>>
    <3>1. ~Undecided(p)'
      BY <2>1 DEF Undecided
    <3> QED BY <2>1, <2>3, <3>1, RequestEnds
  <2> QED BY <2>1, <2>2, <2>3
<1>8. CASE RestoreAudience(p) \/ RestoreAudienceFailed(p)
  <2>1. /\ OthersStay(p) /\ pc[p] = "restore" /\ pc'[p] = "cleanCandidate"
        /\ seen' = seen /\ content' = content /\ UNCHANGED <<audience, served>>
        /\ \/ row' = row
           \/ Holds(p) /\ row' = [row EXCEPT !.vis = RestoreTarget(row.vis, narrowed[p])]
    BY <1>8 DEF RestoreAudience, RestoreAudienceFailed, SetRow, Goto, OthersStay
  <2>2. CASE row' = row
    <3>1. ~Undecided(p)'
      BY <2>1 DEF Undecided
    <3> QED BY <2>1, <2>2, <3>1, RequestEnds
  <2>3. CASE Holds(p) /\ row' = [row EXCEPT !.vis = RestoreTarget(row.vis, narrowed[p])]
    BY <2>1, <2>3, RestoreIsShow
  <2> QED BY <2>1, <2>2, <2>3
<1> QED BY <1>1, <1>2, <1>3, <1>4, <1>5, <1>6, <1>7, <1>8 DEF PublishStep

(* A deletion's steps. *)
LEMMA DeleteIsSession ==
    ASSUME SessionInv, [Next]_vars, NEW d \in Deleters, DeleteStep(d)
    PROVE  [Session!SessionNext]_(Session!sessionVars)
<1> USE OutsideTypes, KindsDisjoint DEF SessionInv, OutsideInv
<1>1. CASE DeleteRead(d)
  <2>1. /\ OthersStay(d) /\ Undecided(d) /\ Undecided(d)' /\ seen'[d] = row
        /\ UNCHANGED <<row, audience, served>> /\ \A q \in Readers : seen'[q] = seen[q]
    BY <1>1 DEF DeleteRead, Goto, Undecided, OthersStay
  <2>2. OpenEffects' = OpenEffects /\ Found' = [Found EXCEPT ![d] = SessionId] /\ d \in OpenEffects
    BY <2>1, EffectFinds DEF OpenEffects
  <2>3. /\ SessionId' = SessionId /\ ContentOf(row)' = ContentOf(row) /\ InForce' = InForce
        /\ BeingRead' = BeingRead /\ Given' = Given
    BY <2>1, RowLeft, ReadersLeft
  <2>4. Session!Find(d)
    BY <2>1, <2>2, <2>3 DEF Session!Find
  <2> QED BY <2>4 DEF Session!SessionNext, Session!Effects
<1>2. CASE DeleteRolledBack(d) \/ DeleteCommitted(d) \/ DeleteAmbiguous(d)
  <2>1. /\ OthersStay(d) /\ Undecided(d) /\ ~Undecided(d)' /\ pc[d] = "delete"
        /\ UNCHANGED <<audience, served>> /\ \A q \in Readers : seen'[q] = seen[q]
        /\ row' = row \/ (row' = None /\ row # None /\ row.id = seen[d].id)
    BY <1>2 DEF DeleteRolledBack, DeleteCommitted, DeleteAmbiguous, SetRow, Goto, Leave,
                Undecided, OthersStay
  <2>2. CASE row' = row
    BY <2>1, <2>2, RequestEnds
  <2>3. CASE row' = None /\ row # None /\ row.id = seen[d].id
    <3>1. seen[d] # None /\ row \in Row
      BY <2>1, <2>3 DEF TypeInv, SeenLoaded
    <3>2. /\ SessionId = row.id /\ SessionId' = None /\ ContentOf(row)' = None
          /\ InForce' = "private" /\ SessionId # None /\ Found[d] = SessionId
      BY <2>1, <2>3, <3>1 DEF SessionId, ContentOf, InForce, Found, Row
    <3>3. BeingRead' = BeingRead /\ Given' = Given
      BY <2>1, ReadersLeft
    <3>4. /\ d \in OpenEffects /\ OpenEffects' = OpenEffects \ {d}
          /\ Found' = [Found EXCEPT ![d] = None]
      BY <2>1, EffectCloses
    <3>5. Session!Delete(d)
      BY <2>1, <3>2, <3>3, <3>4 DEF Session!Delete, Session!OnTarget, Session!Close
    <3> QED BY <3>5 DEF Session!SessionNext
  <2> QED BY <2>1, <2>2, <2>3
<1> QED BY <1>1, <1>2 DEF DeleteStep

(* A reader that keeps its place among the publishes, and what it does. *)
LEMMA ReadIsSession ==
    ASSUME SessionInv, [Next]_vars, NEW r \in Readers,
           \A q \in Requests : q # r => seen'[q] = seen[q] /\ pc'[q] = pc[q],
           UNCHANGED <<row, content, audience>>,
           \/ served' = served /\ seen'[r] = None
           \/ served' = served /\ seen'[r] = seen[r]
           \/ served' = served /\ seen'[r] = row /\ Authorized(row) /\ pc[r] \in {"idle", "retry"}
           \/ served' = [served EXCEPT ![r] = seen[r].gen] /\ seen'[r] = None /\ seen[r] # None
    PROVE  [Session!SessionNext]_(Session!sessionVars)
<1> USE OutsideTypes, KindsDisjoint DEF SessionInv, OutsideInv
<1>1. /\ SessionId' = SessionId /\ ContentOf(row)' = ContentOf(row) /\ InForce' = InForce
  BY RowLeft
<1>2. \A q \in Publishers \union Deleters : (Undecided(q)' <=> Undecided(q)) /\ SameFound(q)
  BY DEF Undecided, SameFound
<1>3. OpenEffects' = OpenEffects /\ Found' = Found
  BY <1>2, EffectsLeft
<1>4. CASE served' = served /\ seen'[r] = None
  <2>1. Given' = Given
    BY <1>4 DEF Given
  <2>2. BeingRead' = [BeingRead EXCEPT ![r] = None]
    BY <1>4 DEF BeingRead, ContentOf
  <2>3. Session!Refuse(r)
    BY <1>1, <1>3, <2>1, <2>2 DEF Session!Refuse
  <2> QED BY <2>3 DEF Session!SessionNext
<1>5. CASE served' = served /\ seen'[r] = seen[r]
  <2>1. BeingRead' = BeingRead /\ Given' = Given
    BY <1>5 DEF BeingRead, Given, ContentOf
  <2> QED BY <1>1, <1>3, <2>1 DEF Session!sessionVars
<1>6. CASE served' = served /\ seen'[r] = row /\ Authorized(row) /\ pc[r] \in {"idle", "retry"}
  <2>1. Given' = Given
    BY <1>6 DEF Given
  <2>2. BeingRead' = [BeingRead EXCEPT ![r] = ContentOf(row)]
    BY <1>6 DEF BeingRead, ContentOf
  <2>3. Given[r] = None
    BY <1>6 DEF Given, GivenOnce
  <2>4. SessionId # None /\ InForce # "private"
    BY <1>6 DEF Authorized, SessionId, InForce, Row
  <2>5. Session!Admit(r)
    BY <1>1, <1>3, <2>1, <2>2, <2>3, <2>4 DEF Session!Admit
  <2> QED BY <2>5 DEF Session!SessionNext
<1>7. CASE served' = [served EXCEPT ![r] = seen[r].gen] /\ seen'[r] = None /\ seen[r] # None
  <2>1. BeingRead[r] = content[seen[r].gen] /\ BeingRead[r] # None
    BY <1>7 DEF BeingRead, ContentOf, ContentKnown
  <2>2. BeingRead' = [BeingRead EXCEPT ![r] = None]
    BY <1>7 DEF BeingRead, ContentOf
  <2>3. Given' = [Given EXCEPT ![r] = BeingRead[r]]
    BY <1>7, <2>1 DEF Given
  <2>4. Session!Serve(r)
    BY <1>1, <1>3, <2>1, <2>2, <2>3 DEF Session!Serve
  <2> QED BY <2>4 DEF Session!SessionNext
<1> QED BY <1>4, <1>5, <1>6, <1>7

(* A step of a request that is no publish, deletion or read, and that leaves the
   row alone or moves it to a body with the same content, cannot be seen. *)
LEMMA MaintenanceIsInvisible ==
    ASSUME SessionInv, [Next]_vars,
           \A q \in Publishers \union Deleters \union Readers : seen'[q] = seen[q] /\ pc'[q] = pc[q],
           UNCHANGED <<audience, served>>,
           \/ row' = row
           \/ /\ row # None /\ row' # None /\ row'.id = row.id /\ row'.vis = row.vis
              /\ content'[row'.gen] = content[row.gen]
    PROVE  [Session!SessionNext]_(Session!sessionVars)
<1> USE OutsideTypes, KindsDisjoint DEF SessionInv, OutsideInv
<1>1. \A q \in Publishers \union Deleters : (Undecided(q)' <=> Undecided(q)) /\ SameFound(q)
  BY DEF Undecided, SameFound
<1>2. OpenEffects' = OpenEffects /\ Found' = Found
  BY <1>1, EffectsLeft
<1>3. BeingRead' = BeingRead /\ Given' = Given
  BY ReadersLeft
<1>4. SessionId' = SessionId /\ ContentOf(row)' = ContentOf(row) /\ InForce' = InForce
  BY RowLeft, RowMoved
<1> QED BY <1>2, <1>3, <1>4 DEF Session!sessionVars

(* A rewrite installs a copy of what the row named when it swaps. *)
LEMMA RewriteIsSession ==
    ASSUME SessionInv, [Next]_vars, NEW w \in Rewriters, RewriteStep(w)
    PROVE  [Session!SessionNext]_(Session!sessionVars)
<1> USE OutsideTypes, KindsDisjoint DEF SessionInv
<1>1. /\ \A q \in Publishers \union Deleters \union Readers : seen'[q] = seen[q] /\ pc'[q] = pc[q]
      /\ UNCHANGED <<audience, served, content>>
      /\ row' = row \/ (row' = RewrittenRow(w) /\ pc[w] = "persist" /\ RewriteMatches(w))
  BY DEF RewriteStep, RewriteRead, RewriteReload, RewriteCommitted, RewriteRolledBack,
         RewriteAmbiguous, SetRow, Goto, Leave
<1>2. CASE row' = RewrittenRow(w) /\ pc[w] = "persist" /\ RewriteMatches(w)
  <2>1. row # None /\ seen[w].gen = row.gen
    BY <1>2 DEF RewriteMatches, SameDescriptor
  <2>2. content[w] = content[row.gen]
    BY <1>2, <2>1 DEF ContentInv
  <2>3. row' # None /\ row'.id = row.id /\ row'.vis = row.vis /\ row'.gen = w
    BY <1>2, RewrittenOwn DEF RewrittenRow, OwnRow
  <2> QED BY <1>1, <2>1, <2>2, <2>3, MaintenanceIsInvisible
<1>3. CASE row' = row
  BY <1>1, <1>3, MaintenanceIsInvisible
<1> QED BY <1>1, <1>2, <1>3

(* A rewrap replaces the wrapped key only. *)
LEMMA RewrapIsSession ==
    ASSUME SessionInv, [Next]_vars, NEW w \in Rewrappers, RewrapStep(w)
    PROVE  [Session!SessionNext]_(Session!sessionVars)
<1> USE OutsideTypes, KindsDisjoint DEF SessionInv
<1>1. /\ \A q \in Publishers \union Deleters \union Readers : seen'[q] = seen[q] /\ pc'[q] = pc[q]
      /\ UNCHANGED <<audience, served, content>>
      /\ row' = row \/ (row # None /\ row' = [row EXCEPT !.wrap = w])
  BY DEF RewrapStep, RewrapRead, RewrapInstall, SetRow, Goto, Leave
<1>2. CASE row # None /\ row' = [row EXCEPT !.wrap = w]
  <2>1. row' # None /\ row'.id = row.id /\ row'.vis = row.vis /\ row'.gen = row.gen
    BY <1>2 DEF Row
  <2> QED BY <1>1, <1>2, <2>1, MaintenanceIsInvisible
<1>3. CASE row' = row
  BY <1>1, <1>3, MaintenanceIsInvisible
<1> QED BY <1>1, <1>2, <1>3

(* Uploads are invisible, or end a publish. *)
LEMMA UploadIsSession ==
    ASSUME SessionInv, [Next]_vars, NEW w \in Writers, WriteStep(w)
    PROVE  [Session!SessionNext]_(Session!sessionVars)
<1> USE OutsideTypes, KindsDisjoint DEF SessionInv, OutsideInv
<1>1. /\ UNCHANGED <<row, seen, audience, served>>
      /\ \A q \in Requests : q # w => pc'[q] = pc[q]
      /\ pc[w] \in {"putBody", "putMeta"}
      /\ pc'[w] \in {"putMeta", "persist", "restore", "cleanCandidate"}
  BY DEF WriteStep, PutBody, PutBodyFailed, PutMeta, PutMetaFailed, AfterFailure, Goto
<1>2. CASE w \in Rewriters
  BY <1>1, <1>2, MaintenanceIsInvisible
<1>3. CASE w \in Publishers /\ pc'[w] \in {"putMeta", "persist"}
  <2>1. \A q \in Publishers \union Deleters : (Undecided(q)' <=> Undecided(q)) /\ SameFound(q)
    BY <1>1, <1>3 DEF Undecided, SameFound
  <2> QED BY <1>1, <2>1, Invisible
<1>4. CASE w \in Publishers /\ pc'[w] \in {"restore", "cleanCandidate"}
  <2>1. OthersStay(w) /\ ~Undecided(w)'
    BY <1>1, <1>4 DEF Undecided, OthersStay
  <2> QED BY <1>1, <1>4, <2>1, RequestEnds
<1> QED BY <1>1, <1>2, <1>3, <1>4

(* Cleanups are invisible; an answer and a crash end the request. *)
LEMMA EndIsSession ==
    ASSUME SessionInv, [Next]_vars, NEW r \in Requests, CleanupStep(r) \/ Crash(r)
    PROVE  [Session!SessionNext]_(Session!sessionVars)
<1> USE OutsideTypes, KindsDisjoint DEF SessionInv, OutsideInv
<1>1. CASE Cleanup(r)
  <2>1. UNCHANGED <<row, pc, seen, audience, served>>
    BY <1>1 DEF Cleanup
  <2> QED BY <2>1, MaintenanceIsInvisible
<1>2. CASE Answer(r) \/ Crash(r)
  <2>1. /\ UNCHANGED <<row, content, audience, served>>
        /\ \A q \in Requests : q # r => pc'[q] = pc[q] /\ seen'[q] = seen[q]
        /\ pc'[r] \in {"done", "crashed"} /\ seen'[r] = None
    BY <1>2 DEF Answer, Crash, Leave, Goto
  <2>2. CASE r \in Publishers \union Deleters
    <3>1. OthersStay(r) /\ ~Undecided(r)'
      BY <2>1, <2>2 DEF Undecided, OthersStay
    <3> QED BY <2>1, <2>2, <3>1, RequestEnds
  <2>3. CASE r \in Readers
    BY <2>1, <2>3, ReadIsSession
  <2>4. CASE r \in Rewriters \union Rewrappers
    BY <2>1, <2>4, MaintenanceIsInvisible
  <2> QED BY <2>2, <2>3, <2>4 DEF Requests, Writers
<1> QED BY <1>1, <1>2 DEF CleanupStep

(* The owner chooses an audience. *)
LEMMA OwnerIsSession ==
    ASSUME SessionInv, [Next]_vars, OwnerStep
    PROVE  [Session!SessionNext]_(Session!sessionVars)
<1> USE OutsideTypes, KindsDisjoint DEF SessionInv, OutsideInv
<1>1. PICK v \in Visibilities : row # None /\ OwnerChooses(v)
  BY DEF OwnerStep, UpdateVisibility, ShareTranscript, UnshareTranscript, Visibilities
<1>2. /\ row' = [row EXCEPT !.vis = v] /\ row # None /\ audience' = v
      /\ UNCHANGED <<content, pc, seen, served>>
  BY <1>1 DEF OwnerChooses, SetRow
<1>3. row' # None /\ row'.id = row.id /\ row'.vis = v /\ row'.gen = row.gen
  BY <1>2 DEF Row
<1>4. SessionId' = SessionId /\ ContentOf(row)' = ContentOf(row) /\ InForce' = v /\ SessionId # None
  BY <1>2, <1>3, RowMoved DEF Row
<1>5. /\ OpenEffects' = OpenEffects /\ Found' = Found
      /\ BeingRead' = BeingRead /\ Given' = Given
  BY <1>2 DEF OpenEffects, Found, BeingRead, Given, Undecided, ContentOf
<1>6. Session!Choose(v)
  BY <1>2, <1>4, <1>5 DEF Session!Choose
<1> QED BY <1>6 DEF Session!SessionNext

(* A reader's steps. *)
LEMMA ReaderIsSession ==
    ASSUME SessionInv, [Next]_vars, NEW r \in Readers, ReadStep(r)
    PROVE  [Session!SessionNext]_(Session!sessionVars)
<1> USE OutsideTypes, KindsDisjoint DEF SessionInv
<1>1. /\ \A q \in Requests : q # r => seen'[q] = seen[q] /\ pc'[q] = pc[q]
      /\ UNCHANGED <<row, content, audience>>
  BY DEF ReadStep, ReadAuthorize, ReadBody, ReadReload, Goto, Leave
<1>2. \/ served' = served /\ seen'[r] = None
      \/ served' = served /\ seen'[r] = seen[r]
      \/ served' = served /\ seen'[r] = row /\ Authorized(row) /\ pc[r] \in {"idle", "retry"}
      \/ served' = [served EXCEPT ![r] = seen[r].gen] /\ seen'[r] = None /\ seen[r] # None
  <2>1. CASE ReadAuthorize(r) \/ ReadReload(r)
    BY <2>1 DEF ReadAuthorize, ReadReload, Leave
  <2>2. CASE ReadBody(r)
    BY <2>2 DEF ReadBody, Leave, TypeInv, SeenLoaded
  <2> QED BY <2>1, <2>2 DEF ReadStep
<1> QED BY <1>1, <1>2, ReadIsSession

(* The encrypted storage, with its generations, keys, rewrites, cleanups and
   failures, implements a session that has one value at a time: the theorem
   holds for any number of requests of each kind and any set of faults. *)
THEOREM StoreImplementsSession == Spec => ImplementsSession
<1>1. Init => SessionInv
  BY RequestsAssumption
     DEF Init, TypeInv, TypeOK, SeenLoaded, Row, Objects, PcValues, Visibilities,
         StoreInv, NamesSettled, RowSettled, TodoUnreferenced, CandidateStored,
         SnapshotsAgree, MetadataPaired, ReferencedStored, ObjectsOf, ContentInv,
         FingerprintMatches, AudienceInv, NotYetNarrowed, ChoiceKept, AudienceOwed,
         PrivateWindow, LockedSnapshot, SessionInv, OutsideInv, ContentKnown, GivenOnce,
         Requests, Writers
<1>2. SessionInv /\ [Next]_vars => SessionInv'
  BY TypeStep, StoreStep, ContentStep, AudienceStep, SnapshotStep, KnownStep, GivenStep
     DEF SessionInv, OutsideInv
<1>3. Init => Session!SessionInit
  <2> SUFFICES ASSUME Init PROVE Session!SessionInit
    OBVIOUS
  <2>1. \A r \in Publishers \union Deleters : Undecided(r) /\ seen[r] = None
    BY DEF Init, Undecided, Requests, Writers
  <2>2. OpenEffects = Publishers \union Deleters /\ Found = [r \in Publishers \union Deleters |-> None]
    BY <2>1 DEF OpenEffects, Found
  <2>3. BeingRead = [r \in Readers |-> None] /\ Given = [r \in Readers |-> None]
    BY DEF Init, BeingRead, Given, ContentOf, Requests, Writers
  <2> QED BY <2>2, <2>3 DEF Init, Session!SessionInit, Session!Effects, SessionId, ContentOf, InForce
<1>4. SessionInv /\ [Next]_vars => [Session!SessionNext]_(Session!sessionVars)
  <2> SUFFICES ASSUME SessionInv, [Next]_vars
               PROVE  [Session!SessionNext]_(Session!sessionVars)
    OBVIOUS
  <2>1. CASE UNCHANGED vars
    BY <2>1, MaintenanceIsInvisible DEF vars
  <2> QED BY <2>1, PublishIsSession, RewriteIsSession, UploadIsSession, RewrapIsSession,
             DeleteIsSession, ReaderIsSession, EndIsSession, OwnerIsSession DEF Next
<1> QED BY <1>1, <1>2, <1>3, <1>4, PTL DEF Spec, ImplementsSession, Session!SessionSpec
=============================================================================
