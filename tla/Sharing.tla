------------------------------ MODULE Sharing ------------------------------
(***************************************************************************)
(* Transcripts submitted to collectives: the composition of the people of  *)
(* Collective with the ledgers of ShareLedger.                             *)
(*                                                                         *)
(* A share holds the transcript's publish lock and then the authority      *)
(* locks, so it is one step.  A project batch reads everything before it   *)
(* takes either, and an unshare takes only the publish lock: each is two   *)
(* steps that the collective's owners and other members act between.       *)
(***************************************************************************)
EXTENDS Collective, ShareLedger

CONSTANTS
    Transcripts,
    OwnerOf,        \* the person who published each transcript
    MaxEvents       \* bound: events recorded for one pair

Visibilities == {"private", "shared", "public"}

ASSUME SharingAssumption ==
    /\ OwnerOf \in [Transcripts -> Users]
    /\ None \notin Users \union Groups \union Statuses \union Visibilities
    /\ MaxEvents \in Nat

VARIABLES
    vis,        \* transcripts.visibility, None when deleted
    attempts,   \* transcript_share_attempts
    shares,     \* transcript_shares
    batch,      \* what a project batch read before it took its locks
    unsharing,  \* the collective an unshare holding the publish lock withdraws from
    departed    \* history: who left with their shares retracted and is not back

shareVars == <<vis, attempts, shares, batch, unsharing, departed>>
vars == <<peopleVars, shareVars>>

Batch == [group : Groups, status : {"pending", "approved"}, confirmed : BOOLEAN,
          owner : Users, selected : SUBSET Transcripts, live : SUBSET Transcripts]

TypeOK ==
    /\ PeopleTypeOK
    /\ vis \in [Transcripts -> Visibilities \union {None}]
    /\ attempts \in [Groups -> [Transcripts -> Seq(Statuses)]]
    /\ shares \in [Groups -> [Transcripts -> ShareRows \union {None}]]
    /\ batch \in Batch \union {None}
    /\ unsharing \in [Transcripts -> Groups \union {None}]
    /\ departed \subseteq Groups \X Users

Init ==
    /\ PeopleInit
    /\ vis \in [Transcripts -> Visibilities \union {None}]
    /\ attempts = [g \in Groups |-> [t \in Transcripts |-> <<>>]]
    /\ shares = [g \in Groups |-> [t \in Transcripts |-> None]]
    /\ batch = None
    /\ unsharing = [t \in Transcripts |-> None]
    /\ departed = {}

------------------------------------------------------------------------------
(* One statement over the ledgers: it writes the pairs of written, and the
   trigger derives the share row of each row inserted or updated. *)
WriteAttempts(written) ==
    /\ attempts' = [g \in Groups |-> [t \in Transcripts |->
                      IF <<g, t>> \in DOMAIN written THEN written[<<g, t>>] ELSE attempts[g][t]]]
    /\ shares' = [g \in Groups |-> [t \in Transcripts |->
                    IF <<g, t>> \in DOMAIN written THEN DerivedRow(written[<<g, t>>])
                    ELSE shares[g][t]]]

Only(g, t, ledger) == [p \in {<<g, t>>} |-> ledger]

Owned(u) == {t \in Transcripts : OwnerOf[t] = u /\ vis[t] # None}

(* Nothing else works on this transcript under its publish lock. *)
PublishLockFree(t) == unsharing[t] = None

(* How a submission from this person opens, None when it is refused. *)
shareStatusForGroup(g, u) ==
    CASE group[g].mode = "verified_only" -> IF Verified(g, u) THEN "approved" ELSE None
      [] group[g].mode = "curated"       -> "pending"
      [] OTHER                           -> "approved"

(* Mutant: the membership is trusted from before the lock. *)
finalShareStatus_AnyMember(g, u) ==
    IF group[g] = Nobody THEN None ELSE shareStatusForGroup(g, u)

(* The same rule under the authority locks, for a current accepted member. *)
finalShareStatus(g, u) ==
    IF group[g] = Nobody \/ ~AcceptedRole(g, u) THEN None ELSE shareStatusForGroup(g, u)

MayGrow(g, t) == Len(attempts[g][t]) < MaxEvents

------------------------------------------------------------------------------
(* Every collective named must take the submission, or nothing is written. *)
ShareTranscript(t, gs) ==
    LET u == OwnerOf[t]
        fresh == {g \in gs : ~IsLive(attempts[g][t])}
    IN  /\ vis[t] # None /\ PublishLockFree(t)
        /\ \A g \in gs : finalShareStatus(g, u) # None /\ MayGrow(g, t)
        /\ \A g \in fresh : OpenAttemptAdmits(attempts[g][t], finalShareStatus(g, u))
        /\ fresh # {} \/ vis[t] = "private"
        /\ WriteAttempts([p \in fresh \X {t} |->
               ShareTranscriptWithStatus(attempts[p[1]][t], finalShareStatus(p[1], u))])
        /\ vis' = [vis EXCEPT ![t] = IF @ = "private" THEN "shared" ELSE @]
        /\ UNCHANGED <<peopleVars, batch, unsharing, departed>>

(* withdrawLiveShare reads the latest event before the statement runs. *)
UnshareReads(t, g) ==
    /\ vis[t] # None /\ PublishLockFree(t)
    /\ IsLive(attempts[g][t])
    /\ unsharing' = [unsharing EXCEPT ![t] = g]
    /\ UNCHANGED <<peopleVars, vis, attempts, shares, batch, departed>>

(* TranscriptHasLiveShareAttempt *)
HasLive(ledgers, t) == \E g \in Groups : IsLive(ledgers[g][t])

Narrowed(t) ==
    vis' = [vis EXCEPT ![t] = IF @ = "shared" /\ ~HasLive(attempts', t) THEN "private" ELSE @]

(* The statement, and the narrowing that goes with it in the transaction. *)
UnshareCommits(t) ==
    LET g == unsharing[t]
    IN  /\ g # None
        /\ WithdrawalAdmitted(attempts[g][t])
        /\ WriteAttempts(Only(g, t, UnshareTranscript(attempts[g][t])))
        /\ Narrowed(t)
        /\ unsharing' = [unsharing EXCEPT ![t] = None]
        /\ UNCHANGED <<peopleVars, batch, departed>>

(* The ordinal was taken meanwhile: the withdrawal is rolled back. *)
UnshareRefused(t) ==
    LET g == unsharing[t]
    IN  /\ g # None
        /\ ~WithdrawalAdmitted(attempts[g][t])
        /\ unsharing' = [unsharing EXCEPT ![t] = None]
        /\ UNCHANGED <<peopleVars, vis, attempts, shares, batch, departed>>

(* A pair with nothing live is left alone; the narrowing rule still applies. *)
UnshareNothing(t, g) ==
    /\ vis[t] # None /\ PublishLockFree(t)
    /\ ~IsLive(attempts[g][t])
    /\ vis[t] = "shared" /\ ~HasLive(attempts, t)
    /\ vis' = [vis EXCEPT ![t] = "private"]
    /\ UNCHANGED <<peopleVars, attempts, shares, batch, unsharing, departed>>

------------------------------------------------------------------------------
(* ListLiveShareAttemptsForGroup *)
LiveIn(g, ts) == {t \in ts : IsLive(attempts[g][t])}

consentRefusalForPrivate(ts, confirmed) ==
    ~confirmed /\ \E t \in ts : vis[t] = "private"

(* Any membership is enough for the preflight; a join request too. *)
BatchPreflight(u, g, ts, confirmed) ==
    /\ batch = None
    /\ group[g] # Nobody /\ member[g][u] # Nobody
    /\ shareStatusForGroup(g, u) # None
    /\ ts # {} /\ ts \subseteq Owned(u)
    /\ ~consentRefusalForPrivate(ts \ LiveIn(g, ts), confirmed)
    /\ batch' = [group |-> g, owner |-> u, selected |-> ts, confirmed |-> confirmed,
                 status |-> shareStatusForGroup(g, u), live |-> LiveIn(g, ts)]
    /\ UNCHANGED <<peopleVars, vis, attempts, shares, unsharing, departed>>

(* Mutant: the status decided by the preflight is not decided again. *)
BatchStillHolds_StatusOfPreflight(b) ==
    /\ finalShareStatus(b.group, b.owner) # None
    /\ \A t \in b.selected : vis[t] # None
    /\ LiveIn(b.group, b.selected) = b.live
    /\ b.selected # b.live

(* What writeBatchShare reads again inside its transaction. *)
BatchStillHolds(b) ==
    /\ finalShareStatus(b.group, b.owner) = b.status
    /\ \A t \in b.selected : vis[t] # None
    /\ LiveIn(b.group, b.selected) = b.live
    /\ b.selected # b.live

(* Mutant: the preflight's decision about consent stands. *)
BatchConsents_Preflight(b) == TRUE

(* Consent is decided from the visibility under the row lock. *)
BatchConsents(b) == ~consentRefusalForPrivate(b.selected \ b.live, b.confirmed)

BatchCommits ==
    LET b == batch
        fresh == b.selected \ b.live
    IN  /\ batch # None
        /\ \A t \in b.selected : PublishLockFree(t) /\ MayGrow(b.group, t)
        /\ BatchStillHolds(b)
        /\ \A t \in fresh : OpenAttemptAdmits(attempts[b.group][t], b.status)
        /\ BatchConsents(b)
        /\ WriteAttempts([p \in {b.group} \X fresh |->
               ShareTranscriptWithStatus(attempts[b.group][p[2]], b.status)])
        /\ vis' = [t \in Transcripts |->
                     IF t \in fresh /\ vis[t] = "private" THEN "shared" ELSE vis[t]]
        /\ batch' = None
        /\ UNCHANGED <<peopleVars, unsharing, departed>>

(* Refused, or stopped by an error: everything is rolled back. *)
BatchEnds ==
    /\ batch # None
    /\ batch' = None
    /\ UNCHANGED <<peopleVars, vis, attempts, shares, unsharing, departed>>

------------------------------------------------------------------------------
(* Mutant: the decision does not ask whether the attempt is still open. *)
ReviewShare_Closed(u, g, t, decision) ==
    /\ OwnerAccess(g, u)
    /\ attempts[g][t] # <<>>
    /\ WriteAttempts(Only(g, t, [attempts[g][t] EXCEPT ![Len(attempts[g][t])] = decision]))
    /\ UNCHANGED <<peopleVars, vis, batch, unsharing, departed>>

(* An owner decides; a pair with nothing open answers 200 and changes nothing. *)
ReviewShare(u, g, t, decision) ==
    /\ OwnerAccess(g, u)
    /\ HasOpen(attempts[g][t])
    /\ WriteAttempts(Only(g, t, UpdateShareStatus(attempts[g][t], decision)))
    /\ UNCHANGED <<peopleVars, vis, batch, unsharing, departed>>

(* BatchUpdateShareStatus matches only what is still open. *)
BatchReviewShares(u, g, ts, decision) ==
    LET open == {t \in ts : HasOpen(attempts[g][t])}
    IN  /\ OwnerAccess(g, u)
        /\ Cardinality(open) > 1
        /\ WriteAttempts([p \in {g} \X open |-> UpdateShareStatus(attempts[g][p[2]], decision)])
        /\ UNCHANGED <<peopleVars, vis, batch, unsharing, departed>>

RemoveTranscript(u, g, t) ==
    /\ OwnerAccess(g, u)
    /\ LiveEvent(attempts[g][t]) > 0
    /\ WithdrawalAdmitted(attempts[g][t])
    /\ WriteAttempts(Only(g, t, RemoveGroupTranscript(attempts[g][t])))
    /\ UNCHANGED <<peopleVars, vis, batch, unsharing, departed>>

(* The statement that retracts everything a person has live in a collective. *)
RetractAdmitted(g, v) == \A t \in Owned(v) : WithdrawalAdmitted(attempts[g][t])

Retracted(g, v) ==
    WriteAttempts([p \in {g} \X {t \in Owned(v) : LiveEvent(attempts[g][t]) > 0} |->
        RetractUserSharesInGroup(attempts[g][p[2]])])

(* Removing or leaving.  A mandatory policy retracts whatever was asked; a
   retraction the ledger refuses rolls the removal back. *)
RemoveMember(u, g, v, asked) ==
    LET retract == asked \/ (group[g] # Nobody /\ group[g].exit = "mandatory")
    IN  /\ MayRemove(u, g, v)
        /\ RemoveGroupMember(g, v)
        /\ IF retract
           THEN RetractAdmitted(g, v) /\ Retracted(g, v) /\ departed' = departed \union {<<g, v>>}
           ELSE UNCHANGED <<attempts, shares, departed>>
        /\ UNCHANGED <<vis, batch, unsharing>>

------------------------------------------------------------------------------
(* UpdateTranscript: the owner sets the visibility, under the publish lock. *)
ChangeVisibility(t, v) ==
    /\ vis[t] # None /\ vis[t] # v /\ PublishLockFree(t)
    /\ vis' = [vis EXCEPT ![t] = v]
    /\ UNCHANGED <<peopleVars, attempts, shares, batch, unsharing, departed>>

(* The row goes, and by cascade its events and shares.  It waits for no publish
   lock: an unshare that read a live event may find nothing left. *)
DeleteTranscript(t) ==
    /\ vis[t] # None
    /\ vis' = [vis EXCEPT ![t] = None]
    /\ attempts' = [g \in Groups |-> [attempts[g] EXCEPT ![t] = <<>>]]
    /\ shares' = [g \in Groups |-> [shares[g] EXCEPT ![t] = None]]
    /\ UNCHANGED <<peopleVars, batch, unsharing, departed>>

CascadeGroup(g) ==
    /\ attempts' = [attempts EXCEPT ![g] = [t \in Transcripts |-> <<>>]]
    /\ shares' = [shares EXCEPT ![g] = [t \in Transcripts |-> None]]
    /\ departed' = {d \in departed : d[1] # g}
    /\ UNCHANGED <<vis, batch, unsharing>>

(* Coming back, by any door, ends a departure. *)
Returns(g, u) ==
    /\ departed' = departed \ {<<g, u>>}
    /\ UNCHANGED <<vis, attempts, shares, batch, unsharing>>

------------------------------------------------------------------------------
(* Steps of the people that leave every submission alone. *)
InvitationStep ==
    \E g \in Groups, u \in Users, h \in Handles :
        \/ InviteAgain(u, g, h)
        \/ CreateGroupInvitation(u, g, h)
        \/ RevokeGroupInvitation(u, g, h)
        \/ DeclineMyInvitation(u, g, h)
        \/ Expire(g, h)
        \/ SetUsername(u, h)
        \/ LeaveHandle(u)
        \/ DayEnds

PolicyStep ==
    \E g \in Groups, u \in Users :
        \/ \E mode \in Modes, org \in Orgs \union {Nobody} : CreateGroup(u, g, mode, org)
        \/ CreatorNotRecorded(g)
        \/ \E mode \in Modes, exit \in Exits, org \in Orgs \union {Nobody} :
                UpdateGroup(u, g, mode, exit, org)
        \/ \E v \in Users, role \in Roles : PromoteMember(u, g, v, role)
        \/ \E found \in SUBSET Orgs : SyncOrgs(u, found)

(* Steps of the people that end or undo a departure. *)
MembershipStep ==
    \E g \in Groups, u \in Users :
        \/ AddGroupCreator(g) /\ Returns(g, creating[g])
        \/ JoinGroup(u, g) /\ Returns(g, u)
        \/ \E h \in Handles : AcceptMyInvitation(u, g, h) /\ Returns(g, u)
        \/ DeleteGroup(u, g) /\ CascadeGroup(g)
        \/ \E v \in Users, asked \in BOOLEAN : RemoveMember(u, g, v, asked)

ShareStep ==
    \/ \E t \in Transcripts :
          \/ \E gs \in SUBSET Groups \ {{}} : ShareTranscript(t, gs)
          \/ \E g \in Groups : UnshareReads(t, g) \/ UnshareNothing(t, g)
          \/ UnshareCommits(t)
          \/ UnshareRefused(t)
          \/ \E v \in {"private", "public"} : ChangeVisibility(t, v)
          \/ DeleteTranscript(t)
    \/ \E u \in Users, g \in Groups, ts \in SUBSET Transcripts, confirmed \in BOOLEAN :
          BatchPreflight(u, g, ts, confirmed)
    \/ BatchCommits
    \/ BatchEnds

ReviewStep ==
    \E u \in Users, g \in Groups :
        \/ \E t \in Transcripts, decision \in {"approved", "rejected"} : ReviewShare(u, g, t, decision)
        \/ \E ts \in SUBSET Transcripts, decision \in {"approved", "rejected"} :
                BatchReviewShares(u, g, ts, decision)
        \/ \E t \in Transcripts : RemoveTranscript(u, g, t)

Next ==
    \/ (InvitationStep \/ PolicyStep) /\ UNCHANGED shareVars
    \/ MembershipStep
    \/ ShareStep
    \/ ReviewStep

Spec == Init /\ [][Next]_vars

------------------------------------------------------------------------------
(* PROPERTY.  A submission enters a collective only from somebody who is an
   accepted member at that moment and in the state the collective's policy gives
   it at that moment, however long ago a batch checked either (finalShareStatus). *)
EntersUnderPolicy(g, t) ==
    LET u == OwnerOf[t]
        status == GetLatestShareAttempt(attempts'[g][t])
    IN  /\ AcceptedRole(g, u)
        /\ group[g].mode = "curated" <=> status = "pending"
        /\ group[g].mode = "verified_only" => Verified(g, u)

SubmissionUnderPolicy ==
    [][\A g \in Groups, t \in Transcripts :
          (IsLive(attempts'[g][t]) /\ ~IsLive(attempts[g][t])) => EntersUnderPolicy(g, t)]_vars

(* PROPERTY.  Whoever left a collective with their transcripts retracted has
   nothing open or accepted in it until they come back: no share, batch or review
   that began while they were a member lands after they left. *)
RetractionHolds ==
    \A d \in departed : \A t \in Transcripts :
        OwnerOf[t] = d[2] => ~IsLive(attempts[d[1]][t])

(* PROPERTY.  A project batch widens a transcript that is private when the batch
   writes only if its owner confirmed it, also when the transcript was not private
   when the batch was checked (consentRefusal). *)
ConsentToWiden ==
    [][(batch # None /\ batch' = None) =>
          \A t \in batch.selected :
             (vis[t] = "private" /\ vis'[t] # "private") => batch.confirmed]_vars

(* PROPERTY.  A collective that recorded its creator keeps them as an owner: no
   promotion, removal, departure or accepted invitation takes that away. *)
CreatorStays ==
    \A g \in Groups :
        creator[g] # Nobody => /\ member[g][creator[g]] # Nobody
                               /\ member[g][creator[g]].role = "owner"

(* PROPERTY.  A declined invitation was declined by the person it is addressed to:
   when a handle changes hands its next holder is asked anew, and nobody finds an
   invitation among their own that somebody else holds the answer to. *)
AnswerIsInvitees ==
    /\ \A g \in Groups, h \in Handles :
          (invite[g][h] # Nobody /\ invite[g][h].status = "declined")
              => answered[g][h] = invite[g][h].to
    /\ \A u \in Users : \A p \in ListMyInvitations(u) :
          \A v \in Users \ {u} : p \notin ListMyInvitations(v)

(* Where each submission stands, from the row the pages read and the ledger. *)
StandingOf(g, t) ==
    CASE shares[g][t] = "pending"  -> "open"
      [] shares[g][t] = "approved" -> "accepted"
      [] shares[g][t] = "rejected" -> "declined"
      [] OTHER -> IF attempts[g][t] = <<>> THEN "never" ELSE "closed"

Abstract == INSTANCE Contribution
    WITH standing <- [g \in Groups |-> [t \in Transcripts |-> StandingOf(g, t)]]

(* PROPERTY.  Everything the service does to submissions, in any interleaving of
   shares, batches, withdrawals, reviews, removals and departures, is a step of
   Contribution: a submission opens only where none is open or accepted, only an
   open one is decided, and a closed one is never decided. *)
ContributionSpec == Abstract!Spec

(* PROPERTY (refuted).  "Every caller that withdraws goes through here", the check
   that keeps the withdrawal statement away from a ledger it would refuse
   (shares_attempts.go): so leaving a collective is never refused by the ledger. *)
LeavingPossible ==
    \A g \in Groups, v \in Users :
        MayRemove(v, g, v) => RetractAdmitted(g, v)
=============================================================================
