------------------------- MODULE ReadPoliciesProofs -------------------------
(***************************************************************************)
(* What the reads of ShareReads and ReadPolicies answer in every state the *)
(* service can reach, for every set of people, collectives and             *)
(* transcripts.  The invariant is SharingInv; the reads are functions of   *)
(* the state, so each statement here is about one state.                   *)
(***************************************************************************)
EXTENDS ReadPolicies, SharingProofs

USE CollectiveAssumption, SharingAssumption

------------------------------------------------------------------------------
(* The derived row of a pair is its latest event when that is shown at all, and a
   deleted transcript has neither. *)
LEMMA RowIsLatest ==
    ASSUME SharingInv, NEW g \in Groups, NEW t \in Transcripts
    PROVE  /\ \A s \in ShareRows : shares[g][t] = s <=> Latest(g, t) = s
           /\ shares[g][t] # None <=> Latest(g, t) \in ShareRows
           /\ IsLive(attempts[g][t]) <=> shares[g][t] \in {"pending", "approved"}
           /\ Latest(g, t) \in Statuses \union {None}
           /\ attempts[g][t] = <<>> <=> Latest(g, t) = None
           /\ vis[t] = None => shares[g][t] = None
<1>1. attempts[g][t] \in Seq(Statuses) /\ shares[g][t] = DerivedRow(attempts[g][t])
  BY DEF SharingInv, LedgerInv
<1>2. Latest(g, t) = IF attempts[g][t] = <<>> THEN None ELSE attempts[g][t][Len(attempts[g][t])]
  BY DEF Latest, GetLatestShareAttempt
<1>3. attempts[g][t] # <<>> => attempts[g][t][Len(attempts[g][t])] \in Statuses
  BY <1>1
<1>4. shares[g][t] = IF Latest(g, t) \in ShareRows THEN Latest(g, t) ELSE None
  BY <1>1 DEF DerivedRow, Latest
<1>5. IsLive(attempts[g][t]) <=> Latest(g, t) \in {"pending", "approved"}
  BY DEF IsLive, shareAttemptIsLive, Latest
<1>6. None \notin Statuses /\ None \notin ShareRows
  BY DEF Statuses, ShareRows
<1>7. vis[t] = None => attempts[g][t] = <<>>
  BY DEF SharingInv, DeletedBlank
<1>8. Latest(g, t) \in Statuses \union {None} /\ (attempts[g][t] = <<>> <=> Latest(g, t) = None)
  BY <1>2, <1>3, <1>6
<1> HIDE DEF Latest
<1>9. /\ \A s \in ShareRows : shares[g][t] = s <=> Latest(g, t) = s
      /\ shares[g][t] # None <=> Latest(g, t) \in ShareRows
      /\ IsLive(attempts[g][t]) <=> shares[g][t] \in {"pending", "approved"}
  BY <1>4, <1>5, <1>6 DEF ShareRows
<1>10. vis[t] = None => shares[g][t] = None
  BY <1>4, <1>6, <1>7, <1>8
<1> QED BY <1>8, <1>9, <1>10

(* canReadData by cases. *)
LEMMA CanReadIs ==
    ASSUME NEW role
    PROVE  /\ canReadData(role, "public")
           /\ canReadData(role, "contributors") <=> role \in {"contributor", "member", "owner"}
           /\ canReadData(role, "members_only") <=> role \in {"member", "owner"}
  BY DEF canReadData

(* Somebody else's transcript that is not public is shown only through a collective
   that holds it now, or to whose owners it is submitted. *)
LEMMA EntitledState == ASSUME SharingInv PROVE ReadersEntitled
<1> SUFFICES ASSUME NEW v \in Users, NEW t \in Transcripts,
                    transcriptViewAccess(v, t), v # OwnerOf[t], vis[t] # "public"
             PROVE  \E g \in Groups :
                \/ Latest(g, t) = "approved" /\ vis[t] = "shared" /\ AcceptedRole(g, v)
                \/ Latest(g, t) \in ShareRows /\ OwnerAccess(g, v)
  BY DEF ReadersEntitled
<1>1. CASE vis[t] = "shared" /\ \E g \in ListApprovedTranscriptShareGroups(t) :
                                   canReadData(RoleOf(g, v), "contributors")
  <2>1. PICK g \in Groups : shares[g][t] = "approved" /\ canReadData(RoleOf(g, v), "contributors")
    BY <1>1 DEF ListApprovedTranscriptShareGroups
  <2>2. AcceptedRole(g, v)
    BY <2>1, CanReadIs DEF AcceptedRole
  <2>3. Latest(g, t) = "approved"
    BY <2>1, RowIsLatest DEF ShareRows
  <2> QED BY <1>1, <2>2, <2>3
<1>2. CASE v \in ListGroupOwnersForTranscript(t)
  <2>1. PICK g \in Groups : shares[g][t] # None /\ OwnerAccess(g, v)
    BY <1>2 DEF ListGroupOwnersForTranscript
  <2>2. Latest(g, t) \in ShareRows
    BY <2>1, RowIsLatest
  <2> QED BY <2>1, <2>2
<1> QED BY <1>1, <1>2 DEF transcriptViewAccess

(* Who is shown as a profile when nobody is discoverable. *)
LEMMA ProfileIs ==
    ASSUME NEW v \in Users, NEW u \in Users
    PROVE  IsProfile(v, u, {}) <=> u = v \/ \E g \in Groups : OwnerAccess(g, v) /\ ActedIn(g, u)
  BY DEF IsProfile, resolvePublicOwners, ListPublicOwnersForViewer

(* An owner who may read how a transcript was published sees its publisher, and a
   person who left with their transcripts retracted has no act left there. *)
LEMMA NamedState == ASSUME SharingInv PROVE NamedByTheirActs
<1>1. ASSUME NEW v \in Users, NEW t \in Present, canReadPublishMetadata(v, t)
      PROVE  authorizePublishMetadata(v, t, {})
  <2>1. t \in Transcripts /\ vis[t] # None /\ OwnerOf[t] \in Users
    BY DEF Present
  <2>2. CASE OwnerOf[t] = v
    BY <1>1, <2>1, <2>2, ProfileIs DEF authorizePublishMetadata
  <2>3. CASE v \in ListSubmittedCollectiveOwnersForTranscript(t)
    <3>1. PICK g \in Groups : shares[g][t] \in {"pending", "approved"} /\ OwnerAccess(g, v)
      BY <2>3 DEF ListSubmittedCollectiveOwnersForTranscript
    <3>2. ActedIn(g, OwnerOf[t])
      BY <2>1, <3>1 DEF ActedIn, Owned
    <3> QED BY <1>1, <2>1, <3>1, <3>2, ProfileIs DEF authorizePublishMetadata
  <2> QED BY <1>1, <2>2, <2>3 DEF canReadPublishMetadata
<1>2. ASSUME NEW d \in departed, NEW v \in Users \ {d[2]}, IsProfile(v, d[2], {})
      PROVE  \E g \in Groups \ {d[1]} : OwnerAccess(g, v) /\ ActedIn(g, d[2])
  <2>1. d[1] \in Groups /\ d[2] \in Users
    BY DEF SharingInv, ShareTypeOK
  <2>2. PICK g \in Groups : OwnerAccess(g, v) /\ ActedIn(g, d[2])
    BY <1>2, <2>1, ProfileIs
  <2>3. ~ActedIn(d[1], d[2])
    <3>1. ~JoinedThemselves(d[1], d[2])
      BY DEF SharingInv, DepartedOut, JoinedThemselves
    <3>2. ASSUME NEW t \in Owned(d[2]) PROVE shares[d[1]][t] \notin {"pending", "approved"}
      <4>1. t \in Transcripts /\ OwnerOf[t] = d[2]
        BY DEF Owned
      <4>2. ~IsLive(attempts[d[1]][t])
        BY <4>1 DEF SharingInv, RetractionHolds
      <4> QED BY <2>1, <4>1, <4>2, RowIsLatest
    <3> QED BY <3>1, <3>2 DEF ActedIn
  <2> QED BY <2>2, <2>3
<1> QED BY <1>1, <1>2 DEF NamedByTheirActs

(* Nothing reaches a reader except through a collective that holds it, or that its
   publisher acted in, at that moment: withdrawals, departures and deletions in any
   order leave no access behind. *)
THEOREM ReadersAreEntitled == Spec => []AudienceEntitled
<1>1. SharingInv => AudienceEntitled
  BY EntitledState, NamedState DEF AudienceEntitled
<1> QED BY <1>1, SharingInvariant, PTL


------------------------------------------------------------------------------
(* What a collective's listings select by the derived row is what the ledgers say. *)
LEMMA HeldIs ==
    ASSUME SharingInv, NEW g \in Groups, NEW s \in ShareRows
    PROVE  WithStatus(g, s) = Stands(g, s)
<1>1. \A t \in Transcripts : (vis[t] # None /\ shares[g][t] = s) <=> Latest(g, t) = s
  <2> SUFFICES ASSUME NEW t \in Transcripts
               PROVE  (vis[t] # None /\ shares[g][t] = s) <=> Latest(g, t) = s
    OBVIOUS
  <2>1. s # None
    BY DEF ShareRows, Statuses
  <2> QED BY <2>1, RowIsLatest
<1> QED BY <1>1 DEF WithStatus, Stands

(* A person's transcripts that a collective shows in some state. *)
LEMMA UserSharesAre ==
    ASSUME SharingInv, NEW g \in Groups, NEW u \in Users
    PROVE  ListUserSharesInGroup(g, u) =
              {t \in Transcripts : OwnerOf[t] = u /\ Latest(g, t) \in ShareRows}
<1>1. \A t \in Transcripts : (vis[t] # None /\ shares[g][t] # None) <=> Latest(g, t) \in ShareRows
  BY RowIsLatest
<1> QED BY <1>1 DEF ListUserSharesInGroup

(* The rows of a person's submissions page, and when it is refused. *)
LEMMA SubmissionsAre ==
    ASSUME SharingInv, NEW g \in Groups, NEW u \in Users
    PROVE  /\ \A t, s : <<t, s>> \in ListOwnerCollectiveSubmissions(g, u) <=>
                           t \in Owned(u) /\ attempts[g][t] # <<>> /\ s = Latest(g, t)
           /\ ListOwnerCollectiveSubmissions(g, u) \subseteq Transcripts \X Statuses
           /\ ListMyCollectiveSubmissions(g, u) # Refused <=>
                 \E t \in Owned(u) : attempts[g][t] # <<>>
           /\ ListMyCollectiveSubmissions(g, u) # Refused =>
                 ListMyCollectiveSubmissions(g, u) = ListOwnerCollectiveSubmissions(g, u)
<1> DEFINE rows == ListOwnerCollectiveSubmissions(g, u)
<1>1. rows = {<<t, Latest(g, t)>> : t \in {t \in Owned(u) : attempts[g][t] # <<>>}}
  BY DEF ListOwnerCollectiveSubmissions, Latest
<1>2. \A t \in Owned(u) : t \in Transcripts /\ (attempts[g][t] # <<>> => Latest(g, t) \in Statuses)
  <2> SUFFICES ASSUME NEW t \in Owned(u)
               PROVE  t \in Transcripts /\ (attempts[g][t] # <<>> => Latest(g, t) \in Statuses)
    OBVIOUS
  <2>1. t \in Transcripts
    BY DEF Owned
  <2> QED BY <2>1, RowIsLatest
<1>3. \A t, s : <<t, s>> \in rows <=> t \in Owned(u) /\ attempts[g][t] # <<>> /\ s = Latest(g, t)
  <2> SUFFICES ASSUME NEW t, NEW s
               PROVE  <<t, s>> \in rows <=> t \in Owned(u) /\ attempts[g][t] # <<>> /\ s = Latest(g, t)
    OBVIOUS
  <2>1. <<t, s>> \in rows <=>
           \E x \in Owned(u) : attempts[g][x] # <<>> /\ <<t, s>> = <<x, Latest(g, x)>>
    BY <1>1, Zenon
  <2>2. \A x : <<t, s>> = <<x, Latest(g, x)>> <=> t = x /\ s = Latest(g, x)
    OBVIOUS
  <2> QED BY <2>1, <2>2, Zenon
<1>4. rows \subseteq Transcripts \X Statuses
  BY <1>1, <1>2
<1>5. rows # {} <=> \E t \in Owned(u) : attempts[g][t] # <<>>
  <2>1. ASSUME NEW p \in rows PROVE \E t \in Owned(u) : attempts[g][t] # <<>>
    BY <1>1
  <2>2. ASSUME NEW t \in Owned(u), attempts[g][t] # <<>> PROVE rows # {}
    BY <1>3, <2>2
  <2> QED BY <2>1, <2>2
<1>6. rows # Refused
  BY <1>4, RefusedAssumption
<1>7. ListMyCollectiveSubmissions(g, u) = IF rows = {} THEN Refused ELSE rows
  BY DEF ListMyCollectiveSubmissions
<1> QED BY <1>3, <1>4, <1>5, <1>6, <1>7

(* Every listing, count and roster shows what the ledgers say. *)
LEMMA LedgerRead == ASSUME SharingInv PROVE ReadsFollowLedger
<1>1. "approved" \in ShareRows /\ "pending" \in ShareRows
  BY DEF ShareRows
<1>2. \A g \in Groups : /\ ListGroupTranscripts(g) = Stands(g, "approved")
                        /\ ListPendingGroupShares(g) = Stands(g, "pending")
                        /\ WithStatus(g, "approved") = Stands(g, "approved")
  BY <1>1, HeldIs DEF ListGroupTranscripts, ListPendingGroupShares
<1>3. ASSUME NEW g \in Groups
      PROVE  /\ GetGroupTranscriptStats(g) =
                   [total |-> Cardinality(Stands(g, "approved")),
                    contributors |-> Cardinality({OwnerOf[t] : t \in Stands(g, "approved")})]
             /\ ListGroupModelBreakdown(g) = Cardinality(Stands(g, "approved"))
  BY <1>2 DEF GetGroupTranscriptStats, ListGroupModelBreakdown
<1>4. ASSUME NEW g \in Groups, NEW v \in Users, ListMyCollectiveSubmissions(g, v) # Refused
      PROVE  {p[1] : p \in {p \in ListMyCollectiveSubmissions(g, v) : p[2] \in ShareRows}}
                = ListMyGroupShares(g, v)
  <2> DEFINE rows == ListOwnerCollectiveSubmissions(g, v)
             left == {p[1] : p \in {p \in rows : p[2] \in ShareRows}}
  <2>1. ListMyCollectiveSubmissions(g, v) = rows
    BY <1>4, SubmissionsAre
  <2>2. \A t, s : <<t, s>> \in rows <=> t \in Owned(v) /\ attempts[g][t] # <<>> /\ s = Latest(g, t)
    BY SubmissionsAre
  <2>3. rows \subseteq Transcripts \X Statuses
    BY SubmissionsAre
  <2> HIDE DEF rows
  <2>4. \A p \in rows : p = <<p[1], p[2]>>
    BY <2>3
  <2>5. \A t : t \in left <=> t \in Owned(v) /\ attempts[g][t] # <<>> /\ Latest(g, t) \in ShareRows
    <3> SUFFICES ASSUME NEW t
                 PROVE  t \in left <=>
                           t \in Owned(v) /\ attempts[g][t] # <<>> /\ Latest(g, t) \in ShareRows
      OBVIOUS
    <3>1. ASSUME t \in left
          PROVE  t \in Owned(v) /\ attempts[g][t] # <<>> /\ Latest(g, t) \in ShareRows
      <4>1. PICK p \in rows : p[2] \in ShareRows /\ p[1] = t
        BY <3>1
      <4>2. <<t, p[2]>> \in rows
        BY <2>4, <4>1
      <4> QED BY <2>2, <4>1, <4>2
    <3>2. ASSUME t \in Owned(v), attempts[g][t] # <<>>, Latest(g, t) \in ShareRows
          PROVE  t \in left
      <4> DEFINE q == <<t, Latest(g, t)>>
      <4>1. q \in rows /\ q[2] \in ShareRows /\ q[1] = t
        BY <2>2, <3>2
      <4> HIDE DEF q
      <4> QED BY <4>1
    <3> QED BY <3>1, <3>2
  <2>6. ListMyGroupShares(g, v) = {t \in Transcripts : OwnerOf[t] = v /\ Latest(g, t) \in ShareRows}
    BY UserSharesAre DEF ListMyGroupShares
  <2>7. \A t \in Transcripts : Latest(g, t) \in ShareRows => attempts[g][t] # <<>> /\ vis[t] # None
    <3> SUFFICES ASSUME NEW t \in Transcripts, Latest(g, t) \in ShareRows
                 PROVE  attempts[g][t] # <<>> /\ vis[t] # None
      OBVIOUS
    <3>1. None \notin ShareRows
      BY DEF ShareRows, Statuses
    <3> QED BY <3>1, RowIsLatest
  <2>8. left = ListMyGroupShares(g, v)
    <3> HIDE DEF left
    <3>1. \A t : t \in left <=> t \in ListMyGroupShares(g, v)
      BY <2>5, <2>6, <2>7 DEF Owned
    <3>2. left \subseteq ListMyGroupShares(g, v) /\ ListMyGroupShares(g, v) \subseteq left
      BY <3>1
    <3> QED BY <3>2
  <2> QED BY <2>1, <2>8
<1>5. ASSUME NEW g \in Groups, NEW v \in Users, NEW listed \in {{}, Users}
      PROVE  collectivePeopleFor(g, v, listed).contributors =
                {u \in Users : /\ \E t \in Stands(g, "approved") : OwnerOf[t] = u
                               /\ u \in listed \/ OwnerAccess(g, v) \/ u = v}
  <2>1. collectivePeopleFor(g, v, listed).contributors =
           {u \in {OwnerOf[t] : t \in Stands(g, "approved")} : u \in listed \/ OwnerAccess(g, v) \/ u = v}
    BY <1>2 DEF collectivePeopleFor, ListGroupContributors
  <2>2. \A t \in Stands(g, "approved") : OwnerOf[t] \in Users
    BY DEF Stands
  <2> QED BY <2>1, <2>2
<1>6. ASSUME NEW t \in Transcripts
      PROVE  /\ ListTranscriptShares(t) = {g \in Groups : Latest(g, t) \in ShareRows}
             /\ ListSubmittedCollectiveOwnersForTranscript(t) =
                   {u \in Users : \E g \in Groups : IsLive(attempts[g][t]) /\ OwnerAccess(g, u)}
  <2>1. \A g \in Groups : /\ shares[g][t] # None <=> Latest(g, t) \in ShareRows
                          /\ IsLive(attempts[g][t]) <=> shares[g][t] \in {"pending", "approved"}
    BY RowIsLatest
  <2> QED BY <2>1 DEF ListTranscriptShares, ListSubmittedCollectiveOwnersForTranscript
<1>7. ListSharesByTranscriptIDs(Transcripts) =
         {p \in Groups \X Transcripts : Latest(p[1], p[2]) = "approved"}
  <2>1. \A p \in Groups \X Transcripts : shares[p[1]][p[2]] = "approved" <=> Latest(p[1], p[2]) = "approved"
    BY <1>1, RowIsLatest
  <2> QED BY <2>1 DEF ListSharesByTranscriptIDs
<1>8. ASSUME NEW u \in Users
      PROVE  /\ DOMAIN ListOwnerCollectiveContributions(u) =
                   {g \in Groups : ListMyCollectiveSubmissions(g, u) # Refused}
             /\ \A g \in DOMAIN ListOwnerCollectiveContributions(u) :
                   LET counted == ListOwnerCollectiveContributions(u)[g]
                   IN  counted.approved = Cardinality(Stands(g, "approved") \cap Owned(u))
                       /\ counted.pending = Cardinality(Stands(g, "pending") \cap Owned(u))
  <2> DEFINE D == {g \in Groups : \E t \in Owned(u) : attempts[g][t] # <<>>}
  <2>1. DOMAIN ListOwnerCollectiveContributions(u) = D
    BY DEF ListOwnerCollectiveContributions
  <2>2. \A g \in Groups : ListMyCollectiveSubmissions(g, u) # Refused
                             <=> \E t \in Owned(u) : attempts[g][t] # <<>>
    BY SubmissionsAre
  <2>3. ASSUME NEW g \in D
        PROVE  /\ ListOwnerCollectiveContributions(u)[g].approved =
                     Cardinality({t \in Owned(u) : attempts[g][t] # <<>> /\ shares[g][t] = "approved"})
               /\ ListOwnerCollectiveContributions(u)[g].pending =
                     Cardinality({t \in Owned(u) : attempts[g][t] # <<>> /\ shares[g][t] = "pending"})
    BY DEF ListOwnerCollectiveContributions
  <2>4. ASSUME NEW g \in Groups, NEW s \in ShareRows
        PROVE  {t \in Owned(u) : attempts[g][t] # <<>> /\ shares[g][t] = s} = Stands(g, s) \cap Owned(u)
    <3>1. \A t \in Owned(u) : /\ t \in Transcripts
                              /\ (attempts[g][t] # <<>> /\ shares[g][t] = s) <=> Latest(g, t) = s
      <4> SUFFICES ASSUME NEW t \in Owned(u)
                   PROVE  /\ t \in Transcripts
                          /\ (attempts[g][t] # <<>> /\ shares[g][t] = s) <=> Latest(g, t) = s
        OBVIOUS
      <4>1. t \in Transcripts /\ s # None
        BY DEF Owned, ShareRows, Statuses
      <4> QED BY <4>1, RowIsLatest
    <3> QED BY <3>1 DEF Stands
  <2> QED BY <1>1, <2>1, <2>2, <2>3, <2>4
<1> QED
  <2>1. ASSUME NEW g \in Groups, NEW v \in Users
        PROVE  ListUserSharesInGroup(g, v) =
                  {t \in Transcripts : OwnerOf[t] = v /\ Latest(g, t) \in ShareRows}
    BY UserSharesAre
  <2> QED BY <1>2, <1>3, <1>4, <1>5, <1>6, <1>7, <1>8, <2>1, Zenon DEF ReadsFollowLedger


------------------------------------------------------------------------------
(* The four grouped lists, each as the set its arm of the query selects. *)
LEMMA GroupedAre ==
    ASSUME SharingInv, NEW g \in Groups, NEW v \in Users, group[g] # Nobody, NEW access
    PROVE  /\ ListCollectiveGroupedCandidates("my-shares", g, v, access) = ListUserSharesInGroup(g, v)
           /\ OwnerAccess(g, v) =>
                 ListCollectiveGroupedCandidates("pending", g, v, access) = WithStatus(g, "pending")
           /\ access \in Access /\ canReadData(RoleOf(g, v), access) =>
                 ListCollectiveGroupedCandidates("collective", g, v, access) = WithStatus(g, "approved")
           /\ member[g][v] # Nobody =>
                 ListCollectiveGroupedCandidates("contributable", g, v, access) =
                    {t \in Owned(v) : ~IsLive(attempts[g][t])}
<1>1. ListCollectiveGroupedCandidates("my-shares", g, v, access) = ListUserSharesInGroup(g, v)
  BY DEF ListCollectiveGroupedCandidates, ListUserSharesInGroup
<1>2. OwnerAccess(g, v) =>
         ListCollectiveGroupedCandidates("pending", g, v, access) = WithStatus(g, "pending")
  BY DEF ListCollectiveGroupedCandidates, WithStatus
<1>3. ASSUME access \in Access, canReadData(RoleOf(g, v), access)
      PROVE  ListCollectiveGroupedCandidates("collective", g, v, access) = WithStatus(g, "approved")
  <2>1. \/ access = "public"
        \/ access = "contributors" /\ AcceptedRole(g, v)
        \/ access = "members_only" /\ RoleOf(g, v) \in {"member", "owner"}
    BY <1>3, CanReadIs DEF Access, AcceptedRole
  <2> QED BY <2>1 DEF ListCollectiveGroupedCandidates, WithStatus
<1>4. member[g][v] # Nobody =>
         ListCollectiveGroupedCandidates("contributable", g, v, access) =
            {t \in Owned(v) : ~IsLive(attempts[g][t])}
  BY DEF ListCollectiveGroupedCandidates, Owned
<1> QED BY <1>1, <1>2, <1>3, <1>4

(* Who may ask for each grouped list, by cases. *)
LEMMA GroupedAccessIs ==
    ASSUME NEW g, NEW v
    PROVE  /\ collectiveGroupedAccess("my-shares", g, v) <=> group[g] # Nobody
           /\ collectiveGroupedAccess("collective", g, v) <=> group[g] # Nobody
           /\ collectiveGroupedAccess("pending", g, v) <=> OwnerAccess(g, v)
           /\ collectiveGroupedAccess("contributable", g, v) => RoleOf(g, v) # "" /\ group[g] # Nobody
<1>1. /\ collectiveGroupedAccess("my-shares", g, v) <=> group[g] # Nobody
      /\ collectiveGroupedAccess("collective", g, v) <=> group[g] # Nobody
  BY DEF collectiveGroupedAccess
<1>2. collectiveGroupedAccess("pending", g, v) <=> OwnerAccess(g, v)
  BY DEF collectiveGroupedAccess
<1>3. collectiveGroupedAccess("contributable", g, v) => RoleOf(g, v) # "" /\ group[g] # Nobody
  BY DEF collectiveGroupedAccess
<1> QED BY <1>1, <1>2, <1>3

(* What a person may still contribute: the flat list with its flags, and the
   grouped one without. *)
LEMMA ContributableAgree ==
    ASSUME SharingInv, NEW g \in Groups, NEW v \in Users,
           resolveCollectiveGroupedScope("contributable", g, v, "public") # Refused
    PROVE  /\ ListContributable(g, v) # Refused
           /\ resolveCollectiveGroupedScope("contributable", g, v, "public")
                 = {p[1] : p \in {p \in ListContributable(g, v) : ~p[2]}}
<1>1. RoleOf(g, v) # "" /\ group[g] # Nobody
  BY GroupedAccessIs DEF resolveCollectiveGroupedScope
<1>2. member[g][v] # Nobody
  BY <1>1 DEF RoleOf
<1>3. resolveCollectiveGroupedScope("contributable", g, v, "public") =
         {t \in Owned(v) : ~IsLive(attempts[g][t])}
  BY <1>1, <1>2, GroupedAre DEF resolveCollectiveGroupedScope
<1> DEFINE rows == {<<t, IsLive(attempts[g][t])>> : t \in Owned(v)}
<1>4. ListContributable(g, v) = rows
  BY <1>2 DEF ListContributable, ListOwnerContributableTranscripts
<1>5. \A t \in Owned(v) : t \in Transcripts /\ IsLive(attempts[g][t]) \in BOOLEAN
  BY DEF Owned, IsLive, shareAttemptIsLive
<1>6. rows # Refused
  <2>1. rows \in SUBSET (Transcripts \X BOOLEAN)
    BY <1>5
  <2> QED BY <2>1, RefusedAssumption
<1>7. {p[1] : p \in {p \in rows : ~p[2]}} = {t \in Owned(v) : ~IsLive(attempts[g][t])}
  <2>1. ASSUME NEW p \in rows, ~p[2] PROVE p[1] \in {t \in Owned(v) : ~IsLive(attempts[g][t])}
    <3>1. PICK t \in Owned(v) : p = <<t, IsLive(attempts[g][t])>>
      OBVIOUS
    <3>2. p[1] = t /\ p[2] = IsLive(attempts[g][t])
      BY <3>1
    <3> QED BY <2>1, <3>2
  <2>2. ASSUME NEW t \in Owned(v), ~IsLive(attempts[g][t])
        PROVE  t \in {p[1] : p \in {p \in rows : ~p[2]}}
    <3> DEFINE q == <<t, IsLive(attempts[g][t])>>
    <3>1. q \in rows /\ q[1] = t /\ ~q[2]
      BY <2>2
    <3> HIDE DEF q, rows
    <3> QED BY <3>1
  <2> HIDE DEF rows
  <2> QED BY <2>1, <2>2
<1> HIDE DEF rows
<1> QED BY <1>3, <1>4, <1>6, <1>7

(* The collectives shown beside one transcript and beside a page of them. *)
LEMMA ShownAgree ==
    ASSUME NEW v \in Users, NEW t \in Transcripts, NEW access, NEW listed
    PROVE  ListTranscriptCollectivesForViewer(t, v, access, listed) =
              {p[1] : p \in ListTranscriptsCollectivesForViewer({t}, v, access, listed)}
<1> DEFINE rows == ListTranscriptsCollectivesForViewer({t}, v, access, listed)
           flat == ListTranscriptCollectivesForViewer(t, v, access, listed)
<1>1. \A g \in Groups : g \in flat <=> <<g, t>> \in rows
  BY DEF ListTranscriptCollectivesForViewer, ListTranscriptsCollectivesForViewer
<1>2. flat \subseteq Groups
  BY DEF ListTranscriptCollectivesForViewer
<1>3. \A p \in rows : p[1] \in Groups /\ p = <<p[1], t>>
  BY DEF ListTranscriptsCollectivesForViewer
<1> HIDE DEF rows, flat
<1>4. ASSUME NEW g \in flat PROVE g \in {p[1] : p \in rows}
  <2> DEFINE q == <<g, t>>
  <2>1. q \in rows /\ q[1] = g
    BY <1>1, <1>2
  <2> HIDE DEF q
  <2> QED BY <2>1
<1>5. ASSUME NEW p \in rows PROVE p[1] \in flat
  BY <1>1, <1>3
<1>6. flat = {p[1] : p \in rows}
  BY <1>4, <1>5
<1> QED BY <1>6 DEF rows, flat

(* Every directory counts what the collective's page would list. *)
LEMMA DirectoriesCount ==
    ASSUME NEW v, NEW access,
           NEW row \in ListVisibleGroups(v, access) \union ListUserGroups(v)
                          \union SearchCollectives(v, access) \union ListAllGroups
    PROVE  row[3] = Cardinality(ListGroupTranscripts(row[1]))
<1>1. \E g \in Groups : \E n : row = <<g, n, Holding(g)>>
  BY DEF ListVisibleGroups, ListUserGroups, SearchCollectives, ListAllGroups
<1>2. PICK g \in Groups : \E n : row = <<g, n, Holding(g)>>
  BY <1>1
<1>3. row[3] = Holding(g) /\ row[1] = g
  BY <1>2
<1> QED BY <1>3 DEF Holding, ListGroupTranscripts

(* A project's roll-up counts an owner's transcripts on the collective's page. *)
LEMMA RollupCounts ==
    ASSUME SharingInv, NEW u \in Users, NEW v \in Users, NEW access, NEW listed,
           NEW g \in DOMAIN ListProjectCollectiveRollup(u, v, access, listed)
    PROVE  ListProjectCollectiveRollup(u, v, access, listed)[g]
              = Cardinality({t \in ListGroupTranscripts(g) : OwnerOf[t] = u})
<1>1. ListProjectCollectiveRollup(u, v, access, listed)[g]
         = Cardinality({t \in Owned(u) : shares[g][t] = "approved"})
  BY DEF ListProjectCollectiveRollup
<1>2. {t \in Owned(u) : shares[g][t] = "approved"} = {t \in ListGroupTranscripts(g) : OwnerOf[t] = u}
  BY DEF Owned, ListGroupTranscripts, WithStatus
<1> QED BY <1>1, <1>2

(* The flat and the grouped form of a route agree. *)
LEMMA RoutesRead == ASSUME SharingInv PROVE RoutesAgree
<1>1. ASSUME NEW g \in Groups, NEW v \in Users, group[g] # Nobody
      PROVE  /\ resolveCollectiveGroupedScope("my-shares", g, v, "public") = ListMyGroupShares(g, v)
             /\ resolveCollectiveGroupedScope("pending", g, v, "public") = ListPendingShares(g, v)
  BY <1>1, GroupedAre, GroupedAccessIs
     DEF resolveCollectiveGroupedScope, ListMyGroupShares, ListPendingShares, ListPendingGroupShares
<1>2. ASSUME NEW g \in Groups, NEW v \in Users, group[g] # Nobody, NEW access \in Access
      PROVE  IF canReadData(RoleOf(g, v), access)
             THEN resolveCollectiveGroupedScope("collective", g, v, access) = GetGroup(g, v, access)
             ELSE GetGroup(g, v, access) = {}
  <2>1. CASE canReadData(RoleOf(g, v), access)
    <3>1. GetGroup(g, v, access) = WithStatus(g, "approved")
      BY <1>2, <2>1 DEF GetGroup, ListGroupTranscripts
    <3>2. resolveCollectiveGroupedScope("collective", g, v, access) = WithStatus(g, "approved")
      BY <1>2, <2>1, GroupedAre, GroupedAccessIs DEF resolveCollectiveGroupedScope
    <3> QED BY <2>1, <3>1, <3>2
  <2>2. CASE ~canReadData(RoleOf(g, v), access)
    BY <1>2, <2>2 DEF GetGroup
  <2> QED BY <2>1, <2>2
<1>3. ASSUME NEW v \in Users, NEW access, NEW t \in Transcripts,
             ListTranscriptCollectives(t, v, access, Users) # Refused,
             NEW g \in ListTranscriptCollectives(t, v, access, Users)
      PROVE  t \in ListGroupTranscripts(g)
  BY <1>3 DEF ListTranscriptCollectives, ListTranscriptCollectivesForViewer, ListGroupTranscripts, WithStatus
<1>4. ASSUME NEW g \in Groups, NEW v \in Users
      PROVE  /\ group[g] # Nobody =>
                /\ resolveCollectiveGroupedScope("my-shares", g, v, "public") = ListMyGroupShares(g, v)
                /\ resolveCollectiveGroupedScope("pending", g, v, "public") = ListPendingShares(g, v)
                /\ \A access \in Access :
                      IF canReadData(RoleOf(g, v), access)
                      THEN resolveCollectiveGroupedScope("collective", g, v, access) = GetGroup(g, v, access)
                      ELSE GetGroup(g, v, access) = {}
             /\ LET grouped == resolveCollectiveGroupedScope("contributable", g, v, "public")
                IN  grouped # Refused =>
                       /\ ListContributable(g, v) # Refused
                       /\ grouped = {p[1] : p \in {p \in ListContributable(g, v) : ~p[2]}}
  BY <1>1, <1>2, ContributableAgree
<1>5. ASSUME NEW v \in Users, NEW access \in {"members_only", "public"}
      PROVE  /\ \A t \in Transcripts :
                   LET shown == ListTranscriptCollectives(t, v, access, Users)
                   IN  /\ shown # Refused => \A g \in shown : t \in ListGroupTranscripts(g)
                       /\ ListTranscriptCollectivesForViewer(t, v, access, {}) =
                             {p[1] : p \in ListTranscriptsCollectivesForViewer({t}, v, access, {})}
             /\ \A row \in ListVisibleGroups(v, access) \union ListUserGroups(v)
                             \union SearchCollectives(v, access) \union ListAllGroups :
                   row[3] = Cardinality(ListGroupTranscripts(row[1]))
             /\ \A u \in Users :
                   LET rollup == ListProjectCollectiveRollup(u, v, access, Users)
                   IN  \A g \in DOMAIN rollup :
                          rollup[g] = Cardinality({t \in ListGroupTranscripts(g) : OwnerOf[t] = u})
  <2>1. ASSUME NEW t \in Transcripts
        PROVE  LET shown == ListTranscriptCollectives(t, v, access, Users)
               IN  /\ shown # Refused => \A g \in shown : t \in ListGroupTranscripts(g)
                   /\ ListTranscriptCollectivesForViewer(t, v, access, {}) =
                         {p[1] : p \in ListTranscriptsCollectivesForViewer({t}, v, access, {})}
    BY <1>3, ShownAgree
  <2>2. \A row \in ListVisibleGroups(v, access) \union ListUserGroups(v)
                      \union SearchCollectives(v, access) \union ListAllGroups :
           row[3] = Cardinality(ListGroupTranscripts(row[1]))
    BY DirectoriesCount
  <2>3. \A u \in Users :
           LET rollup == ListProjectCollectiveRollup(u, v, access, Users)
           IN  \A g \in DOMAIN rollup :
                  rollup[g] = Cardinality({t \in ListGroupTranscripts(g) : OwnerOf[t] = u})
    BY RollupCounts
  <2> QED BY <2>1, <2>2, <2>3
<1> QED BY <1>4, <1>5, Zenon DEF RoutesAgree


------------------------------------------------------------------------------
(* A membership that is no join request is an accepted one. *)
LEMMA MemberAccepted ==
    ASSUME SharingInv, NEW g \in Groups, NEW v \in Users,
           member[g][v] # Nobody, RoleOf(g, v) # "pending"
    PROVE  AcceptedRole(g, v)
<1>1. member[g][v] \in Membership
  BY DEF SharingInv, PeopleInv, PeopleTypeOK
<1>2. RoleOf(g, v) \in Roles
  BY <1>1 DEF RoleOf, Membership
<1> QED BY <1>2 DEF AcceptedRole, Roles

(* The read policy over a page selects what the read policy of one transcript
   admits. *)
LEMMA ReadableIs ==
    ASSUME NEW v \in Users, NEW ts \in SUBSET Transcripts
    PROVE  ListReadableTranscriptIDs(ts, v) = {t \in ts \cap Present : transcriptViewAccess(v, t)}
<1>1. \A g \in Groups : canReadData(RoleOf(g, v), "contributors") <=> AcceptedRole(g, v)
  BY CanReadIs DEF AcceptedRole
<1>2. ASSUME NEW t \in ts
      PROVE  (\/ vis[t] = "public"
              \/ OwnerOf[t] = v
              \/ /\ vis[t] = "shared"
                 /\ \E g \in Groups : shares[g][t] = "approved" /\ AcceptedRole(g, v)
              \/ \E g \in Groups : shares[g][t] # None /\ OwnerAccess(g, v))
             <=> transcriptViewAccess(v, t)
  BY <1>1 DEF transcriptViewAccess, ListApprovedTranscriptShareGroups, ListGroupOwnersForTranscript
<1> QED BY <1>2 DEF ListReadableTranscriptIDs

(* Who is shown when everybody is discoverable. *)
LEMMA EverybodyShown ==
    ASSUME NEW v \in Users, NEW people \in SUBSET Users
    PROVE  resolvePublicOwners(v, people, Users) = people
  BY DEF resolvePublicOwners, ListPublicOwnersForViewer

(* The project page and the discovery list filtered by its owner. *)
LEMMA ProjectsAgree ==
    ASSUME NEW v \in Users, NEW u \in Users, GetUserProject(u, v, Users) # Refused
    PROVE  GetUserProject(u, v, Users)
              = {p[1] : p \in resolveGroupedTranscripts(v, {u}, FALSE, Users)}
<1> DEFINE mine == {t \in Present : OwnerOf[t] = u /\ Discoverable(t, v)}
<1>1. GetUserProject(u, v, Users) = mine
  BY DEF GetUserProject, ListProjectTranscriptsForViewer
<1>2. {u} # None
  BY FilterAssumption
<1>3. resolveOwnerFilter(v, {u}, FALSE, Users) = {u}
  <2>1. resolveOwnerFilter(v, {u}, FALSE, Users) = resolvePublicOwners(v, {u} \cap Users, Users)
    BY <1>2 DEF resolveOwnerFilter
  <2>2. {u} \cap Users = {u}
    OBVIOUS
  <2> QED BY <2>1, <2>2, EverybodyShown
<1>4. ListGroupedTranscriptCandidates(v, {u}) = mine
  BY <1>2 DEF ListGroupedTranscriptCandidates
<1> DEFINE shown == resolvePublicOwners(v, {OwnerOf[t] : t \in mine}, Users)
           rows == {<<t, OwnerOf[t] \in shown>> : t \in mine}
<1>5. resolveGroupedTranscripts(v, {u}, FALSE, Users) = rows
  BY <1>3, <1>4 DEF resolveGroupedTranscripts
<1> HIDE DEF mine, shown
<1>6. {p[1] : p \in rows} = mine
  <2>1. ASSUME NEW p \in rows PROVE p[1] \in mine
    OBVIOUS
  <2>2. ASSUME NEW t \in mine PROVE t \in {p[1] : p \in rows}
    <3> DEFINE q == <<t, OwnerOf[t] \in shown>>
    <3>1. q \in rows /\ q[1] = t
      OBVIOUS
    <3> HIDE DEF q, rows
    <3> QED BY <3>1
  <2> HIDE DEF rows
  <2> QED BY <2>1, <2>2
<1> HIDE DEF rows
<1> QED BY <1>1, <1>5, <1>6

(* The pull list, its total, its skip gate, its collective filter and the check of
   a single pull. *)
LEMMA PullsAgree ==
    ASSUME SharingInv, NEW v \in Users, NEW pulled, pulled = {t \in Transcripts : lookupPullable(v, t)}
    PROVE  /\ ListPullablePage(v, {}) = [rows |-> pulled, total |-> Cardinality(pulled)]
           /\ PullSkipGate(v, Transcripts) = pulled
           /\ \A g \in Groups : LET page == ListPullablePage(v, {g})
                                IN  page.rows \subseteq pulled
                                    /\ page.total = Cardinality(page.rows)
           /\ LeftoverRequest(v) \/ \A t \in pulled : transcriptViewAccess(v, t)
<1>1. pulled = {t \in Present : OwnerOf[t] = v \/ t \in SharedWith(v, Groups)}
  BY DEF lookupPullable, canPullTranscript, SharedWith, Present, ListApprovedTranscriptShareGroups,
         GetGroupMember
<1>2. ListPullableTranscripts(v) = pulled
  <2>1. SharedWith(v, Groups) \subseteq Present
    BY DEF SharedWith
  <2> QED BY <1>1, <2>1 DEF ListPullableTranscripts
<1>3. ListPullablePage(v, {}) = [rows |-> pulled, total |-> Cardinality(pulled)]
  BY <1>1, <1>2 DEF ListPullablePage, CountPullableTranscripts
<1>4. PullSkipGate(v, Transcripts) = pulled
  BY <1>1 DEF PullSkipGate, ListPullableTranscriptsByIDs, Present
<1>5. ASSUME NEW g \in Groups
      PROVE  LET page == ListPullablePage(v, {g})
             IN  page.rows \subseteq pulled /\ page.total = Cardinality(page.rows)
  <2>1. ListPullablePage(v, {g}) =
           [rows |-> SharedWith(v, {g}), total |-> Cardinality(SharedWith(v, {g}))]
    BY DEF ListPullablePage, ListPullableTranscriptsInCollective, CountPullableTranscriptsInCollective
  <2>2. SharedWith(v, {g}) \subseteq pulled
    BY <1>1 DEF SharedWith
  <2> QED BY <2>1, <2>2
<1>6. ASSUME ~LeftoverRequest(v), NEW t \in pulled PROVE transcriptViewAccess(v, t)
  <2>1. CASE OwnerOf[t] = v
    BY <2>1 DEF transcriptViewAccess
  <2>2. CASE t \in SharedWith(v, Groups)
    <3>1. PICK g \in Groups : shares[g][t] = "approved" /\ member[g][v] # Nobody
      BY <2>2 DEF SharedWith
    <3>2. vis[t] = "shared"
      BY <2>2 DEF SharedWith
    <3>3. AcceptedRole(g, v)
      BY <1>6, <3>1, MemberAccepted DEF LeftoverRequest
    <3>4. canReadData(RoleOf(g, v), "contributors")
      BY <3>3, CanReadIs DEF AcceptedRole
    <3> QED BY <3>1, <3>2, <3>4 DEF transcriptViewAccess, ListApprovedTranscriptShareGroups
  <2> QED BY <1>1, <2>1, <2>2
<1> QED BY <1>3, <1>4, <1>5, <1>6

(* Each policy that is written twice decides the same. *)
LEMMA PoliciesRead == ASSUME SharingInv PROVE PoliciesAgree
<1> SUFFICES ASSUME NEW v \in Users
             PROVE
          /\ ListReadableTranscriptIDs(Transcripts, v) =
                {t \in Present : transcriptViewAccess(v, t)}
          /\ \A u \in Users : GetUserProject(u, v, Users) # Refused =>
                GetUserProject(u, v, Users)
                    = {p[1] : p \in resolveGroupedTranscripts(v, {u}, FALSE, Users)}
          /\ LET pulled == {t \in Transcripts : lookupPullable(v, t)}
             IN  /\ ListPullablePage(v, {}) = [rows |-> pulled, total |-> Cardinality(pulled)]
                 /\ PullSkipGate(v, Transcripts) = pulled
                 /\ \A g \in Groups : LET page == ListPullablePage(v, {g})
                                      IN  page.rows \subseteq pulled
                                          /\ page.total = Cardinality(page.rows)
                 /\ LeftoverRequest(v) \/ \A t \in pulled : transcriptViewAccess(v, t)
          /\ \A t, p \in Present :
                t \in resolveParentTranscripts(v, [c \in {t} |-> p]) => transcriptViewAccess(v, p)
  BY Zenon DEF PoliciesAgree
<1>1. ListReadableTranscriptIDs(Transcripts, v) = {t \in Present : transcriptViewAccess(v, t)}
  <2>1. Transcripts \cap Present = Present
    BY DEF Present
  <2> QED BY <2>1, ReadableIs
<1>2. \A u \in Users : GetUserProject(u, v, Users) # Refused =>
         GetUserProject(u, v, Users)
            = {p[1] : p \in resolveGroupedTranscripts(v, {u}, FALSE, Users)}
  BY ProjectsAgree
<1>3. LET pulled == {t \in Transcripts : lookupPullable(v, t)}
      IN  /\ ListPullablePage(v, {}) = [rows |-> pulled, total |-> Cardinality(pulled)]
          /\ PullSkipGate(v, Transcripts) = pulled
          /\ \A g \in Groups : LET page == ListPullablePage(v, {g})
                               IN  page.rows \subseteq pulled
                                   /\ page.total = Cardinality(page.rows)
          /\ LeftoverRequest(v) \/ \A t \in pulled : transcriptViewAccess(v, t)
  BY PullsAgree
<1>4. ASSUME NEW t \in Present, NEW p \in Present,
             t \in resolveParentTranscripts(v, [c \in {t} |-> p])
      PROVE  transcriptViewAccess(v, p)
  <2>1. p \in ListReadableTranscriptIDs(Present, v)
    BY <1>4 DEF resolveParentTranscripts
  <2>2. Present \in SUBSET Transcripts
    BY DEF Present
  <2> QED BY <2>1, <2>2, ReadableIs
<1> QED BY <1>1, <1>2, <1>3, <1>4, Zenon

(* In every reachable state all the reads tell the same story: they follow the
   ledgers, the flat and grouped routes agree, and so do the two forms of each
   policy. *)
THEOREM ReadsTellOneStory == Spec => []ReadsAgree
<1>1. SharingInv => ReadsAgree
  BY LedgerRead, RoutesRead, PoliciesRead DEF ReadsAgree
<1> QED BY <1>1, SharingInvariant, PTL
=============================================================================
