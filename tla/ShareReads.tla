----------------------------- MODULE ShareReads -----------------------------
(***************************************************************************)
(* What the collectives' pages, listings and access checks read.  Some     *)
(* statements read the ledger of attempts and some the row derived from    *)
(* it; some routes have a flat and a grouped form with statements of their *)
(* own.  data_access and is_discoverable are set by nothing modelled here, *)
(* so a read takes the access policy and the set of discoverable people as *)
(* parameters and the properties quantify over them.                       *)
(***************************************************************************)
EXTENDS Sharing

Access == {"members_only", "contributors", "public"}

canReadData(role, access) ==
    CASE access = "public"       -> TRUE
      [] access = "contributors" -> role \in {"contributor", "member", "owner"}
      [] OTHER                   -> role \in {"member", "owner"}

(* The collective visibility rule that every directory query repeats. *)
CanSeeGroup(g, v, access) ==
    /\ group[g] # Nobody
    /\ access = "public" \/ group[g].mode = "open" \/ member[g][v] # Nobody

------------------------------------------------------------------------------
(* Statements over transcript_shares. *)
WithStatus(g, status) == {t \in Transcripts : vis[t] # None /\ shares[g][t] = status}

ListGroupTranscripts(g) == WithStatus(g, "approved")

GetGroupTranscriptStats(g) ==
    [total |-> Cardinality(WithStatus(g, "approved")),
     contributors |-> Cardinality({OwnerOf[t] : t \in WithStatus(g, "approved")})]

(* One row per person with an accepted transcript: the person themselves and the
   collective's owners see those who are not discoverable. *)
ListGroupContributors(g, v, ownerView, listed) ==
    {u \in {OwnerOf[t] : t \in WithStatus(g, "approved")} : u \in listed \/ ownerView \/ u = v}

ListGroupModelBreakdown(g) == Cardinality(WithStatus(g, "approved"))

ListPendingGroupShares(g) == WithStatus(g, "pending")

ListUserSharesInGroup(g, u) ==
    {t \in Transcripts : vis[t] # None /\ OwnerOf[t] = u /\ shares[g][t] # None}

ListTranscriptShares(t) == {g \in Groups : shares[g][t] # None}

ListSharesByTranscriptIDs(ts) == {p \in Groups \X ts : shares[p[1]][p[2]] = "approved"}

ListApprovedTranscriptShareGroups(t) == {g \in Groups : shares[g][t] = "approved"}

ListGroupOwnersForTranscript(t) ==
    {u \in Users : \E g \in Groups : shares[g][t] # None /\ OwnerAccess(g, u)}

ListSubmittedCollectiveOwnersForTranscript(t) ==
    {u \in Users : \E g \in Groups : shares[g][t] \in {"pending", "approved"} /\ OwnerAccess(g, u)}

(* Statements over transcript_share_attempts. *)
ListShareAttempts(g, t) == attempts[g][t]

ListOwnerCollectiveSubmissions(g, u) ==
    {<<t, GetLatestShareAttempt(attempts[g][t])>> :
        t \in {t \in Owned(u) : attempts[g][t] # <<>>}}

ListOwnerContributableTranscripts(g, u) ==
    {<<t, IsLive(attempts[g][t])>> : t \in Owned(u)}

EventsOf(g, u, wanted) ==
    {p \in Owned(u) \X (1..MaxEvents) :
        p[2] \in DOMAIN attempts[g][p[1]] /\ attempts[g][p[1]][p[2]] \in wanted}

(* The ledger joined with the derived row: accepted and open transcripts are
   counted once each, refusals and withdrawals once per event. *)
ListOwnerCollectiveContributions(u) ==
    [g \in {g \in Groups : \E t \in Owned(u) : attempts[g][t] # <<>>} |->
        [approved  |-> Cardinality({t \in Owned(u) : attempts[g][t] # <<>> /\ shares[g][t] = "approved"}),
         pending   |-> Cardinality({t \in Owned(u) : attempts[g][t] # <<>> /\ shares[g][t] = "pending"}),
         rejected  |-> Cardinality(EventsOf(g, u, {"rejected"})),
         withdrawn |-> Cardinality(EventsOf(g, u, {"retracted", "revoked"}))]]

(* Directory queries: a collective and how many transcripts it holds. *)
Holding(g) == Cardinality(WithStatus(g, "approved"))

(* Everybody with a row of group_members counts here, join requests too. *)
HeadCount(g) == Cardinality({u \in Users : member[g][u] # Nobody})

AcceptedCount(g) == Cardinality({u \in Users : AcceptedRole(g, u)})

ListAllGroups ==
    {<<g, HeadCount(g), Holding(g)>> : g \in {g \in Groups : group[g] # Nobody}}

ListVisibleGroups(v, access) ==
    {<<g, AcceptedCount(g), Holding(g)>> : g \in {g \in Groups : CanSeeGroup(g, v, access)}}

ListUserGroups(v) ==
    {<<g, AcceptedCount(g), Holding(g)>> : g \in {g \in Groups : member[g][v] # Nobody}}

SearchCollectives(v, access) ==
    {<<g, HeadCount(g), Holding(g)>> : g \in {g \in Groups : CanSeeGroup(g, v, access)}}

ListCollectivesByGitHubOrg(org, v, access) ==
    {<<g, HeadCount(g), Holding(g)>> :
        g \in {g \in Groups : CanSeeGroup(g, v, access) /\ group[g].linked = org}}

ListGroupMembers(g, v, ownerView, listed) ==
    {u \in Users : AcceptedRole(g, u) /\ (u \in listed \/ ownerView \/ u = v)}

ListGroupPendingMembers(g) == {u \in Users : RoleOf(g, u) = "pending"}

(* The collectives that hold a transcript, of those the viewer may see; none when
   its owner is not listed, except to the owner. *)
ListTranscriptCollectivesForViewer(t, v, access, listed) ==
    {g \in Groups : /\ shares[g][t] = "approved"
                    /\ OwnerOf[t] \in listed \/ v = OwnerOf[t]
                    /\ CanSeeGroup(g, v, access)}

ListTranscriptsCollectivesForViewer(ts, v, access, listed) ==
    {p \in Groups \X ts : /\ shares[p[1]][p[2]] = "approved"
                          /\ OwnerOf[p[2]] \in listed \/ v = OwnerOf[p[2]]
                          /\ CanSeeGroup(p[1], v, access)}

(* All of an owner's transcripts taken as one project. *)
ListProjectCollectiveRollup(u, v, access, listed) ==
    [g \in {g \in Groups : /\ u \in listed \/ v = u
                           /\ CanSeeGroup(g, v, access)
                           /\ \E t \in Owned(u) : shares[g][t] = "approved"} |->
        Cardinality({t \in Owned(u) : shares[g][t] = "approved"})]

------------------------------------------------------------------------------
(* Mutant: any member of a collective with a share row may read. *)
transcriptViewAccess_AnyShare(v, t) ==
    \/ vis[t] = "public"
    \/ v = OwnerOf[t]
    \/ /\ vis[t] = "shared"
       /\ \E g \in ListTranscriptShares(t) : canReadData(RoleOf(g, v), "contributors")
    \/ v \in ListGroupOwnersForTranscript(t)

(* The single read policy of a transcript. *)
transcriptViewAccess(v, t) ==
    \/ vis[t] = "public"
    \/ v = OwnerOf[t]
    \/ /\ vis[t] = "shared"
       /\ \E g \in ListApprovedTranscriptShareGroups(t) :
             canReadData(RoleOf(g, v), "contributors")
    \/ v \in ListGroupOwnersForTranscript(t)

(* One query serves the four grouped lists of a collective. *)
ListCollectiveGroupedCandidates(route, g, v, access) ==
    {t \in Transcripts :
        /\ vis[t] # None /\ group[g] # Nobody
        /\ \/ route = "collective" /\ shares[g][t] = "approved"
              /\ \/ access = "public"
                 \/ access = "contributors" /\ AcceptedRole(g, v)
                 \/ access = "members_only" /\ RoleOf(g, v) \in {"member", "owner"}
           \/ route = "pending" /\ shares[g][t] = "pending" /\ OwnerAccess(g, v)
           \/ route = "my-shares" /\ shares[g][t] # None /\ OwnerOf[t] = v
           \/ route = "contributable" /\ member[g][v] # Nobody /\ OwnerOf[t] = v
              /\ ~IsLive(attempts[g][t])}

Refused == None

(* A refusal is no answer, not even an empty one. *)
ASSUME RefusedAssumption ==
    /\ \A rows \in SUBSET (Transcripts \X Statuses) : rows # Refused
    /\ \A rows \in SUBSET (Transcripts \X BOOLEAN) : rows # Refused

(* Who may ask for each grouped list. *)
collectiveGroupedAccess(route, g, v) ==
    CASE route = "contributable" -> /\ RoleOf(g, v) # ""
                                    /\ group[g] # Nobody
                                    /\ shareStatusForGroup(g, v) # None
      [] route = "pending"       -> OwnerAccess(g, v)
      [] OTHER                   -> group[g] # Nobody

resolveCollectiveGroupedScope(route, g, v, access) ==
    IF /\ collectiveGroupedAccess(route, g, v)
       /\ route = "collective" => canReadData(RoleOf(g, v), access)
    THEN ListCollectiveGroupedCandidates(route, g, v, access)
    ELSE Refused

(* The flat routes. *)
GetGroup(g, v, access) ==
    IF group[g] = Nobody THEN Refused
    ELSE IF canReadData(RoleOf(g, v), access) THEN ListGroupTranscripts(g) ELSE {}

ListPendingShares(g, v) == IF OwnerAccess(g, v) THEN ListPendingGroupShares(g) ELSE Refused

ListMyGroupShares(g, v) == ListUserSharesInGroup(g, v)

ListContributable(g, v) ==
    IF member[g][v] = Nobody THEN Refused ELSE ListOwnerContributableTranscripts(g, v)

ListMyCollectiveSubmissions(g, v) ==
    LET rows == ListOwnerCollectiveSubmissions(g, v) IN IF rows = {} THEN Refused ELSE rows

(* Only the transcript's owner, who is told it does not exist otherwise. *)
ListShareEventHistory(g, t, v) ==
    IF vis[t] = None \/ v # OwnerOf[t] THEN Refused ELSE ListShareAttempts(g, t)

ListTranscriptCollectives(t, v, access, listed) ==
    IF vis[t] = None \/ ~transcriptViewAccess(v, t) THEN Refused
    ELSE ListTranscriptCollectivesForViewer(t, v, access, listed)

collectivePeopleFor(g, v, listed) ==
    LET ownerView == OwnerAccess(g, v)
    IN  [members      |-> ListGroupMembers(g, v, ownerView, listed),
         contributors |-> ListGroupContributors(g, v, ownerView, listed),
         pending      |-> IF ownerView THEN ListGroupPendingMembers(g) ELSE {}]

------------------------------------------------------------------------------
(* What the ledgers say, with no reference to the derived rows. *)
Latest(g, t) == GetLatestShareAttempt(attempts[g][t])

Stands(g, status) == {t \in Transcripts : Latest(g, t) = status}

(* PROPERTY.  Every listing, count and roster shows exactly what the ledgers of
   attempts say now: the derived rows never lag behind the latest event of a pair,
   whichever statement wrote it and however many pairs it wrote at once
   (trg_derive_transcript_share), so an owner's submissions, a collective's data,
   its review queue and its directory counts can never disagree. *)
ReadsFollowLedger ==
    /\ \A g \in Groups :
          /\ ListGroupTranscripts(g) = Stands(g, "approved")
          /\ ListPendingGroupShares(g) = Stands(g, "pending")
          /\ GetGroupTranscriptStats(g) =
                [total |-> Cardinality(Stands(g, "approved")),
                 contributors |-> Cardinality({OwnerOf[t] : t \in Stands(g, "approved")})]
          /\ ListGroupModelBreakdown(g) = Cardinality(Stands(g, "approved"))
          /\ \A v \in Users :
                /\ ListUserSharesInGroup(g, v) =
                      {t \in Transcripts : OwnerOf[t] = v /\ Latest(g, t) \in ShareRows}
                /\ ListMyCollectiveSubmissions(g, v) # Refused =>
                      {p[1] : p \in {p \in ListMyCollectiveSubmissions(g, v) : p[2] \in ShareRows}}
                          = ListMyGroupShares(g, v)
                /\ \A listed \in {{}, Users} :
                      collectivePeopleFor(g, v, listed).contributors =
                          {u \in Users : /\ \E t \in Stands(g, "approved") : OwnerOf[t] = u
                                         /\ u \in listed \/ OwnerAccess(g, v) \/ u = v}
    /\ \A t \in Transcripts :
          /\ ListTranscriptShares(t) = {g \in Groups : Latest(g, t) \in ShareRows}
          /\ ListSubmittedCollectiveOwnersForTranscript(t) =
                {u \in Users : \E g \in Groups : IsLive(attempts[g][t]) /\ OwnerAccess(g, u)}
    /\ ListSharesByTranscriptIDs(Transcripts) =
          {p \in Groups \X Transcripts : Latest(p[1], p[2]) = "approved"}
    /\ \A u \in Users :
          /\ DOMAIN ListOwnerCollectiveContributions(u) =
                {g \in Groups : ListMyCollectiveSubmissions(g, u) # Refused}
          /\ \A g \in DOMAIN ListOwnerCollectiveContributions(u) :
                LET counted == ListOwnerCollectiveContributions(u)[g]
                IN  counted.approved = Cardinality(Stands(g, "approved") \cap Owned(u))
                    /\ counted.pending = Cardinality(Stands(g, "pending") \cap Owned(u))

(* PROPERTY.  The flat and the grouped form of the same list show a person the
   same transcripts, though each has its own query and its own access rule, and
   every directory counts the transcripts the collective's page would list. *)
RoutesAgree ==
    /\ \A g \in Groups, v \in Users :
          /\ group[g] # Nobody =>
                /\ resolveCollectiveGroupedScope("my-shares", g, v, "public") = ListMyGroupShares(g, v)
                /\ resolveCollectiveGroupedScope("pending", g, v, "public") = ListPendingShares(g, v)
                /\ \A access \in Access :
                      IF canReadData(RoleOf(g, v), access)
                      THEN resolveCollectiveGroupedScope("collective", g, v, access) = GetGroup(g, v, access)
                      ELSE GetGroup(g, v, access) = {}
          /\ LET grouped == resolveCollectiveGroupedScope("contributable", g, v, "public")
             IN  grouped # Refused =>
                    /\ ListContributable(g, v) # Refused
                    /\ grouped = {p[1] : p \in {p \in ListContributable(g, v) : ~p[2]}}
    /\ \A v \in Users, access \in {"members_only", "public"} :
          /\ \A t \in Transcripts :
                LET shown == ListTranscriptCollectives(t, v, access, Users)
                IN  /\ shown # Refused => \A g \in shown : t \in ListGroupTranscripts(g)
                    /\ ListTranscriptCollectivesForViewer(t, v, access, {}) =
                          {p[1] : p \in ListTranscriptsCollectivesForViewer({t}, v, access, {})}
          /\ \A row \in ListVisibleGroups(v, access) \union ListUserGroups(v)
                          \union SearchCollectives(v, access) \union ListAllGroups :
                row[3] = Cardinality(ListGroupTranscripts(row[1]))
          /\ \A u \in Users :
                LET rollup == ListProjectCollectiveRollup(u, v, access, Users)
                IN  \A g \in DOMAIN rollup :
                       rollup[g] = Cardinality({t \in ListGroupTranscripts(g) : OwnerOf[t] = u})

(* PROPERTY.  Somebody else's transcript that is not public is shown to a person
   only through a collective that holds it now: to its accepted members once it is
   accepted, and before or instead of that to its owners alone.  A withdrawal, a
   removal, a departure or a deletion ends it at once (transcriptViewAccess). *)
ReadersEntitled ==
    \A v \in Users, t \in Transcripts :
        (transcriptViewAccess(v, t) /\ v # OwnerOf[t] /\ vis[t] # "public") =>
            \E g \in Groups :
                \/ Latest(g, t) = "approved" /\ vis[t] = "shared" /\ AcceptedRole(g, v)
                \/ Latest(g, t) \in ShareRows /\ OwnerAccess(g, v)
=============================================================================
