---------------------------- MODULE ReadPolicies ----------------------------
(***************************************************************************)
(* Who may open, list, pull and be named.  The web read policy, the        *)
(* discovery lists, the pull routes of the command-line client and the     *)
(* stored publish metadata each decide for themselves, some of them twice: *)
(* once for one transcript and once as a predicate over a page.  listed is *)
(* the set of discoverable people, a parameter as in ShareReads.           *)
(***************************************************************************)
EXTENDS ShareReads

Present == {t \in Transcripts : vis[t] # None}

(* The read policy as one statement over a page. *)
ListReadableTranscriptIDs(ts, v) ==
    {t \in ts \cap Present :
        \/ vis[t] = "public"
        \/ OwnerOf[t] = v
        \/ /\ vis[t] = "shared"
           /\ \E g \in Groups : shares[g][t] = "approved" /\ AcceptedRole(g, v)
        \/ \E g \in Groups : shares[g][t] # None /\ OwnerAccess(g, v)}

(* The discovery lists ask less: any share and any membership. *)
Discoverable(t, v) ==
    \/ vis[t] = "public"
    \/ OwnerOf[t] = v
    \/ vis[t] = "shared" /\ \E g \in Groups : shares[g][t] # None /\ member[g][v] # Nobody

ListProjectTranscriptsForViewer(u, v) ==
    {t \in Present : OwnerOf[t] = u /\ Discoverable(t, v)}

(* owners is the account filter, None when the request names nobody. *)
ListGroupedTranscriptCandidates(v, owners) ==
    {t \in Present : Discoverable(t, v) /\ (owners # None => OwnerOf[t] \in owners)}

------------------------------------------------------------------------------
(* How a person is shown: an owner of a collective sees those who took an act of
   their own there, a membership they chose, a join request or a submission. *)
JoinedThemselves(g, u) ==
    /\ member[g][u] # Nobody
    /\ \/ member[g][u].origin \in {"creator", "self_join", "invitation"}
       \/ RoleOf(g, u) = "pending"

ActedIn(g, u) ==
    JoinedThemselves(g, u) \/ \E t \in Owned(u) : shares[g][t] \in {"pending", "approved"}

ListPublicOwnersForViewer(v, people, listed) ==
    {u \in people : \/ u \in listed
                    \/ u = v
                    \/ \E g \in Groups : OwnerAccess(g, v) /\ ActedIn(g, u)}

(* Whoever is not resolved as a profile is anonymous. *)
resolvePublicOwners(v, people, listed) == ListPublicOwnersForViewer(v, people, listed)

IsProfile(v, u, listed) == u \in resolvePublicOwners(v, {u}, listed)

(* No filter is not a filter that matches nobody. *)
ASSUME FilterAssumption == \A people \in SUBSET Users : people # None

(* The repository filters match only transcripts the viewer may read. *)
ListOwnersMatchingRepositoryFilter(v) ==
    {OwnerOf[t] : t \in ListReadableTranscriptIDs(Transcripts, v)}

(* named: the accounts the person and organization filters select, None without
   one.  A filter by somebody the viewer may not see matches nothing. *)
resolveOwnerFilter(v, named, repository, listed) ==
    IF named = None /\ ~repository THEN None
    ELSE LET byRepository == IF repository THEN ListOwnersMatchingRepositoryFilter(v) ELSE Users
             candidates == IF named = None THEN byRepository ELSE named \cap byRepository
         IN  resolvePublicOwners(v, candidates, listed)

resolveGroupedTranscripts(v, named, repository, listed) ==
    LET rows == ListGroupedTranscriptCandidates(v, resolveOwnerFilter(v, named, repository, listed))
        shown == resolvePublicOwners(v, {OwnerOf[t] : t \in rows}, listed)
    IN  {<<t, OwnerOf[t] \in shown>> : t \in rows}

CountOwnerTranscriptsInProject(u) == Cardinality(Owned(u))

(* A person who is not discoverable has a project page for themselves only. *)
GetUserProject(u, v, listed) ==
    IF (u \notin listed /\ u # v) \/ CountOwnerTranscriptsInProject(u) = 0 THEN Refused
    ELSE ListProjectTranscriptsForViewer(u, v)

(* The parent a page links to, of the same owner, when the viewer may open it. *)
resolveParentTranscripts(v, parentOf) ==
    {t \in DOMAIN parentOf : /\ parentOf[t] \in ListReadableTranscriptIDs(Present, v)
                             /\ OwnerOf[parentOf[t]] = OwnerOf[t]
                             /\ parentOf[t] # t}

collectivesWithCreators(rows, v, listed) ==
    {<<row[1], IsProfile(v, creator[row[1]], listed)>> :
        row \in {row \in rows : creator[row[1]] # Nobody}}

ListGroups(v, listed) == collectivesWithCreators(ListUserGroups(v), v, listed)

------------------------------------------------------------------------------
(* The pull routes: the owner, or any membership of a collective that accepted it.
   Public transcripts and the owners' preview are left out on purpose. *)
canPullTranscript(v, t) ==
    \/ OwnerOf[t] = v
    \/ /\ vis[t] = "shared"
       /\ \E g \in ListApprovedTranscriptShareGroups(t) : GetGroupMember(g, v) # Nobody

lookupPullable(v, t) == vis[t] # None /\ canPullTranscript(v, t)

SharedWith(v, gs) ==
    {t \in Present : vis[t] = "shared"
                     /\ \E g \in gs : shares[g][t] = "approved" /\ member[g][v] # Nobody}

(* Mutant: the join forgets the visibility of the transcript. *)
ListPullableTranscripts_AnyVisibility(v) ==
    {t \in Present : OwnerOf[t] = v
                     \/ \E g \in Groups : shares[g][t] = "approved" /\ member[g][v] # Nobody}

ListPullableTranscripts(v) == {t \in Present : OwnerOf[t] = v} \union SharedWith(v, Groups)

CountPullableTranscripts(v) ==
    Cardinality({t \in Present : OwnerOf[t] = v \/ t \in SharedWith(v, Groups)})

ListPullableTranscriptsByIDs(v, ts) ==
    {t \in ts \cap Present : OwnerOf[t] = v \/ t \in SharedWith(v, Groups)}

(* The filtered list has no owner arm: what the caller owns counts only if shared. *)
ListPullableTranscriptsInCollective(v, gs) == SharedWith(v, gs)

CountPullableTranscriptsInCollective(v, gs) == Cardinality(SharedWith(v, gs))

ListPullablePage(v, gs) ==
    IF gs = {} THEN [rows |-> ListPullableTranscripts(v), total |-> CountPullableTranscripts(v)]
    ELSE [rows  |-> ListPullableTranscriptsInCollective(v, gs),
          total |-> CountPullableTranscriptsInCollective(v, gs)]

(* What cannot be pulled is left out of the answer, never refused by name. *)
PullSkipGate(v, asked) == ListPullableTranscriptsByIDs(v, asked)

canReadPublishMetadata(v, t) ==
    OwnerOf[t] = v \/ v \in ListSubmittedCollectiveOwnersForTranscript(t)

authorizePublishMetadata(v, t, listed) ==
    /\ vis[t] # None
    /\ canReadPublishMetadata(v, t)
    /\ IsProfile(v, OwnerOf[t], listed)

------------------------------------------------------------------------------
LeftoverRequest(v) == \E g \in Groups : RoleOf(g, v) = "pending"

(* PROPERTY.  Each policy that is written twice decides the same: the page form of
   the read policy and transcriptViewAccess, the project page and the discovery
   list, and the pull list, its total, its skip gate, its collective filter and the
   check of a single pull.  What can be pulled can be opened, except by a leftover
   join request, and a page links to no parent that cannot be opened. *)
PoliciesAgree ==
    /\ \A v \in Users :
          /\ ListReadableTranscriptIDs(Transcripts, v) =
                {t \in Present : transcriptViewAccess(v, t)}
          /\ \A u \in Users : GetUserProject(u, v, Users) # Refused =>
                GetUserProject(u, v, Users)
                    = {p[1] : p \in resolveGroupedTranscripts(v, {u}, FALSE, Users)}
          /\ LET pulled == {t \in Transcripts : lookupPullable(v, t)}
             IN  /\ ListPullablePage(v, {}) = [rows |-> pulled, total |-> Cardinality(pulled)]
                 /\ PullSkipGate(v, Transcripts) = pulled
                 /\ \A g \in Groups : LET page == ListPullablePage(v, {g})
                                      IN  page.rows \subseteq pulled
                                          /\ page.total = Cardinality(page.rows)
                 /\ LeftoverRequest(v) \/ \A t \in pulled : transcriptViewAccess(v, t)
          /\ \A t, p \in Present :
                t \in resolveParentTranscripts(v, [c \in {t} |-> p]) => transcriptViewAccess(v, p)

(* PROPERTY.  An owner of a collective who may read how a transcript was published
   also sees whose it is, so the two rules of that route never disagree; and once a
   person left a collective with their transcripts retracted, nothing they did there
   shows them to its owners any more. *)
NamedByTheirActs ==
    /\ \A v \in Users, t \in Present :
          canReadPublishMetadata(v, t) => authorizePublishMetadata(v, t, {})
    /\ \A d \in departed : \A v \in Users \ {d[2]} :
          IsProfile(v, d[2], {}) => \E g \in Groups \ {d[1]} : OwnerAccess(g, v) /\ ActedIn(g, d[2])

(* PROPERTY.  All the service's reads tell the same story: they follow the ledgers,
   the two forms of a route agree and the two forms of a policy agree. *)
ReadsAgree == ReadsFollowLedger /\ RoutesAgree /\ PoliciesAgree

(* PROPERTY.  A transcript that is not public, and the name of a person who is not
   discoverable, reach somebody else only through a collective that holds it, or
   that they acted in, now. *)
AudienceEntitled == ReadersEntitled /\ NamedByTheirActs
=============================================================================
