----------------------------- MODULE Collective -----------------------------
(***************************************************************************)
(* The people of the collectives: their policy, memberships and            *)
(* invitations.  Every mutation but creation and decline runs as one       *)
(* transaction under the authority locks of its actor and its collective   *)
(* (inCollectiveAuthorityTx), reads its guards again there, and rolls back *)
(* when the handler answers 400 or more, so each is one step.  A handler   *)
(* that refuses leaves everything as it was and is not a step.             *)
(***************************************************************************)
EXTENDS Naturals, FiniteSets

CONSTANTS
    Users, Groups,
    Handles,        \* GitHub usernames that can be invited
    Orgs,           \* GitHub organizations
    Modes, Exits,   \* which acceptance modes and deletion policies occur
    OpenLimit,      \* openInvitationsPerCollective
    InvitesPerDay,  \* invitationsPerInviterPerDay
    Nobody

Roles == {"owner", "member", "contributor", "pending"}

Origins == {"creator", "self_join", "invitation", "legacy"}

Membership == [role : Roles, origin : Origins]

(* acceptance_mode, transcript_deletion_policy, linked_github_org *)
Group == [mode   : {"open", "verified_only", "curated"},
          exit   : {"user_choice", "mandatory"},
          linked : Orgs \union {Nobody}]

(* open: expires_at > now() *)
Invitation == [to : Users \union {Nobody}, status : {"pending", "declined"}, open : BOOLEAN]

ASSUME CollectiveAssumption ==
    /\ Modes \subseteq {"open", "verified_only", "curated"}
    /\ Exits \subseteq {"user_choice", "mandatory"}
    /\ Nobody \notin Users \union Orgs \union Group \union Membership \union Invitation
    /\ OpenLimit \in Nat /\ InvitesPerDay \in Nat

VARIABLES
    group,      \* groups, Nobody when it does not exist
    member,     \* group_members
    invite,     \* collective_invitations, one per collective and handle
    orgs,       \* user_orgs: the organizations on record for each person
    holder,     \* users.github_username: who holds each handle
    sent,       \* user_daily_quotas: invitations sent today
    creating,   \* the creator a created collective has not recorded yet
    creator,    \* history: the creator each collective recorded
    answered    \* history: who declined the invitation of a handle

peopleVars == <<group, member, invite, orgs, holder, sent, creating,
                creator, answered>>

PeopleTypeOK ==
    /\ group \in [Groups -> Group \union {Nobody}]
    /\ member \in [Groups -> [Users -> Membership \union {Nobody}]]
    /\ invite \in [Groups -> [Handles -> Invitation \union {Nobody}]]
    /\ orgs \in [Users -> SUBSET Orgs]
    /\ holder \in [Handles -> Users \union {Nobody}]
    /\ sent \in [Users -> 0..InvitesPerDay]
    /\ creating \in [Groups -> Users \union {Nobody}]
    /\ creator \in [Groups -> Users \union {Nobody}]
    /\ answered \in [Groups -> [Handles -> Users \union {Nobody}]]

NoMembers == [u \in Users |-> Nobody]
NoInvitations == [h \in Handles |-> Nobody]

(* Memberships from before origins were recorded are legacy ones, among them
   join requests that were never decided. *)
Founded(u) ==
    {[NoMembers EXCEPT ![u] = [role |-> "owner", origin |-> "creator"]]}
        \union {[NoMembers EXCEPT ![u] = [role |-> "owner", origin |-> "creator"],
                                  ![v] = [role |-> r, origin |-> "legacy"]] :
                    v \in Users \ {u}, r \in Roles \ {"owner"}}

PeopleInit ==
    /\ group \in [Groups -> {Nobody} \union {[mode |-> m, exit |-> e, linked |-> Nobody] :
                                                m \in Modes, e \in Exits}]
    /\ creator \in [Groups -> Users \union {Nobody}]
    /\ \A g \in Groups : (group[g] = Nobody) <=> (creator[g] = Nobody)
    /\ member \in [Groups -> {NoMembers} \union UNION {Founded(u) : u \in Users}]
    /\ \A g \in Groups : IF creator[g] = Nobody THEN member[g] = NoMembers
                         ELSE member[g] \in Founded(creator[g])
    /\ invite = [g \in Groups |-> NoInvitations]
    /\ orgs \in [Users -> SUBSET Orgs]
    /\ holder \in [Handles -> Users \union {Nobody}]
    /\ \A h, k \in Handles : (holder[h] = holder[k] /\ h # k) => holder[h] = Nobody
    /\ sent = [u \in Users |-> 0]
    /\ creating = [g \in Groups |-> Nobody]
    /\ answered = [g \in Groups |-> [h \in Handles |-> Nobody]]

------------------------------------------------------------------------------
GetGroupMember(g, u) == member[g][u]

RoleOf(g, u) == IF member[g][u] = Nobody THEN "" ELSE member[g][u].role

OwnerAccess(g, u) == RoleOf(g, u) = "owner"

AcceptedRole(g, u) == RoleOf(g, u) \in {"owner", "member", "contributor"}

(* A membership the person chose: a consented origin and not a join request. *)
consentedMembership(m) ==
    /\ m # Nobody
    /\ m.role # "pending"
    /\ m.origin \in {"creator", "self_join", "invitation"}

hasOrgMembership(u, org) == org \in orgs[u]

hasAnyOrgMembership(u) == orgs[u] # {}

(* A collective linked to an organization asks for that one, any other verified
   collective for any on record. *)
Verified(g, u) ==
    IF group[g].linked # Nobody THEN hasOrgMembership(u, group[g].linked)
    ELSE hasAnyOrgMembership(u)

MaySetOrg(u, org) == org = Nobody \/ hasOrgMembership(u, org)

SetMember(g, u, m) == member' = [member EXCEPT ![g][u] = m]

(* DELETE FROM groups cascades over everything that refers to the group. *)
DeleteGroupRow(g) ==
    /\ group' = [group EXCEPT ![g] = Nobody]
    /\ member' = [member EXCEPT ![g] = NoMembers]
    /\ invite' = [invite EXCEPT ![g] = NoInvitations]

------------------------------------------------------------------------------
(* Creation is two statements with no transaction around them. *)
CreateGroup(u, g, mode, org) ==
    /\ group[g] = Nobody /\ creating[g] = Nobody
    /\ MaySetOrg(u, org)
    /\ group' = [group EXCEPT ![g] = [mode |-> mode, exit |-> "user_choice", linked |-> org]]
    /\ creating' = [creating EXCEPT ![g] = u]
    /\ UNCHANGED <<member, invite, orgs, holder, sent, creator, answered>>

AddGroupCreator(g) ==
    /\ creating[g] # Nobody
    /\ member[g][creating[g]] = Nobody      \* the primary key
    /\ SetMember(g, creating[g], [role |-> "owner", origin |-> "creator"])
    /\ creator' = [creator EXCEPT ![g] = creating[g]]
    /\ creating' = [creating EXCEPT ![g] = Nobody]
    /\ UNCHANGED <<group, invite, orgs, holder, sent, answered>>

(* The second statement fails or the server dies before it: the collective
   stays, and nobody is recorded as its owner. *)
CreatorNotRecorded(g) ==
    /\ creating[g] # Nobody
    /\ creating' = [creating EXCEPT ![g] = Nobody]
    /\ UNCHANGED <<group, member, invite, orgs, holder, sent, creator, answered>>

(* The settings as they are read and written back; what may happen between the
   two to the linked organization is in module CollectiveRepos. *)
UpdateGroup(u, g, mode, exit, org) ==
    /\ OwnerAccess(g, u)
    /\ org = group[g].linked \/ MaySetOrg(u, org)
    /\ group' = [group EXCEPT ![g] = [mode |-> mode, exit |-> exit, linked |-> org]]
    /\ UNCHANGED <<member, invite, orgs, holder, sent, creating, creator, answered>>

DeleteGroup(u, g) ==
    /\ OwnerAccess(g, u)
    /\ DeleteGroupRow(g)
    /\ creator' = [creator EXCEPT ![g] = Nobody]
    /\ answered' = [answered EXCEPT ![g] = [h \in Handles |-> Nobody]]
    /\ UNCHANGED <<orgs, holder, sent, creating>>

Joinable(g, u) ==
    \/ group[g].mode = "open"
    \/ group[g].mode = "verified_only" /\ Verified(g, u)

JoinGroup(u, g) ==
    /\ group[g] # Nobody
    /\ Joinable(g, u)
    /\ member[g][u] = Nobody
    /\ SetMember(g, u, [role |-> "contributor", origin |-> "self_join"])
    /\ UNCHANGED <<group, invite, orgs, holder, sent, creating, creator, answered>>

(* Mutant: the creator's role can be changed like any other. *)
PromoteMember_Anyone(u, g, v, role) ==
    /\ OwnerAccess(g, u)
    /\ role \in {"contributor", "member"}
    /\ member[g][v] # Nobody
    /\ SetMember(g, v, [member[g][v] EXCEPT !.role = role])
    /\ UNCHANGED <<group, invite, orgs, holder, sent, creating, creator, answered>>

PromoteMember(u, g, v, role) ==
    /\ OwnerAccess(g, u)
    /\ role \in {"contributor", "member"}
    /\ member[g][v] # Nobody
    /\ member[g][v].origin # "creator"
    /\ SetMember(g, v, [member[g][v] EXCEPT !.role = role])
    /\ UNCHANGED <<group, invite, orgs, holder, sent, creating, creator, answered>>

(* The members' half of removing somebody, or of leaving.  The person named
   need not be a member. *)
MayRemove(u, g, v) ==
    /\ u = v \/ OwnerAccess(g, u)
    /\ member[g][v] # Nobody => member[g][v].origin # "creator"

RemoveGroupMember(g, v) ==
    /\ SetMember(g, v, Nobody)
    /\ UNCHANGED <<group, invite, orgs, holder, sent, creating, creator, answered>>

------------------------------------------------------------------------------
GetOpenGroupInvitationByUsername(g, h) == invite[g][h] # Nobody /\ invite[g][h].open

(* The owners' list: pending and declined alike. *)
ListGroupInvitations(g) == {h \in Handles : GetOpenGroupInvitationByUsername(g, h)}

CountOpenGroupInvitations(g) == Cardinality(ListGroupInvitations(g))

(* Mutant: the day's limit is tested with <=. *)
TakeDailyQuota_OneMore(u) == sent[u] <= InvitesPerDay /\ sent' = [sent EXCEPT ![u] = @ + 1]

TakeDailyQuota(u) == sent[u] < InvitesPerDay /\ sent' = [sent EXCEPT ![u] = @ + 1]

(* Mutant: the previous holder's answer stays. *)
RelinkGroupInvitation_KeepStatus(i, to) == [i EXCEPT !.to = to]

(* A new holder has not answered; an unchanged one keeps their answer. *)
RelinkGroupInvitation(i, to) ==
    IF i.to = to THEN i ELSE [i EXCEPT !.to = to, !.status = "pending"]

(* Inviting a handle whose invitation is open points it at the present holder
   and notifies nobody. *)
InviteAgain(u, g, h) ==
    /\ OwnerAccess(g, u)
    /\ holder[h] # Nobody => ~consentedMembership(member[g][holder[h]])
    /\ GetOpenGroupInvitationByUsername(g, h)
    /\ invite' = [invite EXCEPT ![g][h] = RelinkGroupInvitation(@, holder[h])]
    /\ UNCHANGED <<group, member, orgs, holder, sent, creating, creator, answered>>

(* DeleteExpiredGroupInvitationByUsername clears the way for the insert. *)
CreateGroupInvitation(u, g, h) ==
    /\ OwnerAccess(g, u)
    /\ holder[h] # Nobody => ~consentedMembership(member[g][holder[h]])
    /\ ~GetOpenGroupInvitationByUsername(g, h)
    /\ CountOpenGroupInvitations(g) < OpenLimit
    /\ TakeDailyQuota(u)
    /\ invite' = [invite EXCEPT ![g][h] = [to |-> holder[h], status |-> "pending", open |-> TRUE]]
    /\ UNCHANGED <<group, member, orgs, holder, creating, creator, answered>>

(* Any open invitation, declined ones included: the owner cannot tell. *)
RevokeGroupInvitation(u, g, h) ==
    /\ OwnerAccess(g, u)
    /\ GetOpenGroupInvitationByUsername(g, h)
    /\ invite' = [invite EXCEPT ![g][h] = Nobody]
    /\ UNCHANGED <<group, member, orgs, holder, sent, creating, creator, answered>>

(* The caller's own pending invitation; any other is no row. *)
GetMyPendingInvitation(u, g, h) ==
    /\ GetOpenGroupInvitationByUsername(g, h)
    /\ invite[g][h].to = u
    /\ invite[g][h].status = "pending"

ListMyInvitations(u) == {p \in Groups \X Handles : GetMyPendingInvitation(u, p[1], p[2])}

AcceptInvitationMembership(m) ==
    IF m = Nobody THEN [role |-> "member", origin |-> "invitation"]
    ELSE [role |-> IF m.role = "pending" THEN "member" ELSE m.role, origin |-> "invitation"]

(* The lookup before the transaction only names the collective to lock; the
   one inside it, FOR UPDATE, decides. *)
AcceptMyInvitation(u, g, h) ==
    /\ GetMyPendingInvitation(u, g, h)
    /\ IF consentedMembership(member[g][u]) THEN UNCHANGED member
       ELSE SetMember(g, u, AcceptInvitationMembership(member[g][u]))
    /\ invite' = [invite EXCEPT ![g][h] = Nobody]
    /\ UNCHANGED <<group, orgs, holder, sent, creating, creator, answered>>

DeclineMyInvitation(u, g, h) ==
    /\ GetMyPendingInvitation(u, g, h)
    /\ invite' = [invite EXCEPT ![g][h].status = "declined"]
    /\ answered' = [answered EXCEPT ![g][h] = u]
    /\ UNCHANGED <<group, member, orgs, holder, sent, creating, creator>>

(* The invitation runs out. *)
Expire(g, h) ==
    /\ GetOpenGroupInvitationByUsername(g, h)
    /\ invite' = [invite EXCEPT ![g][h].open = FALSE]
    /\ UNCHANGED <<group, member, orgs, holder, sent, creating, creator, answered>>

(* A person takes a handle nobody holds (the unique index refuses any other) and
   gives up their own. *)
SetUsername(u, h) ==
    /\ holder[h] = Nobody
    /\ holder' = [k \in Handles |-> IF k = h THEN u
                                    ELSE IF holder[k] = u THEN Nobody ELSE holder[k]]
    /\ UNCHANGED <<group, member, invite, orgs, sent, creating, creator, answered>>

(* A person moves to a handle that nobody was ever invited by. *)
LeaveHandle(u) ==
    /\ \E h \in Handles : holder[h] = u
    /\ holder' = [h \in Handles |-> IF holder[h] = u THEN Nobody ELSE holder[h]]
    /\ UNCHANGED <<group, member, invite, orgs, sent, creating, creator, answered>>

(* A sign-in replaces the organizations on record, under the person's lock. *)
SyncOrgs(u, found) ==
    /\ orgs[u] # found
    /\ orgs' = [orgs EXCEPT ![u] = found]
    /\ UNCHANGED <<group, member, invite, holder, sent, creating, creator, answered>>

(* The UTC day ends: yesterday's counts limit nothing. *)
DayEnds ==
    /\ \E u \in Users : sent[u] > 0
    /\ sent' = [u \in Users |-> 0]
    /\ UNCHANGED <<group, member, invite, orgs, holder, creating, creator, answered>>
=============================================================================
