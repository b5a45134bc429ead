--------------------------- MODULE SharingProofs ---------------------------
(***************************************************************************)
(* Proofs about Sharing for every set of people, collectives, handles,     *)
(* organizations and transcripts, and for ledgers of every length.         *)
(***************************************************************************)
EXTENDS Sharing, WellFoundedInduction, TLAPS

USE CollectiveAssumption, SharingAssumption

------------------------------------------------------------------------------
(* Ledgers. *)

(* A set of event numbers that is not empty has a last one. *)
LEMMA LastEvent ==
    ASSUME NEW n \in Nat, NEW T \in SUBSET (1 .. n), T # {}
    PROVE  \E i \in T : \A j \in T : j <= i
<1> DEFINE R == {ss \in Nat \X Nat : ss[1] < ss[2]}
           D == {n - i : i \in T}
<1>1. D \subseteq Nat /\ D # {}
  <2>1. PICK i \in T : TRUE
    OBVIOUS
  <2>2. n - i \in D
    OBVIOUS
  <2>3. \A j \in T : n - j \in Nat
    OBVIOUS
  <2> QED BY <2>2, <2>3
<1>2. IsWellFoundedOn(R, Nat)
  BY NatLessThanWellFounded DEF OpToRel
<1>3. \E x \in D : \A y \in D : ~(<<y, x>> \in R)
  <2> HIDE DEF D, R
  <2> QED BY <1>1, <1>2, WFMin
<1>4. PICK x \in D : \A y \in D : ~(y < x)
  BY <1>1, <1>3
<1>5. PICK i \in T : x = n - i
  OBVIOUS
<1>6. \A j \in T : ~(n - j < n - i)
  BY <1>4, <1>5
<1> QED BY <1>6

(* A ledger in which only the last event can be open: what the unique index on open
   attempts and the liveness check before a submission keep. *)
Ledger(l) ==
    /\ l \in Seq(Statuses)
    /\ \A i \in 1 .. Len(l) : l[i] = "pending" => i = Len(l)

(* LiveEvent finds the last of the live events, and 0 exactly without one. *)
LEMMA LiveEventIs ==
    ASSUME NEW l \in Seq(Statuses)
    PROVE  /\ LiveEvent(l) = 0 => \A i \in 1 .. Len(l) : ~shareAttemptIsLive(l[i])
           /\ LiveEvent(l) # 0 => /\ LiveEvent(l) \in 1 .. Len(l)
                                  /\ shareAttemptIsLive(l[LiveEvent(l)])
                                  /\ \A i \in 1 .. Len(l) :
                                        shareAttemptIsLive(l[i]) => i <= LiveEvent(l)
           /\ LiveEvent(l) \in Nat
<1> DEFINE live == {i \in DOMAIN l : shareAttemptIsLive(l[i])}
           k == CHOOSE i \in live : \A j \in live : j <= i
<1>0. DOMAIN l = 1 .. Len(l) /\ Len(l) \in Nat
  OBVIOUS
<1>1. LiveEvent(l) = IF live = {} THEN 0 ELSE k
  BY DEF LiveEvent
<1>2. CASE live = {}
  BY <1>0, <1>1, <1>2
<1>3. CASE live # {}
  <2>1. \E i \in live : \A j \in live : j <= i
    <3>1. live \in SUBSET (1 .. Len(l))
      BY <1>0
    <3> HIDE DEF live
    <3> QED BY <1>0, <1>3, <3>1, LastEvent, Zenon
  <2>2. k \in live /\ \A j \in live : j <= k
    BY <2>1, Zenon
  <2>3. LiveEvent(l) = k
    BY <1>1, <1>3
  <2> HIDE DEF k
  <2> QED BY <1>0, <2>2, <2>3
<1> QED BY <1>2, <1>3

(* Where a submission stands, from its ledger alone. *)
StandingIn(l) ==
    IF GetLatestShareAttempt(l) = "pending" THEN "open"
    ELSE IF GetLatestShareAttempt(l) = "approved" THEN "accepted"
    ELSE IF GetLatestShareAttempt(l) = "rejected" THEN "declined"
    ELSE IF l = <<>> THEN "never" ELSE "closed"

(* Only an open or accepted submission is live. *)
LEMMA LiveStanding ==
    ASSUME NEW l \in Seq(Statuses)
    PROVE  /\ StandingIn(l) \in {"never", "open", "accepted", "declined", "closed"}
           /\ IsLive(l) <=> StandingIn(l) \in {"open", "accepted"}
           /\ StandingIn(l) = "open" <=> GetLatestShareAttempt(l) = "pending"
           /\ StandingIn(<<>>) = "never"
  BY DEF StandingIn, IsLive, shareAttemptIsLive, GetLatestShareAttempt, Statuses

(* A submission that finds nothing live opens with the status it was given. *)
LEMMA SubmittedLedger ==
    ASSUME NEW l, Ledger(l), ~IsLive(l), NEW s \in {"pending", "approved"}
    PROVE  /\ Ledger(ShareTranscriptWithStatus(l, s))
           /\ GetLatestShareAttempt(ShareTranscriptWithStatus(l, s)) = s
           /\ StandingIn(l) \in {"never", "declined", "closed"}
           /\ StandingIn(ShareTranscriptWithStatus(l, s)) \in {"open", "accepted"}
<1> DEFINE a == Append(l, s)
<1>1. /\ a \in Seq(Statuses) /\ Len(a) = Len(l) + 1 /\ a[Len(a)] = s /\ a # <<>>
      /\ \A i \in 1 .. Len(l) : a[i] = l[i]
  BY DEF Ledger, Statuses
<1>2. \A i \in 1 .. Len(l) : l[i] # "pending"
  BY DEF Ledger, IsLive, GetLatestShareAttempt, shareAttemptIsLive
<1>3. Ledger(a)
  BY <1>1, <1>2 DEF Ledger
<1>4. GetLatestShareAttempt(a) = s
  BY <1>1 DEF GetLatestShareAttempt
<1> HIDE DEF a
<1>5. StandingIn(a) \in {"open", "accepted"}
  BY <1>4 DEF StandingIn
<1>6. StandingIn(l) \in {"never", "declined", "closed"}
  BY LiveStanding DEF Ledger
<1> QED BY <1>3, <1>4, <1>5, <1>6 DEF ShareTranscriptWithStatus, a

(* A decision settles the open event, which is the last one, and no other. *)
LEMMA DecidedLedger ==
    ASSUME NEW l, Ledger(l), HasOpen(l), NEW d \in {"approved", "rejected"}
    PROVE  /\ Ledger(UpdateShareStatus(l, d))
           /\ StandingIn(l) = "open"
           /\ StandingIn(UpdateShareStatus(l, d)) \in {"accepted", "declined"}
<1> DEFINE a == UpdateShareStatus(l, d)
<1>1. l \in [1 .. Len(l) -> Statuses] /\ Len(l) \in Nat
  BY DEF Ledger
<1>2. a \in [1 .. Len(l) -> Statuses] /\ \A i \in 1 .. Len(l) : a[i] # "pending"
  BY <1>1 DEF UpdateShareStatus, Statuses
<1>3. Len(l) > 0 /\ l[Len(l)] = "pending" /\ a[Len(l)] = d
  <2>1. PICK i \in 1 .. Len(l) : l[i] = "pending"
    BY <1>1 DEF HasOpen
  <2>2. i = Len(l)
    BY <2>1 DEF Ledger
  <2> QED BY <1>1, <2>1, <2>2 DEF UpdateShareStatus
<1> HIDE DEF a
<1>4. a \in Seq(Statuses) /\ Len(a) = Len(l) /\ a # <<>>
  BY <1>1, <1>2, <1>3
<1>5. Ledger(a)
  BY <1>2, <1>4 DEF Ledger
<1>6. StandingIn(a) \in {"accepted", "declined"}
  BY <1>3, <1>4 DEF StandingIn, GetLatestShareAttempt
<1>7. StandingIn(l) = "open"
  BY <1>3 DEF StandingIn, GetLatestShareAttempt, Ledger
<1> QED BY <1>5, <1>6, <1>7 DEF a

(* A withdrawal the ledger admits closes the live submission, when there is one, and
   otherwise changes nothing. *)
LEMMA WithdrawnLedger ==
    ASSUME NEW l, Ledger(l), WithdrawalAdmitted(l), NEW s \in {"retracted", "revoked"}
    PROVE  /\ Ledger(Withdrawn(l, s))
           /\ ~IsLive(Withdrawn(l, s))
           /\ IF LiveEvent(l) > 0
              THEN StandingIn(l) \in {"open", "accepted"} /\ StandingIn(Withdrawn(l, s)) = "closed"
              ELSE Withdrawn(l, s) = l
<1> DEFINE k == LiveEvent(l)
           a == Withdrawn(l, s)
<1>1. l \in Seq(Statuses) /\ l \in [1 .. Len(l) -> Statuses] /\ Len(l) \in Nat
  BY DEF Ledger
<1>2. CASE k = 0
  <2>1. a = l
    BY <1>2 DEF Withdrawn
  <2>2. ~IsLive(l)
    BY <1>1, <1>2, LiveEventIs DEF IsLive, GetLatestShareAttempt, shareAttemptIsLive, Statuses
  <2> QED BY <1>2, <2>1, <2>2
<1>3. CASE k # 0
  <2>1. k \in 1 .. Len(l) /\ shareAttemptIsLive(l[k])
    BY <1>1, <1>3, LiveEventIs
  <2>2. k = Len(l)
    <3>1. CASE l[k] = "pending"
      BY <2>1, <3>1 DEF Ledger
    <3>2. CASE l[k] = "approved"
      BY <2>1, <3>2 DEF WithdrawalAdmitted
    <3> QED BY <2>1, <3>1, <3>2 DEF shareAttemptIsLive
  <2>3. \A i \in 1 .. Len(l) : l[i] = "pending" => i = k
    BY <2>2 DEF Ledger
  <2>4. StandingIn(l) \in {"open", "accepted"}
    BY <1>1, <2>1, <2>2 DEF StandingIn, GetLatestShareAttempt, shareAttemptIsLive
  <2>5. CASE l[k] = "pending"
    <3>1. a = [l EXCEPT ![k] = s]
      BY <1>3, <2>5 DEF Withdrawn
    <3>2. a \in [1 .. Len(l) -> Statuses] /\ a[Len(l)] = s
      BY <1>1, <2>1, <2>2, <3>1 DEF Statuses
    <3>3. \A i \in 1 .. Len(l) : a[i] # "pending"
      BY <1>1, <2>1, <2>3, <3>1
    <3> HIDE DEF a, k
    <3>4. a \in Seq(Statuses) /\ Len(a) = Len(l) /\ a # <<>>
      BY <1>1, <2>1, <3>2
    <3>5. Ledger(a)
      BY <3>3, <3>4 DEF Ledger
    <3>6. ~IsLive(a) /\ StandingIn(a) = "closed"
      BY <3>2, <3>4 DEF IsLive, StandingIn, GetLatestShareAttempt, shareAttemptIsLive
    <3> QED BY <2>1, <2>4, <3>5, <3>6 DEF a, k
  <2>6. CASE l[k] # "pending"
    <3>1. a = Append(l, s)
      BY <1>3, <2>6 DEF Withdrawn
    <3>2. /\ a \in Seq(Statuses) /\ Len(a) = Len(l) + 1 /\ a[Len(a)] = s /\ a # <<>>
          /\ \A i \in 1 .. Len(l) : a[i] = l[i]
      BY <1>1, <3>1 DEF Statuses
    <3>3. \A i \in 1 .. Len(l) : l[i] # "pending"
      BY <2>3, <2>6
    <3> HIDE DEF a, k
    <3>4. s # "pending"
      OBVIOUS
    <3>5. Ledger(a)
      <4> SUFFICES ASSUME NEW i \in 1 .. Len(a), a[i] = "pending" PROVE FALSE
        BY <3>2 DEF Ledger
      <4>1. i \in 1 .. Len(l) \/ i = Len(a)
        BY <1>1, <3>2
      <4> QED BY <3>2, <3>3, <3>4, <4>1
    <3>6. ~IsLive(a) /\ StandingIn(a) = "closed"
      BY <3>2 DEF IsLive, StandingIn, GetLatestShareAttempt, shareAttemptIsLive
    <3> QED BY <2>1, <2>4, <3>5, <3>6 DEF a, k
  <2> QED BY <2>5, <2>6
<1> QED BY <1>2, <1>3

------------------------------------------------------------------------------
(* People. *)

(* A collective that is gone keeps no row that refers to it. *)
GoneEmpty ==
    \A g \in Groups : group[g] = Nobody =>
        /\ creating[g] = Nobody /\ creator[g] = Nobody
        /\ \A u \in Users : member[g][u] = Nobody
        /\ \A h \in Handles : invite[g][h] = Nobody

(* Nobody owns a collective whose creator is still to be recorded, so nobody can
   delete it or invite to it before. *)
Unowned ==
    \A g \in Groups : creating[g] # Nobody =>
        creator[g] = Nobody /\ \A u \in Users : RoleOf(g, u) # "owner"

(* The recorded creator's membership is the one creation wrote. *)
CreatorKept ==
    \A g \in Groups : creator[g] # Nobody =>
        /\ member[g][creator[g]] \in Membership
        /\ member[g][creator[g]].role = "owner"
        /\ member[g][creator[g]].origin = "creator"

(* A declined invitation was declined by the person it is addressed to. *)
AnswerKept ==
    \A g \in Groups, h \in Handles :
        (invite[g][h] # Nobody /\ invite[g][h].status = "declined")
            => answered[g][h] = invite[g][h].to

PeopleInv == PeopleTypeOK /\ GoneEmpty /\ Unowned /\ CreatorKept /\ AnswerKept

(* One membership is written and the others stay. *)
LEMMA SetMemberIs ==
    ASSUME PeopleTypeOK, NEW g \in Groups, NEW u \in Users, NEW m \in Membership \union {Nobody},
           SetMember(g, u, m)
    PROVE  /\ member' \in [Groups -> [Users -> Membership \union {Nobody}]]
           /\ member'[g][u] = m
           /\ \A k \in Groups, v \in Users : <<k, v>> # <<g, u>> => member'[k][v] = member[k][v]
  BY DEF PeopleTypeOK, SetMember

(* The owners of a collective that exists. *)
LEMMA OwnerHasGroup ==
    ASSUME PeopleInv, NEW g \in Groups, NEW u \in Users, OwnerAccess(g, u)
    PROVE  /\ group[g] # Nobody /\ group[g] \in Group
           /\ creating[g] = Nobody
  BY DEF PeopleInv, PeopleTypeOK, GoneEmpty, Unowned, OwnerAccess, RoleOf

(* What the three invariants about memberships need from a step that writes at most
   one membership and no other row of the people. *)
LEMMA OneMembership ==
    ASSUME PeopleInv, NEW g \in Groups, NEW u \in Users, NEW m \in Membership \union {Nobody},
           SetMember(g, u, m),
           group[g] # Nobody \/ m = Nobody,
           u # creator[g],
           m # Nobody => m.role # "owner" \/ RoleOf(g, u) = "owner",
           group' = group, creating' = creating, creator' = creator,
           \A k \in Groups, h \in Handles : invite[k][h] = Nobody => invite'[k][h] = Nobody
    PROVE  GoneEmpty' /\ Unowned' /\ CreatorKept'
<1>1. /\ member' \in [Groups -> [Users -> Membership \union {Nobody}]]
      /\ member'[g][u] = m
      /\ \A k \in Groups, v \in Users : <<k, v>> # <<g, u>> => member'[k][v] = member[k][v]
  BY SetMemberIs DEF PeopleInv
<1>2. \A k \in Groups, v \in Users : ~(k = g /\ v = u) => member'[k][v] = member[k][v]
  BY <1>1
<1>3. GoneEmpty'
  BY <1>1, <1>2 DEF PeopleInv, GoneEmpty
<1>4. Unowned'
  <2> SUFFICES ASSUME NEW k \in Groups, creating[k] # Nobody, NEW v \in Users
               PROVE  creator[k] = Nobody /\ RoleOf(k, v)' # "owner"
    BY DEF Unowned
  <2>1. creator[k] = Nobody /\ RoleOf(k, v) # "owner"
    BY DEF PeopleInv, Unowned
  <2>2. CASE k = g /\ v = u
    BY <1>1, <2>1, <2>2 DEF RoleOf
  <2>3. CASE ~(k = g /\ v = u)
    BY <1>2, <2>1, <2>3 DEF RoleOf
  <2> QED BY <2>2, <2>3
<1>5. CreatorKept'
  <2> SUFFICES ASSUME NEW k \in Groups, creator[k] # Nobody
               PROVE  member'[k][creator[k]] = member[k][creator[k]]
    BY DEF PeopleInv, CreatorKept
  <2>1. creator[k] \in Users
    BY DEF PeopleInv, PeopleTypeOK
  <2> QED BY <1>2, <2>1
<1> QED BY <1>3, <1>4, <1>5

(* Steps that write only invitations, and only in collectives that exist. *)
LEMMA GroupsKept ==
    ASSUME PeopleInv, UNCHANGED <<group, member, creating, creator>>,
           \A k \in Groups, j \in Handles : invite'[k][j] = Nobody \/ group[k] # Nobody
    PROVE  GoneEmpty' /\ Unowned' /\ CreatorKept'
<1>1. GoneEmpty'
  BY DEF PeopleInv, GoneEmpty
<1>2. Unowned'
  BY DEF PeopleInv, Unowned, RoleOf
<1>3. CreatorKept'
  BY DEF PeopleInv, CreatorKept
<1> QED BY <1>1, <1>2, <1>3

(* Every way an invitation is written leaves an invitation whose decline, if it is
   declined, is its addressee's. *)
LEMMA InvitationWritten ==
    ASSUME PeopleInv, NEW g \in Groups, NEW h \in Handles,
           NEW i \in Invitation \union {Nobody},
           invite' = [invite EXCEPT ![g][h] = i],
           group[g] # Nobody \/ i = Nobody,
           i # Nobody /\ i.status = "declined" => answered'[g][h] = i.to,
           \A k \in Groups, j \in Handles : ~(k = g /\ j = h) => answered'[k][j] = answered[k][j],
           answered' \in [Groups -> [Handles -> Users \union {Nobody}]],
           sent' \in [Users -> 0 .. InvitesPerDay],
           UNCHANGED <<group, member, orgs, holder, creating, creator>>
    PROVE  PeopleInv'
<1>1. /\ invite' \in [Groups -> [Handles -> Invitation \union {Nobody}]]
      /\ invite'[g][h] = i
      /\ \A k \in Groups, j \in Handles : ~(k = g /\ j = h) => invite'[k][j] = invite[k][j]
  BY DEF PeopleInv, PeopleTypeOK
<1>4. GoneEmpty' /\ Unowned' /\ CreatorKept'
  <2>1. \A k \in Groups, j \in Handles : invite'[k][j] = Nobody \/ group[k] # Nobody
    BY <1>1 DEF PeopleInv, GoneEmpty
  <2> QED BY <2>1, GroupsKept
<1>2. PeopleTypeOK'
  BY <1>1 DEF PeopleInv, PeopleTypeOK
<1>3. AnswerKept'
  <2> SUFFICES ASSUME NEW k \in Groups, NEW j \in Handles,
                      invite'[k][j] # Nobody, invite'[k][j].status = "declined"
               PROVE  answered'[k][j] = invite'[k][j].to
    BY DEF AnswerKept
  <2>1. CASE k = g /\ j = h
    BY <1>1, <2>1
  <2>2. CASE ~(k = g /\ j = h)
    BY <1>1, <2>2 DEF PeopleInv, AnswerKept
  <2> QED BY <2>1, <2>2
<1> QED BY <1>2, <1>3, <1>4 DEF PeopleInv

(* The owners' and the invitees' steps on invitations. *)
LEMMA InvitationSteps ==
    ASSUME PeopleInv, NEW g \in Groups, NEW u \in Users, NEW h \in Handles,
           \/ InviteAgain(u, g, h) \/ CreateGroupInvitation(u, g, h)
           \/ RevokeGroupInvitation(u, g, h) \/ DeclineMyInvitation(u, g, h) \/ Expire(g, h)
    PROVE  PeopleInv'
<1> DEFINE old == invite[g][h]
<1>1. /\ answered \in [Groups -> [Handles -> Users \union {Nobody}]]
      /\ sent \in [Users -> 0 .. InvitesPerDay]
      /\ holder[h] \in Users \union {Nobody}
      /\ old \in Invitation \union {Nobody}
      /\ old # Nobody => group[g] # Nobody
      /\ old # Nobody /\ old.status = "declined" => answered[g][h] = old.to
  BY DEF PeopleInv, PeopleTypeOK, GoneEmpty, AnswerKept
<1>2. CASE InviteAgain(u, g, h)
  <2> DEFINE i == RelinkGroupInvitation(old, holder[h])
  <2>1. old \in Invitation /\ group[g] # Nobody
    BY <1>1, <1>2 DEF InviteAgain, GetOpenGroupInvitationByUsername
  <2>2. i \in Invitation
    BY <1>1, <2>1 DEF RelinkGroupInvitation, Invitation
  <2>3. i.status = "declined" => answered[g][h] = i.to
    BY <1>1, <2>1 DEF RelinkGroupInvitation, Invitation
  <2>4. invite' = [invite EXCEPT ![g][h] = i] /\ answered' = answered /\ sent' = sent
        /\ UNCHANGED <<group, member, orgs, holder, creating, creator>>
    BY <1>2 DEF InviteAgain
  <2> HIDE DEF i, old
  <2> QED BY <1>1, <2>1, <2>2, <2>3, <2>4, InvitationWritten
<1>3. CASE CreateGroupInvitation(u, g, h)
  <2> DEFINE i == [to |-> holder[h], status |-> "pending", open |-> TRUE]
  <2>1. i \in Invitation /\ i.status = "pending"
    BY <1>1 DEF Invitation
  <2>2. group[g] # Nobody
    BY <1>3, OwnerHasGroup DEF CreateGroupInvitation
  <2>3. sent' \in [Users -> 0 .. InvitesPerDay]
    BY <1>1, <1>3 DEF CreateGroupInvitation, TakeDailyQuota
  <2>4. invite' = [invite EXCEPT ![g][h] = i] /\ answered' = answered
        /\ UNCHANGED <<group, member, orgs, holder, creating, creator>>
    BY <1>3 DEF CreateGroupInvitation
  <2> HIDE DEF i, old
  <2> QED BY <1>1, <2>1, <2>2, <2>3, <2>4, InvitationWritten
<1>4. CASE RevokeGroupInvitation(u, g, h)
  <2>1. invite' = [invite EXCEPT ![g][h] = Nobody] /\ answered' = answered /\ sent' = sent
        /\ UNCHANGED <<group, member, orgs, holder, creating, creator>>
    BY <1>4 DEF RevokeGroupInvitation
  <2> HIDE DEF old
  <2> QED BY <1>1, <2>1, InvitationWritten
<1>5. CASE DeclineMyInvitation(u, g, h)
  <2> DEFINE i == [old EXCEPT !.status = "declined"]
  <2>1. old \in Invitation /\ group[g] # Nobody /\ old.to = u
    BY <1>1, <1>5 DEF DeclineMyInvitation, GetMyPendingInvitation, GetOpenGroupInvitationByUsername
  <2>2. i \in Invitation /\ i.to = u
    BY <2>1 DEF Invitation
  <2>3. answered' = [answered EXCEPT ![g][h] = u] /\ sent' = sent
        /\ UNCHANGED <<group, member, orgs, holder, creating, creator>>
    BY <1>5 DEF DeclineMyInvitation
  <2>4. invite' = [invite EXCEPT ![g][h] = i]
    BY <1>5 DEF DeclineMyInvitation
  <2>5. /\ answered' \in [Groups -> [Handles -> Users \union {Nobody}]]
        /\ answered'[g][h] = u
        /\ \A k \in Groups, j \in Handles : ~(k = g /\ j = h) => answered'[k][j] = answered[k][j]
    BY <1>1, <2>3
  <2>6. sent' \in [Users -> 0 .. InvitesPerDay]
    BY <1>1, <2>3
  <2>7. i \in Invitation \union {Nobody} /\ (i # Nobody /\ i.status = "declined" => answered'[g][h] = i.to)
    BY <2>2, <2>5
  <2>8. UNCHANGED <<group, member, orgs, holder, creating, creator>>
    BY <2>3
  <2> HIDE DEF i, old
  <2> QED BY <2>1, <2>4, <2>5, <2>6, <2>7, <2>8, InvitationWritten
<1>6. CASE Expire(g, h)
  <2> DEFINE i == [old EXCEPT !.open = FALSE]
  <2>1. old \in Invitation /\ group[g] # Nobody
    BY <1>1, <1>6 DEF Expire, GetOpenGroupInvitationByUsername
  <2>2. i \in Invitation /\ i.to = old.to /\ i.status = old.status
    BY <2>1 DEF Invitation
  <2>3. answered' = answered /\ sent' = sent
        /\ UNCHANGED <<group, member, orgs, holder, creating, creator>>
    BY <1>6 DEF Expire
  <2>4. invite' = [invite EXCEPT ![g][h] = i]
    BY <1>6 DEF Expire
  <2>5. old # Nobody
    BY <2>1
  <2> HIDE DEF i, old
  <2> QED BY <1>1, <2>1, <2>2, <2>3, <2>4, <2>5, InvitationWritten
<1> QED BY <1>2, <1>3, <1>4, <1>5, <1>6

(* A step that leaves groups, members, creators and invitations alone. *)
LEMMA ElsewhereStep ==
    ASSUME PeopleInv, PeopleTypeOK',
           UNCHANGED <<group, member, invite, creating, creator, answered>>
    PROVE  PeopleInv'
<1>1. GoneEmpty' /\ CreatorKept' /\ AnswerKept'
  BY DEF PeopleInv, GoneEmpty, CreatorKept, AnswerKept
<1>2. Unowned'
  BY DEF PeopleInv, Unowned, RoleOf
<1> QED BY <1>1, <1>2 DEF PeopleInv

(* Handles that change hands, the end of a day and the organizations on record. *)
LEMMA AccountSteps ==
    ASSUME PeopleInv, NEW u \in Users,
           \/ \E h \in Handles : SetUsername(u, h)
           \/ LeaveHandle(u)
           \/ DayEnds
           \/ \E found \in SUBSET Orgs : SyncOrgs(u, found)
    PROVE  PeopleInv'
<1>1. PeopleTypeOK'
  <2>1. ASSUME NEW h \in Handles, SetUsername(u, h) PROVE PeopleTypeOK'
    <3>1. holder' \in [Handles -> Users \union {Nobody}]
      BY <2>1 DEF PeopleInv, PeopleTypeOK, SetUsername
    <3> QED BY <2>1, <3>1 DEF PeopleInv, PeopleTypeOK, SetUsername
  <2>2. CASE LeaveHandle(u)
    <3>1. holder' \in [Handles -> Users \union {Nobody}]
      BY <2>2 DEF PeopleInv, PeopleTypeOK, LeaveHandle
    <3> QED BY <2>2, <3>1 DEF PeopleInv, PeopleTypeOK, LeaveHandle
  <2>3. CASE DayEnds
    BY <2>3 DEF PeopleInv, PeopleTypeOK, DayEnds
  <2>4. ASSUME NEW found \in SUBSET Orgs, SyncOrgs(u, found) PROVE PeopleTypeOK'
    BY <2>4 DEF PeopleInv, PeopleTypeOK, SyncOrgs
  <2> QED BY <2>1, <2>2, <2>3, <2>4
<1>2. UNCHANGED <<group, member, invite, creating, creator, answered>>
  BY DEF SetUsername, LeaveHandle, DayEnds, SyncOrgs
<1> QED BY <1>1, <1>2, ElsewhereStep

(* Creation, its second statement lost, and a change of settings. *)
LEMMA PolicySteps ==
    ASSUME PeopleInv, NEW g \in Groups, NEW u \in Users,
           \/ \E mode \in Modes, org \in Orgs \union {Nobody} : CreateGroup(u, g, mode, org)
           \/ CreatorNotRecorded(g)
           \/ \E mode \in Modes, exit \in Exits, org \in Orgs \union {Nobody} :
                UpdateGroup(u, g, mode, exit, org)
    PROVE  PeopleInv'
<1>1. ASSUME NEW mode \in Modes, NEW org \in Orgs \union {Nobody}, CreateGroup(u, g, mode, org)
      PROVE  PeopleInv'
  <2> DEFINE new == [mode |-> mode, exit |-> "user_choice", linked |-> org]
  <2>0. new \in Group
    BY DEF Group
  <2>1. new \in Group /\ new # Nobody
    BY <2>0
  <2>2. /\ group[g] = Nobody /\ creator[g] = Nobody
        /\ \A v \in Users : member[g][v] = Nobody
    BY <1>1 DEF CreateGroup, PeopleInv, GoneEmpty
  <2>3. group' = [group EXCEPT ![g] = new] /\ creating' = [creating EXCEPT ![g] = u]
        /\ UNCHANGED <<member, invite, orgs, holder, sent, creator, answered>>
    BY <1>1 DEF CreateGroup
  <2> HIDE DEF new
  <2>4. PeopleTypeOK'
    BY <2>1, <2>3 DEF PeopleInv, PeopleTypeOK
  <2>5. GoneEmpty'
    BY <2>1, <2>3 DEF PeopleInv, PeopleTypeOK, GoneEmpty
  <2>6. Unowned'
    BY <2>2, <2>3 DEF PeopleInv, PeopleTypeOK, Unowned, RoleOf
  <2>7. CreatorKept' /\ AnswerKept'
    BY <2>3 DEF PeopleInv, CreatorKept, AnswerKept
  <2> QED BY <2>4, <2>5, <2>6, <2>7 DEF PeopleInv
<1>2. CASE CreatorNotRecorded(g)
  <2>1. creating' = [creating EXCEPT ![g] = Nobody]
        /\ UNCHANGED <<group, member, invite, orgs, holder, sent, creator, answered>>
    BY <1>2 DEF CreatorNotRecorded
  <2>2. PeopleTypeOK'
    BY <2>1 DEF PeopleInv, PeopleTypeOK
  <2>3. GoneEmpty' /\ Unowned'
    BY <2>1 DEF PeopleInv, PeopleTypeOK, GoneEmpty, Unowned, RoleOf
  <2>4. CreatorKept' /\ AnswerKept'
    BY <2>1 DEF PeopleInv, CreatorKept, AnswerKept
  <2> QED BY <2>2, <2>3, <2>4 DEF PeopleInv
<1>3. ASSUME NEW mode \in Modes, NEW exit \in Exits, NEW org \in Orgs \union {Nobody},
             UpdateGroup(u, g, mode, exit, org)
      PROVE  PeopleInv'
  <2> DEFINE new == [mode |-> mode, exit |-> exit, linked |-> org]
  <2>0. new \in Group
    BY DEF Group
  <2>1. new \in Group /\ new # Nobody
    BY <2>0
  <2>2. group' = [group EXCEPT ![g] = new]
        /\ UNCHANGED <<member, invite, orgs, holder, sent, creating, creator, answered>>
    BY <1>3 DEF UpdateGroup
  <2> HIDE DEF new
  <2>3. PeopleTypeOK'
    BY <2>1, <2>2 DEF PeopleInv, PeopleTypeOK
  <2>4. GoneEmpty'
    BY <2>1, <2>2 DEF PeopleInv, PeopleTypeOK, GoneEmpty
  <2>5. Unowned'
    BY <2>2 DEF PeopleInv, Unowned, RoleOf
  <2>6. CreatorKept' /\ AnswerKept'
    BY <2>2 DEF PeopleInv, CreatorKept, AnswerKept
  <2> QED BY <2>3, <2>4, <2>5, <2>6 DEF PeopleInv
<1> QED BY <1>1, <1>2, <1>3

(* A membership recorded, changed or removed, with nothing else written. *)
LEMMA MemberWritten ==
    ASSUME PeopleInv, NEW g \in Groups, NEW u \in Users, NEW m \in Membership \union {Nobody},
           SetMember(g, u, m),
           group[g] # Nobody \/ m = Nobody,
           u # creator[g],
           m # Nobody => m.role # "owner" \/ RoleOf(g, u) = "owner",
           UNCHANGED <<group, invite, orgs, holder, sent, creating, creator, answered>>
    PROVE  PeopleInv'
<1>1. member' \in [Groups -> [Users -> Membership \union {Nobody}]]
  BY SetMemberIs DEF PeopleInv
<1>2. PeopleTypeOK'
  BY <1>1 DEF PeopleInv, PeopleTypeOK
<1>3. GoneEmpty' /\ Unowned' /\ CreatorKept'
  <2>1. \A k \in Groups, h \in Handles : invite[k][h] = Nobody => invite'[k][h] = Nobody
    OBVIOUS
  <2> QED BY <2>1, OneMembership
<1>4. AnswerKept'
  BY DEF PeopleInv, AnswerKept
<1> QED BY <1>2, <1>3, <1>4 DEF PeopleInv

(* Whoever has no membership, or one that creation did not write, is not the
   recorded creator. *)
LEMMA NotCreator ==
    ASSUME PeopleInv, NEW g \in Groups, NEW u \in Users,
           member[g][u] # Nobody => member[g][u].origin # "creator"
    PROVE  u # creator[g]
  BY DEF PeopleInv, CreatorKept

(* Joining, a change of role, and the members' half of a removal. *)
LEMMA MemberSteps ==
    ASSUME PeopleInv, NEW g \in Groups, NEW u \in Users, NEW v \in Users,
           \/ JoinGroup(u, g)
           \/ \E role \in Roles : PromoteMember(u, g, v, role)
           \/ MayRemove(u, g, v) /\ RemoveGroupMember(g, v)
    PROVE  PeopleInv'
<1>1. CASE JoinGroup(u, g)
  <2> DEFINE m == [role |-> "contributor", origin |-> "self_join"]
  <2>1. m \in Membership /\ m.role = "contributor"
    BY DEF Membership, Roles, Origins
  <2>2. SetMember(g, u, m) /\ group[g] # Nobody /\ member[g][u] = Nobody
        /\ UNCHANGED <<group, invite, orgs, holder, sent, creating, creator, answered>>
    BY <1>1 DEF JoinGroup
  <2>3. u # creator[g]
    BY <2>2, NotCreator
  <2> HIDE DEF m
  <2> QED BY <2>1, <2>2, <2>3, MemberWritten
<1>2. ASSUME NEW role \in Roles, PromoteMember(u, g, v, role) PROVE PeopleInv'
  <2> DEFINE m == [member[g][v] EXCEPT !.role = role]
  <2>1. SetMember(g, v, m) /\ role \in {"contributor", "member"} /\ OwnerAccess(g, u)
        /\ member[g][v] # Nobody /\ member[g][v].origin # "creator"
        /\ UNCHANGED <<group, invite, orgs, holder, sent, creating, creator, answered>>
    BY <1>2 DEF PromoteMember
  <2>2. member[g][v] \in Membership
    BY <2>1 DEF PeopleInv, PeopleTypeOK
  <2>3. m \in Membership /\ m.role = role
    BY <2>2 DEF Membership
  <2>4. group[g] # Nobody
    BY <2>1, OwnerHasGroup
  <2>5. v # creator[g]
    BY <2>1, NotCreator
  <2> HIDE DEF m
  <2> QED BY <2>1, <2>3, <2>4, <2>5, MemberWritten
<1>3. CASE MayRemove(u, g, v) /\ RemoveGroupMember(g, v)
  <2>1. SetMember(g, v, Nobody)
        /\ UNCHANGED <<group, invite, orgs, holder, sent, creating, creator, answered>>
    BY <1>3 DEF RemoveGroupMember
  <2>2. v # creator[g]
    BY <1>3, NotCreator DEF MayRemove
  <2> QED BY <2>1, <2>2, MemberWritten
<1> QED BY <1>1, <1>2, <1>3

(* The second statement of a creation. *)
LEMMA CreatorStep ==
    ASSUME PeopleInv, NEW g \in Groups, AddGroupCreator(g)
    PROVE  PeopleInv'
<1> DEFINE m == [role |-> "owner", origin |-> "creator"]
           u == creating[g]
<1>1. m \in Membership /\ m.role = "owner" /\ m.origin = "creator" /\ m # Nobody
  BY DEF Membership, Roles, Origins
<1>2. u \in Users /\ group[g] # Nobody
  BY DEF AddGroupCreator, PeopleInv, PeopleTypeOK, GoneEmpty
<1>3. SetMember(g, u, m) /\ creator' = [creator EXCEPT ![g] = u]
      /\ creating' = [creating EXCEPT ![g] = Nobody]
      /\ UNCHANGED <<group, invite, orgs, holder, sent, answered>>
  BY DEF AddGroupCreator
<1> HIDE DEF m, u
<1>4. /\ member' \in [Groups -> [Users -> Membership \union {Nobody}]]
      /\ member'[g][u] = m
      /\ \A k \in Groups, v \in Users : <<k, v>> # <<g, u>> => member'[k][v] = member[k][v]
  BY <1>1, <1>2, <1>3, SetMemberIs DEF PeopleInv
<1>5. \A k \in Groups \ {g}, v \in Users : member'[k][v] = member[k][v]
  BY <1>4
<1>6. PeopleTypeOK'
  BY <1>2, <1>3, <1>4 DEF PeopleInv, PeopleTypeOK
<1>7. GoneEmpty'
  BY <1>2, <1>3, <1>5 DEF PeopleInv, PeopleTypeOK, GoneEmpty
<1>8. Unowned'
  BY <1>3, <1>5 DEF PeopleInv, PeopleTypeOK, Unowned, RoleOf
<1>9. CreatorKept'
  BY <1>1, <1>2, <1>3, <1>4, <1>5 DEF PeopleInv, PeopleTypeOK, CreatorKept
<1>10. AnswerKept'
  BY <1>3 DEF PeopleInv, AnswerKept
<1> QED BY <1>6, <1>7, <1>8, <1>9, <1>10 DEF PeopleInv

(* An invitation is accepted: the invitee gains a membership unless they have one
   they chose, the creator's among those. *)
LEMMA AcceptStep ==
    ASSUME PeopleInv, NEW g \in Groups, NEW u \in Users, NEW h \in Handles,
           AcceptMyInvitation(u, g, h)
    PROVE  PeopleInv'
<1>1. /\ group[g] # Nobody
      /\ invite' = [invite EXCEPT ![g][h] = Nobody]
      /\ UNCHANGED <<group, orgs, holder, sent, creating, creator, answered>>
  BY DEF AcceptMyInvitation, GetMyPendingInvitation, GetOpenGroupInvitationByUsername,
         PeopleInv, GoneEmpty
<1>2. /\ invite' \in [Groups -> [Handles -> Invitation \union {Nobody}]]
      /\ \A k \in Groups, j \in Handles : invite'[k][j] \in {invite[k][j], Nobody}
  BY <1>1 DEF PeopleInv, PeopleTypeOK
<1>3. AnswerKept'
  BY <1>1, <1>2 DEF PeopleInv, AnswerKept
<1>4. CASE consentedMembership(member[g][u])
  <2>1. member' = member
    BY <1>4 DEF AcceptMyInvitation
  <2>2. PeopleTypeOK'
    BY <1>1, <1>2, <2>1 DEF PeopleInv, PeopleTypeOK
  <2>3. GoneEmpty' /\ Unowned' /\ CreatorKept'
    <3>1. \A k \in Groups, j \in Handles : invite'[k][j] = Nobody \/ group[k] # Nobody
      BY <1>2 DEF PeopleInv, GoneEmpty
    <3> QED BY <1>1, <2>1, <3>1, GroupsKept
  <2> QED BY <1>3, <2>2, <2>3 DEF PeopleInv
<1>5. CASE ~consentedMembership(member[g][u])
  <2> DEFINE m == AcceptInvitationMembership(member[g][u])
  <2>1. SetMember(g, u, m)
    BY <1>5 DEF AcceptMyInvitation
  <2>2. /\ m \in Membership
        /\ m.role # "owner" \/ RoleOf(g, u) = "owner"
    <3>1. CASE member[g][u] = Nobody
      BY <3>1 DEF AcceptInvitationMembership, Membership, Roles, Origins
    <3>2. CASE member[g][u] # Nobody
      <4>1. member[g][u] \in Membership
        BY <3>2 DEF PeopleInv, PeopleTypeOK
      <4> QED BY <3>2, <4>1 DEF AcceptInvitationMembership, Membership, Roles, Origins, RoleOf
    <3> QED BY <3>1, <3>2
  <2>3. u # creator[g]
    BY <1>5 DEF PeopleInv, CreatorKept, consentedMembership
  <2> HIDE DEF m
  <2>4. member' \in [Groups -> [Users -> Membership \union {Nobody}]]
    BY <2>1, <2>2, SetMemberIs DEF PeopleInv
  <2>5. PeopleTypeOK'
    BY <1>1, <1>2, <2>4 DEF PeopleInv, PeopleTypeOK
  <2>6. GoneEmpty' /\ Unowned' /\ CreatorKept'
    <3>1. \A k \in Groups, j \in Handles : invite[k][j] = Nobody => invite'[k][j] = Nobody
      BY <1>2
    <3>2. group' = group /\ creating' = creating /\ creator' = creator
      BY <1>1
    <3> QED BY <1>1, <2>1, <2>2, <2>3, <3>1, <3>2, OneMembership
  <2> QED BY <1>3, <2>5, <2>6 DEF PeopleInv
<1> QED BY <1>4, <1>5

(* A collective goes with everything that refers to it. *)
LEMMA DeleteStep ==
    ASSUME PeopleInv, NEW g \in Groups, NEW u \in Users, DeleteGroup(u, g)
    PROVE  PeopleInv'
<1>1. creating[g] = Nobody
  BY OwnerHasGroup DEF DeleteGroup
<1>2. /\ group' = [group EXCEPT ![g] = Nobody]
      /\ member' = [member EXCEPT ![g] = NoMembers]
      /\ invite' = [invite EXCEPT ![g] = NoInvitations]
      /\ creator' = [creator EXCEPT ![g] = Nobody]
      /\ answered' = [answered EXCEPT ![g] = [h \in Handles |-> Nobody]]
      /\ UNCHANGED <<orgs, holder, sent, creating>>
  BY DEF DeleteGroup, DeleteGroupRow
<1>3. /\ NoMembers \in [Users -> Membership \union {Nobody}]
      /\ \A v \in Users : NoMembers[v] = Nobody
      /\ NoInvitations \in [Handles -> Invitation \union {Nobody}]
      /\ \A h \in Handles : NoInvitations[h] = Nobody
  BY DEF NoMembers, NoInvitations
<1>4. PeopleTypeOK'
  BY <1>2, <1>3 DEF PeopleInv, PeopleTypeOK
<1>5. GoneEmpty'
  BY <1>1, <1>2, <1>3 DEF PeopleInv, PeopleTypeOK, GoneEmpty
<1>6. Unowned'
  BY <1>1, <1>2 DEF PeopleInv, PeopleTypeOK, Unowned, RoleOf
<1>7. CreatorKept'
  BY <1>2 DEF PeopleInv, PeopleTypeOK, CreatorKept
<1>8. AnswerKept'
  BY <1>2, <1>3 DEF PeopleInv, PeopleTypeOK, AnswerKept
<1> QED BY <1>4, <1>5, <1>6, <1>7, <1>8 DEF PeopleInv

(* No step of the people, in whatever order they come, disturbs the invariant. *)
LEMMA PeopleStep ==
    ASSUME PeopleInv, [Next]_vars
    PROVE  PeopleInv'
<1>1. CASE UNCHANGED peopleVars
  <2>1. PeopleTypeOK'
    BY <1>1 DEF peopleVars, PeopleInv, PeopleTypeOK
  <2> QED BY <1>1, <2>1, ElsewhereStep DEF peopleVars
<1>2. CASE InvitationStep
  <2>1. PICK g \in Groups, u \in Users, h \in Handles :
            \/ InviteAgain(u, g, h) \/ CreateGroupInvitation(u, g, h)
            \/ RevokeGroupInvitation(u, g, h) \/ DeclineMyInvitation(u, g, h) \/ Expire(g, h)
            \/ SetUsername(u, h) \/ LeaveHandle(u) \/ DayEnds
    BY <1>2 DEF InvitationStep
  <2> QED BY <2>1, InvitationSteps, AccountSteps
<1>3. CASE PolicyStep
  <2>1. PICK g \in Groups, u \in Users :
            \/ \E mode \in Modes, org \in Orgs \union {Nobody} : CreateGroup(u, g, mode, org)
            \/ CreatorNotRecorded(g)
            \/ \E mode \in Modes, exit \in Exits, org \in Orgs \union {Nobody} :
                    UpdateGroup(u, g, mode, exit, org)
            \/ \E v \in Users, role \in Roles : PromoteMember(u, g, v, role)
            \/ \E found \in SUBSET Orgs : SyncOrgs(u, found)
    BY <1>3 DEF PolicyStep
  <2> QED BY <2>1, PolicySteps, MemberSteps, AccountSteps
<1>4. CASE MembershipStep
  <2>1. PICK g \in Groups, u \in Users :
            \/ AddGroupCreator(g) \/ JoinGroup(u, g)
            \/ \E h \in Handles : AcceptMyInvitation(u, g, h)
            \/ DeleteGroup(u, g)
            \/ \E v \in Users : MayRemove(u, g, v) /\ RemoveGroupMember(g, v)
    BY <1>4 DEF MembershipStep, RemoveMember
  <2> QED BY <2>1, CreatorStep, MemberSteps, AcceptStep, DeleteStep
<1>5. ASSUME ShareStep \/ ReviewStep PROVE UNCHANGED peopleVars
  <2>1. CASE ShareStep
    BY <2>1 DEF ShareStep, ShareTranscript, UnshareReads, UnshareNothing, UnshareCommits,
         UnshareRefused, ChangeVisibility, DeleteTranscript, BatchPreflight, BatchCommits, BatchEnds
  <2>2. CASE ReviewStep
    BY <2>2 DEF ReviewStep, ReviewShare, BatchReviewShares, RemoveTranscript
  <2> QED BY <1>5, <2>1, <2>2
<1> QED BY <1>1, <1>2, <1>3, <1>4, <1>5 DEF Next, vars

(* At the start everybody and every collective is as the tables say. *)
LEMMA PeopleStart == PeopleInit => PeopleInv
<1> SUFFICES ASSUME PeopleInit PROVE PeopleInv
  OBVIOUS
<1>1. \A u \in Users : \A f \in Founded(u) :
          /\ f \in [Users -> Membership \union {Nobody}]
          /\ f[u] \in Membership /\ f[u].role = "owner" /\ f[u].origin = "creator"
  <2> SUFFICES ASSUME NEW u \in Users, NEW f \in Founded(u)
               PROVE  /\ f \in [Users -> Membership \union {Nobody}]
                      /\ f[u] \in Membership /\ f[u].role = "owner" /\ f[u].origin = "creator"
    OBVIOUS
  <2> DEFINE o == [role |-> "owner", origin |-> "creator"]
  <2>1. o \in Membership /\ o.role = "owner" /\ o.origin = "creator"
    BY DEF Membership, Roles, Origins
  <2>2. CASE f = [NoMembers EXCEPT ![u] = o]
    <3> HIDE DEF o
    <3> QED BY <2>1, <2>2 DEF NoMembers
  <2>3. ASSUME NEW v \in Users \ {u}, NEW r \in Roles \ {"owner"},
               f = [NoMembers EXCEPT ![u] = o, ![v] = [role |-> r, origin |-> "legacy"]]
        PROVE  /\ f \in [Users -> Membership \union {Nobody}] /\ f[u] = o
    <3> DEFINE l == [role |-> r, origin |-> "legacy"]
    <3>1. l \in Membership
      BY DEF Membership, Origins
    <3>2. f = [NoMembers EXCEPT ![u] = o, ![v] = l]
      BY <2>3
    <3> HIDE DEF o, l
    <3> QED BY <2>1, <3>1, <3>2 DEF NoMembers
  <2>4. \/ f = [NoMembers EXCEPT ![u] = o]
        \/ \E v \in Users \ {u}, r \in Roles \ {"owner"} :
              f = [NoMembers EXCEPT ![u] = o, ![v] = [role |-> r, origin |-> "legacy"]]
    BY DEF Founded
  <2> HIDE DEF o
  <2> QED BY <2>1, <2>2, <2>3, <2>4
<1>2. NoMembers \in [Users -> Membership \union {Nobody}] /\ \A u \in Users : NoMembers[u] = Nobody
  BY DEF NoMembers
<1>3. member \in [Groups -> [Users -> Membership \union {Nobody}]]
  BY <1>1, <1>2 DEF PeopleInit
<1>4. group \in [Groups -> Group \union {Nobody}]
  BY DEF PeopleInit, Group
<1>5. PeopleTypeOK
  BY <1>3, <1>4 DEF PeopleInit, PeopleTypeOK, NoInvitations
<1>6. GoneEmpty
  BY <1>2 DEF PeopleInit, GoneEmpty, NoInvitations
<1>7. Unowned
  BY DEF PeopleInit, Unowned
<1>8. CreatorKept
  BY <1>1, <1>5 DEF PeopleInit, PeopleTypeOK, CreatorKept
<1>9. AnswerKept
  BY DEF PeopleInit, AnswerKept, NoInvitations
<1> QED BY <1>5, <1>6, <1>7, <1>8, <1>9 DEF PeopleInv

------------------------------------------------------------------------------
(* Submissions. *)

(* Every ledger is open at its last event only, and the derived row follows it. *)
LedgerInv ==
    /\ attempts \in [Groups -> [Transcripts -> Seq(Statuses)]]
    /\ shares \in [Groups -> [Transcripts -> ShareRows \union {None}]]
    /\ \A g \in Groups, t \in Transcripts :
          Ledger(attempts[g][t]) /\ shares[g][t] = DerivedRow(attempts[g][t])

(* What a batch holds between its preflight and its transaction. *)
BatchHeld ==
    batch # None => batch \in Batch /\ \A t \in batch.selected : OwnerOf[t] = batch.owner

(* A statement leaves each pair it writes with the given ledger and its derived row,
   and every other pair as it was. *)
LEMMA LedgerWritten ==
    ASSUME LedgerInv, NEW W \in SUBSET (Groups \X Transcripts), NEW written,
           DOMAIN written = W, WriteAttempts(written), \A p \in W : Ledger(written[p])
    PROVE  /\ LedgerInv'
           /\ \A g \in Groups, t \in Transcripts :
                 attempts'[g][t] = IF <<g, t>> \in W THEN written[<<g, t>>] ELSE attempts[g][t]
<1>1. \A g \in Groups, t \in Transcripts :
         attempts'[g][t] = IF <<g, t>> \in W THEN written[<<g, t>>] ELSE attempts[g][t]
  BY DEF WriteAttempts
<1>2. \A g \in Groups, t \in Transcripts :
         shares'[g][t] = IF <<g, t>> \in W THEN DerivedRow(written[<<g, t>>]) ELSE shares[g][t]
  BY DEF WriteAttempts
<1>3. \A g \in Groups, t \in Transcripts :
         Ledger(attempts'[g][t]) /\ shares'[g][t] = DerivedRow(attempts'[g][t])
  <2> SUFFICES ASSUME NEW g \in Groups, NEW t \in Transcripts
               PROVE  Ledger(attempts'[g][t]) /\ shares'[g][t] = DerivedRow(attempts'[g][t])
    OBVIOUS
  <2>1. CASE <<g, t>> \in W
    <3>1. attempts'[g][t] = written[<<g, t>>] /\ shares'[g][t] = DerivedRow(written[<<g, t>>])
      BY <1>1, <1>2, <2>1
    <3> QED BY <2>1, <3>1
  <2>2. CASE <<g, t>> \notin W
    <3>1. attempts'[g][t] = attempts[g][t] /\ shares'[g][t] = shares[g][t]
      BY <1>1, <1>2, <2>2
    <3> QED BY <3>1 DEF LedgerInv
  <2> QED BY <2>1, <2>2
<1>4. \A g \in Groups, t \in Transcripts :
         attempts'[g][t] \in Seq(Statuses) /\ shares'[g][t] \in ShareRows \union {None}
  BY <1>3 DEF Ledger, DerivedRow
<1>5. /\ attempts' \in [Groups -> [Transcripts -> Seq(Statuses)]]
      /\ shares' \in [Groups -> [Transcripts -> ShareRows \union {None}]]
  <2>1. /\ attempts' = [g \in Groups |-> [t \in Transcripts |-> attempts'[g][t]]]
        /\ shares' = [g \in Groups |-> [t \in Transcripts |-> shares'[g][t]]]
    BY DEF WriteAttempts
  <2> QED BY <1>4, <2>1
<1> QED BY <1>1, <1>3, <1>5 DEF LedgerInv

(* The pairs of W move from one of the standings of from to one of those of to, the
   others stay. *)
Moved(W, from, to) ==
    /\ W \subseteq Groups \X Transcripts
    /\ \A g \in Groups, t \in Transcripts :
          IF <<g, t>> \in W
          THEN StandingIn(attempts[g][t]) \in from /\ StandingIn(attempts'[g][t]) \in to
          ELSE attempts'[g][t] = attempts[g][t]

(* The three ways a step may move submissions between standings. *)
Submits ==
    \E W : /\ Moved(W, {"never", "declined", "closed"}, {"open", "accepted"})
           /\ \A g \in Groups, t \in Transcripts :
                 <<g, t>> \in W => EntersUnderPolicy(g, t) /\ vis[t] # None

Decides == \E W : Moved(W, {"open"}, {"accepted", "declined"})

Closes == \E W : Moved(W, {"open", "accepted"}, {"closed"})

(* The status a submission is given is the one the policy gives an accepted member
   when it is written. *)
LEMMA StatusIsPolicy ==
    ASSUME PeopleInv, NEW g \in Groups, NEW u \in Users, finalShareStatus(g, u) # None
    PROVE  /\ finalShareStatus(g, u) \in {"pending", "approved"}
           /\ AcceptedRole(g, u)
           /\ group[g].mode = "curated" <=> finalShareStatus(g, u) = "pending"
           /\ group[g].mode = "verified_only" => Verified(g, u)
<1>1. group[g] # Nobody /\ AcceptedRole(g, u) /\ finalShareStatus(g, u) = shareStatusForGroup(g, u)
  BY Zenon DEF finalShareStatus
<1>2. group[g].mode \in {"open", "verified_only", "curated"}
  <2>1. group[g] \in Group
    BY <1>1 DEF PeopleInv, PeopleTypeOK
  <2> QED BY <2>1 DEF Group
<1>3. CASE group[g].mode = "verified_only"
  <2>1. shareStatusForGroup(g, u) = IF Verified(g, u) THEN "approved" ELSE None
    BY <1>3 DEF shareStatusForGroup
  <2> QED BY <1>1, <1>3, <2>1
<1>4. CASE group[g].mode = "curated"
  <2>1. shareStatusForGroup(g, u) = "pending"
    BY <1>4 DEF shareStatusForGroup
  <2> QED BY <1>1, <1>4, <2>1
<1>5. CASE group[g].mode = "open"
  <2>1. shareStatusForGroup(g, u) = "approved"
    BY <1>5 DEF shareStatusForGroup
  <2> QED BY <1>1, <1>5, <2>1
<1> QED BY <1>2, <1>3, <1>4, <1>5

(* What both kinds of share do to the pairs they write. *)
LEMMA SubmissionsWritten ==
    ASSUME PeopleInv, LedgerInv, NEW W \in SUBSET (Groups \X Transcripts), NEW written,
           DOMAIN written = W, WriteAttempts(written),
           \A g \in Groups, t \in Transcripts : <<g, t>> \in W =>
              /\ ~IsLive(attempts[g][t])
              /\ finalShareStatus(g, OwnerOf[t]) # None
              /\ written[<<g, t>>] =
                    ShareTranscriptWithStatus(attempts[g][t], finalShareStatus(g, OwnerOf[t]))
              /\ vis[t] # None
    PROVE  LedgerInv' /\ Submits
<1> DEFINE status(g, t) == finalShareStatus(g, OwnerOf[t])
<1>1. \A g \in Groups, t \in Transcripts : <<g, t>> \in W =>
         /\ status(g, t) \in {"pending", "approved"}
         /\ AcceptedRole(g, OwnerOf[t])
         /\ group[g].mode = "curated" <=> status(g, t) = "pending"
         /\ group[g].mode = "verified_only" => Verified(g, OwnerOf[t])
  BY StatusIsPolicy
<1> HIDE DEF status
<1>2. \A g \in Groups, t \in Transcripts : <<g, t>> \in W =>
         /\ Ledger(written[<<g, t>>])
         /\ GetLatestShareAttempt(written[<<g, t>>]) = status(g, t)
         /\ StandingIn(attempts[g][t]) \in {"never", "declined", "closed"}
         /\ StandingIn(written[<<g, t>>]) \in {"open", "accepted"}
  <2> SUFFICES ASSUME NEW g \in Groups, NEW t \in Transcripts, <<g, t>> \in W
               PROVE  /\ Ledger(written[<<g, t>>])
                      /\ GetLatestShareAttempt(written[<<g, t>>]) = status(g, t)
                      /\ StandingIn(attempts[g][t]) \in {"never", "declined", "closed"}
                      /\ StandingIn(written[<<g, t>>]) \in {"open", "accepted"}
    OBVIOUS
  <2>1. Ledger(attempts[g][t]) /\ ~IsLive(attempts[g][t]) /\ status(g, t) \in {"pending", "approved"}
    BY <1>1 DEF LedgerInv
  <2>2. written[<<g, t>>] = ShareTranscriptWithStatus(attempts[g][t], status(g, t))
    BY DEF status
  <2> QED BY <2>1, <2>2, SubmittedLedger
<1>3. \A p \in W : Ledger(written[p])
  BY <1>2
<1>4. /\ LedgerInv'
      /\ \A g \in Groups, t \in Transcripts :
            attempts'[g][t] = IF <<g, t>> \in W THEN written[<<g, t>>] ELSE attempts[g][t]
  BY <1>3, LedgerWritten
<1>5. Moved(W, {"never", "declined", "closed"}, {"open", "accepted"})
  BY <1>2, <1>4 DEF Moved
<1>6. \A g \in Groups, t \in Transcripts :
         <<g, t>> \in W => EntersUnderPolicy(g, t) /\ vis[t] # None
  BY <1>1, <1>2, <1>4 DEF EntersUnderPolicy
<1> QED BY <1>4, <1>5, <1>6 DEF Submits

(* What a decision does to the pairs it writes. *)
LEMMA DecisionsWritten ==
    ASSUME LedgerInv, NEW W \in SUBSET (Groups \X Transcripts), NEW written,
           DOMAIN written = W, WriteAttempts(written), NEW d \in {"approved", "rejected"},
           \A g \in Groups, t \in Transcripts : <<g, t>> \in W =>
              HasOpen(attempts[g][t]) /\ written[<<g, t>>] = UpdateShareStatus(attempts[g][t], d)
    PROVE  LedgerInv' /\ Decides
<1>1. \A g \in Groups, t \in Transcripts : <<g, t>> \in W =>
         /\ Ledger(written[<<g, t>>])
         /\ StandingIn(attempts[g][t]) = "open"
         /\ StandingIn(written[<<g, t>>]) \in {"accepted", "declined"}
  BY DecidedLedger DEF LedgerInv
<1>2. \A p \in W : Ledger(written[p])
  BY <1>1
<1>3. /\ LedgerInv'
      /\ \A g \in Groups, t \in Transcripts :
            attempts'[g][t] = IF <<g, t>> \in W THEN written[<<g, t>>] ELSE attempts[g][t]
  BY <1>2, LedgerWritten
<1>4. Moved(W, {"open"}, {"accepted", "declined"})
  BY <1>1, <1>3 DEF Moved
<1> QED BY <1>3, <1>4 DEF Decides

(* What a withdrawal the ledgers admit does to the pairs it writes. *)
LEMMA WithdrawalsWritten ==
    ASSUME LedgerInv, NEW W \in SUBSET (Groups \X Transcripts), NEW written,
           DOMAIN written = W, WriteAttempts(written), NEW s \in {"retracted", "revoked"},
           \A g \in Groups, t \in Transcripts : <<g, t>> \in W =>
              /\ WithdrawalAdmitted(attempts[g][t])
              /\ written[<<g, t>>] = Withdrawn(attempts[g][t], s)
    PROVE  /\ LedgerInv' /\ Closes
           /\ \A g \in Groups, t \in Transcripts :
                 IF <<g, t>> \in W THEN ~IsLive(attempts'[g][t])
                 ELSE attempts'[g][t] = attempts[g][t]
<1> DEFINE V == {p \in W : LiveEvent(attempts[p[1]][p[2]]) > 0}
<1>1. \A g \in Groups, t \in Transcripts : <<g, t>> \in W =>
         /\ Ledger(written[<<g, t>>])
         /\ ~IsLive(written[<<g, t>>])
         /\ IF LiveEvent(attempts[g][t]) > 0
            THEN /\ StandingIn(attempts[g][t]) \in {"open", "accepted"}
                 /\ StandingIn(written[<<g, t>>]) = "closed"
            ELSE written[<<g, t>>] = attempts[g][t]
  BY WithdrawnLedger DEF LedgerInv
<1>2. \A p \in W : Ledger(written[p])
  BY <1>1
<1>3. /\ LedgerInv'
      /\ \A g \in Groups, t \in Transcripts :
            attempts'[g][t] = IF <<g, t>> \in W THEN written[<<g, t>>] ELSE attempts[g][t]
  BY <1>2, LedgerWritten
<1>4. \A g \in Groups, t \in Transcripts :
         <<g, t>> \in V <=> <<g, t>> \in W /\ LiveEvent(attempts[g][t]) > 0
  OBVIOUS
<1>5. V \subseteq Groups \X Transcripts
  OBVIOUS
<1> HIDE DEF V
<1>6. Moved(V, {"open", "accepted"}, {"closed"})
  <2> SUFFICES ASSUME NEW g \in Groups, NEW t \in Transcripts
               PROVE  IF <<g, t>> \in V
                      THEN /\ StandingIn(attempts[g][t]) \in {"open", "accepted"}
                           /\ StandingIn(attempts'[g][t]) \in {"closed"}
                      ELSE attempts'[g][t] = attempts[g][t]
    BY <1>5 DEF Moved
  <2>1. CASE <<g, t>> \in V
    BY <1>1, <1>3, <1>4, <2>1
  <2>2. CASE <<g, t>> \notin V /\ <<g, t>> \in W
    BY <1>1, <1>3, <1>4, <2>2
  <2>3. CASE <<g, t>> \notin V /\ <<g, t>> \notin W
    BY <1>3, <2>3
  <2> QED BY <2>1, <2>2, <2>3
<1>7. Closes
  BY <1>6 DEF Closes
<1>8. \A g \in Groups, t \in Transcripts :
         IF <<g, t>> \in W THEN ~IsLive(attempts'[g][t]) ELSE attempts'[g][t] = attempts[g][t]
  BY <1>1, <1>3
<1> QED BY <1>3, <1>7, <1>8

(* A share writes the collectives in which nothing of the transcript is live. *)
LEMMA ShareMoves ==
    ASSUME PeopleInv, LedgerInv, NEW t \in Transcripts, NEW gs \in SUBSET Groups,
           ShareTranscript(t, gs)
    PROVE  LedgerInv' /\ Submits
<1> DEFINE fresh == {g \in gs : ~IsLive(attempts[g][t])}
           written == [p \in fresh \X {t} |->
               ShareTranscriptWithStatus(attempts[p[1]][t], finalShareStatus(p[1], OwnerOf[t]))]
<1>1. WriteAttempts(written) /\ vis[t] # None /\ \A g \in gs : finalShareStatus(g, OwnerOf[t]) # None
  BY DEF ShareTranscript
<1>2. DOMAIN written = fresh \X {t} /\ fresh \X {t} \subseteq Groups \X Transcripts
  OBVIOUS
<1>3. \A g \in Groups, s \in Transcripts : <<g, s>> \in fresh \X {t} =>
         /\ s = t /\ g \in gs /\ ~IsLive(attempts[g][s])
         /\ written[<<g, s>>] =
               ShareTranscriptWithStatus(attempts[g][s], finalShareStatus(g, OwnerOf[s]))
  OBVIOUS
<1> HIDE DEF written, fresh
<1> QED BY <1>1, <1>2, <1>3, SubmissionsWritten

(* A batch writes what its preflight found not to be live, which its transaction
   found again, with the status it found again. *)
LEMMA BatchMoves ==
    ASSUME PeopleInv, LedgerInv, BatchHeld, BatchCommits
    PROVE  LedgerInv' /\ Submits
<1> DEFINE fresh == batch.selected \ batch.live
           written == [p \in {batch.group} \X fresh |->
               ShareTranscriptWithStatus(attempts[batch.group][p[2]], batch.status)]
           W == {batch.group} \X fresh
<1>1. batch \in Batch /\ \A t \in batch.selected : OwnerOf[t] = batch.owner
  BY DEF BatchCommits, BatchHeld
<1>2. batch.group \in Groups /\ batch.selected \subseteq Transcripts /\ batch.owner \in Users
      /\ batch.status \in {"pending", "approved"}
  BY <1>1 DEF Batch
<1>3. /\ WriteAttempts(written)
      /\ finalShareStatus(batch.group, batch.owner) = batch.status
      /\ \A t \in batch.selected : vis[t] # None
      /\ \A t \in fresh : ~IsLive(attempts[batch.group][t])
  BY DEF BatchCommits, BatchStillHolds, LiveIn
<1>4. batch.status # None
  BY <1>2 DEF Statuses
<1>5. DOMAIN written = W /\ W \subseteq Groups \X Transcripts
  BY <1>2
<1>6. \A g \in Groups, t \in Transcripts : <<g, t>> \in W =>
         g = batch.group /\ t \in fresh /\ t \in batch.selected
         /\ written[<<g, t>>] = ShareTranscriptWithStatus(attempts[g][t], batch.status)
  OBVIOUS
<1> HIDE DEF written, fresh, W
<1>7. \A g \in Groups, t \in Transcripts : <<g, t>> \in W =>
         /\ ~IsLive(attempts[g][t])
         /\ finalShareStatus(g, OwnerOf[t]) # None
         /\ written[<<g, t>>] =
               ShareTranscriptWithStatus(attempts[g][t], finalShareStatus(g, OwnerOf[t]))
         /\ vis[t] # None
  BY <1>1, <1>3, <1>4, <1>6
<1> QED BY <1>3, <1>5, <1>7, SubmissionsWritten

(* A review and a batch of reviews decide what is open. *)
LEMMA ReviewMoves ==
    ASSUME LedgerInv, NEW u \in Users, NEW g \in Groups, NEW d \in {"approved", "rejected"},
           \/ \E t \in Transcripts : ReviewShare(u, g, t, d)
           \/ \E ts \in SUBSET Transcripts : BatchReviewShares(u, g, ts, d)
    PROVE  LedgerInv' /\ Decides
<1>1. ASSUME NEW t \in Transcripts, ReviewShare(u, g, t, d) PROVE LedgerInv' /\ Decides
  <2> DEFINE written == Only(g, t, UpdateShareStatus(attempts[g][t], d))
             W == {<<g, t>>}
  <2>1. WriteAttempts(written) /\ HasOpen(attempts[g][t])
    BY <1>1 DEF ReviewShare
  <2>2. DOMAIN written = W /\ W \subseteq Groups \X Transcripts
    BY DEF Only
  <2>3. \A k \in Groups, s \in Transcripts : <<k, s>> \in W =>
           HasOpen(attempts[k][s]) /\ written[<<k, s>>] = UpdateShareStatus(attempts[k][s], d)
    BY <2>1 DEF Only
  <2> HIDE DEF written, W
  <2>4. LedgerInv' /\ Decides
    BY ONLY LedgerInv, <2>1, <2>2, <2>3, d \in {"approved", "rejected"}, DecisionsWritten
  <2> QED BY <2>4
<1>2. ASSUME NEW ts \in SUBSET Transcripts, BatchReviewShares(u, g, ts, d) PROVE LedgerInv' /\ Decides
  <2> DEFINE open == {t \in ts : HasOpen(attempts[g][t])}
             written == [p \in {g} \X open |-> UpdateShareStatus(attempts[g][p[2]], d)]
             W == {g} \X open
  <2>1. WriteAttempts(written)
    BY <1>2 DEF BatchReviewShares
  <2>2. DOMAIN written = W /\ W \subseteq Groups \X Transcripts
    OBVIOUS
  <2>3. \A k \in Groups, s \in Transcripts : <<k, s>> \in W =>
           HasOpen(attempts[k][s]) /\ written[<<k, s>>] = UpdateShareStatus(attempts[k][s], d)
    OBVIOUS
  <2> HIDE DEF written, W, open
  <2>4. LedgerInv' /\ Decides
    BY ONLY LedgerInv, <2>1, <2>2, <2>3, d \in {"approved", "rejected"}, DecisionsWritten
  <2> QED BY <2>4
<1> QED BY <1>1, <1>2

(* An unshare and a removal by the collective close what is live. *)
LEMMA UnshareMoves ==
    ASSUME LedgerInv, NEW g \in Groups, NEW t \in Transcripts, NEW s \in {"retracted", "revoked"},
           WithdrawalAdmitted(attempts[g][t]),
           WriteAttempts(Only(g, t, Withdrawn(attempts[g][t], s)))
    PROVE  LedgerInv' /\ Closes
<1> DEFINE written == Only(g, t, Withdrawn(attempts[g][t], s))
           W == {<<g, t>>}
<1>1. DOMAIN written = W /\ W \subseteq Groups \X Transcripts
  BY DEF Only
<1>2. \A k \in Groups, r \in Transcripts : <<k, r>> \in W =>
         WithdrawalAdmitted(attempts[k][r]) /\ written[<<k, r>>] = Withdrawn(attempts[k][r], s)
  BY DEF Only
<1>3. WriteAttempts(written)
  OBVIOUS
<1> HIDE DEF written, W
<1>4. LedgerInv' /\ Closes
  BY ONLY LedgerInv, <1>1, <1>2, <1>3, WithdrawalsWritten, s \in {"retracted", "revoked"}
<1> QED BY <1>4

(* A departure that retracts leaves nothing of the person's live. *)
LEMMA RetractMoves ==
    ASSUME LedgerInv, NEW g \in Groups, NEW v \in Users, RetractAdmitted(g, v), Retracted(g, v)
    PROVE  /\ LedgerInv' /\ Closes
           /\ \A t \in Owned(v) : ~IsLive(attempts'[g][t])
           /\ \A k \in Groups, t \in Transcripts :
                 IsLive(attempts'[k][t]) => IsLive(attempts[k][t])
<1> DEFINE ts == {t \in Owned(v) : LiveEvent(attempts[g][t]) > 0}
           written == [p \in {g} \X ts |-> RetractUserSharesInGroup(attempts[g][p[2]])]
           W == {g} \X ts
<1>1. WriteAttempts(written)
  BY DEF Retracted
<1>2. DOMAIN written = W /\ W \subseteq Groups \X Transcripts
  BY DEF Owned
<1>3. \A k \in Groups, r \in Transcripts : <<k, r>> \in W =>
         /\ WithdrawalAdmitted(attempts[k][r])
         /\ written[<<k, r>>] = Withdrawn(attempts[k][r], "retracted")
  BY DEF RetractAdmitted, RetractUserSharesInGroup
<1>4. \A t \in Owned(v) : <<g, t>> \notin W => LiveEvent(attempts[g][t]) = 0
  BY LiveEventIs DEF LedgerInv, Owned
<1> HIDE DEF written, W, ts
<1>5. /\ LedgerInv' /\ Closes
      /\ \A k \in Groups, t \in Transcripts :
            IF <<k, t>> \in W THEN ~IsLive(attempts'[k][t])
            ELSE attempts'[k][t] = attempts[k][t]
  BY <1>1, <1>2, <1>3, WithdrawalsWritten
<1>6. \A t \in Owned(v) : ~IsLive(attempts'[g][t])
  <2> SUFFICES ASSUME NEW t \in Owned(v), <<g, t>> \notin W PROVE ~IsLive(attempts[g][t])
    BY <1>5 DEF Owned
  <2>1. LiveEvent(attempts[g][t]) = 0 /\ Ledger(attempts[g][t]) /\ WithdrawalAdmitted(attempts[g][t])
    BY <1>4 DEF LedgerInv, Owned, RetractAdmitted
  <2>2. Withdrawn(attempts[g][t], "retracted") = attempts[g][t]
    BY <2>1 DEF Withdrawn
  <2> QED BY <2>1, <2>2, WithdrawnLedger
<1> QED BY <1>5, <1>6

(* A collective or a transcript goes with its ledgers. *)
Clears ==
    \/ \E g \in Groups : \A k \in Groups, t \in Transcripts :
          attempts'[k][t] = IF k = g THEN <<>> ELSE attempts[k][t]
    \/ \E s \in Transcripts : \A k \in Groups, t \in Transcripts :
          attempts'[k][t] = IF t = s THEN <<>> ELSE attempts[k][t]

LedgerStays == attempts' = attempts

(* The empty ledger is one. *)
LEMMA EmptyLedger ==
    /\ Ledger(<<>>) /\ <<>> \in Seq(Statuses)
    /\ DerivedRow(<<>>) = None
    /\ ~IsLive(<<>>)
  BY DEF Ledger, DerivedRow, GetLatestShareAttempt, ShareRows, IsLive, shareAttemptIsLive, Statuses

(* Deleting a collective or a transcript. *)
LEMMA ClearMoves ==
    ASSUME LedgerInv,
           \/ \E g \in Groups : CascadeGroup(g)
           \/ \E t \in Transcripts : DeleteTranscript(t)
    PROVE  LedgerInv' /\ Clears
<1>1. ASSUME NEW g \in Groups, CascadeGroup(g) PROVE LedgerInv' /\ Clears
  <2>1. \A k \in Groups, t \in Transcripts :
           /\ attempts'[k][t] = IF k = g THEN <<>> ELSE attempts[k][t]
           /\ shares'[k][t] = IF k = g THEN None ELSE shares[k][t]
    BY <1>1 DEF CascadeGroup, LedgerInv
  <2>2. /\ attempts' \in [Groups -> [Transcripts -> Seq(Statuses)]]
        /\ shares' \in [Groups -> [Transcripts -> ShareRows \union {None}]]
    BY <1>1, EmptyLedger DEF CascadeGroup, LedgerInv
  <2>3. LedgerInv'
    BY <2>1, <2>2, EmptyLedger DEF LedgerInv
  <2> QED BY <2>1, <2>3 DEF Clears
<1>2. ASSUME NEW s \in Transcripts, DeleteTranscript(s) PROVE LedgerInv' /\ Clears
  <2>1. \A k \in Groups, t \in Transcripts :
           /\ attempts'[k][t] = IF t = s THEN <<>> ELSE attempts[k][t]
           /\ shares'[k][t] = IF t = s THEN None ELSE shares[k][t]
    BY <1>2 DEF DeleteTranscript, LedgerInv
  <2>2. /\ attempts' \in [Groups -> [Transcripts -> Seq(Statuses)]]
        /\ shares' \in [Groups -> [Transcripts -> ShareRows \union {None}]]
    BY <1>2, EmptyLedger DEF DeleteTranscript, LedgerInv
  <2>3. LedgerInv'
    BY <2>1, <2>2, EmptyLedger DEF LedgerInv
  <2> QED BY <2>1, <2>3 DEF Clears
<1> QED BY <1>1, <1>2

(* The rest of the state that the invariants speak of. *)
ShareTypeOK ==
    /\ vis \in [Transcripts -> Visibilities \union {None}]
    /\ batch \in Batch \union {None}
    /\ unsharing \in [Transcripts -> Groups \union {None}]
    /\ departed \subseteq Groups \X Users

(* Every step moves submissions in one of the ways the collective promises. *)
LEMMA LedgerMoves ==
    ASSUME PeopleInv, LedgerInv, ShareTypeOK, BatchHeld, [Next]_vars
    PROVE  LedgerInv' /\ (Submits \/ Decides \/ Closes \/ Clears \/ LedgerStays)
<1> DEFINE Goal == LedgerInv' /\ (Submits \/ Decides \/ Closes \/ Clears \/ LedgerStays)
<1>1. ASSUME UNCHANGED <<attempts, shares>> PROVE Goal
  BY <1>1 DEF LedgerInv, LedgerStays
<1>2. CASE UNCHANGED vars
  BY <1>1, <1>2 DEF vars, shareVars
<1>3. CASE (InvitationStep \/ PolicyStep) /\ UNCHANGED shareVars
  BY <1>1, <1>3 DEF shareVars
<1>4. CASE MembershipStep
  <2>1. PICK g \in Groups, u \in Users :
            \/ \E v \in Users \union {Nobody} : Returns(g, v)
            \/ CascadeGroup(g)
            \/ \E v \in Users, asked \in BOOLEAN : RemoveMember(u, g, v, asked)
    BY <1>4 DEF MembershipStep, PeopleInv, PeopleTypeOK
  <2>2. CASE \E v \in Users \union {Nobody} : Returns(g, v)
    BY <1>1, <2>2 DEF Returns
  <2>3. CASE CascadeGroup(g)
    BY <2>3, ClearMoves
  <2>4. ASSUME NEW v \in Users, NEW asked \in BOOLEAN, RemoveMember(u, g, v, asked) PROVE Goal
    <3>1. \/ RetractAdmitted(g, v) /\ Retracted(g, v)
          \/ UNCHANGED <<attempts, shares>>
      BY <2>4 DEF RemoveMember
    <3> QED BY <1>1, <3>1, RetractMoves
  <2> QED BY <2>1, <2>2, <2>3, <2>4
<1>5. CASE ShareStep
  <2>1. ASSUME NEW t \in Transcripts, NEW gs \in SUBSET Groups, ShareTranscript(t, gs) PROVE Goal
    BY <2>1, ShareMoves
  <2>2. ASSUME NEW t \in Transcripts, UnshareCommits(t) PROVE Goal
    <3>1. /\ unsharing[t] \in Groups
          /\ WithdrawalAdmitted(attempts[unsharing[t]][t])
          /\ WriteAttempts(Only(unsharing[t], t, Withdrawn(attempts[unsharing[t]][t], "retracted")))
      BY <2>2 DEF UnshareCommits, UnshareTranscript, ShareTypeOK
    <3> QED BY <3>1, UnshareMoves
  <2>3. ASSUME NEW t \in Transcripts, DeleteTranscript(t) PROVE Goal
    BY <2>3, ClearMoves
  <2>4. CASE BatchCommits
    BY <2>4, BatchMoves
  <2>5. CASE \/ \E t \in Transcripts :
                  \/ \E g \in Groups : UnshareReads(t, g) \/ UnshareNothing(t, g)
                  \/ UnshareRefused(t)
                  \/ \E v \in {"private", "public"} : ChangeVisibility(t, v)
             \/ \E u \in Users, g \in Groups, ts \in SUBSET Transcripts, confirmed \in BOOLEAN :
                  BatchPreflight(u, g, ts, confirmed)
             \/ BatchEnds
    <3>1. UNCHANGED <<attempts, shares>>
      BY <2>5 DEF UnshareReads, UnshareNothing, UnshareRefused, ChangeVisibility, BatchPreflight,
                  BatchEnds
    <3> QED BY <1>1, <3>1
  <2>6. \/ \E t \in Transcripts, gs \in SUBSET Groups : ShareTranscript(t, gs)
        \/ \E t \in Transcripts : UnshareCommits(t)
        \/ \E t \in Transcripts : DeleteTranscript(t)
        \/ BatchCommits
        \/ \/ \E t \in Transcripts :
                  \/ \E g \in Groups : UnshareReads(t, g) \/ UnshareNothing(t, g)
                  \/ UnshareRefused(t)
                  \/ \E v \in {"private", "public"} : ChangeVisibility(t, v)
           \/ \E u \in Users, g \in Groups, ts \in SUBSET Transcripts, confirmed \in BOOLEAN :
                  BatchPreflight(u, g, ts, confirmed)
           \/ BatchEnds
    BY <1>5 DEF ShareStep
  <2> QED BY <2>1, <2>2, <2>3, <2>4, <2>5, <2>6
<1>6. CASE ReviewStep
  <2>1. ASSUME NEW u \in Users, NEW g \in Groups, NEW t \in Transcripts, RemoveTranscript(u, g, t)
        PROVE  Goal
    BY <2>1, UnshareMoves DEF RemoveTranscript, RemoveGroupTranscript
  <2>2. ASSUME NEW u \in Users, NEW g \in Groups, NEW d \in {"approved", "rejected"},
               \/ \E t \in Transcripts : ReviewShare(u, g, t, d)
               \/ \E ts \in SUBSET Transcripts : BatchReviewShares(u, g, ts, d)
        PROVE  Goal
    BY <2>2, ReviewMoves
  <2>3. \E u \in Users, g \in Groups :
            \/ \E t \in Transcripts : RemoveTranscript(u, g, t)
            \/ \E d \in {"approved", "rejected"} :
                  \/ \E t \in Transcripts : ReviewShare(u, g, t, d)
                  \/ \E ts \in SUBSET Transcripts : BatchReviewShares(u, g, ts, d)
    BY <1>6 DEF ReviewStep
  <2> QED BY <2>1, <2>2, <2>3
<1> QED BY <1>2, <1>3, <1>4, <1>5, <1>6 DEF Next

(* A pair is live after a step only if it was, or if it entered as the policy says. *)
LEMMA LiveOnlyBySubmission ==
    ASSUME PeopleInv, LedgerInv, ShareTypeOK, BatchHeld, [Next]_vars,
           NEW g \in Groups, NEW t \in Transcripts
    PROVE  /\ IsLive(attempts'[g][t]) => IsLive(attempts[g][t]) \/ EntersUnderPolicy(g, t)
           /\ attempts[g][t] = <<>> /\ vis[t] = None => attempts'[g][t] = <<>>
<1>1. attempts[g][t] \in Seq(Statuses) /\ attempts'[g][t] \in Seq(Statuses)
  BY LedgerMoves DEF LedgerInv
<1>2. /\ IsLive(attempts[g][t]) <=> StandingIn(attempts[g][t]) \in {"open", "accepted"}
      /\ IsLive(attempts'[g][t]) <=> StandingIn(attempts'[g][t]) \in {"open", "accepted"}
      /\ StandingIn(<<>>) = "never"
      /\ ~IsLive(<<>>)
  BY <1>1, LiveStanding, EmptyLedger
<1>3. CASE Submits
  BY <1>2, <1>3 DEF Submits, Moved
<1>4. CASE Decides
  BY <1>2, <1>4 DEF Decides, Moved
<1>5. CASE Closes
  BY <1>2, <1>5 DEF Closes, Moved
<1>6. CASE Clears
  BY <1>2, <1>6 DEF Clears
<1>7. CASE LedgerStays
  BY <1>7 DEF LedgerStays
<1> QED BY <1>3, <1>4, <1>5, <1>6, <1>7, LedgerMoves

------------------------------------------------------------------------------
(* The inductive invariant of the composition. *)

(* A transcript that is gone has no ledger left. *)
DeletedBlank ==
    \A t \in Transcripts : vis[t] = None => \A g \in Groups : attempts[g][t] = <<>>

(* Whoever departed with their shares retracted is not a member. *)
DepartedOut == \A d \in departed : member[d[1]][d[2]] = Nobody

SharingInv ==
    /\ PeopleInv /\ LedgerInv /\ ShareTypeOK /\ BatchHeld
    /\ DeletedBlank /\ DepartedOut /\ RetractionHolds

(* A row becomes deleted only by DeleteTranscript. *)
LEMMA VisStep ==
    ASSUME SharingInv, [Next]_vars
    PROVE  /\ vis' \in [Transcripts -> Visibilities \union {None}]
           /\ \A t \in Transcripts : vis'[t] = None => vis[t] = None \/ DeleteTranscript(t)
<1> DEFINE Goal == /\ vis' \in [Transcripts -> Visibilities \union {None}]
                   /\ \A t \in Transcripts : vis'[t] = None => vis[t] = None \/ DeleteTranscript(t)
<1>0. vis \in [Transcripts -> Visibilities \union {None}]
  BY DEF SharingInv, ShareTypeOK
<1>1. CASE UNCHANGED vis
  BY <1>0, <1>1
<1>2. ASSUME NEW t \in Transcripts, NEW v \in Visibilities, vis' = [vis EXCEPT ![t] = v] PROVE Goal
  BY <1>0, <1>2
<1>3. ASSUME NEW t \in Transcripts, DeleteTranscript(t) PROVE Goal
  <2>1. vis' = [vis EXCEPT ![t] = None]
    BY <1>3 DEF DeleteTranscript
  <2> QED BY <1>0, <1>3, <2>1
<1>4. ASSUME NEW t \in Transcripts, NEW gs \in SUBSET Groups, ShareTranscript(t, gs) PROVE Goal
  <2>1. vis' = [vis EXCEPT ![t] = IF vis[t] = "private" THEN "shared" ELSE vis[t]] /\ vis[t] # None
    BY <1>0, <1>4 DEF ShareTranscript
  <2> QED BY <1>0, <1>2, <2>1 DEF Visibilities
<1>5. ASSUME NEW t \in Transcripts, UnshareCommits(t) PROVE Goal
  <2> DEFINE v == IF vis[t] = "shared" /\ ~HasLive(attempts', t) THEN "private" ELSE vis[t]
  <2>1. vis' = [vis EXCEPT ![t] = v]
    BY <1>0, <1>5 DEF UnshareCommits, Narrowed
  <2>2. v \in Visibilities \/ v = vis[t]
    BY DEF Visibilities
  <2> HIDE DEF v
  <2> QED BY <1>0, <1>2, <2>1, <2>2
<1>6. CASE BatchCommits
  <2>1. vis' = [t \in Transcripts |->
                   IF t \in (batch.selected \ batch.live) /\ vis[t] = "private" THEN "shared" ELSE vis[t]]
    BY <1>6 DEF BatchCommits
  <2>2. \A t \in Transcripts : vis'[t] \in {"shared", vis[t]}
    BY <2>1
  <2> QED BY <1>0, <2>1, <2>2 DEF Visibilities
<1>7. ASSUME NEW t \in Transcripts,
             \/ \E g \in Groups : UnshareNothing(t, g)
             \/ \E v \in {"private", "public"} : ChangeVisibility(t, v)
      PROVE  Goal
  BY <1>2, <1>7 DEF UnshareNothing, ChangeVisibility, Visibilities
<1>8. CASE UNCHANGED vars
  BY <1>1, <1>8 DEF vars, shareVars
<1>9. CASE (InvitationStep \/ PolicyStep) /\ UNCHANGED shareVars
  BY <1>1, <1>9 DEF shareVars
<1>10. CASE MembershipStep
  BY <1>1, <1>10 DEF MembershipStep, Returns, CascadeGroup, RemoveMember
<1>11. CASE ReviewStep
  BY <1>1, <1>11 DEF ReviewStep, ReviewShare, BatchReviewShares, RemoveTranscript
<1>12. CASE ShareStep
  <2>1. \/ \E t \in Transcripts, gs \in SUBSET Groups : ShareTranscript(t, gs)
        \/ \E t \in Transcripts : UnshareCommits(t)
        \/ \E t \in Transcripts : DeleteTranscript(t)
        \/ BatchCommits
        \/ \E t \in Transcripts : \/ \E g \in Groups : UnshareNothing(t, g)
                                  \/ \E v \in {"private", "public"} : ChangeVisibility(t, v)
        \/ UNCHANGED vis
    BY <1>12 DEF ShareStep, UnshareReads, UnshareRefused, BatchPreflight, BatchEnds
  <2> QED BY <1>1, <1>3, <1>4, <1>5, <1>6, <1>7, <2>1
<1> QED BY <1>8, <1>9, <1>10, <1>11, <1>12 DEF Next

(* A batch is what its preflight read until it is over. *)
LEMMA BatchStep ==
    ASSUME SharingInv, [Next]_vars
    PROVE  batch' \in Batch \union {None} /\ BatchHeld'
<1>1. CASE UNCHANGED batch
  BY <1>1 DEF SharingInv, ShareTypeOK, BatchHeld
<1>2. CASE batch' = None
  BY <1>2 DEF BatchHeld
<1>3. ASSUME NEW u \in Users, NEW g \in Groups, NEW ts \in SUBSET Transcripts,
             NEW confirmed \in BOOLEAN, BatchPreflight(u, g, ts, confirmed)
      PROVE  batch' \in Batch \union {None} /\ BatchHeld'
  <2> DEFINE s == shareStatusForGroup(g, u)
  <2>1. /\ batch' = [group |-> g, owner |-> u, selected |-> ts, confirmed |-> confirmed,
                     status |-> s, live |-> LiveIn(g, ts)]
        /\ s # None /\ ts \subseteq Owned(u) /\ group[g] # Nobody
    BY <1>3 DEF BatchPreflight
  <2>2. s \in {"pending", "approved"}
    BY <2>1 DEF shareStatusForGroup
  <2>3. LiveIn(g, ts) \subseteq Transcripts
    BY DEF LiveIn
  <2> HIDE DEF s
  <2>4. batch' \in Batch /\ batch'.selected = ts /\ batch'.owner = u
    BY <2>1, <2>2, <2>3 DEF Batch
  <2> QED BY <2>1, <2>4 DEF BatchHeld, Owned
<1>4. CASE UNCHANGED vars
  BY <1>1, <1>4 DEF vars, shareVars
<1>5. CASE (InvitationStep \/ PolicyStep) /\ UNCHANGED shareVars
  BY <1>1, <1>5 DEF shareVars
<1>6. CASE MembershipStep
  BY <1>1, <1>6 DEF MembershipStep, Returns, CascadeGroup, RemoveMember
<1>7. CASE ReviewStep
  BY <1>1, <1>7 DEF ReviewStep, ReviewShare, BatchReviewShares, RemoveTranscript
<1>8. CASE ShareStep
  <2>1. \/ \E u \in Users, g \in Groups, ts \in SUBSET Transcripts, confirmed \in BOOLEAN :
              BatchPreflight(u, g, ts, confirmed)
        \/ batch' = None
        \/ UNCHANGED batch
    BY <1>8 DEF ShareStep, ShareTranscript, UnshareReads, UnshareNothing, UnshareCommits,
         UnshareRefused, ChangeVisibility, DeleteTranscript, BatchCommits, BatchEnds
  <2> QED BY <1>1, <1>2, <1>3, <2>1
<1> QED BY <1>4, <1>5, <1>6, <1>7, <1>8 DEF Next

(* A departure is recorded only with the retraction, and lasts no longer than the
   absence. *)
Departures ==
    /\ departed' \subseteq Groups \X Users
    /\ \A g \in Groups, v \in Users : <<g, v>> \in departed' =>
          /\ member'[g][v] = Nobody
          /\ <<g, v>> \in departed \/ (RetractAdmitted(g, v) /\ Retracted(g, v))

(* A step keeps the departed out, and says who departs in it. *)
LEMMA DepartStep ==
    ASSUME SharingInv, [Next]_vars
    PROVE  Departures /\ DepartedOut'
<1> SUFFICES Departures
  <2>1. ASSUME Departures, NEW d \in departed' PROVE member'[d[1]][d[2]] = Nobody
    <3>1. d = <<d[1], d[2]>> /\ d[1] \in Groups /\ d[2] \in Users
      BY <2>1 DEF Departures
    <3> QED BY <2>1, <3>1 DEF Departures
  <2> QED BY <2>1 DEF DepartedOut
<1>1. /\ departed \subseteq Groups \X Users
      /\ \A g \in Groups, v \in Users : <<g, v>> \in departed => member[g][v] = Nobody
      /\ PeopleTypeOK
  BY DEF SharingInv, ShareTypeOK, DepartedOut, PeopleInv
<1>2. ASSUME UNCHANGED <<member, departed>> PROVE Departures
  BY <1>1, <1>2 DEF Departures
<1>3. ASSUME NEW g \in Groups, NEW u \in Users, NEW m \in Membership \union {Nobody},
             SetMember(g, u, m), departed' = departed \ {<<g, u>>}
      PROVE  Departures
  <2>1. \A k \in Groups, v \in Users : <<k, v>> # <<g, u>> => member'[k][v] = member[k][v]
    BY <1>1, <1>3, SetMemberIs
  <2> QED BY <1>1, <1>3, <2>1 DEF Departures
<1>4. CASE (InvitationStep \/ PolicyStep) /\ UNCHANGED shareVars
  <2>1. departed' = departed
    BY <1>4 DEF shareVars
  <2>2. CASE UNCHANGED member
    BY <1>2, <2>1, <2>2
  <2>3. ASSUME NEW g \in Groups, NEW u \in Users, NEW v \in Users, NEW role \in Roles,
               PromoteMember(u, g, v, role)
        PROVE  Departures
    <3> DEFINE m == [member[g][v] EXCEPT !.role = role]
    <3>1. SetMember(g, v, m) /\ member[g][v] # Nobody
      BY <2>3 DEF PromoteMember
    <3>2. member[g][v] \in Membership
      BY <1>1, <3>1 DEF PeopleTypeOK
    <3>3. m \in Membership
      BY <3>2 DEF Membership
    <3>4. departed' = departed \ {<<g, v>>}
      BY <1>1, <2>1, <3>1
    <3> HIDE DEF m
    <3> QED BY <1>3, <3>1, <3>3, <3>4
  <2>4. \/ UNCHANGED member
        \/ \E g \in Groups, u \in Users, v \in Users, role \in Roles : PromoteMember(u, g, v, role)
    BY <1>4 DEF InvitationStep, PolicyStep, InviteAgain, CreateGroupInvitation,
         RevokeGroupInvitation, DeclineMyInvitation, Expire, SetUsername, LeaveHandle, DayEnds,
         CreateGroup, CreatorNotRecorded, UpdateGroup, SyncOrgs
  <2> QED BY <2>2, <2>3, <2>4
<1>5. ASSUME NEW g \in Groups, AddGroupCreator(g), Returns(g, creating[g]) PROVE Departures
  <2>1. creating[g] \in Users
    BY <1>1, <1>5 DEF AddGroupCreator, PeopleTypeOK
  <2>2. [role |-> "owner", origin |-> "creator"] \in Membership
    BY DEF Membership, Roles, Origins
  <2> QED BY <1>3, <1>5, <2>1, <2>2 DEF AddGroupCreator, Returns
<1>6. ASSUME NEW g \in Groups, NEW u \in Users, JoinGroup(u, g), Returns(g, u) PROVE Departures
  <2>1. [role |-> "contributor", origin |-> "self_join"] \in Membership
    BY DEF Membership, Roles, Origins
  <2> QED BY <1>3, <1>6, <2>1 DEF JoinGroup, Returns
<1>7. ASSUME NEW g \in Groups, NEW u \in Users, NEW h \in Handles,
             AcceptMyInvitation(u, g, h), Returns(g, u)
      PROVE  Departures
  <2>1. departed' = departed \ {<<g, u>>}
    BY <1>7 DEF Returns
  <2>2. CASE UNCHANGED member
    BY <1>1, <2>1, <2>2 DEF Departures
  <2>3. CASE SetMember(g, u, AcceptInvitationMembership(member[g][u]))
    <3>1. AcceptInvitationMembership(member[g][u]) \in Membership
      <4>1. member[g][u] \in Membership \union {Nobody}
        BY <1>1 DEF PeopleTypeOK
      <4> QED BY <4>1 DEF AcceptInvitationMembership, Membership, Roles, Origins
    <3> QED BY <1>3, <2>1, <2>3, <3>1
  <2> QED BY <1>7, <2>2, <2>3 DEF AcceptMyInvitation
<1>8. ASSUME NEW g \in Groups, NEW u \in Users, DeleteGroup(u, g), CascadeGroup(g) PROVE Departures
  <2>1. member' = [member EXCEPT ![g] = NoMembers] /\ departed' = {d \in departed : d[1] # g}
    BY <1>8 DEF DeleteGroup, DeleteGroupRow, CascadeGroup
  <2>2. \A k \in Groups \ {g}, v \in Users : member'[k][v] = member[k][v]
    BY <1>1, <2>1 DEF PeopleTypeOK
  <2>3. \A k \in Groups, v \in Users : <<k, v>> \in departed' => k # g /\ <<k, v>> \in departed
    BY <2>1
  <2> QED BY <1>1, <2>1, <2>2, <2>3 DEF Departures
<1>9. ASSUME NEW g \in Groups, NEW u \in Users, NEW v \in Users, NEW asked \in BOOLEAN,
             RemoveMember(u, g, v, asked)
      PROVE  Departures
  <2>1. SetMember(g, v, Nobody)
    BY <1>9 DEF RemoveMember, RemoveGroupMember
  <2>2. /\ member'[g][v] = Nobody
        /\ \A k \in Groups, w \in Users : <<k, w>> # <<g, v>> => member'[k][w] = member[k][w]
    BY <1>1, <2>1, SetMemberIs
  <2>3. \/ departed' = departed
        \/ departed' = departed \union {<<g, v>>} /\ RetractAdmitted(g, v) /\ Retracted(g, v)
    BY <1>9 DEF RemoveMember
  <2> QED BY <1>1, <2>2, <2>3 DEF Departures
<1>10. CASE ShareStep \/ ReviewStep \/ UNCHANGED vars
  <2>1. CASE ShareStep
    <3>1. UNCHANGED <<member, departed>>
      BY <2>1 DEF ShareStep, ShareTranscript, UnshareReads, UnshareNothing, UnshareCommits,
         UnshareRefused, ChangeVisibility, DeleteTranscript, BatchPreflight, BatchCommits,
         BatchEnds, peopleVars
    <3> QED BY <1>2, <3>1
  <2>2. CASE ReviewStep
    <3>1. UNCHANGED <<member, departed>>
      BY <2>2 DEF ReviewStep, ReviewShare, BatchReviewShares, RemoveTranscript, peopleVars
    <3> QED BY <1>2, <3>1
  <2>3. CASE UNCHANGED vars
    BY <1>2, <2>3 DEF vars, peopleVars, shareVars
  <2> QED BY <1>10, <2>1, <2>2, <2>3
<1>11. CASE MembershipStep
  BY <1>5, <1>6, <1>7, <1>8, <1>9, <1>11 DEF MembershipStep
<1> QED BY <1>4, <1>10, <1>11 DEF Next

(* The collective an unshare works on. *)
LEMMA UnsharingStep ==
    ASSUME SharingInv, [Next]_vars
    PROVE  unsharing' \in [Transcripts -> Groups \union {None}]
<1>1. unsharing \in [Transcripts -> Groups \union {None}]
  BY DEF SharingInv, ShareTypeOK
<1>2. \/ UNCHANGED unsharing
      \/ \E t \in Transcripts, g \in Groups \union {None} : unsharing' = [unsharing EXCEPT ![t] = g]
  <2>1. CASE ShareStep
    BY <2>1 DEF ShareStep, ShareTranscript, UnshareReads, UnshareNothing, UnshareCommits,
       UnshareRefused, ChangeVisibility, DeleteTranscript, BatchPreflight, BatchCommits, BatchEnds
  <2>2. CASE ReviewStep
    BY <2>2 DEF ReviewStep, ReviewShare, BatchReviewShares, RemoveTranscript
  <2>3. CASE MembershipStep
    BY <2>3 DEF MembershipStep, Returns, CascadeGroup, RemoveMember
  <2>4. CASE UNCHANGED shareVars
    BY <2>4 DEF shareVars
  <2> QED BY <2>1, <2>2, <2>3, <2>4 DEF Next, vars
<1> QED BY <1>1, <1>2

(* Every step keeps the invariant. *)
LEMMA SharingStep ==
    ASSUME SharingInv, [Next]_vars
    PROVE  SharingInv'
<1>1. PeopleInv'
  BY PeopleStep DEF SharingInv
<1>2. LedgerInv'
  BY LedgerMoves DEF SharingInv
<1>3. ShareTypeOK' /\ BatchHeld' /\ DepartedOut'
  BY VisStep, BatchStep, DepartStep, UnsharingStep DEF ShareTypeOK, Departures
<1>4. \A g \in Groups, t \in Transcripts :
         /\ IsLive(attempts'[g][t]) => IsLive(attempts[g][t]) \/ EntersUnderPolicy(g, t)
         /\ attempts[g][t] = <<>> /\ vis[t] = None => attempts'[g][t] = <<>>
  BY LiveOnlyBySubmission DEF SharingInv
<1>5. DeletedBlank'
  <2> SUFFICES ASSUME NEW t \in Transcripts, vis'[t] = None, NEW g \in Groups
               PROVE  attempts'[g][t] = <<>>
    BY DEF DeletedBlank
  <2>1. CASE vis[t] = None
    BY <1>4, <2>1 DEF SharingInv, DeletedBlank
  <2>2. CASE DeleteTranscript(t)
    BY <2>2 DEF DeleteTranscript, SharingInv, LedgerInv
  <2> QED BY <2>1, <2>2, VisStep
<1>6. RetractionHolds'
  <2> SUFFICES ASSUME NEW d \in departed', NEW t \in Transcripts, OwnerOf[t] = d[2],
                      IsLive(attempts'[d[1]][t])
               PROVE  FALSE
    BY DEF RetractionHolds
  <2> DEFINE g == d[1]
             v == d[2]
  <2>1. g \in Groups /\ v \in Users /\ d = <<g, v>>
    BY DepartStep DEF Departures
  <2>2. <<g, v>> \in departed'
    BY <2>1
  <2>3. <<g, v>> \in departed \/ (RetractAdmitted(g, v) /\ Retracted(g, v))
    BY <2>1, <2>2, DepartStep DEF Departures
  <2>4. IsLive(attempts[g][t]) \/ EntersUnderPolicy(g, t)
    BY <1>4, <2>1
  <2>5. CASE <<g, v>> \in departed
    <3>1. ~IsLive(attempts[g][t])
      BY <2>5 DEF SharingInv, RetractionHolds
    <3>2. member[g][v] = Nobody
      BY <2>5 DEF SharingInv, DepartedOut
    <3>3. AcceptedRole(g, v)
      BY <2>4, <3>1 DEF EntersUnderPolicy
    <3> QED BY <3>2, <3>3 DEF AcceptedRole, RoleOf
  <2>6. CASE RetractAdmitted(g, v) /\ Retracted(g, v)
    <3>1. /\ \A s \in Owned(v) : ~IsLive(attempts'[g][s])
          /\ IsLive(attempts'[g][t]) => IsLive(attempts[g][t])
      BY <2>1, <2>6, RetractMoves DEF SharingInv
    <3>2. vis[t] = None
      BY <3>1 DEF Owned
    <3>3. attempts[g][t] = <<>>
      BY <2>1, <3>2 DEF SharingInv, DeletedBlank
    <3> QED BY <3>1, <3>3, EmptyLedger
  <2> QED BY <2>3, <2>5, <2>6
<1> QED BY <1>1, <1>2, <1>3, <1>5, <1>6 DEF SharingInv

(* The initial states satisfy the invariant. *)
LEMMA SharingStart == Init => SharingInv
<1> SUFFICES ASSUME Init PROVE SharingInv
  OBVIOUS
<1>1. PeopleInv
  BY PeopleStart DEF Init
<1>2. \A g \in Groups, t \in Transcripts : attempts[g][t] = <<>> /\ shares[g][t] = None
  BY DEF Init
<1>3. /\ attempts \in [Groups -> [Transcripts -> Seq(Statuses)]]
      /\ shares \in [Groups -> [Transcripts -> ShareRows \union {None}]]
  BY EmptyLedger DEF Init
<1>4. LedgerInv
  BY <1>2, <1>3, EmptyLedger DEF LedgerInv
<1>5. ShareTypeOK /\ BatchHeld /\ DepartedOut /\ RetractionHolds
  BY DEF Init, ShareTypeOK, BatchHeld, DepartedOut, RetractionHolds
<1>6. DeletedBlank
  BY <1>2 DEF DeletedBlank
<1> QED BY <1>1, <1>4, <1>5, <1>6 DEF SharingInv

(* The inductive invariant, for every behaviour. *)
LEMMA SharingInvariant == Spec => []SharingInv
  BY SharingStart, SharingStep, PTL DEF Spec

------------------------------------------------------------------------------
(* The rows of people, collectives, ledgers and batches keep their form through
   every interleaving of the handlers. *)
THEOREM SharingTypeCorrect == Spec => []TypeOK
<1>1. SharingInv => TypeOK
  BY DEF SharingInv, PeopleInv, LedgerInv, ShareTypeOK, TypeOK
<1> QED BY <1>1, SharingInvariant, PTL

(* A collective that recorded its creator keeps them as an owner, however many
   promotions, removals, departures, invitations and deletions happen around the two
   statements of its creation. *)
THEOREM CreatorRemains == Spec => []CreatorStays
<1>1. SharingInv => CreatorStays
  <2> SUFFICES ASSUME SharingInv, NEW g \in Groups, creator[g] # Nobody
               PROVE  member[g][creator[g]] # Nobody /\ member[g][creator[g]].role = "owner"
    BY DEF CreatorStays
  <2>1. /\ member[g][creator[g]] \in Membership
        /\ member[g][creator[g]].role = "owner"
    BY DEF SharingInv, PeopleInv, CreatorKept
  <2> QED BY <2>1
<1> QED BY <1>1, SharingInvariant, PTL

(* A decline always belongs to the present addressee of the invitation, however often
   its handle changes hands, and no invitation is two people's. *)
THEOREM AnswersAreInvitees == Spec => []AnswerIsInvitees
<1>1. SharingInv => AnswerIsInvitees
  <2> SUFFICES ASSUME SharingInv PROVE AnswerIsInvitees
    OBVIOUS
  <2>1. \A u \in Users, p \in Groups \X Handles :
           p \in ListMyInvitations(u) => invite[p[1]][p[2]].to = u
    BY DEF ListMyInvitations, GetMyPendingInvitation
  <2>2. \A u \in Users : ListMyInvitations(u) \subseteq Groups \X Handles
    BY DEF ListMyInvitations
  <2>3. \A u \in Users : \A p \in ListMyInvitations(u) :
           \A v \in Users \ {u} : p \notin ListMyInvitations(v)
    BY <2>1, <2>2
  <2> QED BY <2>3 DEF SharingInv, PeopleInv, AnswerKept, AnswerIsInvitees
<1> QED BY <1>1, SharingInvariant, PTL

(* Whoever left with their transcripts retracted has nothing live in the collective
   until they come back: no share, batch or review that began before lands after. *)
THEOREM RetractionLasts == Spec => []RetractionHolds
<1>1. SharingInv => RetractionHolds
  BY DEF SharingInv
<1> QED BY <1>1, SharingInvariant, PTL

(* Whatever a batch or a share read before its locks, a submission enters only from
   an accepted member and in the state the policy gives it when it is written. *)
THEOREM EntryUnderPolicy == Spec => SubmissionUnderPolicy
<1>1. SharingInv /\ [Next]_vars =>
         [\A g \in Groups, t \in Transcripts :
             (IsLive(attempts'[g][t]) /\ ~IsLive(attempts[g][t])) => EntersUnderPolicy(g, t)]_vars
  BY LiveOnlyBySubmission DEF SharingInv
<1> QED BY <1>1, SharingInvariant, PTL DEF Spec, SubmissionUnderPolicy

(* A batch widens what is private when it writes only with its owner's confirmation,
   also when it was not private when the batch was checked. *)
THEOREM WideningConsented == Spec => ConsentToWiden
<1> DEFINE A == (batch # None /\ batch' = None) =>
                   \A t \in batch.selected :
                      (vis[t] = "private" /\ vis'[t] # "private") => batch.confirmed
<1>1. ASSUME SharingInv, [Next]_vars PROVE [A]_vars
  <2> SUFFICES ASSUME batch # None, batch' = None, NEW t \in batch.selected,
                      vis[t] = "private", vis'[t] # "private"
               PROVE  batch.confirmed
    OBVIOUS
  <2>0. batch \in Batch
    BY <1>1 DEF SharingInv, BatchHeld
  <2>1. t \in Transcripts
    BY <2>0 DEF Batch
  <2>2. CASE BatchCommits
    <3>1. vis' = [s \in Transcripts |->
                     IF s \in (batch.selected \ batch.live) /\ vis[s] = "private" THEN "shared"
                     ELSE vis[s]]
      BY <2>2 DEF BatchCommits
    <3>2. t \in batch.selected \ batch.live
      BY <2>1, <3>1
    <3> QED BY <2>2, <3>2 DEF BatchCommits, BatchConsents, consentRefusalForPrivate
  <2>3. CASE UNCHANGED batch \/ UNCHANGED vis
    BY <2>3
  <2>4. BatchCommits \/ UNCHANGED batch \/ UNCHANGED vis
    <3>1. CASE ShareStep
      BY <3>1 DEF ShareStep, ShareTranscript, UnshareReads, UnshareNothing, UnshareCommits,
         UnshareRefused, ChangeVisibility, DeleteTranscript, BatchPreflight, BatchEnds
    <3>2. CASE ReviewStep
      BY <3>2 DEF ReviewStep, ReviewShare, BatchReviewShares, RemoveTranscript
    <3>3. CASE MembershipStep
      BY <3>3 DEF MembershipStep, Returns, CascadeGroup, RemoveMember
    <3>4. CASE UNCHANGED shareVars
      BY <3>4 DEF shareVars
    <3> QED BY <1>1, <3>1, <3>2, <3>3, <3>4 DEF Next, vars
  <2> QED BY <2>2, <2>3, <2>4
<1> QED BY <1>1, SharingInvariant, PTL DEF Spec, ConsentToWiden

------------------------------------------------------------------------------
(* The refinement. *)

(* The standing the pages show is the one the ledger gives. *)
LEMMA StandingFollows ==
    LedgerInv => \A g \in Groups, t \in Transcripts : StandingOf(g, t) = StandingIn(attempts[g][t])
<1> SUFFICES ASSUME LedgerInv, NEW g \in Groups, NEW t \in Transcripts
             PROVE  StandingOf(g, t) = StandingIn(attempts[g][t])
  OBVIOUS
<1> DEFINE l == attempts[g][t]
           latest == GetLatestShareAttempt(l)
<1>1. shares[g][t] = IF latest \in {"pending", "approved", "rejected"} THEN latest ELSE None
  BY DEF LedgerInv, DerivedRow, ShareRows
<1>2. None \notin {"pending", "approved", "rejected"}
  BY DEF Statuses
<1> HIDE DEF latest
<1>3. CASE latest = "pending"
  <2>1. shares[g][t] = "pending"
    BY <1>1, <1>3
  <2>2. StandingOf(g, t) = "open"
    BY <2>1 DEF StandingOf
  <2> QED BY <1>3, <2>2 DEF StandingIn, latest
<1>4. CASE latest = "approved"
  <2>1. shares[g][t] = "approved"
    BY <1>1, <1>4
  <2>2. StandingOf(g, t) = "accepted"
    BY <2>1 DEF StandingOf
  <2> QED BY <1>4, <2>2 DEF StandingIn, latest
<1>5. CASE latest = "rejected"
  <2>1. shares[g][t] = "rejected"
    BY <1>1, <1>5
  <2>2. StandingOf(g, t) = "declined"
    BY <2>1 DEF StandingOf
  <2> QED BY <1>5, <2>2 DEF StandingIn, latest
<1>6. CASE latest \notin {"pending", "approved", "rejected"}
  <2>1. shares[g][t] # "pending" /\ shares[g][t] # "approved" /\ shares[g][t] # "rejected"
    BY <1>1, <1>2, <1>6
  <2>2. StandingOf(g, t) = IF l = <<>> THEN "never" ELSE "closed"
    BY <2>1 DEF StandingOf
  <2> QED BY <1>6, <2>2 DEF StandingIn, latest
<1> QED BY <1>3, <1>4, <1>5, <1>6

(* Where every submission stands, as the abstract specification sees it. *)
Standing == [g \in Groups |-> [t \in Transcripts |-> StandingOf(g, t)]]

(* Pairs that move from some standings to others are one move of Contribution. *)
LEMMA MovedIsMoves ==
    ASSUME LedgerInv, LedgerInv', NEW W, NEW from, NEW to, Moved(W, from, to)
    PROVE  Abstract!Moves(from, to)
<1> DEFINE moves == [p \in W |-> StandingOf(p[1], p[2])']
<1>1. W \subseteq Groups \X Transcripts
  BY DEF Moved
<1>2. \A g \in Groups, t \in Transcripts :
         /\ StandingOf(g, t) = StandingIn(attempts[g][t])
         /\ StandingOf(g, t)' = StandingIn(attempts'[g][t])
  <2>1. \A g \in Groups, t \in Transcripts : StandingOf(g, t) = StandingIn(attempts[g][t])
    BY StandingFollows
  <2>2. (\A g \in Groups, t \in Transcripts : StandingOf(g, t) = StandingIn(attempts[g][t]))'
    BY StandingFollows, PTL
  <2> QED BY <2>1, <2>2
<1>3. \A p \in W : /\ p = <<p[1], p[2]>> /\ p[1] \in Groups /\ p[2] \in Transcripts
                   /\ StandingOf(p[1], p[2]) \in from /\ StandingOf(p[1], p[2])' \in to
  <2>1. \A p \in W : p = <<p[1], p[2]>> /\ p[1] \in Groups /\ p[2] \in Transcripts
    BY <1>1
  <2> QED BY <1>2, <2>1 DEF Moved
<1>4. W \in SUBSET {p \in Groups \X Transcripts : Standing[p[1]][p[2]] \in from}
  BY <1>1, <1>3 DEF Standing
<1>5. moves \in [W -> to]
  BY <1>3
<1>6. \A g \in Groups, t \in Transcripts :
         Standing'[g][t] = IF <<g, t>> \in W THEN moves[<<g, t>>] ELSE Standing[g][t]
  <2> SUFFICES ASSUME NEW g \in Groups, NEW t \in Transcripts
               PROVE  Standing'[g][t] = IF <<g, t>> \in W THEN moves[<<g, t>>] ELSE Standing[g][t]
    OBVIOUS
  <2>1. Standing'[g][t] = StandingOf(g, t)' /\ Standing[g][t] = StandingOf(g, t)
    BY DEF Standing
  <2>2. CASE <<g, t>> \in W
    BY <2>1, <2>2
  <2>3. CASE <<g, t>> \notin W
    BY <1>2, <2>1, <2>3 DEF Moved
  <2> QED BY <2>2, <2>3
<1>7. Standing' = [g \in Groups |-> [t \in Transcripts |->
                     IF <<g, t>> \in DOMAIN moves THEN moves[<<g, t>>] ELSE Standing[g][t]]]
  BY <1>6 DEF Standing
<1> HIDE DEF moves
<1>8. Abstract!Move(moves)
  BY <1>7 DEF Abstract!Move, Standing
<1> QED BY <1>4, <1>5, <1>8 DEF Abstract!Moves, Standing

(* A collective or a transcript that goes clears its submissions. *)
LEMMA ClearsIsClear ==
    ASSUME LedgerInv, LedgerInv', Clears
    PROVE  Abstract!Clear
<1>1. \A g \in Groups, t \in Transcripts :
         /\ StandingOf(g, t) = StandingIn(attempts[g][t])
         /\ StandingOf(g, t)' = StandingIn(attempts'[g][t])
  <2>1. \A g \in Groups, t \in Transcripts : StandingOf(g, t) = StandingIn(attempts[g][t])
    BY StandingFollows
  <2>2. (\A g \in Groups, t \in Transcripts : StandingOf(g, t) = StandingIn(attempts[g][t]))'
    BY StandingFollows, PTL
  <2> QED BY <2>1, <2>2
<1>2. StandingIn(<<>>) = "never"
  BY LiveStanding, EmptyLedger
<1>3. ASSUME NEW g \in Groups,
             \A k \in Groups, t \in Transcripts :
                attempts'[k][t] = IF k = g THEN <<>> ELSE attempts[k][t]
      PROVE  Standing' = [Standing EXCEPT ![g] = [t \in Transcripts |-> "never"]]
  <2>1. \A k \in Groups, t \in Transcripts :
           StandingOf(k, t)' = IF k = g THEN "never" ELSE StandingOf(k, t)
    BY <1>1, <1>2, <1>3
  <2> QED BY <2>1 DEF Standing
<1>4. ASSUME NEW s \in Transcripts,
             \A k \in Groups, t \in Transcripts :
                attempts'[k][t] = IF t = s THEN <<>> ELSE attempts[k][t]
      PROVE  Standing' = [k \in Groups |-> [Standing[k] EXCEPT ![s] = "never"]]
  <2>1. \A k \in Groups, t \in Transcripts :
           StandingOf(k, t)' = IF t = s THEN "never" ELSE StandingOf(k, t)
    BY <1>1, <1>2, <1>4
  <2> QED BY <2>1 DEF Standing
<1>5. \/ \E g \in Groups : Standing' = [Standing EXCEPT ![g] = [t \in Transcripts |-> "never"]]
      \/ \E s \in Transcripts : Standing' = [k \in Groups |-> [Standing[k] EXCEPT ![s] = "never"]]
  BY <1>3, <1>4 DEF Clears
<1> QED BY <1>5 DEF Abstract!Clear, Standing

(* The service implements Contribution, with the standing of a submission read from the
   derived row and the ledger: it opens only where none is open or accepted, only an
   open one is decided, only a live one is closed, for any number of events. *)
THEOREM ImplementsContribution == Spec => ContributionSpec
<1>1. ASSUME SharingInv PROVE Abstract!Init
  <2>1. \A g \in Groups, t \in Transcripts :
           StandingOf(g, t) \in {"never", "open", "accepted", "declined", "closed"}
    BY <1>1, StandingFollows, LiveStanding DEF SharingInv, LedgerInv
  <2> QED BY <2>1 DEF Abstract!Init, Abstract!Standings
<1>2. ASSUME SharingInv, [Next]_vars PROVE [Abstract!Next]_Standing
  <2>1. LedgerInv /\ LedgerInv' /\ (Submits \/ Decides \/ Closes \/ Clears \/ LedgerStays)
    BY <1>2, LedgerMoves DEF SharingInv
  <2>2. CASE Submits
    <3>1. Abstract!Submit
      BY <2>1, <2>2, MovedIsMoves DEF Submits, Abstract!Submit
    <3> QED BY <3>1 DEF Abstract!Next
  <2>3. CASE Decides
    <3>1. Abstract!Decide
      BY <2>1, <2>3, MovedIsMoves DEF Decides, Abstract!Decide
    <3> QED BY <3>1 DEF Abstract!Next
  <2>4. CASE Closes
    <3>1. Abstract!Close
      BY <2>1, <2>4, MovedIsMoves DEF Closes, Abstract!Close
    <3> QED BY <3>1 DEF Abstract!Next
  <2>5. CASE Clears
    <3>1. Abstract!Clear
      BY <2>1, <2>5, ClearsIsClear
    <3> QED BY <3>1 DEF Abstract!Next
  <2>6. CASE LedgerStays
    <3>1. \A g \in Groups, t \in Transcripts : shares'[g][t] = shares[g][t]
      BY <2>1, <2>6 DEF LedgerStays, LedgerInv
    <3>2. \A g \in Groups, t \in Transcripts : StandingOf(g, t)' = StandingOf(g, t)
      BY <2>6, <3>1 DEF LedgerStays, StandingOf
    <3> QED BY <3>2 DEF Standing
  <2> QED BY <2>1, <2>2, <2>3, <2>4, <2>5, <2>6
<1> QED BY <1>1, <1>2, SharingInvariant, PTL DEF Spec, ContributionSpec, Abstract!Spec, Standing
=============================================================================
