----------------------------- MODULE MCSharing -----------------------------
(***************************************************************************)
(* Model values and a case split.  Creation and invitations touch no       *)
(* submission and read none, so they are explored on their own ("people",  *)
(* one collective under one policy).  The ledgers are explored from        *)
(* collectives that already have their members: one transcript before two  *)
(* collectives ("pair"), two transcripts before one whose policy also      *)
(* changes ("batch").  A case keeps fixed what the others vary.            *)
(***************************************************************************)
EXTENDS ReadPolicies, TLC

CONSTANTS u1, u2, g1, g2, t1, t2, Cases

VARIABLE case

mcVars == <<vars, case>>

MCOwnerOf == (t1 :> u2 @@ t2 :> u2)

Plain == [mode |-> "open", exit |-> "user_choice", linked |-> Nobody]

FixedPeople ==
    /\ \A t \in Transcripts : vis[t] = None
    /\ group[g2] = Nobody /\ creating[g2] = Nobody
    /\ group[g1] \in {Nobody, Plain}
    /\ orgs = [u \in Users |-> {}]

FixedLedger ==
    /\ \A h \in Handles : holder[h] = Nobody /\ \A g \in Groups : invite[g][h] = Nobody
    /\ creator[g1] \in {u1, Nobody}
    /\ group[g1] # Nobody => group[g1].linked = Nobody
    /\ \A g \in Groups : creating[g] = Nobody
    /\ orgs[u1] = {}
    /\ \A g \in Groups : RoleOf(g, u2) = "contributor" => member[g][u2].origin = "self_join"

FixedPair ==
    /\ FixedLedger
    /\ orgs[u2] = {}
    /\ batch = None
    /\ vis[t2] = None
    /\ group[g1] # Nobody => group[g1].mode = "open" /\ group[g1].exit = "mandatory"
    /\ group[g2] = [Plain EXCEPT !.mode = "curated"]
    /\ creator[g2] = u2
    /\ RoleOf(g2, u1) \in {"member", "pending"}
    /\ RoleOf(g1, u2) # "pending"
    /\ Len(attempts[g2][t1]) < MaxEvents

FixedBatch ==
    /\ FixedLedger
    /\ group[g2] = Nobody
    /\ group[g1] # Nobody => group[g1].exit = "user_choice"
    /\ vis[t1] # "public" /\ vis[t2] = "shared"
    /\ RoleOf(g1, u2) \in {"", "member"}
    /\ unsharing = [t \in Transcripts |-> None]
    /\ batch # None => batch.selected = Transcripts
    /\ attempts[g1][t1] \in {<<>>} \union {<<s>> : s \in Statuses}
                                \union {<<"approved", s>> : s \in Statuses}
    /\ attempts[g1][t2] \in {<<>>, <<"pending">>, <<"approved">>}

Fixed == CASE case = "people" -> FixedPeople
           [] case = "pair"   -> FixedPair
           [] OTHER           -> FixedBatch

MCInit ==
    /\ Init
    /\ case \in Cases
    /\ Fixed
    /\ case = "people" => holder # [h \in Handles |-> Nobody]
    /\ case # "people" => creator[g1] = u1 /\ member[g1][u2] # Nobody
    /\ case = "batch"  => \A t \in Transcripts : vis[t] # None

MCNext ==
    /\ \/ (InvitationStep \/ PolicyStep) /\ UNCHANGED shareVars
       \/ MembershipStep
       \/ ShareStep
       \/ ReviewStep
    /\ UNCHANGED case
    /\ Fixed'

MCSpec == MCInit /\ [][MCNext]_mcVars
=============================================================================
