------------------------------ MODULE MCServices ------------------------------
(* The services beside the transcript: accounts, notification email, webhook
   deliveries, repository access, a collective's repositories, migrations,
   backfills and locks.  They share no state that the modules keep apart, so each behaviour
   plays one scenario, chosen at the start, in which one of them moves.  Where a
   service has more state than one scenario can hold, several scenarios keep
   fixed what the others vary. *)
EXTENDS Accounts, NotificationEmail, WebhookLedger, RepositoryAccess,
        CollectiveRepos, Maintenance, LockOrder, TLC

CONSTANTS
    i1, i2, bob, bob2, s1,      \* accounts
    r1, r2, n1,                 \* notification email
    d1, d2,                     \* webhook deliveries
    v1, v2,                     \* repository access
    p1, p2, k1, h1, l1, x1, x2, g1, g2, o1, o2, \* a collective's repositories
    dictated, silent, b1,       \* backfills
    Scenarios

VARIABLE scenario

serviceVars == <<accountVars, emailVars, webhookVars, accessVars, reposVars,
                 migrationVars, backfillVars, lockVars, scenario>>

------------------------------------------------------------------------------
MCCandidates == (i1 :> <<bob, bob2>> @@ i2 :> <<bob, bob2>>)

MCEvent ==
    (d1 :> [type |-> "issue_comment", readable |-> TRUE, asks |-> "attach",
            onPull |-> TRUE, sender |-> "author"]
  @@ d2 :> [type |-> "check_run", readable |-> FALSE, asks |-> "refresh",
            onPull |-> TRUE, sender |-> "author"])

(* The prompts of dictated were typed by another agent, as its producer declared;
   silent has no prompt and no declaration. *)
MCDeclared   == (dictated :> "agent" @@ silent :> "none")
MCClassified == (dictated :> "user" @@ silent :> "agent")
MCPrompt     == (dictated :> b1 @@ silent :> NoTitle)
MCJobKind    == [j \in Jobs |-> j]

(* o1 is an organization and o2 the account of p1; p2 signs in elsewhere. *)
MCInstalledOn == [r \in Repositories |-> o1]
MCOwnAccount  == (p1 :> o2 @@ p2 :> Unset)

Request(kind, keys, authority, attachment) ==
    [kind |-> kind, keys |-> keys, authority |-> authority, attachment |-> attachment]

(* Session keys 1 to 3, actor and collective keys 5 and 6, attachments 8 and 9. *)
Mixed ==
    [publish |-> Request("publish", <<2, 1, 2>>, <<>>, 9),
     share   |-> Request("share", <<3, 2, 1>>, <<6, 5>>, NoAttachment),
     group   |-> Request("collective", <<1>>, <<5, 6>>, 9),
     confirm |-> Request("confirm", <<2>>, <<>>, 9)]

Crossed ==
    [publish |-> Request("publish", <<2, 1>>, <<>>, 9),
     share   |-> Request("share", <<2, 3>>, <<6, 5>>, NoAttachment),
     group   |-> Request("share", <<3, 2>>, <<5, 6>>, NoAttachment),
     confirm |-> Request("publish", <<1, 2>>, <<>>, 8)]

MCWorkloads == {Mixed, Crossed}

------------------------------------------------------------------------------
(* What a scenario keeps fixed. *)

NoLogins == cli[s1] = NoUser /\ key = [k \in KeyIds |-> NoUser]
NoOrganizations == belongs = [i \in Identities |-> {}]
OnlyBob == nextUser <= 2 /\ \A u \in LiveUsers : user[u].handle = bob
EveryoneListed == \A u \in LiveUsers : user[u].listed

FixedAccounts ==
    CASE scenario = "organizations" -> NoLogins /\ OnlyBob
      [] scenario = "logins" -> /\ NoOrganizations /\ OnlyBob /\ EveryoneListed
                                /\ \E f \in SignIns : signIn[f] = Idle
      [] OTHER -> /\ NoOrganizations /\ NoLogins /\ EveryoneListed
                  /\ \A u \in LiveUsers : user[u].gen <= 1

FixedEmail ==
    CASE scenario = "addresses" -> notice[n1] = NoRequest
      [] OTHER -> setting[r2] = NoRequest /\ expired = {}

(* Two viewers, one of whom may gain and lose access and one of whom only fills
   the tables with a single read; two reads overlap at most. *)
FixedAccess ==
    /\ v2 \notin grants
    /\ \A p, q \in Reads : read[p].v = v2 /\ read[q].v = v2 => p = q
    /\ Cardinality({p \in Reads : read[p].pc \notin {"idle", "done"}}) <= 2
    /\ \A p, q \in Reads : p < q /\ read[p].pc = "idle" => read[q].pc = "idle"

FixedRepos ==
    CASE scenario = "binding" -> /\ memberOf[p2] = {}
                                 /\ \A x \in Creations : creating[x] # Unasked => creating[x].who = p1
                                 /\ link = [g \in Collectives |-> [r \in Repositories |-> Unset]]
                                 /\ linking[l1] = Unasked
                                 /\ \A r \in Repositories : head[r] = 1
      [] OTHER -> /\ owners = [g \in Collectives |-> IF g \in existing THEN {p1} ELSE {}]
                  /\ made = Collectives /\ g2 \in existing
                  /\ memberOf = (p1 :> {o1} @@ p2 :> {})
                  /\ boundTo = [g \in Collectives |-> Unset]
                  /\ installed \subseteq {o1}
                  /\ creating[k1] = Unasked /\ handshake[h1] = Unasked
                  /\ linking[l1] # Unasked => linking[l1].g = g1
                  /\ \A x \in Refreshes : refreshing[x] # Unasked => x = x1 \/ refreshing[x].g = g2

(* Two runs overlap until the first write, one goes on among the others. *)
FixedBackfills ==
    Cardinality({j \in Jobs : visit[j] # Idling}) <= (IF writes = 0 THEN 2 ELSE 1)

------------------------------------------------------------------------------
MCInit ==
    /\ scenario \in Scenarios
    /\ AccountsInit /\ EmailInit /\ WebhookInit /\ AccessInit
    /\ MigrationsInit /\ BackfillsInit /\ LockInit /\ ReposInit
    /\ scenario # "backfills" => stored.title = NoTitle
    /\ scenario # "deliveries" => linked = FALSE
    /\ scenario # "access" => grants = {}
    /\ scenario # "locks" => load = Mixed /\ pool = 1
    /\ scenario = "commits" => FixedRepos
    /\ scenario \notin {"commits", "binding"} => existing = {}
    /\ scenario # "commits" => memberOf = [p \in Persons |-> {}]

AccountsMove ==
    /\ scenario \in {"organizations", "logins", "names"}
    /\ AccountsNext
    /\ UNCHANGED <<emailVars, webhookVars, accessVars, reposVars, migrationVars, backfillVars, lockVars, scenario>>
    /\ FixedAccounts'

EmailMoves ==
    /\ scenario \in {"addresses", "notices"}
    /\ EmailNext
    /\ UNCHANGED <<accountVars, webhookVars, accessVars, reposVars, migrationVars, backfillVars, lockVars, scenario>>
    /\ FixedEmail'

DeliveriesMove ==
    /\ scenario = "deliveries"
    /\ WebhookNext
    /\ UNCHANGED <<accountVars, emailVars, accessVars, reposVars, migrationVars, backfillVars, lockVars, scenario>>

AccessMoves ==
    /\ scenario = "access"
    /\ AccessNext
    /\ UNCHANGED <<accountVars, emailVars, webhookVars, reposVars, migrationVars, backfillVars, lockVars, scenario>>
    /\ FixedAccess'

ReposMove ==
    /\ scenario \in {"binding", "commits"}
    /\ ReposNext
    /\ UNCHANGED <<accountVars, emailVars, webhookVars, accessVars, migrationVars, backfillVars, lockVars, scenario>>
    /\ FixedRepos'

MigrationsMove ==
    /\ scenario = "migrations"
    /\ MigrationsNext
    /\ UNCHANGED <<accountVars, emailVars, webhookVars, accessVars, reposVars, backfillVars, lockVars, scenario>>

BackfillsMove ==
    /\ scenario = "backfills"
    /\ BackfillsNext
    /\ UNCHANGED <<accountVars, emailVars, webhookVars, accessVars, reposVars, migrationVars, lockVars, scenario>>
    /\ FixedBackfills'

LocksMove ==
    /\ scenario = "locks"
    /\ LockNext
    /\ UNCHANGED <<accountVars, emailVars, webhookVars, accessVars, reposVars, migrationVars, backfillVars, scenario>>

MCNext ==
    \/ AccountsMove \/ EmailMoves \/ DeliveriesMove \/ AccessMoves
    \/ ReposMove \/ MigrationsMove \/ BackfillsMove \/ LocksMove

MCSpec == MCInit /\ [][MCNext]_serviceVars /\ LockFairness
=============================================================================
