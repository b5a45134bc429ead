------------------------------ MODULE Accounts ------------------------------
(***************************************************************************)
(* Sign-in, accounts and the credentials they hand out.  A sign-in is a    *)
(* chain of separate statements and provider calls; several run at once,   *)
(* also for one account, between the account holder's own requests.  A     *)
(* user id is given to one inserted row and never again, so a session or a *)
(* command-line login that outlives an account names nobody.               *)
(***************************************************************************)
EXTENDS Naturals, FiniteSets, Sequences

CONSTANTS
    Identities,     \* people at a provider: the keys the upserts conflict on
    AtGitHub,       \* the identities whose provider is GitHub
    Candidates,     \* identity -> handles tried in turn: its login, suffixed
    PlainLogin,     \* identities whose login is a valid handle as it stands
    Reserved,       \* handles no account may hold
    MaxUsers,       \* bound on the accounts ever inserted
    SignIns,        \* browser sign-ins in flight
    LoginSessions,  \* rows of cli_auth_sessions
    Exchanges,      \* exchange requests in flight
    MaxCodes,       \* bound on the exchange codes generated
    MaxKeys,        \* bound on the API keys created
    MaxSyncs,       \* bound on the organization syncs of one account
    Orgs,           \* GitHub organizations
    NoUser          \* the absent row, code, session or account

ASSUME AccountsAssumption ==
    /\ AtGitHub \subseteq Identities
    /\ PlainLogin \subseteq Identities
    /\ \A i \in Identities : Len(Candidates[i]) \in DOMAIN Candidates[i]
    /\ {MaxUsers, MaxCodes, MaxKeys, MaxSyncs} \subseteq Nat

VARIABLES
    user,       \* users: id -> [who, handle, chosen, listed, gen], or NoUser
    nextUser,   \* the next id
    signIn,     \* the sign-ins in flight
    belongs,    \* GitHub: the organizations an identity belongs to now
    orgRow,     \* user_github_orgs: user -> org -> "none", "hidden", "shown"
    orgGen,     \* history: the sync whose answer orgRow holds
    published,  \* history: what the person published and did not take back
    cli,        \* cli_auth_sessions: [code, user, exchanged, fresh], or NoUser
    nextCode,
    sentCode,   \* history: [code, session, user] redirected to a CLI
    exchange,   \* exchanges whose key is not created yet: [session, code, user]
    key,        \* api_keys: id -> [user, session, code, revoked], or NoUser
    nextKey

accountVars == <<user, nextUser, signIn, belongs, orgRow, orgGen, published,
                 cli, nextCode, sentCode, exchange, key, nextKey>>
orgVars == <<orgRow, orgGen, published>>
cliVars == <<cli, nextCode, sentCode, exchange, key, nextKey>>

UserIds == 1..MaxUsers
KeyIds  == 1..MaxKeys
Handles == UNION {{Candidates[i][n] : n \in DOMAIN Candidates[i]} : i \in Identities}
LiveUsers == {u \in UserIds : user[u] # NoUser}

Holds(h, u) == user[u] # NoUser /\ user[u].handle = h
HandleFree(h) == ~ \E u \in UserIds : Holds(h, u)

(* The rows, and the places of a sign-in: before and after it has an account. *)
AccountRow == [who : Identities, handle : Handles, chosen : BOOLEAN, listed : BOOLEAN, gen : Nat]
CLISession == [code : Nat \union {NoUser}, user : UserIds \union {NoUser},
               exchanged : BOOLEAN, fresh : BOOLEAN]
Exchange == [session : LoginSessions, code : Nat, user : UserIds]
APIKey == [user : UserIds, session : LoginSessions \union {NoUser},
           code : Nat \union {NoUser}, revoked : BOOLEAN]

Idle == [at |-> "idle"]
Upserting == [at : {"upsert"}, who : Identities, session : LoginSessions \union {NoUser},
              name : Handles]
SignedIn == [at : {"confirm", "issue", "fetch", "install", "finish"}, who : Identities,
             session : LoginSessions \union {NoUser}, user : UserIds, name : Handles,
             issued : Nat, snap : SUBSET Orgs]

(* The absent row is no row. *)
ASSUME AbsentAssumption ==
    /\ NoUser \notin LoginSessions
    /\ NoUser \notin Nat
    /\ NoUser \notin AccountRow /\ NoUser \notin CLISession
    /\ NoUser \notin Exchange /\ NoUser \notin APIKey

AccountsInit ==
    /\ user = [u \in UserIds |-> NoUser] /\ nextUser = 1
    /\ signIn = [f \in SignIns |-> Idle]
    /\ belongs = [i \in Identities |-> {}]
    /\ orgRow = [u \in UserIds |-> [o \in Orgs |-> "none"]]
    /\ orgGen = [u \in UserIds |-> 0]
    /\ published = [u \in UserIds |-> {}]
    /\ cli = [s \in LoginSessions |-> NoUser] /\ nextCode = 1 /\ sentCode = {}
    /\ exchange = [x \in Exchanges |-> NoUser]
    /\ key = [k \in KeyIds |-> NoUser] /\ nextKey = 1

-----------------------------------------------------------------------------
(* Sign-in.                                                                *)

(* The first candidate that nobody holds and that is not reserved, as the  *)
(* set of it.  Past the last one the code returns a candidate it did not   *)
(* look up.                                                                *)
generateUniqueUsername(i) ==
    LET free == {n \in DOMAIN Candidates[i] :
                    Candidates[i][n] \notin Reserved /\ HandleFree(Candidates[i][n])}
    IN  IF free = {} THEN {Candidates[i][Len(Candidates[i])]}
        ELSE {Candidates[i][n] : n \in {m \in free : \A k \in free : m <= k}}

(* The handle is the login itself.                                         *)
handleIsLogin(h, i) == i \in PlainLogin /\ h = Candidates[i][1] /\ h \notin Reserved

(* The provider answered with a profile.  The state parameter matched the  *)
(* cookie; s is the command-line session it names, or NoUser.              *)
GitHubCallback(f, i, s) ==
    /\ signIn[f] = Idle
    /\ i \in AtGitHub
    /\ s # NoUser => cli[s] # NoUser
    /\ \E name \in generateUniqueUsername(i) :
          signIn' = [signIn EXCEPT ![f] = [at |-> "upsert", who |-> i, session |-> s,
                                           name |-> name]]
    /\ UNCHANGED <<user, nextUser, belongs, orgVars, cliVars>>

(* A provider other than GitHub: no organizations and no command line.     *)
providerCallback(f, i) ==
    /\ signIn[f] = Idle
    /\ i \notin AtGitHub
    /\ \E name \in generateUniqueUsername(i) :
          signIn' = [signIn EXCEPT ![f] = [at |-> "upsert", who |-> i, session |-> NoUser,
                                           name |-> name]]
    /\ UNCHANGED <<user, nextUser, belongs, orgVars, cliVars>>

AccountOf(i) == {u \in LiveUsers : user[u].who = i}

(* The row a returning identity keeps; or a new one under the candidate,   *)
(* which the unique index refuses when someone took the handle meanwhile.  *)
UpsertUser(f) ==
    LET g == signIn[f]
        after(u) == IF g.who \notin AtGitHub THEN "finish"
                    ELSE IF ~ user'[u].chosen /\ handleIsLogin(user'[u].handle, g.who)
                         THEN "confirm" ELSE "issue"
        go(u) == signIn' = [signIn EXCEPT ![f] = [at |-> after(u), who |-> g.who,
                                session |-> g.session, user |-> u, name |-> user'[u].handle,
                                issued |-> 0, snap |-> {}]]
    IN  /\ g.at = "upsert"
        /\ \/ \E u \in AccountOf(g.who) : UNCHANGED <<user, nextUser>> /\ go(u)
           \/ /\ AccountOf(g.who) = {} /\ HandleFree(g.name) /\ nextUser \in UserIds
              /\ user' = [user EXCEPT ![nextUser] =
                            [who |-> g.who, handle |-> g.name, chosen |-> FALSE,
                             listed |-> TRUE, gen |-> 0]]
              /\ nextUser' = nextUser + 1
              /\ go(nextUser)
           \/ /\ AccountOf(g.who) = {} /\ ~ HandleFree(g.name)
              /\ signIn' = [signIn EXCEPT ![f] = Idle]
              /\ UNCHANGED <<user, nextUser>>
        /\ UNCHANGED <<belongs, orgVars, cliVars>>

(* Only the flag, only while unchosen and still the handle that was read;  *)
(* otherwise, or when the statement fails, the account as it stands is     *)
(* what the session names.                                                 *)
ConfirmOwnHandle(f) ==
    LET g == signIn[f] IN
    /\ g.at = "confirm"
    /\ \/ /\ Holds(g.name, g.user) /\ ~ user[g.user].chosen
          /\ user' = [user EXCEPT ![g.user].chosen = TRUE]
       \/ UNCHANGED user
    /\ signIn' = [signIn EXCEPT ![f].at = "issue",
                     ![f].name = IF user[g.user] = NoUser THEN @ ELSE user[g.user].handle]
    /\ UNCHANGED <<nextUser, belongs, orgVars, cliVars>>

(* The sync takes its number in a transaction of its own, before the call; *)
(* without one there is no sync, and the sign-in goes on.                  *)
IssueGitHubOrgSyncGeneration(f) ==
    LET u == signIn[f].user IN
    /\ signIn[f].at = "issue"
    /\ \/ /\ user[u] # NoUser /\ user[u].gen < MaxSyncs
          /\ user' = [user EXCEPT ![u].gen = @ + 1]
          /\ signIn' = [signIn EXCEPT ![f].at = "fetch", ![f].issued = user[u].gen + 1]
       \/ /\ signIn' = [signIn EXCEPT ![f].at = "finish"]
          /\ UNCHANGED user
    /\ UNCHANGED <<nextUser, belongs, orgVars, cliVars>>

(* Every page or nothing: a truncated or failed answer keeps the old set.  *)
fetchGitHubOrgSnapshot(f) ==
    /\ signIn[f].at = "fetch"
    /\ \/ signIn' = [signIn EXCEPT ![f].at = "install", ![f].snap = belongs[signIn[f].who]]
       \/ signIn' = [signIn EXCEPT ![f].at = "finish"]
    /\ UNCHANGED <<user, nextUser, belongs, orgVars, cliVars>>

(* The upserts leave the visible flag alone; the rest is deleted.          *)
Snapshot(row, snap) ==
    [o \in Orgs |-> IF o \notin snap THEN "none"
                    ELSE IF row[o] = "none" THEN "hidden" ELSE row[o]]

(* Seeded fault: a late sync installs its answer over a newer one.         *)
MayInstall_AnyGeneration(f) == user[signIn[f].user] # NoUser

(* The second transaction, under the user's row lock: only the latest sync *)
(* installs what it fetched.                                               *)
MayInstall(f) == user[signIn[f].user] # NoUser /\ user[signIn[f].user].gen = signIn[f].issued

syncGitHubOrgSnapshot(f) ==
    LET g == signIn[f] IN
    /\ g.at = "install"
    /\ signIn' = [signIn EXCEPT ![f].at = "finish"]
    /\ \/ /\ MayInstall(f)
          /\ orgRow' = [orgRow EXCEPT ![g.user] = Snapshot(@, g.snap)]
          /\ orgGen' = [orgGen EXCEPT ![g.user] = g.issued]
          /\ published' = [published EXCEPT ![g.user] = @ \intersect g.snap]
       \/ UNCHANGED orgVars     \* a later sync began, or the transaction failed
    /\ UNCHANGED <<user, nextUser, belongs, cliVars>>

(* A browser sign-in ends with a session token, which holds no row.        *)
CreateToken(f) ==
    /\ signIn[f].at = "finish" /\ signIn[f].session = NoUser
    /\ signIn' = [signIn EXCEPT ![f] = Idle]
    /\ UNCHANGED <<user, nextUser, belongs, orgVars, cliVars>>

-----------------------------------------------------------------------------
(* The command line's login and the API keys.                              *)

CLILogin(s) ==
    /\ cli[s] = NoUser
    /\ cli' = [cli EXCEPT ![s] = [code |-> NoUser, user |-> NoUser,
                                  exchanged |-> FALSE, fresh |-> TRUE]]
    /\ UNCHANGED <<user, nextUser, signIn, belongs, orgVars, nextCode, sentCode,
                   exchange, key, nextKey>>

(* A repeated callback replaces code and account, never exchanged_at.      *)
handleCLICallback(f) ==
    LET g == signIn[f] IN
    /\ g.at = "finish" /\ g.session # NoUser
    /\ nextCode <= MaxCodes
    /\ cli' = [cli EXCEPT ![g.session].code = nextCode, ![g.session].user = g.user]
    /\ sentCode' = sentCode \union {[code |-> nextCode, session |-> g.session, user |-> g.user]}
    /\ nextCode' = nextCode + 1
    /\ signIn' = [signIn EXCEPT ![f] = Idle]
    /\ UNCHANGED <<user, nextUser, belongs, orgVars, exchange, key, nextKey>>

(* One UPDATE: the code, its session's state, unused, under five minutes.  *)
ExchangeCLISession(s, c) ==
    /\ cli[s] # NoUser
    /\ cli[s].code = c /\ ~ cli[s].exchanged /\ cli[s].fresh

(* A CLI posts a code it was sent.                                         *)
CLIExchange(x) ==
    /\ exchange[x] = NoUser
    /\ \E m \in sentCode :
        /\ ExchangeCLISession(m.session, m.code)
        /\ cli' = [cli EXCEPT ![m.session].exchanged = TRUE]
        /\ exchange' = [exchange EXCEPT ![x] = [session |-> m.session, code |-> m.code,
                                                user |-> cli[m.session].user]]
    /\ UNCHANGED <<user, nextUser, signIn, belongs, orgVars, nextCode, sentCode, key, nextKey>>

(* The insert, which the foreign key refuses for a deleted account.        *)
InsertKey(u, s, c) ==
    IF user[u] # NoUser
    THEN /\ nextKey \in KeyIds
         /\ key' = [key EXCEPT ![nextKey] = [user |-> u, session |-> s, code |-> c,
                                             revoked |-> FALSE]]
         /\ nextKey' = nextKey + 1
    ELSE UNCHANGED <<key, nextKey>>

(* Its second statement; a process that dies before it leaves no key and a *)
(* used code.                                                              *)
CLIExchangeKey(x) ==
    /\ exchange[x] # NoUser
    /\ \/ InsertKey(exchange[x].user, exchange[x].session, exchange[x].code)
       \/ UNCHANGED <<key, nextKey>>
    /\ exchange' = [exchange EXCEPT ![x] = NoUser]
    /\ UNCHANGED <<user, nextUser, signIn, belongs, orgVars, cli, nextCode, sentCode>>

(* The session token that authorizes these requests outlives the account.  *)
SessionHolders == 1..(nextUser - 1)

CreateAPIKey(u) ==
    /\ u \in SessionHolders
    /\ InsertKey(u, NoUser, NoUser)
    /\ UNCHANGED <<user, nextUser, signIn, belongs, orgVars, cli, nextCode, sentCode, exchange>>

RevokeAPIKey(u, k) ==
    /\ u \in SessionHolders
    /\ key[k] # NoUser /\ key[k].user = u
    /\ key' = [key EXCEPT ![k].revoked = TRUE]
    /\ UNCHANGED <<user, nextUser, signIn, belongs, orgVars, cli, nextCode, sentCode,
                   exchange, nextKey>>

-----------------------------------------------------------------------------
(* The account holder's settings.                                          *)

SetMyUsername(u, h) ==
    /\ user[u] # NoUser /\ h \notin Reserved
    /\ HandleFree(h) \/ Holds(h, u)
    /\ user' = [user EXCEPT ![u].handle = h, ![u].chosen = TRUE]
    /\ UNCHANGED <<nextUser, signIn, belongs, orgVars, cliVars>>

UpdateMySettings(u) ==
    /\ user[u] # NoUser
    /\ user' = [user EXCEPT ![u].listed = ~ @]
    /\ UNCHANGED <<nextUser, signIn, belongs, orgVars, cliVars>>

SetOrgVisibility(u, o, shown) ==
    /\ u \in SessionHolders
    /\ orgRow' = [orgRow EXCEPT ![u][o] = IF @ = "none" THEN "none"
                                          ELSE IF shown THEN "shown" ELSE "hidden"]
    /\ published' = [published EXCEPT ![u] = IF shown /\ orgRow[u][o] # "none"
                                             THEN @ \union {o} ELSE @ \ {o}]
    /\ UNCHANGED <<user, nextUser, signIn, belongs, orgGen, cliVars>>

(* The cascade takes the keys and the organizations; command-line sessions *)
(* carry no foreign key and stay.                                          *)
DeleteAccount(u) ==
    /\ user[u] # NoUser
    /\ user' = [user EXCEPT ![u] = NoUser]
    /\ key' = [k \in KeyIds |-> IF key[k] # NoUser /\ key[k].user = u THEN NoUser ELSE key[k]]
    /\ orgRow' = [orgRow EXCEPT ![u] = [o \in Orgs |-> "none"]]
    /\ published' = [published EXCEPT ![u] = {}]
    /\ UNCHANGED <<nextUser, signIn, belongs, orgGen, cli, nextCode, sentCode, exchange, nextKey>>

(* GitHub, and five minutes of a session's life.                           *)
JoinsOrLeavesOrg(i, o) ==
    /\ belongs' = [belongs EXCEPT ![i] = IF o \in @ THEN @ \ {o} ELSE @ \union {o}]
    /\ UNCHANGED <<user, nextUser, signIn, orgVars, cliVars>>

SessionExpires(s) ==
    /\ cli[s] # NoUser /\ cli[s].fresh
    /\ cli' = [cli EXCEPT ![s].fresh = FALSE]
    /\ UNCHANGED <<user, nextUser, signIn, belongs, orgVars, nextCode, sentCode,
                   exchange, key, nextKey>>

SignInStep ==
    \/ \E f \in SignIns, i \in Identities, s \in LoginSessions \union {NoUser} : GitHubCallback(f, i, s)
    \/ \E f \in SignIns, i \in Identities : providerCallback(f, i)
    \/ \E f \in SignIns :
        \/ UpsertUser(f) \/ ConfirmOwnHandle(f) \/ IssueGitHubOrgSyncGeneration(f)
        \/ fetchGitHubOrgSnapshot(f) \/ syncGitHubOrgSnapshot(f)
        \/ CreateToken(f) \/ handleCLICallback(f)

CommandLineStep ==
    \/ \E s \in LoginSessions : CLILogin(s) \/ SessionExpires(s)
    \/ \E x \in Exchanges : CLIExchange(x) \/ CLIExchangeKey(x)

HolderStep ==
    \/ \E u \in UserIds : CreateAPIKey(u) \/ UpdateMySettings(u) \/ DeleteAccount(u)
    \/ \E u \in UserIds, k \in KeyIds : RevokeAPIKey(u, k)
    \/ \E u \in UserIds, h \in Handles : SetMyUsername(u, h)
    \/ \E u \in UserIds, o \in Orgs, shown \in BOOLEAN : SetOrgVisibility(u, o, shown)
    \/ \E i \in AtGitHub, o \in Orgs : JoinsOrLeavesOrg(i, o)

AccountsNext == SignInStep \/ CommandLineStep \/ HolderStep

AccountsSpec == AccountsInit /\ [][AccountsNext]_accountVars

-----------------------------------------------------------------------------
(* What requests are answered from.                                        *)

(* The account a presented key acts as, or NoUser.                         *)
authenticate(k) ==
    IF key[k] # NoUser /\ ~ key[k].revoked /\ user[key[k].user] # NoUser
    THEN key[k].user ELSE NoUser

(* A profile route names a hidden person to nobody but themselves.         *)
ProfileServed(viewer, u) == user[u] # NoUser /\ (user[u].listed \/ viewer = u)

ListUserAllOrgs(u) == {o \in Orgs : orgRow[u][o] # "none"}
ListUserVisibleOrgs(u) == {o \in Orgs : orgRow[u][o] = "shown"}
ListUserPublicOrgs(viewer, u) == IF ProfileServed(viewer, u) THEN ListUserVisibleOrgs(u) ELSE {}
ListOrgMembers(o) == {u \in LiveUsers : orgRow[u][o] = "shown"}
SearchOrgs == {o \in Orgs : ListOrgMembers(o) # {}}

-----------------------------------------------------------------------------
UsersShape ==
    /\ user \in [UserIds -> AccountRow \union {NoUser}]
    /\ nextUser \in Nat
    /\ signIn \in [SignIns -> {Idle} \union Upserting \union SignedIn]
    /\ belongs \in [Identities -> SUBSET Orgs]

OrgsShape ==
    /\ orgRow \in [UserIds -> [Orgs -> {"none", "hidden", "shown"}]]
    /\ orgGen \in [UserIds -> Nat]
    /\ published \in [UserIds -> SUBSET Orgs]

LoginsShape ==
    /\ cli \in [LoginSessions -> CLISession \union {NoUser}]
    /\ nextCode \in Nat
    /\ sentCode \subseteq [code : Nat, session : LoginSessions, user : UserIds]
    /\ exchange \in [Exchanges -> Exchange \union {NoUser}]
    /\ key \in [KeyIds -> APIKey \union {NoUser}]
    /\ nextKey \in Nat

(* Every variable holds a value of its kind.                               *)
AccountsTypeOK == UsersShape /\ OrgsShape /\ LoginsShape

(* One command-line login hands out at most one API key, and that key      *)
(* belongs to the account whose browser sign-in the presented code came    *)
(* from, although a repeated callback may replace the code and the account *)
(* of the session while an exchange runs (handleCLICallback, CLIExchange). *)
OneKeyPerLogin ==
    /\ \A k, l \in KeyIds :
        key[k] # NoUser /\ key[l] # NoUser /\ key[k].session # NoUser
            /\ key[k].session = key[l].session => k = l
    /\ \A k \in KeyIds : key[k] # NoUser /\ key[k].session # NoUser =>
        \E m \in sentCode : /\ m.code = key[k].code /\ m.session = key[k].session
                            /\ m.user = key[k].user

(* A key acts for nobody once its account is deleted, also when the        *)
(* deletion falls between the exchange of a code and the key's insert.     *)
NoKeyOutlivesAccount == \A k \in KeyIds : key[k] # NoUser => user[key[k].user] # NoUser

(* No read shows an organization the person did not switch on, whatever    *)
(* syncs, departures and returns happened since: each sync leaves the flag *)
(* as it was and an organization that left the record starts hidden again. *)
ShownByChoice ==
    /\ \A u \in UserIds, o \in Orgs : u \in ListOrgMembers(o) => o \in published[u]
    /\ \A v, u \in UserIds : ListUserPublicOrgs(v, u) \subseteq published[u]

(* The record of an account's organizations only moves to a later sync:    *)
(* an answer that arrives late never replaces a newer one, nor one whose   *)
(* fetch failed (syncGitHubOrgSnapshot).  verified_only collectives admit  *)
(* members by this record.                                                 *)
OrgRecordForward == [][\A u \in UserIds : orgGen'[u] >= orgGen[u]]_accountVars

(* The four, as the run checks them.                                       *)
CredentialsHold ==
    /\ [](OneKeyPerLogin /\ NoKeyOutlivesAccount /\ ShownByChoice)
    /\ OrgRecordForward
=============================================================================
