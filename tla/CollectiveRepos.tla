---------------------------- MODULE CollectiveRepos ----------------------------
(* A collective's GitHub side: the account it is bound to (its creation and its
   settings in handler/groups.go, the install handshake of
   handler/github_install.go), the repositories it links and the commits cached
   for them (handler/collective_repos.go).  The settings update, the deletion and
   the binding of a handshake each run in one authority transaction, which holds
   the collective's lock from its first read to its commit
   (handler/collective_authority.go): one step.  Every other request is a chain
   of statements and GitHub calls with nothing locked in between.
   Accounts keep their login.  A version of a repository is the state of its
   branch; its newest commit carries the same number, and a page of GitHub's
   answer is one commit. *)
EXTENDS Naturals, FiniteSets

CONSTANTS
    Persons,
    Collectives,
    GitHubAccounts,     \* accounts with the App installed
    Repositories,
    OwnAccount,         \* person -> the account they signed in with, or Unset
    InstalledOn,        \* repository -> the account whose installation reaches it
    MaxVersion,
    Creations, Handshakes, Linkings, Refreshes,   \* requests in flight
    Unset

ASSUME ReposAssumption ==
    /\ OwnAccount \in [Persons -> GitHubAccounts \union {Unset}]
    /\ InstalledOn \in [Repositories -> GitHubAccounts]
    /\ MaxVersion \in Nat \ {0}
    /\ Unset \notin GitHubAccounts \union Nat

Versioned == 1..MaxVersion

Organizations == GitHubAccounts \ {OwnAccount[p] : p \in Persons}

VARIABLES
    existing,   \* groups: the collectives that have a row
    made,       \* ids of the collectives made so far, which are never used again
    owners,     \* group_members: the owners of each collective
    memberOf,   \* user_github_orgs: the organizations of a person's last sign-in
    boundTo,    \* groups.linked_github_org, by account, or Unset
    installed,  \* github_app_installations
    link,       \* collective_repositories: commits_etag, 0 for none, Unset for no row
    head,       \* GitHub: the version of each repository
    cached,     \* repository_commits
    creating, handshake, linking, refreshing,
    vouched,    \* history: accounts bound by one entitled to, see Binds
    missed      \* history: refreshes whose 304 found the newest commit uncached

collectiveVars == <<existing, made, owners>>
requestVars == <<creating, handshake, linking, refreshing>>
githubVars == <<memberOf, head>>
reposVars == <<collectiveVars, githubVars, boundTo, installed, link, cached,
               requestVars, vouched, missed>>

Unasked == [at |-> "none"]

ReposInit ==
    /\ existing \in SUBSET Collectives
    /\ made = existing
    /\ owners \in [Collectives -> SUBSET Persons]
    /\ \A g \in Collectives \ existing : owners[g] = {}
    /\ memberOf \in [Persons -> SUBSET Organizations]
    /\ boundTo = [g \in Collectives |-> Unset]
    /\ installed = {}
    /\ link = [g \in Collectives |-> [r \in Repositories |-> Unset]]
    /\ head = [r \in Repositories |-> 1]
    /\ cached = [r \in Repositories |-> {}]
    /\ creating = [x \in Creations |-> Unasked]
    /\ handshake = [x \in Handshakes |-> Unasked]
    /\ linking = [x \in Linkings |-> Unasked]
    /\ refreshing = [x \in Refreshes |-> Unasked]
    /\ vouched = [g \in Collectives |-> {}]
    /\ missed = {}

requireGroupOwner(p, g) == p \in owners[g]

(* The account itself, or an organization on record. *)
controlsAccount(p, a) == a # Unset /\ (a = OwnAccount[p] \/ a \in memberOf[p])

(* Organizations only. *)
hasOrgMembership(p, a) == a \in memberOf[p]

------------------------------------------------------------------------------
(* Creation: membership is asked, the row inserted and its creator recorded by
   three statements, in no transaction. *)

CreateGroup(x, p, a) ==
    /\ creating[x] = Unasked
    /\ a # Unset => hasOrgMembership(p, a)
    /\ creating' = [creating EXCEPT ![x] =
          [at |-> "insert", who |-> p, to |-> a, g |-> Unset, had |-> controlsAccount(p, a)]]
    /\ UNCHANGED <<collectiveVars, githubVars, boundTo, installed, link, cached, handshake,
                   linking, refreshing, vouched, missed>>

(* had: whether the creator controlled the account when that was asked. *)
InsertGroup(x, g) ==
    LET q == creating[x]
    IN  /\ q.at = "insert" /\ g \notin made
        /\ existing' = existing \union {g}
        /\ made' = made \union {g}
        /\ boundTo' = [boundTo EXCEPT ![g] = q.to]
        /\ vouched' = IF q.had THEN [vouched EXCEPT ![g] = @ \union {q.to}] ELSE vouched
        /\ creating' = [creating EXCEPT ![x] = [q EXCEPT !.at = "own", !.g = g]]
        /\ UNCHANGED <<owners, githubVars, installed, link, cached, handshake, linking,
                       refreshing, missed>>

AddGroupCreator(x) ==
    LET q == creating[x]
    IN  /\ q.at = "own"
        /\ owners' = [owners EXCEPT ![q.g] = @ \union {q.who}]
        /\ creating' = [creating EXCEPT ![x] = Unasked]
        /\ UNCHANGED <<existing, made, githubVars, boundTo, installed, link, cached, handshake,
                       linking, refreshing, vouched, missed>>

(* A statement fails: the collective is not made, or made and left without an
   owner. *)
CreationFails(x) ==
    /\ creating[x] # Unasked
    /\ creating' = [creating EXCEPT ![x] = Unasked]
    /\ UNCHANGED <<collectiveVars, githubVars, boundTo, installed, link, cached, handshake,
                   linking, refreshing, vouched, missed>>

------------------------------------------------------------------------------
(* The install handshake. *)

Owned(p) == {g \in Collectives : p \in owners[g]}

(* The collectives the callback may pick: the one the signed state names, else
   one bound to the account already, else the only one bound to nothing. *)
BindingTargets(p, a, preferred) ==
    LET same == {g \in Owned(p) : boundTo[g] = a}
        open == {g \in Owned(p) : boundTo[g] = Unset}
    IN  CASE preferred \in Owned(p) -> {preferred}
          [] preferred \notin Owned(p) /\ same # {} -> same
          [] preferred \notin Owned(p) /\ same = {} /\ Cardinality(open) = 1 -> open
          [] OTHER -> {}

(* The installation is recorded and the collective chosen.  One bound to the
   account already, or none, ends the handshake. *)
GitHubInstallCallback(x, p, a, preferred) ==
    /\ handshake[x] = Unasked
    /\ installed' = installed \union {a}
    /\ LET targets == BindingTargets(p, a, preferred)
       IN  \/ \E g \in {t \in targets : boundTo[t] # a} :
                 handshake' = [handshake EXCEPT ![x] = [at |-> "control", who |-> p, to |-> a, g |-> g]]
           \/ /\ targets = {} \/ \E t \in targets : boundTo[t] = a
              /\ UNCHANGED handshake
    /\ UNCHANGED <<collectiveVars, githubVars, boundTo, link, cached, creating, linking, refreshing, vouched, missed>>

InstallControl(x) ==
    LET q == handshake[x]
    IN  /\ q.at = "control"
        /\ handshake' = [handshake EXCEPT ![x] =
              IF controlsAccount(q.who, q.to) THEN [q EXCEPT !.at = "bind"] ELSE Unasked]
        /\ UNCHANGED <<collectiveVars, githubVars, boundTo, installed, link, cached, creating, linking,
                       refreshing, vouched, missed>>

(* vouched: whether one who owns the collective and controls the account binds
   it, whatever the request asked before. *)
Binds(p, g, a) ==
    /\ boundTo' = [boundTo EXCEPT ![g] = a]
    /\ vouched' = IF controlsAccount(p, a) /\ p \in owners[g]
                  THEN [vouched EXCEPT ![g] = @ \union {a}] ELSE vouched

(* Seeded fault: the checks before the transaction are relied on. *)
MayBind_Checked(p, g, a) == TRUE

(* Ownership and control are looked up again inside the authority transaction. *)
MayBind(p, g, a) == requireGroupOwner(p, g) /\ controlsAccount(p, a)

SetGroupLinkedGitHubOrg(x) ==
    LET q == handshake[x]
    IN  /\ q.at = "bind"
        /\ IF MayBind(q.who, q.g, q.to)
           THEN Binds(q.who, q.g, q.to)
           ELSE UNCHANGED <<boundTo, vouched>>
        /\ handshake' = [handshake EXCEPT ![x] = Unasked]
        /\ UNCHANGED <<collectiveVars, githubVars, installed, link, cached, creating, linking, refreshing, missed>>

------------------------------------------------------------------------------
(* Settings and deletion. *)

(* The account is cleared, or replaced by an organization the caller belongs to.
   An update that does not mention it writes back what it read under the lock. *)
UpdateGroup(p, g) ==
    /\ requireGroupOwner(p, g)
    /\ \/ boundTo' = [boundTo EXCEPT ![g] = Unset] /\ UNCHANGED vouched
       \/ \E a \in GitHubAccounts : hasOrgMembership(p, a) /\ Binds(p, g, a)
    /\ UNCHANGED <<collectiveVars, githubVars, installed, link, cached, requestVars, missed>>

(* The row goes, and by cascade its members and links; the cached commits stay. *)
DeleteGroup(p, g) ==
    /\ requireGroupOwner(p, g)
    /\ existing' = existing \ {g}
    /\ owners' = [owners EXCEPT ![g] = {}]
    /\ boundTo' = [boundTo EXCEPT ![g] = Unset]
    /\ link' = [link EXCEPT ![g] = [r \in Repositories |-> Unset]]
    /\ UNCHANGED <<made, githubVars, installed, cached, requestVars, vouched, missed>>

------------------------------------------------------------------------------
(* Linking. *)

(* GitHub says which installation reaches the repository; a bound collective
   takes only its own account's. *)
LinkRepository(x, p, g, r) ==
    /\ linking[x] = Unasked
    /\ requireGroupOwner(p, g)
    /\ boundTo[g] \in {Unset, InstalledOn[r]}
    /\ linking' = [linking EXCEPT ![x] = [at |-> "insert", g |-> g, r |-> r]]
    /\ UNCHANGED <<collectiveVars, githubVars, boundTo, installed, link, cached, creating,
                   handshake, refreshing, vouched, missed>>

(* The upsert: a row that is there keeps its ETag; a collective that was deleted
   takes none. *)
LinkCollectiveRepository(x) ==
    LET q == linking[x]
    IN  /\ q.at = "insert"
        /\ link' = [link EXCEPT ![q.g][q.r] = IF @ = Unset /\ q.g \in existing THEN 0 ELSE @]
        /\ linking' = [linking EXCEPT ![x] = Unasked]
        /\ UNCHANGED <<collectiveVars, githubVars, boundTo, installed, cached, creating, handshake,
                       refreshing, vouched, missed>>

(* The cached commits stay. *)
UnlinkRepository(p, g, r) ==
    /\ requireGroupOwner(p, g)
    /\ link[g][r] # Unset
    /\ link' = [link EXCEPT ![g][r] = Unset]
    /\ UNCHANGED <<collectiveVars, githubVars, boundTo, installed, cached, requestVars, vouched, missed>>

(* What a member is shown: links whose installation is recorded and whose account
   is theirs. *)
allowedRepositoryInstallations(p) == {a \in installed : controlsAccount(p, a)}

ListRepositories(p, g) ==
    {r \in Repositories : link[g][r] # Unset /\ InstalledOn[r] \in allowedRepositoryInstallations(p)}

------------------------------------------------------------------------------
(* Refreshing the cached commits. *)

(* ListRepositoryCommits with refresh: the link is read with its ETag. *)
ListRepositoryCommits(x, p, g, r) ==
    /\ refreshing[x] = Unasked
    /\ requireGroupOwner(p, g)
    /\ r \in ListRepositories(p, g)
    /\ refreshing' = [refreshing EXCEPT ![x] =
          [at |-> "first", g |-> g, r |-> r, etag |-> link[g][r], todo |-> {}]]
    /\ UNCHANGED <<collectiveVars, githubVars, boundTo, installed, link, cached, creating,
                   handshake, linking, vouched, missed>>

RefreshMoves(x, to) ==
    /\ refreshing' = [refreshing EXCEPT ![x] = to]
    /\ UNCHANGED <<collectiveVars, githubVars, boundTo, installed, creating, handshake, linking, vouched>>

(* listCommits: only the first page carries the ETag, and its answer is the one
   kept.  A 304 writes nothing. *)
FirstPage(x) ==
    LET q == refreshing[x]
        v == head[q.r]
    IN  /\ q.at = "first"
        /\ IF q.etag = v
           THEN /\ RefreshMoves(x, Unasked)
                /\ missed' = IF v \in cached[q.r] THEN missed ELSE missed \union {x}
           ELSE /\ RefreshMoves(x, [q EXCEPT !.at = "next", !.etag = v, !.todo = {v}])
                /\ UNCHANGED missed
        /\ UNCHANGED <<link, cached>>

(* The branch may have moved since the first page. *)
NextPage(x) ==
    LET q == refreshing[x]
    IN  /\ q.at = "next"
        /\ RefreshMoves(x, [q EXCEPT !.at = "write", !.todo = @ \union ({head[q.r] - 1} \ {0})])
        /\ UNCHANGED <<link, cached, missed>>

(* Newest first, one statement each. *)
UpsertRepositoryCommit(x) ==
    LET q == refreshing[x]
    IN  /\ q.at = "write"
        /\ \E c \in q.todo :
              /\ \A d \in q.todo : d <= c
              /\ cached' = [cached EXCEPT ![q.r] = @ \union {c}]
              /\ RefreshMoves(x, [q EXCEPT !.todo = @ \ {c},
                                           !.at = IF q.todo = {c} THEN "sync" ELSE "write"])
        /\ UNCHANGED <<link, missed>>

(* The row of the collective and name, whether or not it is the one that was
   read. *)
UpdateCollectiveRepositorySync(x) ==
    LET q == refreshing[x]
    IN  /\ q.at = "sync"
        /\ link' = [link EXCEPT ![q.g][q.r] = IF @ = Unset THEN Unset ELSE q.etag]
        /\ RefreshMoves(x, Unasked)
        /\ UNCHANGED <<cached, missed>>

(* A page, a statement or the process fails: what is written stays. *)
RefreshFails(x) ==
    /\ refreshing[x] # Unasked
    /\ RefreshMoves(x, Unasked)
    /\ UNCHANGED <<link, cached, missed>>

------------------------------------------------------------------------------
(* An owner takes in or removes another, a sign-in records other organizations,
   the branch is pushed to or reset. *)
GitHubMoves ==
    /\ \/ /\ \E g \in Collectives, p \in Persons :
                /\ owners[g] # {}
                /\ owners' = [owners EXCEPT ![g] = IF p \in @ THEN @ \ {p} ELSE @ \union {p}]
          /\ UNCHANGED <<memberOf, head>>
       \/ /\ \E p \in Persons, a \in Organizations :
                memberOf' = [memberOf EXCEPT ![p] = IF a \in @ THEN @ \ {a} ELSE @ \union {a}]
          /\ UNCHANGED <<owners, head>>
       \/ /\ \E r \in Repositories, v \in Versioned : head' = [head EXCEPT ![r] = v]
          /\ UNCHANGED <<owners, memberOf>>
    /\ UNCHANGED <<existing, made, boundTo, installed, link, cached, requestVars, vouched, missed>>

CreationStep ==
    \E x \in Creations :
       \/ \E p \in Persons, a \in GitHubAccounts \union {Unset} : CreateGroup(x, p, a)
       \/ \E g \in Collectives : InsertGroup(x, g)
       \/ AddGroupCreator(x) \/ CreationFails(x)

BindingStep ==
    \/ \E x \in Handshakes, p \in Persons, a \in GitHubAccounts, g \in Collectives \union {Unset} :
          GitHubInstallCallback(x, p, a, g)
    \/ \E x \in Handshakes : InstallControl(x) \/ SetGroupLinkedGitHubOrg(x)
    \/ \E p \in Persons, g \in Collectives : UpdateGroup(p, g) \/ DeleteGroup(p, g)

RepositoryStep ==
    \/ \E p \in Persons, g \in Collectives, r \in Repositories :
          \/ \E x \in Linkings : LinkRepository(x, p, g, r)
          \/ UnlinkRepository(p, g, r)
          \/ \E x \in Refreshes : ListRepositoryCommits(x, p, g, r)
    \/ \E x \in Linkings : LinkCollectiveRepository(x)
    \/ \E x \in Refreshes :
          \/ FirstPage(x) \/ NextPage(x) \/ UpsertRepositoryCommit(x)
          \/ UpdateCollectiveRepositorySync(x) \/ RefreshFails(x)

ReposNext == CreationStep \/ BindingStep \/ RepositoryStep \/ GitHubMoves

ReposSpec == ReposInit /\ [][ReposNext]_reposVars

------------------------------------------------------------------------------
CreateState == [at : {"insert", "own"}, who : Persons, to : GitHubAccounts \union {Unset},
                g : Collectives \union {Unset}, had : BOOLEAN]
ShakeState == [at : {"control", "bind"}, who : Persons, to : GitHubAccounts, g : Collectives]
LinkState == [at : {"insert"}, g : Collectives, r : Repositories]
RefreshState == [at : {"first", "next", "write", "sync"}, g : Collectives, r : Repositories,
                 etag : Nat, todo : SUBSET Nat]

BindingShape ==
    /\ existing \subseteq made /\ made \subseteq Collectives
    /\ owners \in [Collectives -> SUBSET Persons]
    /\ memberOf \in [Persons -> SUBSET Organizations]
    /\ boundTo \in [Collectives -> GitHubAccounts \union {Unset}]
    /\ vouched \in [Collectives -> SUBSET GitHubAccounts]
    /\ creating \in [Creations -> CreateState \union {Unasked}]
    /\ handshake \in [Handshakes -> ShakeState \union {Unasked}]

CacheShape ==
    /\ link \in [Collectives -> [Repositories -> Nat \union {Unset}]]
    /\ head \in [Repositories -> Versioned]
    /\ cached \in [Repositories -> SUBSET Nat]
    /\ linking \in [Linkings -> LinkState \union {Unasked}]
    /\ refreshing \in [Refreshes -> RefreshState \union {Unasked}]

(* Every variable holds a value of its kind. *)
ReposTypeOK == BindingShape /\ CacheShape /\ installed \subseteq GitHubAccounts

(* The account a collective is bound to was put there by an owner of the
   collective who controlled the account at that moment, although ownership and
   control may be lost between any two steps of a handshake, or came with its
   creation by one who controlled it when the request asked (groups.go:78), which
   may no longer be so when the row is inserted.  A collective that does not
   exist is bound to nothing: no request brings back one that was deleted. *)
BoundByController ==
    \A g \in Collectives :
       boundTo[g] # Unset => g \in existing /\ boundTo[g] \in vouched[g]

(* "304: cache is current": when GitHub says that nothing changed since a stored
   ETag, the newest commit is cached, with refreshes of several collectives
   interleaved, failing part-way, finishing out of order and over links made
   again meanwhile. *)
NotModifiedIsCurrent == missed = {}

(* The two, as the run checks them. *)
ReposHold == BoundByController /\ NotModifiedIsCurrent
=============================================================================
