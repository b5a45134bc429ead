# A verification project for village

village publishes coding-session transcripts: a Go backend (`src/backend`) over PostgreSQL
and an S3-compatible object store, a Next.js front end, a GitHub App that attaches prompts to
pull requests, and an external service that checks published content. Several server
instances run at once. They share the database and the object store, and no transaction spans
both, or spans a call to GitHub or to the checking service. The difficulty of the code is
there: work of several transactions and external calls, interleaved with other work on the
same rows, any step of which may fail or have an unknown outcome.

This directory models that work in TLA+, checks it with TLC on small instances, and proves with
TLAPS, for every number of requests, people, servers and rows, the safety properties that the
passing runs check, the two refinements included; only the locks' are left to TLC.

| file | what it is |
| --- | --- |
| `TranscriptStore.tla` | the encrypted storage of one published session |
| `PublishedSession.tla` | abstract: what the storage promises, one published value at a time |
| `TranscriptStoreProofs.tla` | the theorems of `TranscriptStore`, the refinement of `PublishedSession` included |
| `IntegrityCheck.tla` | the background integrity check of one session |
| `IntegrityCheckProofs.tla` | its theorems |
| `PromptAttachment.tla` | the prompt attachment of one pull request |
| `PromptAttachmentProofs.tla` | its type and its moves |
| `StickyCommentProofs.tla` | its comment: how many, what it quotes and by whose consent |
| `Contribution.tla` | abstract: where a submission to a collective stands, and how it may move |
| `ShareLedger.tla` | the statements over the submission ledger of one transcript and one collective |
| `Collective.tla` | the people of a collective: policy, memberships, invitations, quota |
| `Sharing.tla` | `Collective` composed with the ledgers: shares, batches, reviews, departures; refines `Contribution` |
| `ShareReads.tla` | what the collectives' pages and listings return in a state of `Sharing` |
| `ReadPolicies.tla` | who may open, list, pull and be named in a state of `Sharing` |
| `SharingProofs.tla` | the theorems of `Sharing`, the refinement included |
| `ReadPoliciesProofs.tla` | the theorems of the reads |
| `Accounts.tla` | sign-in, handles, organization sync, command-line login, keys, deletion |
| `NotificationEmail.tla` | notification addresses and invitation emails |
| `WebhookLedger.tla` | GitHub deliveries, their ledger and the dispatcher |
| `RepositoryAccess.tla` | the limiter and the refusal cache of private pull request pages |
| `CollectiveRepos.tla` | the account a collective is bound to, linked repositories, cached commits |
| `Migrations.tla` | the migration runner |
| `Backfills.tla` | the identity, origin and title backfills of one row |
| `Maintenance.tla` | `Migrations` and `Backfills` beside each other |
| `MaintenanceProofs.tla` | its theorems |
| `ServicesProofs.tla` | the theorems of `Accounts`, `NotificationEmail`, `WebhookLedger`, `RepositoryAccess` and `CollectiveRepos` |
| `LockOrder.tla` | advisory locks, the connections they pin and the pool |
| `MC*.tla`, `*.cfg` | instances for TLC |
| `PROJECT.json` | components, runs, the map from definitions to source lines, hazards, findings |

Paths below are relative to `src/backend/internal/` unless they begin with `src/`.

## Inventory

### Encrypted transcript storage (`handler/transcripts.go`, `handler/transcript_persistence.go`, `storage/encrypted.go`)

*State.* A `transcripts` row per (owner, local id) naming an immutable object generation: a
body and optionally a metadata object, sealed under one wrapped data key. The row also holds
the visibility and the accepted content fingerprint.
*Operations.* Publish and republish, the canonical rewrite that a content read performs, key
rewrap, deletion, reads with one retry, the owner's visibility changes and shares.
*Interactions.* A publish takes the session's advisory lock on a pinned connection; rewrites,
rewraps, deletions and reads do not, and rely on compare-and-swap, on what a statement returns
and on retrying. Superseded objects are deleted after the lock is released.
*Hard.* Objects are uploaded before the row names them and deleted after it stops; a COMMIT may
be unconfirmed; the lock's connection may die; a republish narrows the row to private first and
restores the audience in another transaction.
*Correct when* the row always names stored objects of a single generation, the fingerprint
describes the body, no object is retained silently, the owner's audience is never changed
silently, a reader is served only what was exposed, and every request is answered.

### Integrity check (`handler/integrity_worker.go`, `handler/integrity*.go`, `database/queries/integrity.sql`)

*State.* Answers per (copy, content hash, checker version), attempt rows with a count and a due
time, inherited flags, a content-free record that outlives a flagged copy, and the version each
server holds in memory.
*Operations.* Health report, listing, claim, reload, object read, the call, recording,
completion, release; the owner's publishes, replacements, audience changes and deletions.
*Hard.* Several servers list the same row; content is replaced or hidden between the steps;
rollouts make older checkers answer late; statements are lost; servers die holding an attempt.
*Correct when* an attempt has one holder, the count is what was consumed, an answer is filed
under the content and version it is about, private content is not sent, flags close only by a
later clean answer, and content that stays is finished.

### Prompt attachments (`handler/attachment_*.go`, `promptattach/`)

*State.* One row per pull request (`requested`, `waiting`, `preview`, `attached`, `detached`;
the comment id; the stored digest), the transcripts bound to it, and a sticky comment on GitHub.
*Operations.* Webhook commands and pushes, the automatic attach of an opened pull request, the
confirm and detach routes, the refresh button, and the work that follows a publish, a
visibility change or a deletion.
*Interactions.* Most take the attachment's advisory lock and read the row again; webhook
commands (`attachment_actions.go:164-172`) and pushes (`:567`) take no lock. State moves are a
read and a conditional write.
*Hard.* Binding, posting, storing and moving are separate steps; GitHub may fail with the call
performed; an owner changes a transcript's audience between the digest and the move.
*Correct when* there is one comment, it quotes exactly the public transcripts attached, nothing
is quoted without the author's consent since the last detach, and deleted text is gone.

### Sharing, collectives and invitations (`handler/shares*.go`, `handler/groups.go`, `handler/invitations.go`, `handler/collective_authority.go`)

*State.* A ledger of numbered events per (transcript, collective) and the `transcript_shares` row a
trigger derives from the latest one; memberships with a role and an origin; the collective's
acceptance mode, exit policy and linked organization; one invitation per (collective, handle); daily
counters.
*Operations.* Share, project batch, unshare, review, revocation; creation, joining, requesting,
approval, promotion, removal and departure with or without retraction; inviting, relinking,
accepting, declining, revoking, expiry.
*Interactions.* A share holds the publish lock and, inside it, the authority locks of the actor
and the collectives; a batch reads everything before it takes either; an unshare takes only the
publish lock.
*Hard.* Policies, roles and other submissions change between a batch's reads and its
transaction; a handle passes to another account; the same audience is decided by a dozen
statements, some over the ledger and some over the derived row.
*Correct when* a submission is decided once and only under the policy in force, the statements
agree on who sees what, a departure with retraction leaves nothing behind, and an answer to an
invitation is the invitee's.

### Others

| component | state and operations | what is hard |
| --- | --- | --- |
| publish locks, `handler/associations.go` | advisory locks taken in sorted order on a pinned connection | a batch beside single publishes; the pool they take connections from, nested with the attachment lock |
| accounts, `handler/auth.go`, `handler/cli_auth.go` | users, handles, organization generations, login codes, keys | overlapping sign-ins of one account, a deletion between two statements, a code exchanged twice |
| notification email, `handler/notification_email.go` | an address with a code and a choice; quotas | the address changes while a message is on its way |
| webhook ledger, `handler/github_webhook.go` | received, handled or failed per delivery | redelivery while the first attempt runs |
| collective repositories, `handler/collective_repos.go`, `handler/github_install.go` | the bound account, links, cached commits with a cursor | chains of GitHub calls with nothing locked; a page that fails |
| repository access limiter and cache | bounded concurrency, expiring entries | stale answers, full tables |
| migration runner, `database/migrate.go` | applied versions under one advisory lock | two servers starting; unknown commits |
| key rotation and backfills, `backfill/` | keyset walks with compare-and-swap writes | rows replaced under the walk |
| matcher, digest | pure functions of one request | none that is concurrent |
| schema mapping, GitHub client, configuration, front end | conversions, external protocols, wiring | not modelled, see the end |

## Modules and code

### TranscriptStore

One session, any number of requests of each role. Each action is one transaction, one object
store call or one lock operation of a handler; `pc` is the place in the handler and `seen`,
`narrowed` and `todo` are its local variables. A generation is named by the request that wrote
it: object keys are fresh UUIDs and a request writes at most one generation.

Publish: lock, probe for an exact replay, load, narrow to private, reload, upload body and
metadata, persist (committed, rolled back, or ambiguous), restore the audience on failure, clean the
candidate or the superseded generation, answer. Rewrite, rewrap, delete and read are likewise
split at every call. The history variables (`audience`, `warned`, `exposed`) record what properties
compare with and influence nothing.

`PublishedSession` is what a person who uses the storage may rely on, without generations, keys,
locks or failures: a value, its audience, the requests that may still take effect and the session each
of them found, and what each reader will be given. `ImplementsSession` maps the row's content to the
value, the undecided requests to the open ones and a reader's snapshot to the value of the moment
at which it was admitted. Rewrites, rewraps and cleanups map to no step: whichever generation
the row names, its content is the same.

Abstractions: the process-local mutex of rewrites is omitted (more interleavings than the code
has); conflicting associations are a rollback of the persist transaction; the share ledger is its
effect on the visibility; titles, tags and licences are left out, as are the attachment refresh
(in `PromptAttachment`) and the integrity nudge (in `IntegrityCheck`); a lost connection rolls
its open transaction back; the owner's visibility writers are one step while the lock is free,
since they hold it for one transaction; the backfills are in `Backfills`.

### IntegrityCheck

One publisher session and its successive copies (a first publish takes a fresh transcript id).
A worker's pass over a row is one action per statement or call. Versions are naturals, since
`compareScryVersions` is a numeric order. `due` stands for `next_attempt_at <= now()`;
`TimePasses` makes a row due, and only while no worker holds the key, because the work's
deadline is shorter than the claim's lease. Batch order, pacing and budgets are left out, and one
delete transaction is open at a time. `spent`, `exposed`, `sent` and the `of` field are history.
`Faults` selects crashes, lost statements, a refused secret and a rollback of the service. A
statement that PostgreSQL executes after its client gave up is not modelled.

### PromptAttachment

One pull request. A request picks any of eleven kinds of entry point, then proceeds step by step:
lock, match, build, clear, bind, post, store, read and write the state, look at the audience
again. A job record holds the locals of `authorAttachOrPreview`, `attachAcceptedAndPost`,
`refreshAttachedAttachment` and `detachAttachment`. A comment and a digest are the sets of
transcripts they quote. `incidents` is history: an unlocked request overlapped other work, a call
failed, a performed call went unrecorded, a transcript was deleted. Properties name the incidents
they exclude, so each says exactly what it depends on.

Abstractions: every stored transcript matches the pull request; a transcript is public or not
(the shared tier matters only for the check's conclusion); the check run and the head SHA are
reduced to "the head moved"; the collective's posting toggle is on; positions, handles and the
release of bindings made by earlier versions are left out; the matcher's reads and the listing of
the bindings are one step; unbinding is one step.

### Sharing and the modules around it

`ShareLedger` has the ledger's statements as operators on the sequence of a pair's statuses:
appending at `MAX(event_num) + 1`, the refusal of a number already taken, the row the trigger
derives. `Collective` has each authority transaction as one step, because the transaction holds
the actor's and the collective's locks and reads its guards again; creation (a row, then its owner)
and decline run without those locks and interleave. `Sharing` extends both. A project batch keeps what it
read in `batch` and an unshare what it holds in `unsharing`, so owners and members act in between;
`departed` is history.

`ShareReads` and `ReadPolicies` have no actions: each operator is one query or policy of the
code, evaluated over `Sharing`'s state for a viewer, an access setting and a set of discoverable
people. `ReadsAgree` and `AudienceEntitled` compare them in every reachable state.

`Contribution` is the abstract specification: the standing of each submission and its allowed
moves, without ledgers, roles or locks. `ContributionSpec` is its instance under the mapping
`StandingOf`, checked as a property of `Sharing`.

Abstractions: two collectives and two people stand for all; names, descriptions and facets are left
out; `data_access` and `is_discoverable` are parameters of the reads; quotas count within one day.

### The services

Every module has one action per statement or external call wherever the code holds nothing between two of
them. `Accounts` follows sign-ins through upsert, handle claim, organization
sync with its generation, and command-line logins from code to key; a user id is never reused.
`NotificationEmail` follows an address request and an invitation notice to the mail provider.
`WebhookLedger` lets attempts at one delivery overlap and die. `RepositoryAccess` keeps a clock and
the two bounded tables; a request uses a time it read earlier. `CollectiveRepos` follows the account a
collective is bound to (a creation in its three statements, which no transaction holds together; the settings
update, the deletion and the binding of a handshake, each one step because its authority transaction
holds the collective's lock from the first read to the commit), linking and the paged refresh.
The settings update and creation admit organizations on record (`hasOrgMembership`), the handshake also the
person's own account (`controlsAccount`). `Migrations` has one transaction per version, with
an unknown commit. `Backfills` follows a visit (list, decide, compare-and-set) against publishes,
edits, rewrites and rewraps of the row, which say what the object under the key holds. `LockOrder`
turns each request into the program of scopes and keys the code runs: connections pinned, keys in
the order the code sorts them, waits with and without a deadline, a connection that dies while its
session still holds its locks, be it at the release or because a wait was given up, when the key may
just have been granted (`GiveUp`).

Abstractions: accounts keep their login; a sign-in does not take the collective's lock, and one that lands
between the look-up of control and the write of the same authority transaction counts as one right after it;
at most one dead session is left unreaped at a time.

## Runs

| run | instance | shows |
| --- | --- | --- |
| `store_safety` | cases `writers`, `dying`, `deleted`, `rotated`, `once` | `ReferencedStored`, `MetadataPaired`, `FingerprintMatches`, `AudienceAccounted`, `PrivateWindow`, `NeverAbsent`, `ServedWasExposed`, `OnlyNamedLapses`, refinement of `PublishedSession` (`ImplementsSession`) |
| `store_answers` | two publishes with equal content, a deletion; unconfirmed commits, crashes, late uploads | `EveryRequestAnswered` under fairness |
| `store_cas` (violation) | two publishes and a rewrite | a republish is not the compare-and-swap the storage document says it is |
| `integrity_safety` | cases `servers` (two servers, two versions, all faults) and `copies` (two copies, two contents) | exclusive and accounted attempts, done means answered, answers filed under what they examined, nothing private sent, records inherited, late answers change nothing |
| `integrity_progress` | two servers, two versions, no faults | `EventuallyFinished` under fairness |
| `integrity_lostflag` (violation) | one of each | a flag recorded inside a deletion is lost |
| `attach_safety` | up to four requests of all kinds, two transcripts, all faults | `ListingCurrent`, `OneComment`, `QuotedByConsent`, `OnlyAllowedMoves`; no deadlock |
| `attach_deleted` (violation) | two requests | a preview stored inside a deletion keeps the deleted text |
| `sharing` | cases `people`, `pair`, `batch` | `ReadsAgree`, `AudienceEntitled`, `RetractionHolds`, `CreatorStays`, `AnswerIsInvitees`, `SubmissionUnderPolicy`, `ConsentToWiden`, refinement of `Contribution` |
| `sharing_leave` (violation) | case `pair` | a departure with retraction is refused by the ledger after a withdrawal |
| `backfill_origin` (violation) | three runs, two sessions | the origin backfill overwrites a declared origin |
| `services` | twelve scenarios | `CredentialsHold`, `EmailHolds`, `DeliveriesSettle`, `AccessBounded`, `ReposHold`, `MaintenanceHolds`, `LocksHold` |

### Bounds and cases

An instance with everything in it at once is out of reach, so the MC modules split it: a variable
(`case`, `scenario`) is chosen at the start, never changes, and keeps fixed what the other cases
vary. A case restricts who moves and never what a step does.

* `MCTranscriptStore`: `writers` has two publishes, a rewrite and the owner under unconfirmed commits
  and lost connections; `dying` has two publishes and a deletion under unconfirmed commits, dying
  processes and late uploads; `deleted` and `rotated` have an authoritative and a legacy publish with a
  reader and a deletion or a rewrap; `once` has a publish, a rewrap, a deletion and a reader.
  A generation has three lives (candidate, current, superseded), and two publishers with one
  other writer give each of them while another is being written; two contents tell a replay from a
  replacement. `Suffers` says which of the instance's faults a case meets. `store_answers` has the
  case `everyone`, with all of its faults. In `store_safety` two publishes that differ only in
  name and content may trade places (`Traded`); the cases where one of them is idle are not reduced by it.
* `MCIntegrityCheck`: two versions give older and newer, two attempts a retry and the cap, two servers each race.
  `copies` has one server, one version and no faults, and adds replacement and deletion.
* `MCPromptAttachment`: three requests in any way; a fourth (a whole attach, detach and re-attach with
  a preview) only while nothing failed or overlapped (`Bounded`). Two transcripts separate what a
  refresh adds from what was bound.
* `MCSharing`: `people` explores creation, invitations, a handle changing hands and roles on one
  collective; `pair` one transcript before two collectives of different policies, one of them the
  submitter's own; `batch` two transcripts before one collective whose policy changes. Three
  events per pair are a submission, its decision and its end.
* `MCServices`: `organizations`, `logins`, `names` (`Accounts`); `addresses`, `notices`
  (`NotificationEmail`); `deliveries`; `access`; `binding`, `commits` (`CollectiveRepos`);
  `migrations`; `backfills`; `locks`. `binding` has two collectives, each of which may exist at the start or be created,
  and two people who gain and lose ownership: one signed in with one of the two accounts and joins and leaves the
  other, an organization; the second controls neither. These modules share no state that they would have
  to agree on, so a behaviour plays one of them. Limits are one, so that each is reached.

Deadlock is checked where a system that cannot move would be wrong (`integrity_*`, `attach_*`);
elsewhere all requests may be over.

### Fairness

`TranscriptStore`: weak fairness of each started request. A handler's goroutine continues; each
call returns, fails or reaches its deadline; PostgreSQL grants a lock that stays free. No reader
or rewrite needs to be requested. `IntegrityCheck`: weak fairness of each worker (a ticker drives
it and calls have deadlines), of time, and of the end of a rollout. `LockOrder`: weak fairness of a
worker that can go on, of the deadlines the code sets, and of PostgreSQL ending the session of a
client that is gone; no client is assumed to arrive or to go away. None of them assumes that an
upload, a claim or a check succeeds. The owner owes nothing.

`EveryoneServed`, a part of `LocksHold`, has a premise: fewer confirmations than connections. A confirmation pins one
connection for the attachment lock and waits without a deadline for another
(`handler/attachment_lock.go:29`), so confirmations alone can fill the pool and wait for themselves.

### What disagrees with the code's own statements

* `store_cas`: `src/docs/transcript-storage-security.md:179-180` says a republish uses exact
  compare-and-swap. `UpdateTranscriptByOwnerAndLocalID` matches by owner and local id only, and a
  rewrite takes no publish lock. Safety of the named objects holds regardless (`StoreSafe`); the
  overwritten generation is left unreferenced and unreported.
* `integrity_lostflag`: `handler/transcripts.go:1638-1639` says an open flag outlives the row. One
  committed between the deletion's two statements does not.
* `attach_deleted`: `handler/attachment_artifacts.go:15-17` says a digest never restores a deleted
  transcript's prompts. A preview stored between the deletion's listing and its commit does.
* `sharing_leave`: `handler/shares_attempts.go:38-43` says every caller that withdraws checks for a live
  event first. The retraction of a departure (`handler/groups.go:1098`) does not: after an accepted
  submission was withdrawn it appends a number already taken, and the departure answers 500.
* `backfill_origin`: `backfill/origin.go:66-67` says a backfilled and a published row never
  disagree. A publish stores the declared origin; the backfill never looks at the declaration.

Known and without a run of its own:

* storage: an ambiguous commit that did happen leaves the prior generation unreported
  (`src/docs/transcript-storage-security.md:196-197` accepts it);
* integrity: a server that dies with the last attempt leaves the row pending at the cap; after a
  rollback of the service each pass gives its attempt back until a restart;
* attachments: a push that overlaps a detach attaches again; a click that matched nothing can move to
  `waiting` after the publish it waits for; a publish hook queued behind a detach moves the
  detached row to `preview`;
* reads: the pull routes accept any membership row, a pending request included, and so do the
  discovery lists, which also show any share row; the web read policy does not.
  `handler/attachment_wire.go:249` says of a pending request that "it grants no read access", which
  is true of the policy it comments on;
* invitations: a declined invitation that is revoked and made again notifies again;
* collectives: a creation whose second insert fails leaves one without an owner, which nobody can change or delete
  (`handler/groups.go:104`), and one whose creator left the organization between the check
  and the insert is bound to it nevertheless (`handler/groups.go:78`); a link whose installation was never recorded is in no listing
  (`handler/collective_repos.go:505`); the dispatcher takes a failed read of the links for "not linked";
* backfills: one that loses its compare-and-set to a title edit counts as neither updated nor failed.

## Proofs

The theorems cover the safety invariants and action properties of the passing runs except the few
listed under "Model-checked only". All hold for every value of the constants that meets the named
assumptions of the modules. Those say that the kinds of request are disjoint, that per-request
inputs are functions into their sets, that the marker `None` (or `Nobody`, `Unset`) is no ordinary
value, and that limits are naturals. No theorem assumes anything about the order of steps; where a
property holds only without certain failures, the failures are named in the property (`incidents`).

Each proof has the same form: an inductive invariant with one lemma per action, or per group of
actions that can disturb the same conjuncts, then a temporal step. The interesting part is what
had to be added to the property.

| theorem | property | what the induction needs |
| --- | --- | --- |
| **`TranscriptStoreProofs`** | | |
| `TypeCorrect` | `TypeOK` | a request past its read has a snapshot (`SeenLoaded`) |
| `StoreSafe`, `MetadataStaysPaired` | `ReferencedStored`, `MetadataPaired` | `StoreInv`: nothing queued for deletion is, or can become, the row's (`TodoUnreferenced`); a request about to persist has its candidate stored (`CandidateStored`); rows, snapshots and pending deletions name only generations whose writer is past the transaction that could install them (`NamesSettled`); a snapshot with the row's body has the row's metadata (`SnapshotsAgree`). Together these make deleting by a stale snapshot harmless |
| `FingerprintSound` | `FingerprintMatches` | the content of candidates, and what a rewrite may change |
| `ReadersRecover` | `NeverAbsent` | a reader retries only for an object whose generation the row has left |
| `AudienceRepaired`, `PrivateWhileReplacing` | `AudienceAccounted`, `PrivateWindow` | `AudienceInv`: a publish that holds the lock will restore what the owner last chose (`ChoiceKept`), and a publish that only cleans up owes nothing (`AudienceOwed`) |
| `ServedOnlyExposed` | `ServedWasExposed` | `ExposedInv`: a reader holds only a row that was exposed when it was read, a retry included |
| `LapsesAreNamed` | `OnlyNamedLapses` (action property) | `RetentionInv`, under every fault and with rewrites: only a request that is restoring, releasing or cleaning owes deletions (`OwedLater`); the metadata object of a generation is stored last (`MetaLast`); the generation found under the lock is still the row's when it is superseded, or a rewrite replaced it (`LockedSnapshot`). An object is forgotten only in the four ways the property names, and the last one is what `store_cas` shows |
| `StoreImplementsSession` | `ImplementsSession` (refinement) | `SessionInv`: everything above but retention, that every generation the row or a snapshot names has a content (`ContentKnown`), and that a reader who was given something is at its end and was given a settled generation (`GivenOnce`). `StoreInv` makes a rewrite a stutter, its content being that of the generation it replaces; `LockedSnapshot` makes a republish act on the session it found |
| **`IntegrityCheckProofs`** | | |
| `IntegrityTypeCorrect` | `TypeOK` | a worker past its listing has a key to work on (`LocalsLoaded`) |
| `OneHolder` | `ExclusiveAttempt` | `HoldInv`: a claim keeps its row pending and not due until the work ends, unless the copy goes; ids are never reused |
| `CountsExact` | `AttemptsAccounted` | `HoldInv` again: a release gives back exactly the attempt that is in hand |
| `DoneIsAnswered` | `DoneMeansAnswered` | a worker about to complete has its answer stored, or a later one is (`SettledAnswered`) |
| `ContentSafe` | `ContentGuarded` | what was listed was exposed (`ListedExposed`), and reloading refuses another hash |
| `RecordFollows` | `RecordInherited` | |
| `AnswersHold` | `AnswersStand` (action property) | the type invariant |
| **`PromptAttachmentProofs`** | | |
| `AttachmentTypeCorrect` | `TypeOK` | a request past its entry has a row and a mode that fits its place (`Loaded`) |
| `MovesAllowed` | `OnlyAllowedMoves` (action property) | the type invariant, whatever overlaps |
| **`StickyCommentProofs`** | | |
| `OneStickyComment`, `PromptsQuotedByConsent` | `OneComment`, `QuotedByConsent` | `StickyInv`, while no unlocked command overlapped and no performed call went unrecorded: one request works at a time (`Alone`), a comment is recorded or its creator is about to record it (`Recorded`), what is quoted was agreed to (`Agreed`), and the worker knows the recorded comment (`Keeps`) |
| `ListingStaysCurrent` | `ListingCurrent` | `CurrentInv`: for each place of each path, what the comment quotes, what is bound and what is still to be looked at again (`Progress`), and what a row shows on which nobody works (`AtRest`) |
| **`SharingProofs`** | | |
| `SharingTypeCorrect` | `TypeOK` | `PeopleInv`, `LedgerInv` |
| `CreatorRemains` | `CreatorStays` | nobody owns a collective whose creator is still to be recorded, so nobody can delete it or remove people before (`Unowned`), and the creator's membership is the one creation wrote (`CreatorKept`) |
| `AnswersAreInvitees` | `AnswerIsInvitees` | a declined invitation names who declined (`AnswerKept`) |
| `RetractionLasts` | `RetractionHolds` | one who departed with retraction is no member until they return (`DepartedOut`), so the membership that every share and batch reads again under its locks refuses them; a deleted transcript has no ledger (`DeletedBlank`) |
| `EntryUnderPolicy`, `WideningConsented` | `SubmissionUnderPolicy`, `ConsentToWiden` (action properties) | a batch holds only transcripts of its owner (`BatchHeld`) |
| `ImplementsContribution` | `ContributionSpec` | the refinement: initial states map to initial states and every step to a move of each standing or none, from `LedgerInv`: every ledger is one the statements can produce and every row is what the trigger derives from it |
| **`ReadPoliciesProofs`** | | |
| `ReadersAreEntitled` | `AudienceEntitled` | no steps of its own: every query is compared with the others in any state of `SharingInv` |
| `ReadsTellOneStory` | `ReadsAgree` | likewise; statements over the derived row and statements over the ledger are joined by `LedgerInv` |
| **`ServicesProofs`** | | |
| `MailIsConsented` | `EmailHolds`, `EmailTypeOK` | `QuotaInv`: the counts, each taken by one conditional statement. `EmailInv`: a code in the row is the one mailed to the row's mailbox (`CodesNamed`); a letter on its way was addressed from a confirmed row (`LettersConsented`) |
| `AccessIsBounded` | `AccessBounded`, `AccessTypeOK` | `TablesInv`: both tables are finite and within their limits, so that a pruned one has room (`OneMore`). `AccessInv`: what a bucket holds and what was taken from it are paid by the burst and the clock, once more for each dropped bucket (`BucketsPay`); a refusal remembered rests on one GitHub gave (`RefusalsFounded`) |
| `RepositoriesHold` | `ReposHold`, `ReposTypeOK` | `BindingInv`: a creation still to insert carries an account its creator controlled when asked (`CreationsVouched`); one that has inserted has made its collective, which has no owner and so cannot be deleted or taken over before its creator is recorded (`Founded`); and an owned collective exists (`OwnedExist`), so that no handshake or update binds a deleted one. `CacheInv`: the entity tag stored or carried is of commits that are cached, or of none (`TagsCached`, `RefreshesCarry`) |
| `DeliveriesStaySettled` | `DeliveriesSettle` | `WebhookInv`: an attempt about to complete has an outcome that is no failure behind it (`CompletesSuccess`), an attempt answers only at its end (`SilentUntilDone`), and none begins to dispatch what is handled |
| `CredentialsKept` | `CredentialsHold` | `AccountsInv`: a session still carrying a code has the account the code was sent for (`CodesSent`); a used session has one exchange or one key, never both (`ExchangesUsed`, `KeysUsed`); the organizations on record come from a sync their account issued, and an id not given yet has none (`SyncsIssued`), which needs that ids are never reused |
| `WebhookTyped`, `AccountsTyped` | `WebhookTypeOK`, `AccountsTypeOK` | `WebhookInv`, `AccountsInv` |
| **`MaintenanceProofs`** | | |
| `MaintenanceKept` | `MaintenanceHolds` | `SchemaInv`: one server is inside a version's transaction (`LockExclusive`), and has every version before its own behind it (`VersionsBehind`). `BackfillInv`: a body never comes back under its key nor a session under its stamp (`Snapshot`), so each compare-and-set finds the body that its decision is about |
| `MaintenanceTyped` | `MigrationsTypeOK`, `BackfillsTypeOK` | a decision in hand is one that its kind of job makes of the row it listed (`DecidedFor`) |

What proving changed. Each of these had passed TLC on the instances:

* the bound on the questions asked of GitHub did not count what a dropped bucket had earned: a
  request whose clock is stale remakes the bucket at the old time, and the same interval earns
  again. It is now `(Burst + (clock - 1)) * (1 + dropped)`;
* the record of a collective's creator stood among the steps that leave `departed` alone, which
  excluded a creator who had left before; it is now a membership step like the other returns;
* the type of an account said that its handle is never a reserved one, which no run could refute with an
  empty `Reserved`: past the last candidate the handle generator returns one that it did not look up
  (`generateUniqueUsername`), so the type now says only that it is a handle;
* that no object is left behind was stated where no fault can cause it. Accounting for each fault
  led to `OnlyNamedLapses`, which needs no such restriction.

*Model-checked only.* All liveness (`EveryRequestAnswered`, `EventuallyFinished`, `EveryoneServed`:
fairness and `ENABLED` are out of the prover's reach); the rest of `LocksHold` (`LockTypeOK`,
`KeysExclusive`), because what a request does is a program built by sorting its keys, and that a
sorted sequence of a set exists needs an induction over the set; and the five runs that show a
violation.

*Proved only.* The type invariants of the services (`EmailTypeOK`, `AccessTypeOK`, `ReposTypeOK`,
`WebhookTypeOK`, `AccountsTypeOK`, `MigrationsTypeOK`, `BackfillsTypeOK`), for every value of the
constants.

## Plan

1. Done: every module, its runs, the two abstract specifications, and the theorems above.
2. Left: the walk of the key rotation over several rows.

## Not modelled

The front end; the mapping and preservation of session documents, the scoring of matches and the rendering of
digests (functions of one request, field by field); OAuth and cryptography themselves (their
answers are inputs of `Accounts`); mail transport; order, pagination and search filters of
listings; annotations and attestations (single statements keyed by their content); the keyset
walks of the backfills (rows are independent); configuration, routing and seeding. Generated query
code is modelled where its SQL is used.
