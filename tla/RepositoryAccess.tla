--------------------------- MODULE RepositoryAccess ---------------------------
(* The page of a private repository's pull request asks GitHub whether an
   outsider may read the repository (handler/pull_request_repository_access.go).
   A cache remembers refusals for a while (repository_access_cache.go), a token
   bucket per viewer bounds the questions (repository_access_limiter.go).  Both
   tables are bounded, and both are told a time read before other requests ran.
   The clock counts the refill of one token as one tick. *)
EXTENDS Integers, FiniteSets

CONSTANTS
    Viewers,                        \* signed in, neither author nor member
    Reads,                          \* page reads
    MaxTime,
    repositoryAccessTTL,
    repositoryAccessBurst,
    repositoryAccessIdle,
    repositoryAccessMaxEntries,
    repositoryAccessMaxViewers,
    NoViewer

ASSUME AccessAssumption ==
    /\ {MaxTime, repositoryAccessTTL, repositoryAccessIdle} \subseteq Nat
    /\ {repositoryAccessBurst, repositoryAccessMaxEntries, repositoryAccessMaxViewers}
         \subseteq Nat \ {0}
    /\ NoViewer \notin Viewers

VARIABLES
    clock,
    grants,     \* viewers GitHub lets read the repository
    refusal,    \* the cache: when a remembered refusal expires, 0 for no entry
    bucket,     \* the limiter: tokens and refill time, refill -1 for no bucket
    read,       \* page reads under way and their answers
    asked,      \* history: questions put to GitHub for a viewer
    dropped,    \* history: times a viewer's bucket was dropped
    lastNo      \* history: when the latest question that GitHub refused was begun

accessVars == <<clock, grants, refusal, bucket, read, asked, dropped, lastNo>>

ReadState == [pc : {"idle", "budget", "lookup", "allow", "ask", "store", "done"},
              v : Viewers \union {NoViewer}, now : Nat, held : BOOLEAN,
              said : {"none", "page", "absent", "throttled"}, cached : BOOLEAN]

AccessShape ==
    /\ clock \in Nat \ {0}
    /\ refusal \in [Viewers -> Nat]
    /\ bucket \in [Viewers -> [tokens : Nat, refill : Nat \union {-1}]]
    /\ read \in [Reads -> ReadState]
    /\ asked \in [Viewers -> Nat] /\ dropped \in [Viewers -> Nat] /\ lastNo \in [Viewers -> Nat]

(* Every variable holds a value of its kind. *)
AccessTypeOK == AccessShape /\ grants \subseteq Viewers

NoBucket == [tokens |-> 0, refill |-> -1]

AccessInit ==
    /\ clock = 1
    /\ grants \in SUBSET Viewers
    /\ refusal = [v \in Viewers |-> 0]
    /\ bucket = [v \in Viewers |-> NoBucket]
    /\ read = [r \in Reads |-> [pc |-> "idle", v |-> NoViewer, now |-> 0, held |-> FALSE,
                                said |-> "none", cached |-> FALSE]]
    /\ asked = [v \in Viewers |-> 0]
    /\ dropped = [v \in Viewers |-> 0]
    /\ lastNo = [v \in Viewers |-> 0]

------------------------------------------------------------------------------
(* The limiter. *)

Capped(n) == IF n > repositoryAccessBurst THEN repositoryAccessBurst ELSE n

(* What is in the bucket for a caller whose clock says now; a caller that read
   its clock before another refilled the bucket adds nothing. *)
TokensAt(b, now) == IF now > b.refill THEN Capped(b.tokens + (now - b.refill)) ELSE b.tokens

RefillAt(b, now) == IF now > b.refill THEN now ELSE b.refill

Seen(v) == bucket[v].refill >= 0

overBudget(v, now) == Seen(v) /\ TokensAt(bucket[v], now) < 1

Table == {v \in Viewers : Seen(v)}

(* pruneLocked: the idle buckets, and all of them when none is idle. *)
pruneLocked(now) ==
    LET idle == {v \in Table : now - bucket[v].refill > repositoryAccessIdle}
    IN  IF Cardinality(Table \ idle) >= repositoryAccessMaxViewers THEN Table ELSE idle

Evicted(v, now) ==
    IF ~Seen(v) /\ Cardinality(Table) >= repositoryAccessMaxViewers THEN pruneLocked(now) ELSE {}

(* Seeded fault: a denied question drops the bucket, so that the next one
   starts a fresh burst. *)
Spent_Forgets(v, now) ==
    LET t == TokensAt(bucket[v], now)
    IN  CASE ~Seen(v) -> [tokens |-> repositoryAccessBurst - 1, refill |-> now]
          [] Seen(v) /\ t < 1 -> NoBucket
          [] OTHER -> [tokens |-> t - 1, refill |-> RefillAt(bucket[v], now)]

(* The bucket after allow. *)
Spent(v, now) ==
    LET t == TokensAt(bucket[v], now)
    IN  CASE ~Seen(v) -> [tokens |-> repositoryAccessBurst - 1, refill |-> now]
          [] Seen(v) /\ t < 1 -> [tokens |-> t, refill |-> RefillAt(bucket[v], now)]
          [] OTHER -> [tokens |-> t - 1, refill |-> RefillAt(bucket[v], now)]

Allowed(v, now) == Seen(v) => TokensAt(bucket[v], now) >= 1

------------------------------------------------------------------------------
(* The cache. *)

lookup(v, now) == now < refusal[v]

Entries == {v \in Viewers : refusal[v] # 0}

(* store: a full table loses its expired entries, and all of them when none has
   expired. *)
store(v, now) ==
    LET live == {w \in Entries : now < refusal[w]}
        kept == CASE Cardinality(Entries) < repositoryAccessMaxEntries -> Entries
                  [] Cardinality(live) < repositoryAccessMaxEntries -> live
                  [] OTHER -> {}
    IN  [w \in Viewers |-> CASE w = v -> now + repositoryAccessTTL
                             [] w # v /\ w \in kept -> refusal[w]
                             [] OTHER -> 0]

------------------------------------------------------------------------------
(* GetPullRequestAttachment for an outsider, and repositoryAdmitsViewer. *)

Reading(r, label) == read[r].pc = label

Goes(r, label) == read' = [read EXCEPT ![r].pc = label]

Says(r, what) == read' = [read EXCEPT ![r].pc = "done", ![r].said = what]

(* The attachment is read; a preview is not the repository's to show. *)
GetPullRequestAttachment(r, v) ==
    /\ Reading(r, "idle")
    /\ read' = [read EXCEPT ![r] = [@ EXCEPT !.pc = "budget", !.v = v, !.held = v \in grants]]
    /\ UNCHANGED <<clock, grants, refusal, bucket, asked, dropped, lastNo>>

Budget(r) ==
    /\ Reading(r, "budget")
    /\ IF overBudget(read[r].v, clock)
       THEN Says(r, "throttled")
       ELSE \/ Says(r, "absent")
            \/ read' = [read EXCEPT ![r].pc = "lookup", ![r].now = clock]
    /\ UNCHANGED <<clock, grants, refusal, bucket, asked, dropped, lastNo>>

Lookup(r) ==
    /\ Reading(r, "lookup")
    /\ IF lookup(read[r].v, read[r].now)
       THEN read' = [read EXCEPT ![r].pc = "done", ![r].said = "absent", ![r].cached = TRUE]
       ELSE Goes(r, "allow")
    /\ UNCHANGED <<clock, grants, refusal, bucket, asked, dropped, lastNo>>

Allow(r) ==
    LET v == read[r].v
        now == read[r].now
        gone == Evicted(v, now)
    IN  /\ Reading(r, "allow")
        /\ bucket' = [w \in Viewers |-> CASE w = v -> Spent(v, now)
                                          [] w # v /\ w \in gone -> NoBucket
                                          [] OTHER -> bucket[w]]
        /\ dropped' = [w \in Viewers |-> IF w \in gone THEN dropped[w] + 1 ELSE dropped[w]]
        /\ IF Allowed(v, now)
           THEN /\ Goes(r, "ask")
                /\ asked' = [asked EXCEPT ![v] = @ + 1]
           ELSE /\ Says(r, "throttled")
                /\ UNCHANGED asked
        /\ UNCHANGED <<clock, grants, refusal, lastNo>>

(* askGitHubAboutRepository: a failed call refuses like an answer.  Only a
   refusal goes on to be remembered. *)
AskGitHub(r) ==
    LET v == read[r].v
    IN  /\ Reading(r, "ask")
        /\ \E admits \in {FALSE, (v \in grants)} :
              /\ IF admits THEN Says(r, "page") ELSE Goes(r, "store")
              /\ lastNo' = IF admits \/ lastNo[v] > read[r].now
                           THEN lastNo ELSE [lastNo EXCEPT ![v] = read[r].now]
        /\ UNCHANGED <<clock, grants, refusal, bucket, asked, dropped>>

Store(r) ==
    /\ Reading(r, "store")
    /\ refusal' = store(read[r].v, read[r].now)
    /\ Says(r, "absent")
    /\ UNCHANGED <<clock, grants, bucket, asked, dropped, lastNo>>

(* A repository admin lets a viewer in, or takes the access away. *)
GrantMoves(v) ==
    /\ grants' = IF v \in grants THEN grants \ {v} ELSE grants \union {v}
    /\ read' = [r \in Reads |-> IF read[r].v = v /\ v \notin grants /\ ~Reading(r, "done")
                                THEN [read[r] EXCEPT !.held = TRUE] ELSE read[r]]
    /\ UNCHANGED <<clock, refusal, bucket, asked, dropped, lastNo>>

Tick ==
    /\ clock < MaxTime
    /\ clock' = clock + 1
    /\ UNCHANGED <<grants, refusal, bucket, read, asked, dropped, lastNo>>

AccessNext ==
    \/ \E r \in Reads :
          \/ \E v \in Viewers : GetPullRequestAttachment(r, v)
          \/ Budget(r) \/ Lookup(r) \/ Allow(r) \/ AskGitHub(r) \/ Store(r)
    \/ \E v \in Viewers : GrantMoves(v)
    \/ Tick

AccessSpec == AccessInit /\ [][AccessNext]_accessVars

------------------------------------------------------------------------------
(* The questions asked for a viewer: a burst and one more per tick, and as much
   again for each time a full table lost the bucket.  A dropped bucket costs more
   than the burst: a caller that read its clock before the drop makes the bucket
   anew at that time, and the ticks since then are earned twice. *)
QuestionsBounded ==
    \A v \in Viewers :
        asked[v] <= (repositoryAccessBurst + (clock - 1)) * (1 + dropped[v])

(* The page is never shown on the strength of access held before the read. *)
AdmissionIsLive ==
    \A r \in Reads : read[r].said = "page" => read[r].held

(* A remembered refusal stands for a question begun less than the TTL before
   this read asked. *)
RefusalIsRecent ==
    \A r \in Reads :
        read[r].cached => read[r].now < lastNo[read[r].v] + repositoryAccessTTL

(* Neither table outgrows its limit: a full one is pruned before it takes an
   entry. *)
TablesBounded ==
    /\ Cardinality(Table) <= repositoryAccessMaxViewers
    /\ Cardinality(Entries) <= repositoryAccessMaxEntries

(* What an outsider may ask of GitHub, be told from memory and make the server
   remember is bounded, whatever the two full tables drop and in whichever order
   requests that read the clock earlier reach them. *)
AccessBounded == QuestionsBounded /\ AdmissionIsLive /\ RefusalIsRecent /\ TablesBounded
=============================================================================
