-------------------------- MODULE MaintenanceProofs --------------------------
(***************************************************************************)
(* For any number of servers, versions, restarts, maintenance runs and     *)
(* sessions: every migration is applied once and in order, and what a      *)
(* backfill installs is about the body that the row holds.                 *)
(***************************************************************************)
EXTENDS Maintenance, TLAPS

-----------------------------------------------------------------------------
(* The migration runner. *)

RunnerState == [pc : {"begin", "lock", "check", "body", "commit", "serving", "stopped"},
                v : 1..(Versions + 1), found : BOOLEAN]

RunnersShape ==
    /\ registry \subseteq 1..Versions
    /\ applied \in [1..Versions -> Nat]
    /\ order \in 0..Versions
    /\ runner \in [Servers -> RunnerState]
    /\ migrationLock \subseteq Servers

(* A server inside its transaction is the only one that holds the lock. *)
InTransaction(s) == runner[s].pc \in {"check", "body", "commit"}

LockExclusive ==
    /\ \A s \in Servers : InTransaction(s) => migrationLock = {s}
    /\ \A s \in migrationLock : InTransaction(s)

(* A server on its way has every version before its own behind it, and what it
   found of its own is still so. *)
VersionsBehind ==
    \A s \in Servers :
        /\ runner[s].pc # "stopped" => runner[s].v <= order + 1
        /\ runner[s].pc \in {"lock", "check", "body", "commit"} => runner[s].v <= Versions
        /\ runner[s].pc = "body" => runner[s].v \notin registry /\ ~ runner[s].found
        /\ runner[s].pc = "commit" => (runner[s].found <=> runner[s].v \in registry)
        /\ runner[s].pc = "serving" => runner[s].v > Versions

AppliedOnce ==
    /\ \A v \in 1..Versions : applied[v] = (IF v \in registry THEN 1 ELSE 0)
    /\ registry = 1..order

SchemaInv == RunnersShape /\ LockExclusive /\ VersionsBehind /\ AppliedOnce

(* At the start nothing is applied and every server is at the first version. *)
LEMMA SchemaStart == ASSUME MigrationsInit PROVE SchemaInv
<1> USE MigrationsAssumption
<1>1. runner \in [Servers -> RunnerState] BY DEF MigrationsInit, RunnerState
<1>2. RunnersShape BY <1>1 DEF MigrationsInit, RunnersShape
<1>3. LockExclusive BY DEF MigrationsInit, LockExclusive, InTransaction
<1>4. VersionsBehind
  <2>1. \A s \in Servers : runner[s].pc = "begin" /\ runner[s].v = 1 BY DEF MigrationsInit
  <2>2. 1 <= order + 1 BY DEF MigrationsInit
  <2> QED BY <2>1, <2>2 DEF VersionsBehind
<1>5. AppliedOnce BY DEF MigrationsInit, AppliedOnce
<1> QED BY <1>2, <1>3, <1>4, <1>5 DEF SchemaInv

(* A server moves on, and the tables stay. *)
LEMMA RunnerMoves ==
    ASSUME SchemaInv, NEW s \in Servers, NEW to \in RunnerState,
           runner' = [runner EXCEPT ![s] = to],
           UNCHANGED <<registry, applied, order>>,
           \/ /\ migrationLock' = migrationLock
              /\ InTransaction(s) <=> to.pc \in {"check", "body", "commit"}
           \/ migrationLock = {} /\ migrationLock' = {s} /\ to.pc \in {"check", "body", "commit"}
           \/ migrationLock' = migrationLock \ {s} /\ to.pc \notin {"check", "body", "commit"},
           to.pc # "stopped" => to.v <= order + 1,
           to.pc \in {"lock", "check", "body", "commit"} => to.v <= Versions,
           to.pc = "body" => to.v \notin registry /\ ~ to.found,
           to.pc = "commit" => (to.found <=> to.v \in registry),
           to.pc = "serving" => to.v > Versions
    PROVE  SchemaInv'
<1>1. runner'[s] = to /\ \A t \in Servers : t # s => runner'[t] = runner[t]
  BY DEF SchemaInv, RunnersShape
<1>2. RunnersShape' BY DEF SchemaInv, RunnersShape
<1>3. LockExclusive' BY <1>1 DEF SchemaInv, RunnersShape, LockExclusive, InTransaction
<1>4. VersionsBehind' BY <1>1 DEF SchemaInv, VersionsBehind
<1>5. AppliedOnce' BY DEF SchemaInv, AppliedOnce
<1> QED BY <1>2, <1>3, <1>4, <1>5 DEF SchemaInv

(* The steps before the commit, failures and restarts. *)
LEMMA RunnerKeeps ==
    ASSUME SchemaInv, NEW s \in Servers,
           \/ RunMigrations(s) \/ TakeLock(s) \/ CheckVersion(s) \/ RunBody(s)
           \/ MigrationFails(s) \/ Restart(s)
    PROVE  SchemaInv'
<1> USE MigrationsAssumption
<1>0. /\ runner[s] \in RunnerState /\ runner[s].v \in Nat /\ order \in Nat /\ Versions \in Nat
      /\ order <= Versions
      /\ runner[s].pc # "stopped" => runner[s].v <= order + 1
      /\ runner[s].pc \in {"lock", "check", "body", "commit"} => runner[s].v <= Versions
  BY DEF SchemaInv, RunnersShape, RunnerState, VersionsBehind
<1>1. ASSUME RunMigrations(s) PROVE SchemaInv'
  <2> DEFINE pc == IF runner[s].v > Versions THEN "serving" ELSE "lock"
             to == [runner[s] EXCEPT !.pc = pc]
  <2>1. /\ runner[s].pc = "begin" /\ runner' = [runner EXCEPT ![s] = to]
        /\ UNCHANGED <<registry, applied, order, migrationLock>>
    BY <1>1 DEF RunMigrations, Running, SchemaInv, RunnersShape
  <2>2. pc \in {"serving", "lock"} /\ (pc = "serving" => runner[s].v > Versions)
        /\ (pc = "lock" => runner[s].v <= Versions)
    BY <1>0
  <2> HIDE DEF pc
  <2>3. to \in RunnerState /\ to.pc = pc /\ to.v = runner[s].v BY <1>0, <2>2 DEF RunnerState
  <2> HIDE DEF to
  <2> QED BY <1>0, <2>1, <2>2, <2>3, RunnerMoves DEF InTransaction
<1>2. ASSUME TakeLock(s) PROVE SchemaInv'
  <2> DEFINE to == [runner[s] EXCEPT !.pc = "check"]
  <2>1. /\ runner[s].pc = "lock" /\ runner' = [runner EXCEPT ![s] = to] /\ migrationLock \subseteq {s}
        /\ migrationLock' = migrationLock \union {s} /\ UNCHANGED <<registry, applied, order>>
    BY <1>2 DEF TakeLock, Running, MayLock, SchemaInv, RunnersShape
  <2>2. migrationLock = {} BY <2>1 DEF SchemaInv, LockExclusive, InTransaction
  <2>3. to \in RunnerState /\ to.pc = "check" /\ to.v = runner[s].v BY <1>0 DEF RunnerState
  <2> HIDE DEF to
  <2> QED BY <1>0, <2>1, <2>2, <2>3, RunnerMoves
<1>3. ASSUME CheckVersion(s) PROVE SchemaInv'
  <2> DEFINE known == runner[s].v \in registry
             pc == IF known THEN "commit" ELSE "body"
             to == [runner[s] EXCEPT !.pc = pc, !.found = known]
  <2>1. /\ runner[s].pc = "check" /\ runner' = [runner EXCEPT ![s] = to]
        /\ UNCHANGED <<registry, applied, order, migrationLock>>
    BY <1>3 DEF CheckVersion, Running, SchemaInv, RunnersShape
  <2>2. known \in BOOLEAN /\ pc \in {"commit", "body"} /\ (pc = "commit" <=> known) OBVIOUS
  <2>3. known <=> runner[s].v \in registry OBVIOUS
  <2> HIDE DEF pc, known
  <2>4. to \in RunnerState /\ to.pc = pc /\ to.v = runner[s].v /\ to.found = known
    BY <1>0, <2>2 DEF RunnerState
  <2> HIDE DEF to
  <2>5. /\ to.pc = "body" => to.v \notin registry /\ ~ to.found
        /\ to.pc = "commit" => (to.found <=> to.v \in registry)
    BY <2>2, <2>3, <2>4
  <2> QED BY <1>0, <2>1, <2>2, <2>4, <2>5, RunnerMoves DEF InTransaction
<1>4. ASSUME RunBody(s) PROVE SchemaInv'
  <2> DEFINE to == [runner[s] EXCEPT !.pc = "commit"]
  <2>1. /\ runner[s].pc = "body" /\ runner' = [runner EXCEPT ![s] = to]
        /\ UNCHANGED <<registry, applied, order, migrationLock>>
    BY <1>4 DEF RunBody, Running, SchemaInv, RunnersShape
  <2>2. runner[s].v \notin registry /\ ~ runner[s].found BY <2>1 DEF SchemaInv, VersionsBehind
  <2>3. to \in RunnerState /\ to.pc = "commit" /\ to.v = runner[s].v /\ to.found = runner[s].found
    BY <1>0 DEF RunnerState
  <2> HIDE DEF to
  <2> QED BY <1>0, <2>1, <2>2, <2>3, RunnerMoves DEF InTransaction
<1>5. ASSUME MigrationFails(s) PROVE SchemaInv'
  <2> DEFINE to == [runner[s] EXCEPT !.pc = "stopped"]
  <2>1. /\ runner' = [runner EXCEPT ![s] = to] /\ migrationLock' = migrationLock \ {s}
        /\ UNCHANGED <<registry, applied, order>>
    BY <1>5 DEF MigrationFails, SchemaInv, RunnersShape
  <2>2. to \in RunnerState /\ to.pc = "stopped" BY <1>0 DEF RunnerState
  <2> HIDE DEF to
  <2> QED BY <2>1, <2>2, RunnerMoves
<1>6. ASSUME Restart(s) PROVE SchemaInv'
  <2> DEFINE to == [pc |-> "begin", v |-> 1, found |-> FALSE]
  <2>1. /\ runner' = [runner EXCEPT ![s] = to] /\ runner[s].pc \in {"stopped", "serving"}
        /\ UNCHANGED <<registry, applied, order, migrationLock>>
    BY <1>6 DEF Restart, Running
  <2>2. to \in RunnerState /\ to.pc = "begin" /\ to.v = 1 BY DEF RunnerState
  <2> HIDE DEF to
  <2>3. to.v <= order + 1 BY <1>0, <2>2
  <2> QED BY <2>1, <2>2, <2>3, RunnerMoves DEF InTransaction
<1> QED BY <1>1, <1>2, <1>3, <1>4, <1>5, <1>6

(* The commit, answered or not: the version becomes known at the moment its body
   takes effect, and it is the next one. *)
LEMMA CommitKeeps ==
    ASSUME SchemaInv, NEW s \in Servers, Committed(s) \/ CommitUnknown(s)
    PROVE  SchemaInv'
<1> USE MigrationsAssumption
<1> DEFINE v == runner[s].v
<1>0. /\ runner[s].pc = "commit" /\ runner[s] \in RunnerState /\ v \in 1..Versions /\ v <= order + 1
      /\ order \in 0..Versions /\ registry = 1..order
      /\ runner[s].found <=> v \in registry
  BY DEF Committed, CommitUnknown, Running, SchemaInv, RunnersShape, RunnerState, VersionsBehind, AppliedOnce
<1>1. migrationLock = {s} /\ \A t \in Servers : t # s => ~ InTransaction(t)
  BY <1>0 DEF SchemaInv, LockExclusive, InTransaction
<1>2. migrationLock' = migrationLock \ {s} BY DEF Committed, CommitUnknown
<1>3. PICK to \in RunnerState : /\ runner' = [runner EXCEPT ![s] = to]
                                /\ to.pc = "stopped" \/ (to.pc = "begin" /\ to.v = v + 1)
  <2>1. CASE Committed(s)
    <3> DEFINE to == [pc |-> "begin", v |-> v + 1, found |-> FALSE]
    <3>1. to \in RunnerState /\ to.pc = "begin" /\ to.v = v + 1 BY <1>0 DEF RunnerState
    <3>2. runner' = [runner EXCEPT ![s] = to] BY <2>1 DEF Committed
    <3> QED BY <3>1, <3>2
  <2>2. CASE CommitUnknown(s)
    <3> DEFINE to == [runner[s] EXCEPT !.pc = "stopped"]
    <3>1. to \in RunnerState /\ to.pc = "stopped" BY <1>0 DEF RunnerState
    <3>2. runner' = [runner EXCEPT ![s] = to] BY <2>2 DEF CommitUnknown, SchemaInv, RunnersShape
    <3> QED BY <3>1, <3>2
  <2> QED BY <2>1, <2>2
<1>4. runner'[s] = to /\ \A t \in Servers : t # s => runner'[t] = runner[t]
  BY <1>3 DEF SchemaInv, RunnersShape
<1>5. Commits(s) BY DEF Committed, CommitUnknown
<1>6. CASE v \in registry
  <2>1. UNCHANGED <<registry, applied, order>> BY <1>0, <1>5, <1>6 DEF Commits
  <2>2. to.pc # "stopped" => to.v <= order + 1 BY <1>0, <1>3, <1>6
  <2> QED BY <1>2, <1>3, <2>1, <2>2, RunnerMoves
<1>7. CASE v \notin registry
  <2>1. v = order + 1 BY <1>0, <1>7
  <2>2. /\ registry' = registry \union {v} /\ order' = v
        /\ applied' = [applied EXCEPT ![v] = applied[v] + 1]
    BY <1>0, <1>5, <1>7, <2>1 DEF Commits
  <2>3. registry' = 1..order' BY <1>0, <2>1, <2>2
  <2>4. RunnersShape' BY <1>0, <1>1, <1>2, <1>3, <2>2 DEF SchemaInv, RunnersShape
  <2>5. AppliedOnce' BY <1>0, <1>7, <2>2, <2>3 DEF SchemaInv, RunnersShape, AppliedOnce
  <2>6. LockExclusive' BY <1>1, <1>2, <1>3, <1>4 DEF LockExclusive, InTransaction
  <2>7. VersionsBehind'
    <3>1. SUFFICES ASSUME NEW t \in Servers
                   PROVE  /\ runner'[t].pc # "stopped" => runner'[t].v <= order' + 1
                          /\ runner'[t].pc \in {"lock", "check", "body", "commit"} => runner'[t].v <= Versions
                          /\ runner'[t].pc = "body" => runner'[t].v \notin registry' /\ ~ runner'[t].found
                          /\ runner'[t].pc = "commit" => (runner'[t].found <=> runner'[t].v \in registry')
                          /\ runner'[t].pc = "serving" => runner'[t].v > Versions
      BY DEF VersionsBehind
    <3>2. CASE t = s BY <1>0, <1>3, <1>4, <2>2, <3>2
    <3>3. CASE t # s
      <4>1. runner'[t] = runner[t] /\ runner[t].v \in Nat BY <1>4, <3>3 DEF SchemaInv, RunnersShape, RunnerState
      <4>2. runner[t].pc \notin {"check", "body", "commit"} BY <1>1, <3>3 DEF InTransaction
      <4> QED BY <1>0, <2>1, <2>2, <4>1, <4>2 DEF SchemaInv, VersionsBehind
    <3> QED BY <3>2, <3>3
  <2> QED BY <2>4, <2>5, <2>6, <2>7 DEF SchemaInv
<1> QED BY <1>6, <1>7

(* A step of a server, or of somebody else. *)
LEMMA SchemaStep ==
    ASSUME SchemaInv, MigrationsNext \/ UNCHANGED migrationVars
    PROVE  SchemaInv'
<1>1. CASE MigrationsNext BY <1>1, RunnerKeeps, CommitKeeps DEF MigrationsNext
<1>2. CASE UNCHANGED migrationVars
  BY <1>2 DEF migrationVars, SchemaInv, RunnersShape, LockExclusive, InTransaction, VersionsBehind, AppliedOnce
<1> QED BY <1>1, <1>2

(* A server that serves has passed the last version. *)
LEMMA SchemaInvComplete == ASSUME SchemaInv PROVE SchemaComplete
<1>1. ASSUME NEW s \in Servers, runner[s].pc = "serving" PROVE registry = 1..Versions
  <2>1. /\ runner[s].v > Versions /\ runner[s].v <= order + 1 /\ runner[s].v \in Nat
        /\ order \in 0..Versions /\ registry = 1..order
    BY <1>1 DEF SchemaInv, RunnersShape, RunnerState, VersionsBehind, AppliedOnce
  <2>2. order = Versions BY <2>1, MigrationsAssumption
  <2> QED BY <2>1, <2>2
<1> QED BY <1>1 DEF SchemaInv, AppliedOnce, SchemaComplete, Running


-----------------------------------------------------------------------------
(* The backfills. *)

(* What a row says of its body is about that body. *)
PromptOf(row, t) == \A s \in Sessions : Prompt[s] # NoTitle /\ Prompt[s] = t => row.session = s

RowCurrent(row) ==
    /\ row.hash \in {NoHash, Hash(row)}
    /\ row.origin \in {"unknown", Classified[row.session], ResolvePublishedOrigin(row.session)}
    /\ PromptOf(row, row.title) /\ PromptOf(row, row.generated)

RowShape ==
    /\ stored \in Stored /\ RowCurrent(stored)
    /\ writes \in 0..MaxWrites /\ stored.stamp <= writes /\ stored.gen <= writes
    /\ chosen \in {NoTitle, "named", "session"}
    /\ chosen = "named" => stored.title = "named"

(* A listed row is one the row was, and the numbers compared tell what changed: a
   body never comes back under its key, nor a session under its stamp. *)
Snapshot(saw, row, n) ==
    /\ saw \in Stored /\ RowCurrent(saw)
    /\ saw.stamp <= n /\ saw.gen <= n
    /\ saw.gen = row.gen => saw.session = row.session /\ saw.form = row.form
    /\ saw.stamp = row.stamp => saw.session = row.session

(* A decision is about the row that was listed. *)
TitlesFor(saw, t, g) ==
    /\ t \in Titles /\ g \in Titles /\ PromptOf(saw, t) /\ PromptOf(saw, g)
    /\ saw.title = "named" => t = "named"

DecidedFor(kind, saw, d) ==
    \/ kind = "identity" /\ d = [hash |-> Hash(saw)]
    \/ kind = "origin" /\ d = [origin |-> Classified[saw.session]]
    \/ kind = "title" /\ \E t, g \in Titles : d = [title |-> t, generated |-> g] /\ TitlesFor(saw, t, g)

Visiting(kind, at, row, n) ==
    \/ at = Idling
    \/ \E saw \in Stored : at = [at |-> "listed", saw |-> saw] /\ Snapshot(saw, row, n)
    \/ \E saw \in Stored : \E d : /\ at = [at |-> "decided", saw |-> saw, decided |-> d]
                                  /\ Snapshot(saw, row, n) /\ DecidedFor(kind, saw, d)

BackfillInv ==
    /\ RowShape
    /\ visit = [j \in Jobs |-> visit[j]]
    /\ \A j \in Jobs : Visiting(JobKind[j], visit[j], stored, writes)

(* A row of before the columns existed says nothing wrong, and nobody visits it. *)
LEMMA BackfillStart == ASSUME BackfillsInit PROVE BackfillInv
<1> USE BackfillAssumption, PromptAssumption
<1>1. PICK s \in Sessions, t \in {NoTitle, "session", "leaky"} :
        stored = [session |-> s, form |-> "legacy", gen |-> 0, wrap |-> 0, hash |-> NoHash,
                  origin |-> "unknown", title |-> t, generated |-> NoTitle, stamp |-> 0]
  BY DEF BackfillsInit
<1>2. /\ stored.session = s /\ stored.form = "legacy" /\ stored.gen = 0 /\ stored.hash = NoHash
      /\ stored.origin = "unknown" /\ stored.title = t /\ stored.generated = NoTitle /\ stored.stamp = 0
  BY <1>1
<1>3. stored \in Stored
  BY <1>1 DEF Stored, Forms, Titles
<1>4. RowCurrent(stored)
  BY <1>2 DEF RowCurrent, PromptOf
<1>5. RowShape BY <1>2, <1>3, <1>4 DEF BackfillsInit, RowShape
<1> QED BY <1>5 DEF BackfillsInit, BackfillInv, Visiting

(* The fields of a row after a transaction that stamps it. *)
LEMMA StampedRow ==
    ASSUME RowShape, NEW new \in Stored, Stamped(new)
    PROVE  /\ stored' \in Stored /\ stored'.stamp = writes' /\ writes' = writes + 1
           /\ writes' \in 0..MaxWrites
           /\ stored'.session = new.session /\ stored'.form = new.form /\ stored'.gen = new.gen
           /\ stored'.hash = new.hash /\ stored'.origin = new.origin
           /\ stored'.title = new.title /\ stored'.generated = new.generated
<1>1. writes + 1 \in 0..MaxWrites /\ writes' = writes + 1 /\ stored' = [new EXCEPT !.stamp = writes + 1]
  BY BackfillAssumption DEF RowShape, Stamped
<1> QED BY <1>1 DEF Stored

(* A write that installs a new body under a new key, or keeps the body, leaves
   every snapshot of the past one. *)
LEMMA RowWritten ==
    ASSUME BackfillInv, NEW new \in Stored, Stamped(new),
           \/ new.gen = writes + 1
           \/ new.gen = stored.gen /\ new.session = stored.session /\ new.form = stored.form,
           RowCurrent(new),
           chosen' \in {NoTitle, "named", "session"}, chosen' = "named" => new.title = "named",
           NEW idle, visit' \in {visit, idle},
           idle = [j \in Jobs |-> idle[j]], \A j \in Jobs : idle[j] \in {visit[j], Idling}
    PROVE  BackfillInv'
<1> USE BackfillAssumption
<1>1. /\ stored' \in Stored /\ stored'.stamp = writes' /\ writes' = writes + 1
      /\ writes' \in 0..MaxWrites
      /\ stored'.session = new.session /\ stored'.form = new.form /\ stored'.gen = new.gen
      /\ stored'.hash = new.hash /\ stored'.origin = new.origin
      /\ stored'.title = new.title /\ stored'.generated = new.generated
  BY StampedRow DEF BackfillInv
<1>2. writes \in Nat /\ stored.gen \in Nat /\ stored.gen <= writes
  BY DEF BackfillInv, RowShape, Stored
<1>3. RowCurrent(stored)' BY <1>1 DEF RowCurrent, PromptOf, Hash
<1>4. RowShape' BY <1>1, <1>2, <1>3 DEF RowShape
<1>5. ASSUME NEW saw \in Stored, Snapshot(saw, stored, writes) PROVE Snapshot(saw, stored', writes')
  <2>1. saw.stamp \in Nat /\ saw.gen \in Nat /\ saw.stamp <= writes /\ saw.gen <= writes
    BY <1>5 DEF Snapshot, Stored
  <2>2. saw.stamp <= writes' /\ saw.gen <= writes' /\ saw.stamp # stored'.stamp
    BY <1>1, <1>2, <2>1
  <2>3. saw.gen = stored'.gen => saw.session = stored'.session /\ saw.form = stored'.form
    BY <1>1, <1>2, <1>5, <2>1 DEF Snapshot
  <2> QED BY <1>5, <2>2, <2>3 DEF Snapshot
<1>6. ASSUME NEW j \in Jobs PROVE Visiting(JobKind[j], visit'[j], stored', writes')
  <2>1. visit'[j] = visit[j] \/ visit'[j] = Idling OBVIOUS
  <2>2. Visiting(JobKind[j], visit[j], stored, writes) BY DEF BackfillInv
  <2> QED BY <1>5, <2>1, <2>2 DEF Visiting
<1>7. visit' = [j \in Jobs |-> visit'[j]] BY DEF BackfillInv
<1> QED BY <1>4, <1>6, <1>7 DEF BackfillInv


(* The owner's publish: everything is taken from the new body. *)
LEMMA RepublishKeeps ==
    ASSUME BackfillInv, NEW s \in Sessions, NEW form \in Forms, NEW t,
           t = "session" \/ (t = Prompt[s] /\ t # NoTitle), Republish(s, form, t)
    PROVE  BackfillInv'
<1> USE BackfillAssumption, PromptAssumption
<1> DEFINE new == [session |-> s, form |-> form, gen |-> writes + 1, wrap |-> writes + 1,
                   hash |-> <<s, form>>, origin |-> ResolvePublishedOrigin(s),
                   title |-> t, generated |-> t, stamp |-> 0]
<1>1. Stamped(new) /\ chosen' = NoTitle /\ visit' = visit BY DEF Republish
<1>2. writes + 1 \in 0..MaxWrites /\ writes \in Nat BY <1>1 DEF Stamped, BackfillInv, RowShape
<1>3. ResolvePublishedOrigin(s) \in {"user", "agent", "unknown"} BY DEF ResolvePublishedOrigin
<1>4. t \in Titles BY DEF Titles
<1>5. new \in Stored BY <1>2, <1>3, <1>4 DEF Stored
<1>6. /\ new.session = s /\ new.form = form /\ new.gen = writes + 1 /\ new.hash = <<s, form>>
      /\ new.origin = ResolvePublishedOrigin(s) /\ new.title = t /\ new.generated = t
  OBVIOUS
<1> HIDE DEF new
<1>7. RowCurrent(new) BY <1>6 DEF RowCurrent, PromptOf, Hash
<1>8. NoTitle # "named" OBVIOUS
<1> QED BY <1>1, <1>5, <1>6, <1>7, <1>8, RowWritten DEF BackfillInv

(* An edit of the title, a rewrite of a legacy body and a rewrap of the key. *)
LEMMA OthersKeep ==
    ASSUME BackfillInv, NEW t \in {"named", "session"}, EditTitle(t) \/ RewriteLegacy \/ RewrapKey
    PROVE  BackfillInv'
<1> USE BackfillAssumption, PromptAssumption
<1>0. stored \in Stored /\ RowCurrent(stored) /\ writes \in Nat
      /\ chosen \in {NoTitle, "named", "session"} /\ (chosen = "named" => stored.title = "named")
  BY DEF BackfillInv, RowShape
<1>1. ASSUME EditTitle(t) PROVE BackfillInv'
  <2> DEFINE new == [stored EXCEPT !.title = t]
  <2>1. Stamped(new) /\ chosen' = t /\ visit' = visit BY <1>1 DEF EditTitle
  <2>2. /\ new \in Stored /\ new.gen = stored.gen /\ new.session = stored.session /\ new.form = stored.form
        /\ new.hash = stored.hash /\ new.origin = stored.origin /\ new.title = t
        /\ new.generated = stored.generated
    BY <1>0 DEF Stored, Titles
  <2> HIDE DEF new
  <2>3. RowCurrent(new) BY <1>0, <2>2 DEF RowCurrent, PromptOf, Hash
  <2> QED BY <2>1, <2>2, <2>3, RowWritten DEF BackfillInv
<1>2. ASSUME RewriteLegacy PROVE BackfillInv'
  <2> DEFINE new == [stored EXCEPT !.form = "canonical", !.gen = writes + 1, !.wrap = writes + 1,
                                   !.hash = <<stored.session, "canonical">>]
  <2>1. Stamped(new) /\ chosen' = chosen /\ visit' = visit BY <1>2 DEF RewriteLegacy
  <2>2. writes + 1 \in 0..MaxWrites BY <1>0, <2>1 DEF Stamped
  <2>3. /\ new \in Stored /\ new.gen = writes + 1 /\ new.session = stored.session /\ new.form = "canonical"
        /\ new.hash = <<stored.session, "canonical">> /\ new.origin = stored.origin
        /\ new.title = stored.title /\ new.generated = stored.generated
    BY <1>0, <2>2 DEF Stored, Forms
  <2> HIDE DEF new
  <2>4. RowCurrent(new) BY <1>0, <2>3 DEF RowCurrent, PromptOf, Hash
  <2> QED BY <1>0, <2>1, <2>3, <2>4, RowWritten DEF BackfillInv
<1>3. ASSUME RewrapKey PROVE BackfillInv'
  <2> DEFINE new == [stored EXCEPT !.wrap = writes + 1]
  <2>1. Stamped(new) /\ chosen' = chosen /\ visit' = visit BY <1>3 DEF RewrapKey
  <2>2. writes + 1 \in 0..MaxWrites BY <1>0, <2>1 DEF Stamped
  <2>3. /\ new \in Stored /\ new.gen = stored.gen /\ new.session = stored.session /\ new.form = stored.form
        /\ new.hash = stored.hash /\ new.origin = stored.origin
        /\ new.title = stored.title /\ new.generated = stored.generated
    BY <1>0, <2>2 DEF Stored
  <2> HIDE DEF new
  <2>4. RowCurrent(new) BY <1>0, <2>3 DEF RowCurrent, PromptOf, Hash
  <2> QED BY <1>0, <2>1, <2>3, <2>4, RowWritten DEF BackfillInv
<1> QED BY <1>1, <1>2, <1>3

(* A visit moves on while the row stays. *)
LEMMA VisitMoves ==
    ASSUME BackfillInv, NEW j \in Jobs, NEW to, visit' = [visit EXCEPT ![j] = to],
           UNCHANGED <<stored, writes, chosen>>,
           Visiting(JobKind[j], to, stored, writes)
    PROVE  BackfillInv'
<1>1. visit'[j] = to /\ \A k \in Jobs : k # j => visit'[k] = visit[k] BY DEF BackfillInv
<1>2. visit' = [k \in Jobs |-> visit'[k]] BY DEF BackfillInv
<1>3. \A k \in Jobs : Visiting(JobKind[k], visit'[k], stored, writes) BY <1>1 DEF BackfillInv
<1>4. RowShape' BY DEF BackfillInv, RowShape, RowCurrent, PromptOf, Hash
<1> QED BY <1>2, <1>3, <1>4 DEF BackfillInv

(* What was listed and decided, from the place of the visit. *)
LEMMA VisitAt ==
    ASSUME BackfillInv, NEW j \in Jobs
    PROVE  /\ visit[j].at = "listed" =>
                visit[j].saw \in Stored /\ Snapshot(visit[j].saw, stored, writes)
           /\ visit[j].at = "decided" =>
                /\ visit[j].saw \in Stored /\ Snapshot(visit[j].saw, stored, writes)
                /\ DecidedFor(JobKind[j], visit[j].saw, visit[j].decided)
<1>1. Visiting(JobKind[j], visit[j], stored, writes) BY DEF BackfillInv
<1>2. CASE visit[j] = Idling BY <1>2 DEF Idling
<1>3. ASSUME NEW saw \in Stored, visit[j] = [at |-> "listed", saw |-> saw], Snapshot(saw, stored, writes)
      PROVE  visit[j].at = "listed" /\ visit[j].saw = saw
  BY <1>3
<1>4. ASSUME NEW saw \in Stored, NEW d, visit[j] = [at |-> "decided", saw |-> saw, decided |-> d]
      PROVE  visit[j].at = "decided" /\ visit[j].saw = saw /\ visit[j].decided = d
  BY <1>4
<1> QED BY <1>1, <1>2, <1>3, <1>4 DEF Visiting

(* The title pipeline decides from the listed row alone, and keeps an owner's
   prose. *)
LEMMA TitleDecided ==
    ASSUME NEW row \in Stored, RowCurrent(row), NEW d \in decideTitle(row)
    PROVE  \E t, g \in Titles : d = [title |-> t, generated |-> g] /\ TitlesFor(row, t, g)
<1> USE PromptAssumption
<1> DEFINE title == Sanitize(row.title)
           generated == Sanitize(row.generated)
           usable == title # NoTitle /\ ~ titleNeedsRederivation(title)
           other == generated # NoTitle /\ ~ titleNeedsRederivation(generated)
<1>1. decideTitle(row) =
        CASE usable -> {[title |-> title, generated |-> generated]}
          [] ~ usable /\ other -> {[title |-> generated, generated |-> generated]}
          [] OTHER -> {[title |-> t, generated |-> t] : t \in derive(row)}
  BY DEF decideTitle
<1>2. /\ title \in Titles /\ generated \in Titles /\ PromptOf(row, title) /\ PromptOf(row, generated)
  BY DEF Sanitize, Titles, PromptOf, RowCurrent, Stored
<1>3. row.title = "named" => title = "named" /\ usable BY DEF Sanitize, titleNeedsRederivation
<1> HIDE DEF title, generated, usable, other
<1>4. CASE usable
  <2>1. d = [title |-> title, generated |-> generated]
    <3>1. decideTitle(row) = {[title |-> title, generated |-> generated]} BY <1>1, <1>4, Zenon
    <3> QED BY <3>1
  <2> QED BY <1>2, <1>3, <2>1 DEF TitlesFor
<1>5. CASE ~ usable /\ other
  <2>1. d = [title |-> generated, generated |-> generated]
    <3>1. decideTitle(row) = {[title |-> generated, generated |-> generated]} BY <1>1, <1>5, Zenon
    <3> QED BY <3>1
  <2> QED BY <1>2, <1>3, <1>5, <2>1 DEF TitlesFor
<1>6. CASE ~ usable /\ ~ other
  <2>1. decideTitle(row) = {[title |-> t, generated |-> t] : t \in derive(row)} BY <1>1, <1>6, Zenon
  <2>2. PICK t \in derive(row) : d = [title |-> t, generated |-> t] BY <2>1
  <2>3. t = Prompt[row.session] /\ row.session \in Sessions BY DEF derive, Stored
  <2>4. t \in Titles /\ PromptOf(row, t) BY <2>3 DEF Titles, PromptOf
  <2> QED BY <1>3, <1>6, <2>2, <2>4 DEF TitlesFor
<1> QED BY <1>4, <1>5, <1>6

(* Each backfill decides from the listed row alone. *)
LEMMA DecisionMade ==
    ASSUME NEW row \in Stored, RowCurrent(row), NEW kind \in {"identity", "origin", "title"},
           NEW d \in Decisions(kind, row)
    PROVE  DecidedFor(kind, row, d)
<1>1. CASE kind = "identity"
  <2>1. Decisions(kind, row) = {[hash |-> Hash(row)]} BY <1>1, Zenon DEF Decisions
  <2> QED BY <1>1, <2>1 DEF DecidedFor
<1>2. CASE kind = "origin"
  <2>1. Decisions(kind, row) = decideOrigin(row) BY <1>2, Zenon DEF Decisions
  <2> QED BY <1>2, <2>1 DEF DecidedFor, decideOrigin
<1>3. CASE kind = "title"
  <2>1. Decisions(kind, row) = decideTitle(row) BY <1>3, Zenon DEF Decisions
  <2> QED BY <1>3, <2>1, TitleDecided DEF DecidedFor
<1> QED BY <1>1, <1>2, <1>3

(* Listing, deciding and leaving a row. *)
LEMMA VisitKeeps ==
    ASSUME BackfillInv, NEW j \in Jobs, List(j) \/ Decide(j) \/ LeaveRow(j)
    PROVE  BackfillInv'
<1> USE BackfillAssumption
<1>0. stored \in Stored /\ RowCurrent(stored) /\ stored.stamp <= writes /\ stored.gen <= writes
  BY DEF BackfillInv, RowShape
<1>1. ASSUME List(j) PROVE BackfillInv'
  <2>1. Snapshot(stored, stored, writes) BY <1>0 DEF Snapshot
  <2>2. Visiting(JobKind[j], [at |-> "listed", saw |-> stored], stored, writes)
    BY <1>0, <2>1 DEF Visiting
  <2> QED BY <1>1, <2>2, VisitMoves DEF List
<1>2. ASSUME Decide(j) PROVE BackfillInv'
  <2>1. visit[j].at = "listed" /\ UNCHANGED <<stored, writes, chosen>> BY <1>2 DEF Decide
  <2>2. visit[j].saw \in Stored /\ Snapshot(visit[j].saw, stored, writes) BY <2>1, VisitAt
  <2>3. PICK d \in Decisions(JobKind[j], visit[j].saw) :
          visit' = [visit EXCEPT ![j] = [at |-> "decided", saw |-> visit[j].saw, decided |-> d]]
    BY <1>2 DEF Decide
  <2>4. DecidedFor(JobKind[j], visit[j].saw, d) BY <2>2, DecisionMade DEF Snapshot
  <2>5. Visiting(JobKind[j], [at |-> "decided", saw |-> visit[j].saw, decided |-> d], stored, writes)
    BY <2>2, <2>4 DEF Visiting
  <2> QED BY <2>1, <2>3, <2>5, VisitMoves
<1>3. ASSUME LeaveRow(j) PROVE BackfillInv'
  <2>1. Visiting(JobKind[j], Idling, stored, writes) BY DEF Visiting
  <2> QED BY <1>3, <2>1, VisitMoves DEF LeaveRow
<1> QED BY <1>1, <1>2, <1>3


(* What a decision leaves in the row it is installed in. *)
LEMMA DecidedRow ==
    ASSUME NEW row \in Stored, NEW d, NEW new, new = Decided(row, d)
    PROVE  /\ DOMAIN d \subseteq {"hash", "origin", "title", "generated"} =>
                /\ new.gen = row.gen /\ new.stamp = row.stamp /\ new.session = row.session
                /\ new.form = row.form /\ new.wrap = row.wrap
           /\ new = [session |-> new.session, form |-> new.form, gen |-> new.gen, wrap |-> new.wrap,
                     hash |-> new.hash, origin |-> new.origin, title |-> new.title,
                     generated |-> new.generated, stamp |-> new.stamp]
           /\ new.hash = (IF "hash" \in DOMAIN d THEN d.hash ELSE row.hash)
           /\ new.origin = (IF "origin" \in DOMAIN d THEN d.origin ELSE row.origin)
           /\ new.title = (IF "title" \in DOMAIN d THEN d.title ELSE row.title)
           /\ new.generated = (IF "generated" \in DOMAIN d THEN d.generated ELSE row.generated)
<1>1. DOMAIN row = {"session", "form", "gen", "wrap", "hash", "origin", "title", "generated", "stamp"}
  BY DEF Stored
<1>2. new = [f \in {"session", "form", "gen", "wrap", "hash", "origin", "title", "generated", "stamp"} |->
               IF f \in DOMAIN d THEN d[f] ELSE row[f]]
  BY <1>1 DEF Decided
<1> QED BY <1>2

(* The compare-and-set of each backfill finds the body it decided about: by its
   key for the identity, by the row's stamp for the origin and the titles. *)
LEMMA InstallKeeps ==
    ASSUME BackfillInv, NEW j \in Jobs, Install(j)
    PROVE  BackfillInv'
<1> USE BackfillAssumption, PromptAssumption
<1> DEFINE saw == visit[j].saw
           d == visit[j].decided
           new == Decided(stored, d)
           idle == [visit EXCEPT ![j] = Idling]
<1>0. /\ stored \in Stored /\ RowCurrent(stored) /\ stored.stamp <= writes /\ stored.gen <= writes
      /\ chosen \in {NoTitle, "named", "session"} /\ (chosen = "named" => stored.title = "named")
      /\ writes \in 0..MaxWrites
  BY DEF BackfillInv, RowShape
<1>1. /\ visit[j].at = "decided" /\ Matches(JobKind[j], saw) /\ visit' = idle /\ chosen' = chosen
      /\ JobKind[j] = "identity" => stored' = new /\ writes' = writes
      /\ JobKind[j] # "identity" => Stamped(new)
  BY DEF Install
<1>2. saw \in Stored /\ Snapshot(saw, stored, writes) /\ DecidedFor(JobKind[j], saw, d)
  BY <1>1, VisitAt
<1>3. idle = [k \in Jobs |-> idle[k]] /\ \A k \in Jobs : idle[k] \in {visit[k], Idling}
  BY DEF BackfillInv
<1> HIDE DEF saw, d, idle
<1>4. CASE JobKind[j] = "identity"
  <2>1. CompareAndSwapContentIdentity(saw) BY <1>1, <1>4, Zenon DEF Matches
  <2>2. d = [hash |-> Hash(saw)] BY <1>2, <1>4 DEF DecidedFor
  <2>3. saw.session = stored.session /\ saw.form = stored.form
    BY <1>2, <2>1 DEF CompareAndSwapContentIdentity, Snapshot
  <2>4. DOMAIN d = {"hash"} /\ d.hash = Hash(stored) BY <2>2, <2>3 DEF Hash
  <2>5. /\ new.gen = stored.gen /\ new.stamp = stored.stamp /\ new.session = stored.session
        /\ new.form = stored.form /\ new.wrap = stored.wrap /\ new.hash = Hash(stored)
        /\ new.origin = stored.origin /\ new.title = stored.title /\ new.generated = stored.generated
        /\ new = [session |-> new.session, form |-> new.form, gen |-> new.gen, wrap |-> new.wrap,
                  hash |-> new.hash, origin |-> new.origin, title |-> new.title,
                  generated |-> new.generated, stamp |-> new.stamp]
    BY <1>0, <2>4, DecidedRow
  <2> HIDE DEF new
  <2>6. new \in Stored BY <1>0, <2>5 DEF Stored, Hash
  <2>7. RowCurrent(new) BY <1>0, <2>5 DEF RowCurrent, PromptOf, Hash
  <2>8. stored' = new /\ writes' = writes BY <1>1, <1>4
  <2>9. RowShape' BY <1>0, <1>1, <2>5, <2>6, <2>7, <2>8 DEF RowShape, RowCurrent, PromptOf, Hash
  <2>10. ASSUME NEW s \in Stored, Snapshot(s, stored, writes) PROVE Snapshot(s, stored', writes')
    BY <2>5, <2>8, <2>10 DEF Snapshot
  <2>11. ASSUME NEW k \in Jobs PROVE Visiting(JobKind[k], visit'[k], stored', writes')
    <3>1. visit'[k] = visit[k] \/ visit'[k] = Idling BY <1>1, <1>3
    <3>2. Visiting(JobKind[k], visit[k], stored, writes) BY DEF BackfillInv
    <3> QED BY <2>10, <3>1, <3>2 DEF Visiting
  <2> QED BY <1>1, <1>3, <2>9, <2>11 DEF BackfillInv
<1>5. CASE JobKind[j] = "origin"
  <2>1. CompareAndSwapTranscriptSessionOrigin(saw) BY <1>1, <1>5, Zenon DEF Matches
  <2>2. d = [origin |-> Classified[saw.session]] BY <1>2, <1>5 DEF DecidedFor
  <2>3. saw.session = stored.session
    BY <1>2, <2>1 DEF CompareAndSwapTranscriptSessionOrigin, Snapshot
  <2>4. DOMAIN d = {"origin"} /\ d.origin = Classified[stored.session] BY <2>2, <2>3
  <2>5. /\ new.gen = stored.gen /\ new.stamp = stored.stamp /\ new.session = stored.session
        /\ new.form = stored.form /\ new.wrap = stored.wrap /\ new.hash = stored.hash
        /\ new.origin = Classified[stored.session]
        /\ new.title = stored.title /\ new.generated = stored.generated
        /\ new = [session |-> new.session, form |-> new.form, gen |-> new.gen, wrap |-> new.wrap,
                  hash |-> new.hash, origin |-> new.origin, title |-> new.title,
                  generated |-> new.generated, stamp |-> new.stamp]
    BY <1>0, <2>4, DecidedRow
  <2> HIDE DEF new
  <2>6. new \in Stored BY <1>0, <2>5 DEF Stored
  <2>7. RowCurrent(new) BY <1>0, <2>5 DEF RowCurrent, PromptOf, Hash
  <2> QED BY <1>0, <1>1, <1>3, <1>5, <2>5, <2>6, <2>7, RowWritten
<1>6. CASE JobKind[j] = "title"
  <2>1. CompareAndSwapTranscriptTitles(saw) BY <1>1, <1>6, Zenon DEF Matches
  <2>2. PICK t, g \in Titles : d = [title |-> t, generated |-> g] /\ TitlesFor(saw, t, g)
    BY <1>2, <1>6 DEF DecidedFor
  <2>3. saw.session = stored.session /\ saw.title = stored.title
    BY <1>2, <2>1 DEF CompareAndSwapTranscriptTitles, Snapshot
  <2>4. DOMAIN d = {"title", "generated"} /\ d.title = t /\ d.generated = g BY <2>2
  <2>5. /\ new.gen = stored.gen /\ new.stamp = stored.stamp /\ new.session = stored.session
        /\ new.form = stored.form /\ new.wrap = stored.wrap /\ new.hash = stored.hash
        /\ new.origin = stored.origin /\ new.title = t /\ new.generated = g
        /\ new = [session |-> new.session, form |-> new.form, gen |-> new.gen, wrap |-> new.wrap,
                  hash |-> new.hash, origin |-> new.origin, title |-> new.title,
                  generated |-> new.generated, stamp |-> new.stamp]
    BY <1>0, <2>4, DecidedRow
  <2> HIDE DEF new
  <2>6. new \in Stored BY <1>0, <2>5 DEF Stored
  <2>7. RowCurrent(new) BY <1>0, <2>2, <2>3, <2>5 DEF RowCurrent, PromptOf, Hash, TitlesFor
  <2>8. chosen = "named" => t = "named" BY <1>0, <2>2, <2>3 DEF TitlesFor
  <2> QED BY <1>0, <1>1, <1>3, <1>6, <2>5, <2>6, <2>7, <2>8, RowWritten
<1> QED BY <1>4, <1>5, <1>6

(* Every step of the owner, the readers and the backfills. *)
LEMMA BackfillStep ==
    ASSUME BackfillInv, BackfillsNext \/ UNCHANGED backfillVars
    PROVE  BackfillInv'
<1>1. CASE BackfillsNext
  <2>1. ASSUME NEW s \in Sessions, NEW form \in Forms, NEW t,
               t = "session" \/ (t = Prompt[s] /\ t # NoTitle), Republish(s, form, t)
        PROVE  BackfillInv'
    BY <2>1, RepublishKeeps
  <2>2. ASSUME NEW t \in {"named", "session"}, EditTitle(t) \/ RewriteLegacy \/ RewrapKey
        PROVE  BackfillInv'
    BY <2>2, OthersKeep
  <2>3. ASSUME NEW j \in Jobs, List(j) \/ Decide(j) \/ LeaveRow(j) \/ Install(j)
        PROVE  BackfillInv'
    BY <2>3, VisitKeeps, InstallKeeps
  <2> QED BY <1>1, <2>1, <2>2, <2>3 DEF BackfillsNext
<1>2. CASE UNCHANGED backfillVars
  BY <1>2 DEF backfillVars, BackfillInv, RowShape, RowCurrent, PromptOf, Hash
<1> QED BY <1>1, <1>2

(* The invariant says what the row owes its body and its owner. *)
LEMMA BackfillInvCurrent == ASSUME BackfillInv PROVE DerivedCurrent
<1> USE PromptAssumption
<1>1. RowCurrent(stored) /\ chosen \in {NoTitle, "named", "session"}
      /\ (chosen = "named" => stored.title = "named")
  BY DEF BackfillInv, RowShape
<1>2. chosen # NoTitle /\ ~ titleNeedsRederivation(chosen) => stored.title = chosen
  BY <1>1 DEF titleNeedsRederivation
<1> QED BY <1>1, <1>2 DEF DerivedCurrent, RowCurrent, PromptOf


-----------------------------------------------------------------------------
(* However many servers start and stop beside however many backfills, every
   migration is applied once and in order before a server serves, and the hash,
   the origin and the titles of a row describe the body that the row holds, with
   the owner's title kept (RunMigrations; the compare-and-set statements of the
   identity, origin and title backfills). *)
THEOREM MaintenanceKept == MaintenanceSpec => []MaintenanceHolds
<1>1. MaintenanceInit => SchemaInv /\ BackfillInv
  BY SchemaStart, BackfillStart DEF MaintenanceInit
<1>2. SchemaInv /\ BackfillInv /\ [MaintenanceNext]_maintenanceVars => SchemaInv' /\ BackfillInv'
  BY SchemaStep, BackfillStep DEF MaintenanceNext, maintenanceVars
<1>3. SchemaInv /\ BackfillInv => MaintenanceHolds
  BY SchemaInvComplete, BackfillInvCurrent DEF MaintenanceHolds
<1> QED BY <1>1, <1>2, <1>3, PTL DEF MaintenanceSpec

-----------------------------------------------------------------------------
(* Type correctness. *)

(* A visit is one of the kinds a visit can be: none, a row listed, a decision. *)
LEMMA VisitTyped ==
    ASSUME BackfillInv, NEW j \in Jobs
    PROVE  visit[j] \in Visits
<1> USE BackfillAssumption
<1>1. Visiting(JobKind[j], visit[j], stored, writes) BY DEF BackfillInv
<1>2. CASE visit[j] = Idling BY <1>2 DEF Visits, Idling
<1>3. ASSUME NEW saw \in Stored, visit[j] = [at |-> "listed", saw |-> saw] PROVE visit[j] \in Visits
  BY <1>3 DEF Visits
<1>4. ASSUME NEW saw \in Stored, NEW d, visit[j] = [at |-> "decided", saw |-> saw, decided |-> d],
             DecidedFor(JobKind[j], saw, d)
      PROVE  visit[j] \in Visits
  <2>1. saw.session \in Sessions /\ saw.form \in Forms BY DEF Stored
  <2>2. CASE d = [hash |-> Hash(saw)] BY <1>4, <2>1, <2>2 DEF Visits, Hash
  <2>3. CASE d = [origin |-> Classified[saw.session]] BY <1>4, <2>1, <2>3 DEF Visits
  <2>4. ASSUME NEW t \in Titles, NEW g \in Titles, d = [title |-> t, generated |-> g]
        PROVE  visit[j] \in Visits
    BY <1>4, <2>4 DEF Visits
  <2> QED BY <1>4, <2>2, <2>3, <2>4 DEF DecidedFor
<1> QED BY <1>1, <1>2, <1>3, <1>4 DEF Visiting

RestartsCapped == restarts \in 0..MaxRestarts

(* Servers are started again a bounded number of times. *)
LEMMA RestartsBounded ==
    ASSUME RestartsCapped, [MigrationsNext]_migrationVars
    PROVE  RestartsCapped'
<1> USE MigrationsAssumption DEF RestartsCapped
<1>1. CASE UNCHANGED migrationVars BY <1>1 DEF migrationVars
<1>2. CASE MigrationsNext
  <2>1. PICK s \in Servers :
          \/ RunMigrations(s) \/ TakeLock(s) \/ CheckVersion(s) \/ RunBody(s)
          \/ Committed(s) \/ MigrationFails(s) \/ CommitUnknown(s) \/ Restart(s)
    BY <1>2 DEF MigrationsNext
  <2>2. CASE Restart(s) BY <2>2 DEF Restart
  <2>3. CASE ~ Restart(s)
    <3>1. restarts' = restarts
      BY <2>1, <2>3 DEF RunMigrations, TakeLock, CheckVersion, RunBody, Committed, MigrationFails,
         CommitUnknown
    <3> QED BY <3>1
  <2> QED BY <2>2, <2>3
<1> QED BY <1>1, <1>2

(* Migrations and backfills are type correct: each variable of the runner and of
   the backfills holds a value of its kind, decisions and listed rows included. *)
THEOREM MaintenanceTyped == MaintenanceSpec => [](MigrationsTypeOK /\ BackfillsTypeOK)
<1>1. MaintenanceInit => SchemaInv /\ BackfillInv /\ RestartsCapped
  BY SchemaStart, BackfillStart, MigrationsAssumption DEF MaintenanceInit, MigrationsInit, RestartsCapped
<1>2. SchemaInv /\ BackfillInv /\ RestartsCapped /\ [MaintenanceNext]_maintenanceVars
        => SchemaInv' /\ BackfillInv' /\ RestartsCapped'
  BY SchemaStep, BackfillStep, RestartsBounded DEF MaintenanceNext, maintenanceVars
<1>3. SchemaInv /\ BackfillInv /\ RestartsCapped => MigrationsTypeOK /\ BackfillsTypeOK
  <2> SUFFICES ASSUME SchemaInv, BackfillInv, RestartsCapped
               PROVE  MigrationsTypeOK /\ BackfillsTypeOK
    OBVIOUS
  <2>1. MigrationsTypeOK BY DEF SchemaInv, RunnersShape, RunnerState, RestartsCapped, MigrationsTypeOK
  <2>2. \A j \in Jobs : visit[j] \in Visits BY VisitTyped
  <2>3. stored \in Stored /\ writes \in 0..MaxWrites /\ chosen \in Titles
    BY DEF BackfillInv, RowShape, Titles
  <2>4. visit \in [Jobs -> Visits] BY <2>2 DEF BackfillInv
  <2> QED BY <2>1, <2>3, <2>4 DEF BackfillsTypeOK
<1> QED BY <1>1, <1>2, <1>3, PTL DEF MaintenanceSpec
=============================================================================
