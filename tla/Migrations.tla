------------------------------ MODULE Migrations ------------------------------
(* RunMigrations (database/migrate.go): every server runs the list of migrations
   before it serves, each in a transaction of its own under one advisory lock.
   Servers start together, die, lose the answer of a COMMIT and start again. *)
EXTENDS Naturals

CONSTANTS
    Servers,
    Versions,       \* the registered migrations 1..Versions, gaps left out
    MaxRestarts

ASSUME MigrationsAssumption == {Versions, MaxRestarts} \subseteq Nat

VARIABLES
    registry,       \* schema_migrations
    applied,        \* history: how often the body of each version was committed
    order,          \* history: the largest version committed so far
    runner,         \* where each server is, in which version, and what it read
    migrationLock,  \* servers whose open transaction holds the advisory lock
    restarts

migrationVars == <<registry, applied, order, runner, migrationLock, restarts>>

MigrationsTypeOK ==
    /\ registry \subseteq 1..Versions
    /\ applied \in [1..Versions -> Nat]
    /\ order \in 0..Versions
    /\ runner \in [Servers -> [pc : {"begin", "lock", "check", "body", "commit", "serving", "stopped"},
                               v : 1..(Versions + 1), found : BOOLEAN]]
    /\ migrationLock \subseteq Servers
    /\ restarts \in 0..MaxRestarts

MigrationsInit ==
    /\ registry = {}
    /\ applied = [v \in 1..Versions |-> 0]
    /\ order = 0
    /\ runner = [s \in Servers |-> [pc |-> "begin", v |-> 1, found |-> FALSE]]
    /\ migrationLock = {}
    /\ restarts = 0

------------------------------------------------------------------------------
Running(s, label) == runner[s].pc = label

(* RunMigrations: the next version, or on to serving. *)
RunMigrations(s) ==
    /\ Running(s, "begin")
    /\ runner' = [runner EXCEPT ![s].pc = IF runner[s].v > Versions THEN "serving" ELSE "lock"]
    /\ UNCHANGED <<registry, applied, order, migrationLock, restarts>>

(* pg_advisory_xact_lock waits for every other transaction that holds it. *)
MayLock(s) == migrationLock \subseteq {s}

TakeLock(s) ==
    /\ Running(s, "lock")
    /\ MayLock(s)
    /\ migrationLock' = migrationLock \union {s}
    /\ runner' = [runner EXCEPT ![s].pc = "check"]
    /\ UNCHANGED <<registry, applied, order, restarts>>

(* The exact version is looked up inside the transaction. *)
CheckVersion(s) ==
    /\ Running(s, "check")
    /\ runner' = [runner EXCEPT ![s].pc = IF runner[s].v \in registry THEN "commit" ELSE "body",
                                ![s].found = runner[s].v \in registry]
    /\ UNCHANGED <<registry, applied, order, migrationLock, restarts>>

(* The body and the registry row are written in the transaction. *)
RunBody(s) ==
    /\ Running(s, "body")
    /\ runner' = [runner EXCEPT ![s].pc = "commit"]
    /\ UNCHANGED <<registry, applied, order, migrationLock, restarts>>

(* What COMMIT makes of the two. *)
Commits(s) ==
    LET v == runner[s].v
    IN  IF runner[s].found
        THEN UNCHANGED <<registry, applied, order>>
        ELSE /\ registry' = registry \union {v}
             /\ applied' = [applied EXCEPT ![v] = @ + 1]
             /\ order' = IF v > order THEN v ELSE order

Committed(s) ==
    /\ Running(s, "commit")
    /\ Commits(s)
    /\ migrationLock' = migrationLock \ {s}
    /\ runner' = [runner EXCEPT ![s] = [pc |-> "begin", v |-> @.v + 1, found |-> FALSE]]
    /\ UNCHANGED restarts

(* Any statement fails, or the process dies: the transaction rolls back and the
   server does not start. *)
MigrationFails(s) ==
    /\ ~Running(s, "serving") /\ ~Running(s, "stopped")
    /\ migrationLock' = migrationLock \ {s}
    /\ runner' = [runner EXCEPT ![s].pc = "stopped"]
    /\ UNCHANGED <<registry, applied, order, restarts>>

(* COMMIT is executed and its answer is lost. *)
CommitUnknown(s) ==
    /\ Running(s, "commit")
    /\ Commits(s)
    /\ migrationLock' = migrationLock \ {s}
    /\ runner' = [runner EXCEPT ![s].pc = "stopped"]
    /\ UNCHANGED restarts

(* The operator starts the server again, from the first version. *)
Restart(s) ==
    /\ Running(s, "stopped") \/ Running(s, "serving")
    /\ restarts < MaxRestarts
    /\ restarts' = restarts + 1
    /\ runner' = [runner EXCEPT ![s] = [pc |-> "begin", v |-> 1, found |-> FALSE]]
    /\ UNCHANGED <<registry, applied, order, migrationLock>>

MigrationsNext ==
    \E s \in Servers :
        \/ RunMigrations(s) \/ TakeLock(s) \/ CheckVersion(s) \/ RunBody(s)
        \/ Committed(s) \/ MigrationFails(s) \/ CommitUnknown(s) \/ Restart(s)

------------------------------------------------------------------------------
(* No body is ever committed twice, the registry names exactly the bodies that
   were, no version before an earlier one, and a server that serves has them
   all: with servers that start together, fail anywhere and run again. *)
SchemaComplete ==
    /\ \A v \in 1..Versions : applied[v] = (IF v \in registry THEN 1 ELSE 0)
    /\ registry = 1..order
    /\ \A s \in Servers : Running(s, "serving") => registry = 1..Versions
=============================================================================
