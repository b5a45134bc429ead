------------------------------- MODULE LockOrder -------------------------------
(* Advisory locks and the pool their sessions come from.  A publish, a share and
   a batch pin one connection and take their session keys on it
   (handler/associations.go); authority transactions take the actor's and the
   collectives' keys (collective_authority.go), on the pinned connection or on
   one of their own; attachment work pins a connection for its lock
   (attachment_lock.go) and takes others while it holds it.  Keys are numbers in
   the order of the strings they stand for.  PostgreSQL's deadlock detector is
   left out: nothing may need it. *)
EXTENDS Naturals, Sequences, FiniteSets, SequencesExt

CONSTANTS
    Workers,
    Workloads,      \* what the workers may be asked to do together
    PoolSizes       \* POOL_MAX_CONNS

NoAttachment == 0

Requests ==
    [kind : {"publish", "share", "collective", "confirm"},
     keys : Seq(Nat),                       \* session and association keys, as requested
     authority : Seq(Nat),                  \* actor and collective keys
     attachment : Nat]                      \* its key, or NoAttachment

ASSUME LockOrderAssumption ==
    /\ \A load \in Workloads : \A w \in Workers : load[w] \in Requests
    /\ PoolSizes \subseteq Nat \ {0}

VARIABLES
    load,       \* the request of each worker
    program,    \* what it does for it, step by step
    pool,       \* connections the pool may open
    at,         \* how far each worker is in its program, 0 before it starts
    stack,      \* its open scopes: a connection or none, and the keys taken in it
    orphaned    \* keys of evicted sessions that PostgreSQL has not reaped yet

lockVars == <<load, program, pool, at, stack, orphaned>>

------------------------------------------------------------------------------
(* Programs.  bounded: the context or the statement has a deadline. *)

Open(conn, bounded) == [do |-> "open", conn |-> conn, key |-> 0, bounded |-> bounded]
Lock(key, bounded) == [do |-> "lock", conn |-> FALSE, key |-> key, bounded |-> bounded]
Close == [do |-> "close", conn |-> FALSE, key |-> 0, bounded |-> FALSE]

Locks(keys, bounded) == [i \in DOMAIN keys |-> Lock(keys[i], bounded)]

(* Seeded fault: the keys are taken as the request lists them. *)
orderedKeys_AsGiven(keys) == keys

(* withPublishLockKeys: without repetitions, in order. *)
orderedKeys(keys) == SetToSortSeq(ToSet(keys), <)

withPublishLockKeys(keys, fn, bounded) ==
    <<Open(TRUE, bounded)>> \o Locks(orderedKeys(keys), bounded) \o fn \o <<Close>>

(* Half of its budget is every statement's timeout. *)
inCollectiveAuthorityTx(pinned, keys) ==
    <<Open(~pinned, TRUE)>> \o Locks(SetToSortSeq(ToSet(keys), <), TRUE) \o <<Close>>

withAttachmentLock(attachment, fn, bounded) ==
    <<Open(TRUE, bounded), Lock(attachment, bounded)>> \o fn \o <<Close>>

(* A statement on the pool, as h.queries runs it. *)
Query(bounded) == <<Open(TRUE, bounded), Close>>

(* What attaching does inside the lock: it reads the row again and binds a
   transcript under that transcript's publish lock. *)
bindOneTranscript(keys, bounded) == Query(bounded) \o withPublishLockKeys(keys, <<>>, bounded)

(* attachmentWorkContext: the hook after a publish, and the refresh after a
   collective changed, have thirty seconds. *)
Hook(r) ==
    IF r.attachment = NoAttachment THEN <<>>
    ELSE withAttachmentLock(r.attachment, bindOneTranscript(r.keys, TRUE), TRUE)

Program(r) ==
    CASE r.kind = "publish" -> withPublishLockKeys(r.keys, <<>>, FALSE) \o Hook(r)
      [] r.kind = "share" ->
           withPublishLockKeys(r.keys, inCollectiveAuthorityTx(TRUE, r.authority), FALSE) \o Hook(r)
      [] r.kind = "collective" -> inCollectiveAuthorityTx(FALSE, r.authority) \o Hook(r)
      [] r.kind = "confirm" ->
           withAttachmentLock(r.attachment, bindOneTranscript(r.keys, FALSE), FALSE)

------------------------------------------------------------------------------
(* Every variable holds a value of its kind. *)
LockTypeOK ==
    /\ load \in Workloads
    /\ pool \in PoolSizes
    /\ \A w \in Workers :
          /\ at[w] \in 0..(Len(program[w]) + 1)
          /\ \A i \in DOMAIN stack[w] : stack[w][i] \in [conn : BOOLEAN, keys : SUBSET Nat]
    /\ orphaned \subseteq Nat

LockInit ==
    /\ load \in Workloads
    /\ program = [w \in Workers |-> Program(load[w])]
    /\ pool \in PoolSizes
    /\ at = [w \in Workers |-> 0]
    /\ stack = [w \in Workers |-> <<>>]
    /\ orphaned = {}

Held(w) == UNION {stack[w][i].keys : i \in DOMAIN stack[w]}

Connections == UNION {{<<w, i>> : i \in {j \in DOMAIN stack[w] : stack[w][j].conn}} : w \in Workers}

Ended(w) == at[w] = Len(program[w]) + 1

Begun(w) == at[w] > 0

Op(w) == program[w][at[w]]

Doing(w, what) == Begun(w) /\ ~Ended(w) /\ Op(w).do = what

On(w) == at' = [at EXCEPT ![w] = @ + 1]

Arrive(w) ==
    /\ ~Begun(w)
    /\ On(w)
    /\ UNCHANGED <<load, program, pool, stack, orphaned>>

(* pool.Acquire, or a transaction on the pinned connection. *)
OpenScope(w) ==
    /\ Doing(w, "open")
    /\ Op(w).conn => Cardinality(Connections) < pool
    /\ stack' = [stack EXCEPT ![w] = Append(@, [conn |-> Op(w).conn, keys |-> {}])]
    /\ On(w)
    /\ UNCHANGED <<load, program, pool, orphaned>>

(* pg_advisory_lock waits for whoever holds the key. *)
TakeKey(w) ==
    /\ Doing(w, "lock")
    /\ Op(w).key \notin orphaned
    /\ \A o \in Workers \ {w} : Op(w).key \notin Held(o)
    /\ stack' = [stack EXCEPT ![w][Len(stack[w])].keys = @ \union {Op(w).key}]
    /\ On(w)
    /\ UNCHANGED <<load, program, pool, orphaned>>

(* The deferred release: the keys go, and the connection returns to the pool. *)
CloseScope(w) ==
    /\ Doing(w, "close")
    /\ stack' = [stack EXCEPT ![w] = Front(@)]
    /\ On(w)
    /\ UNCHANGED <<load, program, pool, orphaned>>

(* An unlock cannot be proved: the connection is evicted, and it could not even
   be closed. *)
Evict(w) ==
    /\ Doing(w, "close")
    /\ Last(stack[w]).conn /\ Last(stack[w]).keys # {}
    /\ orphaned = {}
    /\ orphaned' = Last(stack[w]).keys
    /\ stack' = [stack EXCEPT ![w] = Front(@)]
    /\ On(w)
    /\ UNCHANGED <<load, program, pool>>

(* PostgreSQL ends the session of a client that is gone. *)
Reap ==
    /\ orphaned # {}
    /\ orphaned' = {}
    /\ UNCHANGED <<load, program, pool, at, stack>>

(* The keys of the session that the innermost scope of a worker runs on. *)
SessionKeys(w) ==
    UNION {stack[w][i].keys : i \in {j \in DOMAIN stack[w] :
              \A k \in DOMAIN stack[w] : k > j => ~stack[w][k].conn}}

(* The wait is given up: every deferred release runs.  A statement whose context
   ended takes its connection with it, so that none of its keys can be unlocked,
   and the key it waited for may have been granted meanwhile. *)
GiveUp(w) ==
    /\ Doing(w, "open") \/ Doing(w, "lock")
    /\ at' = [at EXCEPT ![w] = Len(program[w]) + 1]
    /\ stack' = [stack EXCEPT ![w] = <<>>]
    /\ \/ UNCHANGED orphaned
       \/ /\ Doing(w, "lock") /\ orphaned = {}
          /\ \E granted \in SUBSET {k \in {Op(w).key} : \A o \in Workers : k \notin Held(o)} :
                orphaned' = SessionKeys(w) \union granted
    /\ UNCHANGED <<load, program, pool>>

(* The deadline passes; a client that goes away does the same to any wait. *)
TimesOut(w) == Begun(w) /\ ~Ended(w) /\ Op(w).bounded /\ GiveUp(w)

Proceeds(w) == OpenScope(w) \/ TakeKey(w) \/ CloseScope(w)

LockNext ==
    \/ \E w \in Workers : Arrive(w) \/ Proceeds(w) \/ Evict(w) \/ GiveUp(w)
    \/ Reap

(* A worker that can go on does, PostgreSQL reaps dead sessions, and deadlines
   pass.  No client is assumed to arrive or to go away. *)
LockFairness ==
    /\ \A w \in Workers : WF_lockVars(Proceeds(w)) /\ WF_lockVars(TimesOut(w))
    /\ WF_lockVars(Reap)

------------------------------------------------------------------------------
(* Author's confirmations, whose waits have no deadline and which pin one
   connection while they wait for another. *)
Confirms == {w \in Workers : load[w].kind = "confirm"}

(* Every publish, share, collective change and confirmation comes to an end in
   any mix, down to a pool of one connection (database/pool.go: "safely
   serializes publishes rather than deadlocking"), as long as confirmations
   alone cannot fill the pool. *)
EveryoneServed ==
    Cardinality(Confirms) < pool => \A w \in Workers : Begun(w) ~> Ended(w)

(* No key has two holders, an evicted session that PostgreSQL has not reaped yet
   included, and the pool never opens more connections than it may, with scopes
   nested on one connection or on several (withPublishLockKeys,
   inCollectiveAuthorityTx, withAttachmentLock). *)
KeysExclusive ==
    /\ \A w, o \in Workers : w # o => Held(w) \intersect Held(o) = {}
    /\ \A w \in Workers : Held(w) \intersect orphaned = {}
    /\ Cardinality(Connections) <= pool

(* The three, as the run checks them: nobody shares a key, and nobody waits for
   ever. *)
LocksHold == [](LockTypeOK /\ KeysExclusive) /\ EveryoneServed
=============================================================================
