------------------------ MODULE IntegrityCheckProofs ------------------------
(***************************************************************************)
(* Proofs about IntegrityCheck for every set of servers, copies, contents, *)
(* versions and attempts, under every subset of the faults.                *)
(***************************************************************************)
EXTENDS IntegrityCheck, TLAPS

USE IntegrityAssumption

(* A key is made of a copy, a content hash and a version, and of nothing else. *)
LEMMA KeyParts ==
    ASSUME NEW k \in Keys
    PROVE  /\ CopyOf(k) \in Copies /\ HashOf(k) \in Hashes /\ VersionOf(k) \in Versions
           /\ k = <<CopyOf(k), HashOf(k), VersionOf(k)>>
  BY DEF Keys, CopyOf, HashOf, VersionOf

(* A key is made of a copy, a content hash and a service version, and taken apart
   again. *)
LEMMA KeyMade ==
    ASSUME NEW id \in Copies, NEW h \in Hashes, NEW v \in Versions
    PROVE  /\ <<id, h, v>> \in Keys
           /\ CopyOf(<<id, h, v>>) = id
           /\ HashOf(<<id, h, v>>) = h
           /\ VersionOf(<<id, h, v>>) = v
  BY DEF Keys, CopyOf, HashOf, VersionOf

(* The newer of two versions is one of them. *)
LEMMA Max2Version ==
    ASSUME NEW a \in Versions \union {0}, NEW v \in Versions
    PROVE  Max2(a, v) \in Versions
  BY DEF Max2, Versions

------------------------------------------------------------------------------
(* TypeOK needs to know what a worker has in hand at each place: a version once
   it listed, a key once it has a candidate, the content it sends, and the
   answer it records. *)
LocalsLoaded ==
    \A w \in Workers :
        /\ pc[w] # "idle" => held[w] \in Versions
        /\ pc[w] \in WorkingAt \union {"claim"} => job[w] \in Keys
        /\ pc[w] \in {"send", "record"} => got[w] = HashOf(job[w])
        /\ pc[w] = "record" => answer[w] \in Answer

TypeInv == TypeOK /\ LocalsLoaded

(* Leaving a row clears the worker's variables. *)
LEMMA FinishTypes ==
    ASSUME TypeInv, NEW w \in Workers, NEW stop \in BOOLEAN,
           held[w] \in Versions, held' = held, Finish(w, stop)
    PROVE  /\ pc' \in [Workers -> WorkingAt \union {"idle", "list", "claim"}]
           /\ job' \in [Workers -> Keys \union {None}]
           /\ took' \in [Workers -> 0 .. MaxAttempts]
           /\ got' \in [Workers -> Hashes \union {None}]
           /\ answer' \in [Workers -> Answer \union {None}]
           /\ LocalsLoaded'
<1> USE DEF TypeInv, TypeOK, Finish, Goto
<1>1. /\ pc' \in [Workers -> WorkingAt \union {"idle", "list", "claim"}]
      /\ job' \in [Workers -> Keys \union {None}]
      /\ took' \in [Workers -> 0 .. MaxAttempts]
      /\ got' \in [Workers -> Hashes \union {None}]
      /\ answer' \in [Workers -> Answer \union {None}]
  OBVIOUS
<1>2. pc'[w] \in {"list", "idle"}
  OBVIOUS
<1>3. \A u \in Workers \ {w} : /\ pc'[u] = pc[u] /\ job'[u] = job[u] /\ held'[u] = held[u]
                               /\ got'[u] = got[u] /\ answer'[u] = answer[u]
  OBVIOUS
<1>4. LocalsLoaded'
  BY <1>2, <1>3 DEF LocalsLoaded, WorkingAt
<1> QED BY <1>1, <1>4

(* What SetCopy remembers are copies and contents. *)
LEMMA SetCopyTypes ==
    ASSUME TypeInv, NEW c \in Copy \union {None}, SetCopy(c)
    PROVE  copy' \in Copy \union {None} /\ exposed' \subseteq Copies \X Hashes
  BY DEF TypeInv, TypeOK, SetCopy, Copy

(* What a claim stores is an attempt. *)
LEMMA TakenType ==
    ASSUME TypeInv, NEW k \in Keys, Claimable(k)
    PROVE  Taken(k) \in Attempt /\ Taken(k).n \in 1 .. MaxAttempts
  BY DEF TypeInv, TypeOK, Claimable, Taken, Attempt

(* Releasing an attempt takes back one count, and the row at the last one. *)
LEMMA ReleasedType ==
    ASSUME TypeInv, NEW k \in Keys
    PROVE  /\ Released(k) \in Attempt \union {None}
           /\ Released(k) # None => attempts[k] # None /\ Released(k).status = attempts[k].status
           /\ (attempts[k] # None /\ attempts[k].status = "pending")
                 => IF attempts[k].n > 1
                    THEN Released(k) # None /\ Released(k).n = attempts[k].n - 1
                    ELSE Released(k) = None
<1>1. CASE attempts[k] # None /\ attempts[k].status = "pending" /\ attempts[k].n > 1
  <2>1. attempts[k] \in Attempt
    BY <1>1 DEF TypeInv, TypeOK
  <2>2. attempts[k].n - 1 \in 1 .. MaxAttempts
    BY <1>1, <2>1 DEF Attempt
  <2>3. Released(k) = [attempts[k] EXCEPT !.n = @ - 1, !.due = TRUE]
    BY <1>1 DEF Released
  <2>4. Released(k) \in Attempt /\ Released(k).n = attempts[k].n - 1
        /\ Released(k).status = attempts[k].status
    BY <1>1, <2>1, <2>2, <2>3 DEF Attempt
  <2> QED BY <1>1, <2>4
<1>2. CASE attempts[k] # None /\ attempts[k].status = "pending" /\ ~(attempts[k].n > 1)
  BY <1>2 DEF Released
<1>3. CASE ~(attempts[k] # None /\ attempts[k].status = "pending")
  BY <1>3 DEF TypeInv, TypeOK, Released
<1> QED BY <1>1, <1>2, <1>3

(* Completing an attempt keeps its count, and is "done" only with an answer. *)
LEMMA CompletedType ==
    ASSUME TypeInv, NEW w \in Workers, job[w] \in Keys, attempts[job[w]] # None
    PROVE  /\ Completed(w) \in Attempt
           /\ Completed(w).n = attempts[job[w]].n
           /\ Completed(w).status = "done" => pc[w] = "settled"
<1> DEFINE a == attempts[job[w]]
<1>1. a \in Attempt
  BY DEF TypeInv, TypeOK
<1>2. a.n \in 1 .. MaxAttempts
  BY <1>1 DEF Attempt
<1>3. \E x \in {"done", "skipped", "failed", "pending"}, d \in BOOLEAN :
          /\ Completed(w) = [a EXCEPT !.status = x, !.due = d]
          /\ x = "done" => pc[w] = "settled"
  BY DEF Completed
<1>4. PICK x \in {"done", "skipped", "failed", "pending"}, d \in BOOLEAN :
          /\ Completed(w) = [a EXCEPT !.status = x, !.due = d]
          /\ x = "done" => pc[w] = "settled"
  BY <1>3
<1>5. Completed(w) \in Attempt /\ Completed(w).n = a.n /\ Completed(w).status = x
  BY <1>1, <1>4 DEF Attempt
<1> QED BY <1>4, <1>5

(* An answer is stored for the copy and the content that were sent, under the
   version that answered. *)
LEMMA StoredType ==
    ASSUME TypeInv, NEW w \in Workers, pc[w] = "record"
    PROVE  /\ AnsweredKey(w) \in Keys
           /\ CopyOf(AnsweredKey(w)) = CopyOf(job[w])
           /\ HashOf(AnsweredKey(w)) = HashOf(job[w])
           /\ VersionOf(AnsweredKey(w)) = answer[w].version
           /\ Stored(w) \in Result
<1>1. job[w] \in Keys /\ got[w] = HashOf(job[w]) /\ answer[w] \in Answer
  BY DEF TypeInv, LocalsLoaded, WorkingAt
<1>2. answer[w].version \in Versions /\ answer[w].verdict \in Verdicts
  BY <1>1 DEF Answer
<1>3. CopyOf(job[w]) \in Copies /\ HashOf(job[w]) \in Hashes
  BY <1>1, KeyParts
<1>4. AnsweredKey(w) \in Keys /\ CopyOf(AnsweredKey(w)) = CopyOf(job[w])
      /\ HashOf(AnsweredKey(w)) = HashOf(job[w]) /\ VersionOf(AnsweredKey(w)) = answer[w].version
  BY <1>2, <1>3, KeyMade DEF AnsweredKey
<1>5. Stored(w) \in Result
  BY <1>1, <1>2, <1>3, <1>4 DEF Stored, Result, TypeInv, TypeOK
<1> QED BY <1>4, <1>5

(* A worker at work has a key, and at every place but the first a version. *)
LEMMA AtWork ==
    ASSUME TypeInv, NEW w \in Workers
    PROVE  /\ pc[w] \in WorkingAt \union {"claim"} => /\ job[w] \in Keys
                                                     /\ held[w] \in Versions
           /\ pc[w] = "list" => held[w] \in Versions
  BY DEF TypeInv, LocalsLoaded, WorkingAt

(* A worker that only decides where to go next keeps its variables; no place
   but "record" and "send" asks more of them than it has. *)
LEMMA DecideTypes ==
    ASSUME TypeInv, NEW w \in Workers, pc[w] \in WorkingAt,
           NEW label \in WorkingAt \ {"send", "record"}, Decide(w, label)
    PROVE  TypeInv'
<1>1. pc' \in [Workers -> WorkingAt \union {"idle", "list", "claim"}]
  BY DEF Decide, Goto, TypeInv, TypeOK
<1>2. LocalsLoaded'
  BY DEF Decide, Goto, localVars, TypeInv, TypeOK, LocalsLoaded, WorkingAt
<1> QED BY <1>1, <1>2 DEF Decide, rowVars, localVars, TypeInv, TypeOK

(* Every step of the owner keeps the variables typed. *)
LEMMA OwnerTypes == ASSUME TypeInv, OwnerStep PROVE TypeInv'
<1> USE DEF localVars
<1>1. ASSUME NEW id \in Copies, NEW h \in Hashes, Publish(id, h)  PROVE TypeInv'
  <2>1. [id |-> id, hash |-> h, inSet |-> FALSE] \in Copy
    BY DEF Copy
  <2>2. copy' \in Copy \union {None} /\ exposed' \subseteq Copies \X Hashes
    BY <1>1, <2>1, SetCopyTypes DEF Publish
  <2> QED BY <1>1, <2>2 DEF Publish, TypeInv, TypeOK, LocalsLoaded
<1>2. ASSUME NEW h \in Hashes, Replace(h)  PROVE TypeInv'
  <2>1. [copy EXCEPT !.hash = h] \in Copy
    BY <1>2 DEF Replace, TypeInv, TypeOK, Copy
  <2>2. copy' \in Copy \union {None} /\ exposed' \subseteq Copies \X Hashes
    BY <1>2, <2>1, SetCopyTypes DEF Replace
  <2> QED BY <1>2, <2>2 DEF Replace, TypeInv, TypeOK, LocalsLoaded
<1>3. ASSUME ChangeAudience  PROVE TypeInv'
  <2>1. [copy EXCEPT !.inSet = ~@] \in Copy
    BY <1>3 DEF ChangeAudience, TypeInv, TypeOK, Copy
  <2>2. copy' \in Copy \union {None} /\ exposed' \subseteq Copies \X Hashes
    BY <1>3, <2>1, SetCopyTypes DEF ChangeAudience
  <2> QED BY <1>3, <2>2 DEF ChangeAudience, TypeInv, TypeOK, LocalsLoaded
<1>4. ASSUME DeleteRecordsFlag  PROVE TypeInv'
  <2>1. copy.id \in Copies
    BY <1>4 DEF DeleteRecordsFlag, TypeInv, TypeOK, Copy
  <2>2. OpenFlag(copy.id) \in BOOLEAN
    BY DEF OpenFlag
  <2>3. deleting' \in [id : Copies, flagged : BOOLEAN]
    BY <1>4, <2>1, <2>2 DEF DeleteRecordsFlag
  <2> QED BY <1>4, <2>3 DEF DeleteRecordsFlag, TypeInv, TypeOK, LocalsLoaded
<1>5. ASSUME DeleteCommits  PROVE TypeInv'
  <2>1. copy' \in Copy \union {None} /\ exposed' \subseteq Copies \X Hashes
    BY <1>5, SetCopyTypes DEF DeleteCommits
  <2>2. results' \in [Keys -> Result \union {None}] /\ attempts' \in [Keys -> Attempt \union {None}]
    BY <1>5 DEF DeleteCommits, Cascade, TypeInv, TypeOK
  <2>3. tombstone' \in BOOLEAN /\ inherited' \subseteq Copies
    BY <1>5 DEF DeleteCommits, TypeInv, TypeOK
  <2> QED BY <1>5, <2>1, <2>2, <2>3 DEF DeleteCommits, TypeInv, TypeOK, LocalsLoaded
<1>6. ASSUME DeleteRollsBack  PROVE TypeInv'
  BY <1>6 DEF DeleteRollsBack, TypeInv, TypeOK, LocalsLoaded
<1> QED BY <1>1, <1>2, <1>3, <1>4, <1>5, <1>6 DEF OwnerStep

(* So does every step of the checking service. *)
LEMMA ServiceTypes == ASSUME TypeInv, ServiceStep PROVE TypeInv'
<1>1. \E vs \in SUBSET Versions : vs # {} /\ ServingIs(vs)
  BY DEF ServiceStep, RolloutBegins, RolloutEnds, Rollback, TypeInv, TypeOK
<1> QED BY <1>1 DEF ServingIs, rowVars, localVars, TypeInv, TypeOK, LocalsLoaded

(* And every step of a worker, its death included. *)
LEMMA WorkerTypes ==
    ASSUME TypeInv, NEW w \in Workers, WorkerStep(w) \/ Crash(w)
    PROVE  TypeInv'
<1> USE DEF localVars, rowVars
<1>1. CASE Health(w)
  <2>1. held' \in [Workers -> Versions \union {0}] /\ held'[w] \in Versions
    BY <1>1, Max2Version DEF Health, TypeInv, TypeOK
  <2>2. pc' \in [Workers -> WorkingAt \union {"idle", "list", "claim"}]
    BY <1>1 DEF Health, Goto, TypeInv, TypeOK
  <2>3. LocalsLoaded'
    BY <1>1, <2>1 DEF Health, Goto, TypeInv, TypeOK, LocalsLoaded, WorkingAt
  <2> QED BY <1>1, <2>1, <2>2, <2>3 DEF Health, TypeInv, TypeOK
<1>2. CASE List(w)
  <2>1. CASE Candidate(held[w])
    <3>1. held[w] \in Versions /\ copy \in Copy
      BY <1>2, <2>1, AtWork DEF List, Candidate, TypeInv, TypeOK
    <3>2. KeyUnder(held[w]) \in Keys
      BY <3>1, KeyMade DEF KeyUnder, Copy
    <3>3. /\ job' = [job EXCEPT ![w] = KeyUnder(held[w])]
          /\ pc' = [pc EXCEPT ![w] = "claim"]
      BY <1>2, <2>1 DEF List, Goto
    <3>4. /\ pc' \in [Workers -> WorkingAt \union {"idle", "list", "claim"}]
          /\ job' \in [Workers -> Keys \union {None}]
      BY <3>2, <3>3 DEF TypeInv, TypeOK
    <3>5. LocalsLoaded'
      BY <1>2, <3>1, <3>2, <3>3 DEF List, TypeInv, TypeOK, LocalsLoaded, WorkingAt
    <3> QED BY <1>2, <3>4, <3>5 DEF List, TypeInv, TypeOK
  <2>2. CASE ~Candidate(held[w])
    <3>1. pc' = [pc EXCEPT ![w] = "idle"] /\ job' = job
      BY <1>2, <2>2 DEF List, Goto
    <3>2. pc' \in [Workers -> WorkingAt \union {"idle", "list", "claim"}]
      BY <3>1 DEF TypeInv, TypeOK
    <3>3. LocalsLoaded'
      BY <1>2, <3>1 DEF List, TypeInv, TypeOK, LocalsLoaded, WorkingAt
    <3> QED BY <1>2, <3>1, <3>2, <3>3 DEF List, TypeInv, TypeOK
  <2> QED BY <2>1, <2>2
<1>3. CASE Claim(w)
  <2>1. job[w] \in Keys /\ held[w] \in Versions /\ Claimable(job[w])
    BY <1>3, AtWork DEF Claim
  <2>2. Taken(job[w]) \in Attempt /\ Taken(job[w]).n \in 0 .. MaxAttempts
    BY <2>1, TakenType
  <2>3. attempts' \in [Keys -> Attempt \union {None}] /\ took' \in [Workers -> 0 .. MaxAttempts]
    BY <1>3, <2>1, <2>2 DEF Claim, TypeInv, TypeOK
  <2>4. pc' \in [Workers -> WorkingAt \union {"idle", "list", "claim"}]
    BY <1>3 DEF Claim, Goto, TypeInv, TypeOK, WorkingAt
  <2>5. LocalsLoaded'
    BY <1>3, <2>1 DEF Claim, Goto, TypeInv, TypeOK, LocalsLoaded, WorkingAt
  <2> QED BY <1>3, <2>3, <2>4, <2>5 DEF Claim, TypeInv, TypeOK
<1>4. CASE ClaimNothing(w)
  <2>1. held[w] \in Versions
    BY <1>4, AtWork DEF ClaimNothing
  <2> QED BY <1>4, <2>1, FinishTypes DEF ClaimNothing, TypeInv, TypeOK
<1>5. CASE ClaimLost(w)
  <2>1. job[w] \in Keys /\ held[w] \in Versions /\ Claimable(job[w])
    BY <1>5, AtWork DEF ClaimLost
  <2>2. attempts' \in [Keys -> Attempt \union {None}] /\ spent' \in [Keys -> Nat]
    BY <1>5, <2>1, TakenType DEF ClaimLost, TypeInv, TypeOK
  <2> QED BY <1>5, <2>1, <2>2, FinishTypes DEF ClaimLost, TypeInv, TypeOK
<1>6. CASE PassFails(w)
  <2>1. held[w] \in Versions
    BY <1>6, AtWork DEF PassFails
  <2>2. CASE pc[w] = "list"
    <3>1. pc' \in [Workers -> WorkingAt \union {"idle", "list", "claim"}]
      BY <1>6, <2>2 DEF PassFails, Goto, TypeInv, TypeOK
    <3>2. LocalsLoaded'
      BY <1>6, <2>2 DEF PassFails, Goto, TypeInv, TypeOK, LocalsLoaded, WorkingAt
    <3> QED BY <1>6, <2>2, <3>1, <3>2 DEF PassFails, TypeInv, TypeOK
  <2>3. CASE pc[w] = "claim"
    BY <1>6, <2>1, <2>3, FinishTypes DEF PassFails, TypeInv, TypeOK
  <2> QED BY <1>6, <2>2, <2>3 DEF PassFails
<1>7. CASE Reload(w)
  BY <1>7, DecideTypes DEF Reload, WorkingAt
<1>8. CASE CheckSet(w)
  BY <1>8, DecideTypes DEF CheckSet, WorkingAt
<1>9. CASE Read(w)
  <2>1. job[w] \in Keys /\ HashOf(job[w]) \in Hashes
    BY <1>9, AtWork, KeyParts DEF Read, WorkingAt
  <2>2. Readable(w) \subseteq Hashes
    BY <2>1 DEF Readable, Exists, TypeInv, TypeOK, Copy
  <2>3. PICK h \in Hashes :
           /\ got' = [got EXCEPT ![w] = h]
           /\ pc' = [pc EXCEPT ![w] = IF h = HashOf(job[w]) THEN "send" ELSE "release"]
    BY <1>9, <2>2 DEF Read, Goto
  <2>4. /\ got' \in [Workers -> Hashes \union {None}]
        /\ pc' \in [Workers -> WorkingAt \union {"idle", "list", "claim"}]
    BY <2>3 DEF TypeInv, TypeOK, WorkingAt
  <2>5. LocalsLoaded'
    BY <1>9, <2>1, <2>3 DEF Read, TypeInv, TypeOK, LocalsLoaded, WorkingAt
  <2> QED BY <1>9, <2>4, <2>5 DEF Read, TypeInv, TypeOK
<1>10. CASE ReadLegacy(w)
  BY <1>10, DecideTypes DEF ReadLegacy, WorkingAt
<1>11. CASE ReadFails(w)
  BY <1>11, DecideTypes DEF ReadFails, WorkingAt
<1>12. CASE StatementFails(w)
  BY <1>12, DecideTypes DEF StatementFails, WorkingAt
<1>13. CASE CheckAnswers(w)
  <2>1. job[w] \in Keys /\ held[w] \in Versions /\ got[w] = HashOf(job[w])
    BY <1>13, AtWork DEF CheckAnswers, WorkingAt, TypeInv, LocalsLoaded
  <2>2. PICK v \in serving, verdict \in Verdicts :
           /\ answer' = [answer EXCEPT ![w] = [version |-> v, verdict |-> verdict]]
           /\ held' = [held EXCEPT ![w] = Max2(@, v)]
    BY <1>13 DEF CheckAnswers
  <2>3. v \in Versions /\ [version |-> v, verdict |-> verdict] \in Answer
    BY DEF Answer, TypeInv, TypeOK
  <2>4. Max2(held[w], v) \in Versions
    BY <2>1, <2>3, Max2Version
  <2>5. /\ answer' \in [Workers -> Answer \union {None}]
        /\ held' \in [Workers -> Versions \union {0}]
    BY <2>2, <2>3, <2>4 DEF TypeInv, TypeOK
  <2>6. sent' \subseteq Copies \X Hashes
    BY <1>13, <2>1, KeyParts DEF CheckAnswers, TypeInv, TypeOK
  <2>7. pc' \in [Workers -> WorkingAt \union {"idle", "list", "claim"}]
    BY <1>13 DEF CheckAnswers, Goto, TypeInv, TypeOK, WorkingAt
  <2>8. LocalsLoaded'
    BY <1>13, <2>1, <2>2, <2>3, <2>4
       DEF CheckAnswers, Goto, TypeInv, TypeOK, LocalsLoaded, WorkingAt
  <2> QED BY <1>13, <2>5, <2>6, <2>7, <2>8 DEF CheckAnswers, TypeInv, TypeOK
<1>14. CASE CheckFails(w)
  <2>1. job[w] \in Keys /\ got[w] = HashOf(job[w])
    BY <1>14, AtWork DEF CheckFails, WorkingAt, TypeInv, LocalsLoaded
  <2>2. sent' \subseteq Copies \X Hashes
    BY <1>14, <2>1, KeyParts DEF CheckFails, TypeInv, TypeOK
  <2>3. PICK label \in {"skipped", "failed", "refused"} : pc' = [pc EXCEPT ![w] = label]
    BY <1>14 DEF CheckFails, Goto
  <2>4. pc' \in [Workers -> WorkingAt \union {"idle", "list", "claim"}]
    BY <2>3 DEF TypeInv, TypeOK, WorkingAt
  <2>5. LocalsLoaded'
    BY <1>14, <2>3 DEF CheckFails, TypeInv, TypeOK, LocalsLoaded, WorkingAt
  <2> QED BY <1>14, <2>2, <2>4, <2>5 DEF CheckFails, TypeInv, TypeOK
<1>15. CASE Record(w) \/ RecordLost(w)
  <2>1. AnsweredKey(w) \in Keys /\ Stored(w) \in Result
    BY <1>15, StoredType DEF Record, RecordLost
  <2>2. results' \in [Keys -> Result \union {None}]
    BY <1>15, <2>1 DEF Record, RecordLost, TypeInv, TypeOK
  <2>3. PICK label \in {"settled", "release", "failed"} : pc' = [pc EXCEPT ![w] = label]
    BY <1>15 DEF Record, RecordLost, Goto
  <2>4. pc' \in [Workers -> WorkingAt \union {"idle", "list", "claim"}]
    BY <2>3 DEF TypeInv, TypeOK, WorkingAt
  <2>5. LocalsLoaded'
    BY <1>15, <2>3 DEF Record, RecordLost, TypeInv, TypeOK, LocalsLoaded, WorkingAt
  <2> QED BY <1>15, <2>2, <2>4, <2>5 DEF Record, RecordLost, TypeInv, TypeOK
<1>16. CASE Complete(w)
  <2>1. job[w] \in Keys /\ held[w] \in Versions
    BY <1>16, AtWork DEF Complete, WorkingAt
  <2>2. attempts' \in [Keys -> Attempt \union {None}] /\ spent' \in [Keys -> Nat]
    BY <1>16, <2>1, CompletedType DEF Complete, TypeInv, TypeOK
  <2> QED BY <1>16, <2>1, <2>2, FinishTypes DEF Complete, TypeInv, TypeOK
<1>17. CASE Release(w)
  <2>1. job[w] \in Keys /\ held[w] \in Versions
    BY <1>17, AtWork DEF Release, WorkingAt
  <2>2. attempts' \in [Keys -> Attempt \union {None}]
    BY <1>17, <2>1, ReleasedType DEF Release, TypeInv, TypeOK
  <2> QED BY <1>17, <2>1, <2>2, FinishTypes DEF Release, TypeInv, TypeOK
<1>18. CASE EndLost(w)
  <2>1. job[w] \in Keys /\ held[w] \in Versions
    BY <1>18, AtWork DEF EndLost, WorkingAt
  <2>2. spent' \in [Keys -> Nat]
    BY <1>18, <2>1 DEF EndLost, TypeInv, TypeOK
  <2> QED BY <1>18, <2>1, <2>2, FinishTypes DEF EndLost, TypeInv, TypeOK
<1>19. CASE Crash(w)
  <2>1. job[w] \in Keys
    BY <1>19, AtWork DEF Crash, Working
  <2>2. spent' \in [Keys -> Nat]
    BY <1>19, <2>1 DEF Crash, TypeInv, TypeOK
  <2>3. /\ held' \in [Workers -> Versions \union {0}]
        /\ pc' \in [Workers -> WorkingAt \union {"idle", "list", "claim"}]
        /\ job' \in [Workers -> Keys \union {None}]
        /\ took' \in [Workers -> 0 .. MaxAttempts]
        /\ got' \in [Workers -> Hashes \union {None}]
        /\ answer' \in [Workers -> Answer \union {None}]
    BY <1>19 DEF Crash, Goto, TypeInv, TypeOK
  <2>4. LocalsLoaded'
    BY <1>19 DEF Crash, Goto, TypeInv, TypeOK, LocalsLoaded, WorkingAt
  <2> QED BY <1>19, <2>2, <2>3, <2>4 DEF Crash, TypeInv, TypeOK
<1> QED
  BY <1>1, <1>2, <1>3, <1>4, <1>5, <1>6, <1>7, <1>8, <1>9, <1>10, <1>11, <1>12, <1>13,
     <1>14, <1>15, <1>16, <1>17, <1>18, <1>19 DEF WorkerStep

(* Time passing keeps the form of the rows. *)
LEMMA TimeTypes == ASSUME TypeInv, NEW k \in Keys, TimePasses(k) PROVE TypeInv'
<1>0. attempts[k] \in Attempt
  BY DEF TimePasses, TypeInv, TypeOK
<1>1. [attempts[k] EXCEPT !.due = TRUE] \in Attempt
  BY <1>0 DEF Attempt
<1>2. attempts' \in [Keys -> Attempt \union {None}]
  BY <1>1 DEF TimePasses, TypeInv, TypeOK
<1> QED BY <1>2 DEF TimePasses, rowVars, localVars, TypeInv, TypeOK, LocalsLoaded

(* Every step keeps the form of the rows. *)
LEMMA TypeStep == ASSUME TypeInv, [Next]_vars PROVE TypeInv'
<1>1. CASE UNCHANGED vars
  <2>1. LocalsLoaded'
    BY <1>1 DEF vars, TypeInv, LocalsLoaded
  <2> QED BY <1>1, <2>1 DEF vars, TypeInv, TypeOK
<1>2. CASE Next
  BY <1>2, OwnerTypes, ServiceTypes, WorkerTypes, TimeTypes DEF Next
<1> QED BY <1>1, <1>2

(* The form of the rows at the start. *)
LEMMA TypeInit == ASSUME Init PROVE TypeInv
<1>1. 1 \in Versions
  BY DEF Versions
<1>2. TypeOK
  <2>1. took \in [Workers -> 0 .. MaxAttempts] /\ spent \in [Keys -> Nat]
    BY DEF Init
  <2>2. serving \subseteq Versions /\ serving # {}
    BY <1>1 DEF Init
  <2>3. tombstone \in BOOLEAN /\ exposed \subseteq Copies \X Hashes /\ sent \subseteq Copies \X Hashes
    BY DEF Init
  <2> QED BY <2>1, <2>2, <2>3 DEF Init, TypeOK
<1>3. LocalsLoaded
  BY DEF Init, LocalsLoaded, WorkingAt
<1> QED BY <1>2, <1>3 DEF TypeInv

(* Every variable of the worker and of the tables it keeps holds a value of its
   kind, whatever fails: no step of checkCandidate works from a row, a content or
   an answer it does not have. *)
THEOREM IntegrityTypeCorrect == Spec => []TypeOK
<1>1. Spec => []TypeInv
  BY TypeInit, TypeStep, PTL DEF Spec
<1>2. TypeInv => TypeOK
  BY DEF TypeInv
<1> QED BY <1>1, <1>2, PTL

------------------------------------------------------------------------------
(* A transcript id is used once; what is worked on or counted was published, and
   the row a deletion has begun to remove is the one that is there. *)
IdsBorn ==
    /\ copy # None => copy.id \in born
    /\ \A w \in Workers : pc[w] \in WorkingAt \union {"claim"} => CopyOf(job[w]) \in born
    /\ deleting # None => copy # None /\ deleting.id = copy.id
    /\ \A k \in Keys : CopyOf(k) \notin born => spent[k] = 0

(* Nothing is stored about a copy that is not there. *)
GoneForgotten ==
    \A k \in Keys : ~Exists(CopyOf(k)) => attempts[k] = None /\ results[k] = None

(* A worker's claim keeps its attempt pending and not due until the work ends,
   unless the copy goes. *)
HoldKept ==
    \A w \in Workers :
        Working(w) /\ Exists(CopyOf(job[w])) =>
            /\ attempts[job[w]] # None
            /\ attempts[job[w]].status = "pending"
            /\ ~attempts[job[w]].due

HoldInv == IdsBorn /\ GoneForgotten /\ HoldKept /\ ExclusiveAttempt

(* A worker about to mark its attempt done has stored what it owes. *)
SettledAnswered ==
    \A w \in Workers :
        pc[w] = "settled" /\ Exists(CopyOf(job[w])) =>
            \E v \in Versions :
                /\ v >= VersionOf(job[w])
                /\ results[<<CopyOf(job[w]), HashOf(job[w]), v>>] # None

AnswerInv == SettledAnswered /\ DoneMeansAnswered

(* What is in the checked set, and what was listed from it, was exposed. *)
ListedExposed ==
    /\ copy # None /\ copy.inSet => <<copy.id, copy.hash>> \in exposed
    /\ \A w \in Workers :
          pc[w] \in WorkingAt \union {"claim"} => <<CopyOf(job[w]), HashOf(job[w])>> \in exposed

ContentInv == ListedExposed /\ ContentGuarded

------------------------------------------------------------------------------
(* What a step of worker w can do to the rows and to the workers' places: it
   quits the row, goes on with it, claims it, or lists it. *)
Quits(w) == pc'[w] \in {"idle", "list"}

GoesOn(w) == Working(w) /\ pc'[w] \in WorkingAt /\ job'[w] = job[w]

Claims(w) ==
    /\ pc[w] = "claim" /\ pc'[w] \in WorkingAt /\ job'[w] = job[w]
    /\ Claimable(job[w])
    /\ attempts' = [attempts EXCEPT ![job[w]] = Taken(job[w])]
    /\ spent' = spent

Lists(w) ==
    /\ pc'[w] = "claim"
    /\ job'[w] = KeyUnder(held[w]) /\ held[w] \in Versions
    /\ copy # None /\ copy.inSet

(* Finishing leaves the other workers where they are. *)
LEMMA FinishPlaces ==
    ASSUME TypeInv, NEW w \in Workers, NEW stop \in BOOLEAN, Finish(w, stop)
    PROVE  /\ \A u \in Workers \ {w} : pc'[u] = pc[u] /\ job'[u] = job[u]
           /\ Quits(w)
  BY DEF Finish, Goto, Quits, TypeInv, TypeOK

(* What a worker's step does to the places of the workers: it quits, goes on,
   claims or lists, and nobody else moves. *)
LEMMA WorkerPlaces ==
    ASSUME TypeInv, NEW w \in Workers, WorkerStep(w) \/ Crash(w)
    PROVE  /\ UNCHANGED <<copy, born, inherited, tombstone, deleting, exposed>>
           /\ \A u \in Workers \ {w} : pc'[u] = pc[u] /\ job'[u] = job[u]
           /\ Quits(w) \/ GoesOn(w) \/ Claims(w) \/ Lists(w)
<1> USE DEF rowVars, localVars
<1>1. UNCHANGED <<copy, born, inherited, tombstone, deleting, exposed>>
  BY DEF WorkerStep, Health, List, Claim, ClaimNothing, ClaimLost, PassFails, Reload, CheckSet,
         Read, ReadLegacy, ReadFails, StatementFails, CheckAnswers, CheckFails, Record,
         RecordLost, Complete, Release, EndLost, Crash, Decide
<1> DEFINE Goal == /\ \A u \in Workers \ {w} : pc'[u] = pc[u] /\ job'[u] = job[u]
                   /\ Quits(w) \/ GoesOn(w) \/ Claims(w) \/ Lists(w)
<1>2. CASE Health(w)
  BY <1>2 DEF Health, Goto, Quits, TypeInv, TypeOK
<1>3. CASE List(w)
  <2>1. held[w] \in Versions
    BY <1>3, AtWork DEF List
  <2> QED BY <1>3, <2>1 DEF List, Candidate, Goto, Quits, Lists, TypeInv, TypeOK
<1>4. CASE Claim(w)
  BY <1>4 DEF Claim, Goto, Claims, WorkingAt, TypeInv, TypeOK
<1>5. CASE ClaimNothing(w) \/ ClaimLost(w) \/ Complete(w)
  BY <1>5, FinishPlaces DEF ClaimNothing, ClaimLost, Complete
<1>6. CASE Release(w) \/ EndLost(w)
  BY <1>6, FinishPlaces DEF Release, EndLost
<1>7. CASE PassFails(w)
  <2>1. CASE pc[w] = "list"
    BY <1>7, <2>1 DEF PassFails, Goto, Quits, TypeInv, TypeOK
  <2>2. CASE pc[w] = "claim"
    BY <1>7, <2>2, FinishPlaces DEF PassFails
  <2> QED BY <1>7, <2>1, <2>2 DEF PassFails
<1>8. CASE Crash(w)
  BY <1>8 DEF Crash, Goto, Quits, TypeInv, TypeOK
<1>9. CASE \/ Reload(w) \/ CheckSet(w) \/ ReadLegacy(w) \/ ReadFails(w) \/ StatementFails(w)
  BY <1>9 DEF Reload, CheckSet, ReadLegacy, ReadFails, StatementFails, Decide, Goto, GoesOn,
              Working, WorkingAt, TypeInv, TypeOK
<1>10. CASE Read(w) \/ CheckAnswers(w) \/ CheckFails(w) \/ Record(w) \/ RecordLost(w)
  BY <1>10 DEF Read, CheckAnswers, CheckFails, Record, RecordLost, Goto, GoesOn,
               Working, WorkingAt, TypeInv, TypeOK
<1>11. Goal
  BY <1>2, <1>3, <1>4, <1>5, <1>6, <1>7, <1>8, <1>9, <1>10 DEF WorkerStep
<1> QED BY <1>1, <1>11

(* What it can do to the attempts and the count of claims not given back. *)
ClaimedAndLost(w) ==
    /\ pc[w] = "claim" /\ Claimable(job[w])
    /\ attempts' = [attempts EXCEPT ![job[w]] = Taken(job[w])]
    /\ spent' = [spent EXCEPT ![job[w]] = @ + 1]
    /\ Quits(w)

EndsSpent(w) ==
    /\ Working(w) /\ Quits(w)
    /\ spent' = [spent EXCEPT ![job[w]] = @ + 1]
    /\ \/ attempts' = attempts
       \/ /\ attempts[job[w]] # None
          /\ attempts' = [attempts EXCEPT ![job[w]] = Completed(w)]

EndsReleased(w) ==
    /\ Working(w) /\ Quits(w)
    /\ spent' = spent
    /\ attempts' = [attempts EXCEPT ![job[w]] = Released(job[w])]

(* What a worker's step does to the count of attempts. *)
LEMMA WorkerCounts ==
    ASSUME TypeInv, NEW w \in Workers, WorkerStep(w) \/ Crash(w)
    PROVE  \/ UNCHANGED <<attempts, spent>> /\ (GoesOn(w) \/ Lists(w) \/ (Quits(w) /\ ~Working(w)))
           \/ Claims(w) \/ ClaimedAndLost(w) \/ EndsSpent(w) \/ EndsReleased(w)
<1> USE DEF rowVars, localVars
<1>1. CASE ClaimLost(w)
  BY <1>1, FinishPlaces DEF ClaimLost, ClaimedAndLost
<1>2. CASE Complete(w)
  <2>1. Working(w) /\ Quits(w)
    BY <1>2, FinishPlaces DEF Complete, Working, WorkingAt
  <2> QED BY <1>2, <2>1 DEF Complete, EndsSpent
<1>3. CASE Release(w)
  <2>1. Working(w) /\ Quits(w)
    BY <1>3, FinishPlaces DEF Release, Working, WorkingAt
  <2> QED BY <1>3, <2>1 DEF Release, EndsReleased
<1>4. CASE EndLost(w)
  <2>1. Working(w) /\ Quits(w)
    BY <1>4, FinishPlaces DEF EndLost, Working, WorkingAt
  <2> QED BY <1>4, <2>1 DEF EndLost, EndsSpent
<1>5. CASE Crash(w)
  BY <1>5 DEF Crash, Goto, Quits, EndsSpent, TypeInv, TypeOK
<1>6. CASE Claim(w)
  <2>1. pc'[w] = "reload"
    BY <1>6 DEF Claim, Goto, TypeInv, TypeOK
  <2> QED BY <1>6, <2>1 DEF Claim, Claims, WorkingAt
<1>7. CASE Health(w) \/ List(w) \/ ClaimNothing(w) \/ PassFails(w)
  <2>1. UNCHANGED <<attempts, spent>> /\ ~Working(w)
    BY <1>7 DEF Health, List, ClaimNothing, PassFails, Working, WorkingAt
  <2> QED BY <1>7, <2>1, WorkerPlaces DEF GoesOn, Claims, Claimable, WorkerStep, Health, List,
                                         ClaimNothing, PassFails
<1>8. CASE \/ Reload(w) \/ CheckSet(w) \/ ReadLegacy(w) \/ ReadFails(w) \/ StatementFails(w)
  BY <1>8 DEF Reload, CheckSet, ReadLegacy, ReadFails, StatementFails, Decide, Goto, GoesOn,
              Working, WorkingAt, TypeInv, TypeOK
<1>9. CASE Read(w) \/ CheckAnswers(w) \/ CheckFails(w) \/ Record(w) \/ RecordLost(w)
  BY <1>9 DEF Read, CheckAnswers, CheckFails, Record, RecordLost, Goto, GoesOn,
              Working, WorkingAt, TypeInv, TypeOK
<1> QED BY <1>1, <1>2, <1>3, <1>4, <1>5, <1>6, <1>7, <1>8, <1>9 DEF WorkerStep

(* A claim takes a key nobody works on. *)
LEMMA ClaimFree ==
    ASSUME TypeInv, HoldInv, NEW k \in Keys, Claimable(k)
    PROVE  \A u \in Workers : ~(Working(u) /\ job[u] = k)
  BY DEF HoldInv, HoldKept, Claimable, TypeInv, LocalsLoaded, Working

(* The owner changes no attempt but those of a copy that goes, and never brings
   a copy back. *)
LEMMA OwnerHolds == ASSUME TypeInv, HoldInv, OwnerStep PROVE HoldInv'
<1> USE DEF localVars
<1>1. ASSUME NEW id \in Copies, NEW h \in Hashes, Publish(id, h)  PROVE HoldInv'
  <2>1. /\ copy = None /\ id \notin born /\ copy' = [id |-> id, hash |-> h, inSet |-> FALSE]
        /\ born' = born \union {id}
        /\ UNCHANGED <<attempts, results, deleting, spent, pc, job>>
    BY <1>1 DEF Publish, SetCopy
  <2>2. copy' \in Copy /\ copy'.id = id /\ copy' # None
    <3>1. copy' \in Copy /\ copy'.id = id
      BY <2>1 DEF Copy
    <3> QED BY <3>1
  <2>3. deleting = None
    BY <2>1 DEF HoldInv, IdsBorn
  <2>4. IdsBorn'
    BY <2>1, <2>2, <2>3 DEF HoldInv, IdsBorn
  <2>5. GoneForgotten'
    BY <2>1 DEF HoldInv, GoneForgotten, Exists
  <2>6. \A w \in Workers : Working(w)' => CopyOf(job'[w]) # id
    BY <2>1 DEF HoldInv, IdsBorn, Working
  <2>7. HoldKept' /\ ExclusiveAttempt'
    BY <2>1, <2>2, <2>6 DEF HoldInv, HoldKept, ExclusiveAttempt, Exists, Working
  <2> QED BY <2>4, <2>5, <2>7 DEF HoldInv
<1>2. ASSUME copy # None, copy' \in Copy, copy'.id = copy.id,
             UNCHANGED <<born, attempts, results, deleting, spent, pc, job>>
      PROVE HoldInv'
  <2>1. \A id : Exists(id)' <=> Exists(id)
    BY <1>2 DEF Exists
  <2> QED BY <1>2, <2>1 DEF HoldInv, IdsBorn, GoneForgotten, HoldKept, ExclusiveAttempt, Working
<1>3. ASSUME NEW h \in Hashes, Replace(h)  PROVE HoldInv'
  <2>1. copy \in Copy
    BY <1>3 DEF Replace, TypeInv, TypeOK
  <2>2. copy' \in Copy /\ copy'.id = copy.id
    BY <1>3, <2>1 DEF Replace, SetCopy, Copy
  <2> QED BY <1>2, <1>3, <2>2 DEF Replace
<1>4. ASSUME ChangeAudience  PROVE HoldInv'
  <2>1. copy \in Copy
    BY <1>4 DEF ChangeAudience, TypeInv, TypeOK
  <2>2. copy' \in Copy /\ copy'.id = copy.id
    BY <1>4, <2>1 DEF ChangeAudience, SetCopy, Copy
  <2> QED BY <1>2, <1>4, <2>2 DEF ChangeAudience
<1>5. ASSUME DeleteRecordsFlag \/ DeleteRollsBack  PROVE HoldInv'
  BY <1>5 DEF DeleteRecordsFlag, DeleteRollsBack, HoldInv, IdsBorn, GoneForgotten, HoldKept,
              ExclusiveAttempt, Exists, Working
<1>6. ASSUME DeleteCommits  PROVE HoldInv'
  <2>1. /\ copy # None /\ copy.id = deleting.id /\ copy' = None /\ deleting' = None
        /\ UNCHANGED <<born, spent, pc, job>>
    BY <1>6 DEF DeleteCommits, SetCopy, HoldInv, IdsBorn
  <2>2. \A k \in Keys : attempts'[k] = None /\ results'[k] = None
    BY <1>6, <2>1 DEF DeleteCommits, Cascade, HoldInv, GoneForgotten, Exists
  <2> QED BY <2>1, <2>2 DEF HoldInv, IdsBorn, GoneForgotten, HoldKept, ExclusiveAttempt, Exists, Working
<1> QED BY <1>1, <1>3, <1>4, <1>5, <1>6 DEF OwnerStep

(* Among workers: a claim excludes the others, and what ends is one's own. *)
LEMMA WorkerHolds ==
    ASSUME TypeInv, HoldInv, NEW w \in Workers, WorkerStep(w) \/ Crash(w)
    PROVE  HoldInv'
<1>1. /\ UNCHANGED <<copy, born, deleting>>
      /\ \A u \in Workers \ {w} : pc'[u] = pc[u] /\ job'[u] = job[u]
      /\ Quits(w) \/ GoesOn(w) \/ Claims(w) \/ Lists(w)
  BY WorkerPlaces
<1>2. \A id : Exists(id)' <=> Exists(id)
  BY <1>1 DEF Exists
<1>3. pc[w] \in WorkingAt \union {"claim"} => job[w] \in Keys /\ CopyOf(job[w]) \in born
  BY AtWork DEF HoldInv, IdsBorn
<1>4. \A u \in Workers \ {w} : (Working(u)' <=> Working(u)) /\ (Working(u) => job[u] \in Keys)
  BY <1>1, AtWork DEF Working
<1>5. Working(w)' => (GoesOn(w) \/ Claims(w))
  BY <1>1 DEF Working, Quits, Lists, WorkingAt
<1>6. IdsBorn'
  <2>1. Lists(w) => CopyOf(job'[w]) \in born
    <3>1. Lists(w) => copy \in Copy
      BY DEF Lists, TypeInv, TypeOK
    <3> QED BY <3>1, KeyMade DEF Lists, KeyUnder, Copy, HoldInv, IdsBorn
  <2>2. \A u \in Workers : pc'[u] \in WorkingAt \union {"claim"} => CopyOf(job'[u]) \in born
    BY <1>1, <2>1 DEF Quits, GoesOn, Claims, Working, WorkingAt, HoldInv, IdsBorn
  <2>3. \A k \in Keys : CopyOf(k) \notin born => spent'[k] = 0
    BY <1>3, WorkerCounts DEF Claims, ClaimedAndLost, EndsSpent, EndsReleased, Working,
                              HoldInv, IdsBorn, TypeInv, TypeOK
  <2> QED BY <1>1, <2>2, <2>3 DEF HoldInv, IdsBorn
<1>7. GoneForgotten'
  <2>1. \A k \in Keys : ~Exists(CopyOf(k)) => attempts'[k] = None
    BY <1>3, WorkerCounts DEF Claims, ClaimedAndLost, EndsSpent, EndsReleased, Working, Claimable,
                              Released, HoldInv, GoneForgotten, TypeInv, TypeOK
  <2>2. \A k \in Keys : ~Exists(CopyOf(k)) => results'[k] = None
    <3>1. CASE results' = results
      BY <3>1 DEF HoldInv, GoneForgotten
    <3>2. CASE Record(w) \/ RecordLost(w)
      BY <3>2, StoredType DEF Record, RecordLost, HoldInv, GoneForgotten, TypeInv, TypeOK
    <3> QED BY <3>1, <3>2 DEF WorkerStep, Health, List, Claim, ClaimNothing, ClaimLost, PassFails,
               Reload, CheckSet, Read, ReadLegacy, ReadFails, StatementFails, CheckAnswers, CheckFails,
               Complete, Release, EndLost, Crash, Decide
  <2> QED BY <1>2, <2>1, <2>2 DEF GoneForgotten
<1>8. ExclusiveAttempt'
  <2>1. CASE Claims(w)
    <3>1. \A u \in Workers : ~(Working(u) /\ job[u] = job[w])
      BY <1>3, <2>1, ClaimFree DEF Claims
    <3> QED BY <1>1, <1>4, <2>1, <3>1 DEF Claims, HoldInv, ExclusiveAttempt
  <2>2. CASE ~Claims(w)
    BY <1>1, <1>4, <1>5, <2>2 DEF GoesOn, HoldInv, ExclusiveAttempt
  <2> QED BY <2>1, <2>2
<1>9. HoldKept'
  <2> SUFFICES ASSUME NEW u \in Workers, Working(u)', Exists(CopyOf(job'[u]))
               PROVE  /\ attempts'[job'[u]] # None
                      /\ attempts'[job'[u]].status = "pending"
                      /\ ~attempts'[job'[u]].due
    BY <1>2 DEF HoldKept
  <2>1. CASE u # w
    <3>1. Working(u) /\ job'[u] = job[u] /\ job[u] \in Keys
      BY <1>1, <1>4, <2>1
    <3>2. Working(w) => job[w] # job[u]
      BY <2>1, <3>1 DEF HoldInv, ExclusiveAttempt
    <3>3. (pc[w] = "claim" /\ Claimable(job[w])) => job[w] # job[u]
      BY <1>3, <3>1, ClaimFree
    <3>4. attempts'[job[u]] = attempts[job[u]]
      BY <1>3, <3>1, <3>2, <3>3, WorkerCounts
         DEF Claims, ClaimedAndLost, EndsSpent, EndsReleased, Working, TypeInv, TypeOK
    <3> QED BY <3>1, <3>4 DEF HoldInv, HoldKept
  <2>2. CASE u = w /\ Claims(w)
    <3>1. job[w] \in Keys /\ Taken(job[w]) \in Attempt
      BY <1>3, <2>2, TakenType DEF Claims
    <3>2. attempts'[job'[w]] = Taken(job[w])
      BY <2>2, <3>1 DEF Claims, TypeInv, TypeOK
    <3>3. Taken(job[w]) # None
      BY <3>1
    <3> QED BY <2>2, <3>2, <3>3 DEF Taken
  <2>3. CASE u = w /\ ~Claims(w)
    <3>1. GoesOn(w) /\ attempts' = attempts
      BY <1>5, <2>3, WorkerCounts DEF Lists, Quits, ClaimedAndLost, EndsSpent, EndsReleased,
                                      GoesOn, WorkingAt
    <3> QED BY <2>3, <3>1 DEF GoesOn, HoldInv, HoldKept
  <2> QED BY <2>1, <2>2, <2>3
<1> QED BY <1>6, <1>7, <1>8, <1>9 DEF HoldInv

(* Every step keeps the holds. *)
LEMMA HoldStep == ASSUME TypeInv, HoldInv, [Next]_vars PROVE HoldInv'
<1>1. CASE ServiceStep \/ UNCHANGED vars
  <2>1. UNCHANGED <<copy, born, deleting, attempts, results, spent, pc, job>>
    BY <1>1 DEF ServiceStep, RolloutBegins, RolloutEnds, Rollback, ServingIs, rowVars, localVars, vars
  <2> QED BY <2>1 DEF HoldInv, IdsBorn, GoneForgotten, HoldKept, ExclusiveAttempt, Exists, Working
<1>2. ASSUME NEW k \in Keys, TimePasses(k)  PROVE HoldInv'
  <2>1. UNCHANGED <<copy, born, deleting, results, spent, pc, job>>
    BY <1>2 DEF TimePasses, rowVars, localVars
  <2>2. attempts[k] # None /\ \A j \in Keys : j # k => attempts'[j] = attempts[j]
    BY <1>2 DEF TimePasses, TypeInv, TypeOK
  <2>3. \A u \in Workers : Working(u) => job[u] \in Keys /\ job[u] # k
    BY <1>2, AtWork DEF TimePasses, InHand, Working
  <2>4. Exists(CopyOf(k))
    BY <2>2 DEF HoldInv, GoneForgotten
  <2> QED BY <2>1, <2>2, <2>3, <2>4
          DEF HoldInv, IdsBorn, GoneForgotten, HoldKept, ExclusiveAttempt, Exists, Working
<1> QED BY <1>1, <1>2, OwnerHolds, WorkerHolds DEF Next

(* At the start nobody holds anything. *)
LEMMA HoldInit == ASSUME Init PROVE HoldInv
  BY DEF Init, HoldInv, IdsBorn, GoneForgotten, HoldKept, ExclusiveAttempt, Exists, Working, WorkingAt

(* However many servers list, claim, time out and die, one of them works on a key
   at a time: ClaimIntegrityAttempt's conditional upsert is the whole of the
   exclusion. *)
THEOREM OneHolder == Spec => []ExclusiveAttempt
<1>1. Spec => [](TypeInv /\ HoldInv)
  BY TypeInit, TypeStep, HoldInit, HoldStep, PTL DEF Spec
<1>2. HoldInv => ExclusiveAttempt
  BY DEF HoldInv
<1> QED BY <1>1, <1>2, PTL

------------------------------------------------------------------------------
(* The two sides of AttemptsAccounted. *)
CountOf(k) == IF attempts[k] = None THEN 0 ELSE attempts[k].n

Hold(k) == IF InHand(k) THEN 1 ELSE 0

(* The accounting, key by key. *)
LEMMA Accounted ==
    AttemptsAccounted <=> \A k \in Keys : Exists(CopyOf(k)) => CountOf(k) = spent[k] + Hold(k)
  BY DEF AttemptsAccounted, CountOf, Hold

(* An owner's step keeps the accounting. *)
LEMMA OwnerCounts == ASSUME TypeInv, HoldInv, AttemptsAccounted, OwnerStep PROVE AttemptsAccounted'
<1> USE DEF localVars
<1>1. ASSUME NEW id \in Copies, NEW h \in Hashes, Publish(id, h)  PROVE AttemptsAccounted'
  <2>1. /\ copy = None /\ id \notin born /\ copy' = [id |-> id, hash |-> h, inSet |-> FALSE]
        /\ UNCHANGED <<attempts, spent, pc, job>>
    BY <1>1 DEF Publish, SetCopy
  <2>2. ASSUME NEW k \in Keys, Exists(CopyOf(k))'  PROVE CountOf(k)' = spent'[k] + Hold(k)'
    <3>1. CopyOf(k) = id
      BY <2>1, <2>2 DEF Exists
    <3>2. spent[k] = 0 /\ attempts[k] = None
      BY <2>1, <3>1 DEF HoldInv, IdsBorn, GoneForgotten, Exists
    <3>3. ~InHand(k)
      BY <2>1, <3>1 DEF InHand, Working, HoldInv, IdsBorn
    <3>4. ~InHand(k)'
      BY <2>1, <3>3 DEF InHand, Working
    <3> QED BY <2>1, <3>2, <3>4 DEF CountOf, Hold
  <2> QED BY <2>2 DEF AttemptsAccounted, CountOf, Hold
<1>2. ASSUME NEW h \in Hashes, Replace(h)  PROVE AttemptsAccounted'
  <2>1. copy \in Copy
    BY <1>2 DEF Replace, TypeInv, TypeOK
  <2>2. \A x : Exists(x)' <=> Exists(x)
    BY <1>2, <2>1 DEF Replace, SetCopy, Exists, Copy
  <2> QED BY <1>2, <2>2 DEF Replace, AttemptsAccounted, InHand, Working
<1>3. ASSUME ChangeAudience  PROVE AttemptsAccounted'
  <2>1. copy \in Copy
    BY <1>3 DEF ChangeAudience, TypeInv, TypeOK
  <2>2. \A x : Exists(x)' <=> Exists(x)
    BY <1>3, <2>1 DEF ChangeAudience, SetCopy, Exists, Copy
  <2> QED BY <1>3, <2>2 DEF ChangeAudience, AttemptsAccounted, InHand, Working
<1>4. ASSUME DeleteRecordsFlag \/ DeleteRollsBack  PROVE AttemptsAccounted'
  BY <1>4 DEF DeleteRecordsFlag, DeleteRollsBack, AttemptsAccounted, InHand, Working, Exists
<1>5. ASSUME DeleteCommits  PROVE AttemptsAccounted'
  BY <1>5 DEF DeleteCommits, SetCopy, AttemptsAccounted, Exists
<1> QED BY <1>1, <1>2, <1>3, <1>4, <1>5 DEF OwnerStep

(* A step of worker w changes the count of its own key only, and by what it adds
   to or takes from the claims in hand and the claims spent. *)
LEMMA WorkerAccounts ==
    ASSUME TypeInv, HoldInv, AttemptsAccounted, NEW w \in Workers, WorkerStep(w) \/ Crash(w)
    PROVE  AttemptsAccounted'
<1>1. /\ copy' = copy
      /\ \A u \in Workers \ {w} : pc'[u] = pc[u] /\ job'[u] = job[u]
  BY WorkerPlaces
<1>2. pc[w] \in WorkingAt \union {"claim"} => job[w] \in Keys
  BY AtWork
<1> SUFFICES ASSUME NEW k \in Keys, Exists(CopyOf(k))
             PROVE  CountOf(k)' = spent'[k] + Hold(k)'
  BY <1>1 DEF AttemptsAccounted, CountOf, Hold, Exists
<1>3. /\ CountOf(k) = spent[k] + Hold(k)
      /\ spent[k] \in Nat /\ attempts[k] \in Attempt \union {None}
  BY Accounted DEF TypeInv, TypeOK
<1>4. \A u \in Workers \ {w} : (Working(u) /\ job[u] = k)' <=> (Working(u) /\ job[u] = k)
  BY <1>1 DEF Working
<1>5. CASE UNCHANGED <<attempts, spent>> /\ (GoesOn(w) \/ Lists(w) \/ (Quits(w) /\ ~Working(w)))
  <2>1. (Working(w) /\ job[w] = k)' <=> (Working(w) /\ job[w] = k)
    <3>1. CASE GoesOn(w)
      BY <3>1 DEF GoesOn, Working
    <3>2. CASE Quits(w) /\ ~Working(w)
      BY <3>2 DEF Quits, Working, WorkingAt
    <3>3. CASE Lists(w)
      <4>1. ~Working(w)
        BY <1>5, <3>3 DEF Lists, WorkerStep, Health, List, Claim, ClaimNothing, ClaimLost, PassFails,
               Reload, CheckSet, Read, ReadLegacy, ReadFails, StatementFails, CheckAnswers, CheckFails,
               Record, RecordLost, Complete, Release, EndLost, Crash, Decide, Finish, Goto, Working,
               WorkingAt, TypeInv, TypeOK
      <4> QED BY <3>3, <4>1 DEF Lists, Working, WorkingAt
    <3> QED BY <1>5, <3>1, <3>2, <3>3
  <2>2. InHand(k)' <=> InHand(k)
    BY <1>4, <2>1 DEF InHand
  <2> QED BY <1>3, <1>5, <2>2 DEF CountOf, Hold
<1>6. CASE job[w] # k /\ (Claims(w) \/ ClaimedAndLost(w) \/ EndsSpent(w) \/ EndsReleased(w))
  <2>1. attempts'[k] = attempts[k] /\ spent'[k] = spent[k]
    BY <1>2, <1>6 DEF Claims, ClaimedAndLost, EndsSpent, EndsReleased, Working, TypeInv, TypeOK
  <2>2. ~(Working(w) /\ job[w] = k)'
    BY <1>6 DEF Claims, ClaimedAndLost, EndsSpent, EndsReleased, Quits, Working, WorkingAt
  <2>3. InHand(k)' <=> InHand(k)
    BY <1>4, <1>6, <2>2 DEF InHand
  <2> QED BY <1>3, <2>1, <2>3 DEF CountOf, Hold
<1>7. CASE job[w] = k /\ (Claims(w) \/ ClaimedAndLost(w))
  <2>1. Claimable(k) /\ ~InHand(k) /\ ~Working(w)
    BY <1>7, ClaimFree DEF Claims, ClaimedAndLost, InHand, Working, WorkingAt
  <2>2. Taken(k) \in Attempt /\ Taken(k) # None /\ attempts'[k] = Taken(k)
    BY <1>7, <2>1, TakenType DEF Claims, ClaimedAndLost, TypeInv, TypeOK
  <2>3. CountOf(k)' = CountOf(k) + 1
    BY <2>2 DEF CountOf, Taken, Attempt
  <2>4. CountOf(k) = spent[k]
    BY <1>3, <2>1 DEF Hold
  <2>5. CASE Claims(w)
    <3>1. InHand(k)' /\ spent'[k] = spent[k]
      BY <1>7, <2>5 DEF Claims, InHand, Working
    <3> QED BY <1>3, <2>3, <2>4, <3>1 DEF Hold
  <2>6. CASE ClaimedAndLost(w)
    <3>1. ~InHand(k)' /\ spent'[k] = spent[k] + 1
      BY <1>4, <1>7, <2>1, <2>6 DEF ClaimedAndLost, Quits, InHand, Working, WorkingAt, TypeInv, TypeOK
    <3> QED BY <1>3, <2>3, <2>4, <3>1 DEF Hold
  <2> QED BY <1>7, <2>5, <2>6
<1>8. CASE job[w] = k /\ (EndsSpent(w) \/ EndsReleased(w))
  <2>1. Working(w) /\ ~Working(w)'
    BY <1>8 DEF EndsSpent, EndsReleased, Quits, Working, WorkingAt
  <2>2. InHand(k) /\ ~InHand(k)'
    BY <1>4, <1>8, <2>1 DEF InHand, HoldInv, ExclusiveAttempt
  <2>3. attempts[k] # None /\ attempts[k].status = "pending" /\ attempts[k] \in Attempt
    BY <1>3, <1>8, <2>1 DEF HoldInv, HoldKept
  <2>4. CountOf(k) = attempts[k].n /\ attempts[k].n = spent[k] + 1 /\ attempts[k].n \in Nat
    BY <1>3, <2>2, <2>3 DEF CountOf, Hold, Attempt
  <2>5. CASE EndsSpent(w)
    <3>1. attempts'[k] # None /\ attempts'[k].n = attempts[k].n
      BY <1>8, <2>3, <2>5, CompletedType DEF EndsSpent, TypeInv, TypeOK
    <3>2. spent'[k] = spent[k] + 1
      BY <1>8, <2>5 DEF EndsSpent, TypeInv, TypeOK
    <3> QED BY <1>3, <2>2, <2>4, <3>1, <3>2 DEF CountOf, Hold
  <2>6. CASE EndsReleased(w)
    <3>1. attempts'[k] = Released(k) /\ spent'[k] = spent[k]
      BY <1>8, <2>6 DEF EndsReleased, TypeInv, TypeOK
    <3>2. IF attempts[k].n > 1 THEN Released(k) # None /\ Released(k).n = attempts[k].n - 1
                               ELSE Released(k) = None
      BY <2>3, ReleasedType
    <3>3. CountOf(k)' = attempts[k].n - 1
      BY <2>3, <3>1, <3>2 DEF CountOf, Attempt
    <3> QED BY <1>3, <2>2, <2>4, <3>1, <3>3 DEF Hold
  <2> QED BY <1>8, <2>5, <2>6
<1> QED BY <1>5, <1>6, <1>7, <1>8, WorkerCounts

(* Every step keeps the accounting. *)
LEMMA CountStep == ASSUME TypeInv, HoldInv, AttemptsAccounted, [Next]_vars PROVE AttemptsAccounted'
<1>1. CASE ServiceStep \/ UNCHANGED vars
  <2>1. UNCHANGED <<copy, attempts, spent, pc, job>>
    BY <1>1 DEF ServiceStep, RolloutBegins, RolloutEnds, Rollback, ServingIs, rowVars, localVars, vars
  <2> QED BY <2>1 DEF AttemptsAccounted, InHand, Working, Exists
<1>2. ASSUME NEW k \in Keys, TimePasses(k)  PROVE AttemptsAccounted'
  <2>1. UNCHANGED <<copy, spent, pc, job>>
    BY <1>2 DEF TimePasses, rowVars, localVars
  <2>2. attempts[k] \in Attempt /\ attempts' = [attempts EXCEPT ![k].due = TRUE]
    BY <1>2 DEF TimePasses, TypeInv, TypeOK
  <2>3. [attempts[k] EXCEPT !.due = TRUE] \in Attempt /\ [attempts[k] EXCEPT !.due = TRUE].n = attempts[k].n
    BY <2>2 DEF Attempt
  <2>4. \A j \in Keys : CountOf(j)' = CountOf(j)
    BY <2>2, <2>3 DEF CountOf, TypeInv, TypeOK
  <2>5. \A j \in Keys : Hold(j)' = Hold(j)
    BY <2>1 DEF Hold, InHand, Working
  <2> QED BY <2>1, <2>4, <2>5 DEF AttemptsAccounted, CountOf, Hold, Exists
<1> QED BY <1>1, <1>2, OwnerCounts, WorkerAccounts DEF Next

(* The stored count of an attempt is what was consumed: the cap of
   maxIntegrityAttempts bounds claims that were not given back, across crashes,
   lost statements, releases and any number of servers. *)
THEOREM CountsExact == Spec => []AttemptsAccounted
<1>1. ASSUME Init PROVE AttemptsAccounted
  BY <1>1 DEF Init, AttemptsAccounted, Exists
<1>2. Spec => [](TypeInv /\ HoldInv /\ AttemptsAccounted)
  BY <1>1, TypeInit, TypeStep, HoldInit, HoldStep, CountStep, PTL DEF Spec
<1> QED BY <1>2, PTL

------------------------------------------------------------------------------
(* Answers.  A worker's step changes at most the result it records, and never
   one that is there. *)
LEMMA WorkerResults ==
    ASSUME TypeInv, NEW w \in Workers, WorkerStep(w) \/ Crash(w)
    PROVE  \/ results' = results
           \/ /\ Record(w) \/ RecordLost(w)
              /\ pc[w] = "record" /\ Exists(CopyOf(job[w]))
              /\ results' = [results EXCEPT ![AnsweredKey(w)] = Stored(w)]
<1>1. CASE Record(w) \/ RecordLost(w)
  BY <1>1 DEF Record, RecordLost
<1>2. CASE ~(Record(w) \/ RecordLost(w))
  BY <1>2 DEF WorkerStep, Health, List, Claim, ClaimNothing, ClaimLost, PassFails, Reload, CheckSet,
              Read, ReadLegacy, ReadFails, StatementFails, CheckAnswers, CheckFails, Complete,
              Release, EndLost, Crash, Decide
<1> QED BY <1>1, <1>2

(* Nothing but the deletion of its copy changes a stored answer. *)
LEMMA AnswersKept ==
    ASSUME TypeInv, [Next]_vars, ~DeleteCommits, NEW k \in Keys, results[k] # None
    PROVE  results'[k] = results[k]
<1>1. CASE OwnerStep \/ ServiceStep \/ UNCHANGED vars
  BY <1>1 DEF OwnerStep, Publish, Replace, ChangeAudience, DeleteRecordsFlag, DeleteRollsBack,
              ServiceStep, RolloutBegins, RolloutEnds, Rollback, ServingIs, vars
<1>2. ASSUME NEW w \in Workers, WorkerStep(w) \/ Crash(w)  PROVE results'[k] = results[k]
  BY <1>2, WorkerResults, StoredType DEF Stored, TypeInv, TypeOK
<1>3. ASSUME NEW j \in Keys, TimePasses(j)  PROVE results'[k] = results[k]
  BY <1>3 DEF TimePasses
<1> QED BY <1>1, <1>2, <1>3 DEF Next

(* A worker marks an attempt done only after it recorded an answer it owes. *)
LEMMA AnswerStep == ASSUME TypeInv, HoldInv, AnswerInv, [Next]_vars PROVE AnswerInv'
<1>1. CASE DeleteCommits
  <2>1. \A k \in Keys : attempts'[k] = None
    BY <1>1 DEF DeleteCommits, Cascade, HoldInv, IdsBorn, GoneForgotten, Exists
  <2>2. copy' = None
    BY <1>1 DEF DeleteCommits, SetCopy
  <2> QED BY <2>1, <2>2 DEF AnswerInv, SettledAnswered, DoneMeansAnswered, Exists
<1>2. CASE ~DeleteCommits
  <2>1. \A k \in Keys : results[k] # None => results'[k] # None
    BY <1>2, AnswersKept
  <2>2. \A k \in Keys, v \in Versions : <<CopyOf(k), HashOf(k), v>> \in Keys
    BY KeyParts, KeyMade
  <2>3. ASSUME UNCHANGED attempts  PROVE DoneMeansAnswered'
    BY <2>1, <2>2, <2>3 DEF AnswerInv, DoneMeansAnswered
  <2>4. ASSUME UNCHANGED <<pc, job>>,
               \A w \in Workers : pc[w] = "settled" /\ Exists(CopyOf(job[w]))' => Exists(CopyOf(job[w]))
        PROVE SettledAnswered'
    <3>1. \A w \in Workers : pc[w] = "settled" => job[w] \in Keys
      BY AtWork DEF WorkingAt
    <3> QED BY <2>1, <2>2, <2>4, <3>1 DEF AnswerInv, SettledAnswered
  <2>5. CASE OwnerStep
    <3>1. UNCHANGED <<attempts, pc, job>>
      BY <1>2, <2>5 DEF OwnerStep, Publish, Replace, ChangeAudience, DeleteRecordsFlag,
                        DeleteRollsBack, localVars
    <3>2. \A w \in Workers : pc[w] = "settled" /\ Exists(CopyOf(job[w]))' => Exists(CopyOf(job[w]))
      <4>1. ASSUME NEW id \in Copies, NEW h \in Hashes, Publish(id, h), NEW w \in Workers, pc[w] = "settled"
            PROVE ~Exists(CopyOf(job[w]))'
        <5>1. copy' = [id |-> id, hash |-> h, inSet |-> FALSE] /\ id \notin born /\ job' = job
          BY <4>1 DEF Publish, SetCopy, localVars
        <5>2. CopyOf(job[w]) \in born
          BY <4>1 DEF HoldInv, IdsBorn, WorkingAt
        <5> QED BY <5>1, <5>2 DEF Exists
      <4>2. ASSUME NEW h \in Hashes, Replace(h)  PROVE \A x : Exists(x)' <=> Exists(x)
        BY <4>2 DEF Replace, SetCopy, Exists, Copy, TypeInv, TypeOK
      <4>3. ASSUME ChangeAudience  PROVE \A x : Exists(x)' <=> Exists(x)
        BY <4>3 DEF ChangeAudience, SetCopy, Exists, Copy, TypeInv, TypeOK
      <4>4. ASSUME DeleteRecordsFlag \/ DeleteRollsBack  PROVE copy' = copy
        BY <4>4 DEF DeleteRecordsFlag, DeleteRollsBack
      <4> QED BY <1>2, <2>5, <3>1, <4>1, <4>2, <4>3, <4>4 DEF OwnerStep, Exists
    <3> QED BY <2>3, <2>4, <3>1, <3>2 DEF AnswerInv
  <2>6. CASE ServiceStep \/ UNCHANGED vars
    <3>1. UNCHANGED <<attempts, pc, job, copy>>
      BY <2>6 DEF ServiceStep, RolloutBegins, RolloutEnds, Rollback, ServingIs, rowVars, localVars, vars
    <3> QED BY <2>3, <2>4, <3>1 DEF AnswerInv, Exists
  <2>7. ASSUME NEW k \in Keys, TimePasses(k)  PROVE AnswerInv'
    <3>1. UNCHANGED <<pc, job, copy>>
      BY <2>7 DEF TimePasses, rowVars, localVars
    <3>2. attempts[k] \in Attempt
      BY <2>7 DEF TimePasses, TypeInv, TypeOK
    <3>3. [attempts[k] EXCEPT !.due = TRUE].status = attempts[k].status
      BY <3>2 DEF Attempt
    <3>4. \A j \in Keys : attempts'[j] # None => attempts[j] # None /\ attempts'[j].status = attempts[j].status
      BY <2>7, <3>3 DEF TimePasses, TypeInv, TypeOK
    <3>5. DoneMeansAnswered'
      BY <2>1, <2>2, <3>4 DEF AnswerInv, DoneMeansAnswered
    <3> QED BY <2>4, <3>1, <3>5 DEF AnswerInv, Exists
  <2>8. ASSUME NEW w \in Workers, WorkerStep(w) \/ Crash(w)  PROVE AnswerInv'
    <3>1. /\ copy' = copy
          /\ \A u \in Workers \ {w} : pc'[u] = pc[u] /\ job'[u] = job[u]
      BY <2>8, WorkerPlaces
    <3>2. pc[w] \in WorkingAt \union {"claim"} => job[w] \in Keys
      BY AtWork
    <3>3. ASSUME pc'[w] = "settled", Exists(CopyOf(job'[w]))
          PROVE  \E v \in Versions :
                    /\ v >= VersionOf(job'[w])
                    /\ results'[<<CopyOf(job'[w]), HashOf(job'[w]), v>>] # None
      <4>1. pc[w] = "record" /\ Record(w)
        BY <2>8, <3>3 DEF WorkerStep, Health, List, Claim, ClaimNothing, ClaimLost, PassFails, Reload,
               CheckSet, Read, ReadLegacy, ReadFails, StatementFails, CheckAnswers, CheckFails,
               Record, RecordLost, Complete, Release, EndLost, Crash, Decide, Finish, Goto, TypeInv, TypeOK
      <4>2. job' = job /\ Settles(w) /\ results' = [results EXCEPT ![AnsweredKey(w)] = Stored(w)]
        BY <3>1, <3>3, <4>1 DEF Record, localVars, Goto, TypeInv, TypeOK
      <4>3. /\ AnsweredKey(w) \in Keys /\ Stored(w) \in Result
            /\ answer[w].version \in Versions
        BY <4>1, StoredType, KeyParts
      <4>4. results'[AnsweredKey(w)] # None
        BY <4>2, <4>3 DEF TypeInv, TypeOK
      <4> QED BY <4>2, <4>3, <4>4 DEF Settles, AnsweredKey
    <3>4. SettledAnswered'
      <4> SUFFICES ASSUME NEW u \in Workers, pc'[u] = "settled", Exists(CopyOf(job'[u]))
                   PROVE  \E v \in Versions :
                             /\ v >= VersionOf(job'[u])
                             /\ results'[<<CopyOf(job'[u]), HashOf(job'[u]), v>>] # None
        BY <3>1 DEF SettledAnswered, Exists
      <4>1. CASE u # w
        <5>1. job[u] \in Keys /\ pc[u] = "settled" /\ job'[u] = job[u]
          BY <3>1, <4>1, AtWork DEF WorkingAt
        <5> QED BY <2>1, <2>2, <5>1 DEF AnswerInv, SettledAnswered
      <4> QED BY <3>3, <4>1
    <3>5. ASSUME NEW k \in Keys, attempts'[k] # None, attempts'[k].status = "done"
          PROVE  \/ attempts[k] # None /\ attempts[k].status = "done"
                 \/ k = job[w] /\ pc[w] = "settled" /\ Exists(CopyOf(k))
      <4>1. CASE attempts'[k] = attempts[k]
        BY <3>5, <4>1
      <4>2. CASE attempts'[k] # attempts[k] /\ (Claims(w) \/ ClaimedAndLost(w))
        BY <3>2, <3>5, <4>2 DEF Claims, ClaimedAndLost, Taken, TypeInv, TypeOK
      <4>3. CASE attempts'[k] # attempts[k] /\ EndsSpent(w)
        <5>1. k = job[w] /\ attempts[k] # None /\ attempts'[k] = Completed(w)
          BY <3>2, <4>3 DEF EndsSpent, Working, TypeInv, TypeOK
        <5>2. Exists(CopyOf(k))
          BY <5>1 DEF HoldInv, GoneForgotten
        <5> QED BY <3>5, <5>1, <5>2, CompletedType
      <4>4. CASE attempts'[k] # attempts[k] /\ EndsReleased(w)
        <5>1. k = job[w] /\ attempts'[k] = Released(k)
          BY <3>2, <4>4 DEF EndsReleased, Working, TypeInv, TypeOK
        <5> QED BY <3>5, <5>1, ReleasedType
      <4> QED BY <2>8, <4>1, <4>2, <4>3, <4>4, WorkerCounts
    <3>6. DoneMeansAnswered'
      <4> SUFFICES ASSUME NEW k \in Keys, attempts'[k] # None, attempts'[k].status = "done"
                   PROVE  \E v \in Versions :
                             v >= VersionOf(k) /\ results'[<<CopyOf(k), HashOf(k), v>>] # None
        BY DEF DoneMeansAnswered
      <4>1. \E v \in Versions : v >= VersionOf(k) /\ results[<<CopyOf(k), HashOf(k), v>>] # None
        BY <3>5 DEF AnswerInv, DoneMeansAnswered, SettledAnswered
      <4> QED BY <2>1, <2>2, <4>1
    <3> QED BY <3>4, <3>6 DEF AnswerInv
  <2> QED BY <2>5, <2>6, <2>7, <2>8 DEF Next
<1> QED BY <1>1, <1>2

(* An attempt marked done has an answer of its version or a later one behind it,
   for every number of versions in service and every late answer of an older one. *)
THEOREM DoneIsAnswered == Spec => []DoneMeansAnswered
<1>1. ASSUME Init PROVE AnswerInv
  BY <1>1 DEF Init, AnswerInv, SettledAnswered, DoneMeansAnswered
<1>2. Spec => [](TypeInv /\ HoldInv /\ AnswerInv)
  BY <1>1, TypeInit, TypeStep, HoldInit, HoldStep, AnswerStep, PTL DEF Spec
<1>3. AnswerInv => DoneMeansAnswered
  BY DEF AnswerInv
<1> QED BY <1>2, <1>3, PTL

------------------------------------------------------------------------------
(* Contents.  A key was listed from the checked set, so its content was exposed,
   and only that content is sent and answered. *)
LEMMA ContentStep == ASSUME TypeInv, ContentInv, [Next]_vars PROVE ContentInv'
<1>1. CASE OwnerStep
  <2>1. UNCHANGED <<pc, job, sent>> /\ exposed \subseteq exposed'
    BY <1>1 DEF OwnerStep, Publish, Replace, ChangeAudience, DeleteRecordsFlag, DeleteCommits,
                DeleteRollsBack, SetCopy, localVars
  <2>2. copy' # None /\ copy'.inSet => <<copy'.id, copy'.hash>> \in exposed'
    <3>1. ASSUME NEW c, SetCopy(c)
          PROVE  copy' # None /\ copy'.inSet => <<copy'.id, copy'.hash>> \in exposed'
      BY <3>1 DEF SetCopy
    <3>2. CASE UNCHANGED <<copy, exposed>>
      BY <3>2 DEF ContentInv, ListedExposed
    <3>3. (\E c : SetCopy(c)) \/ UNCHANGED <<copy, exposed>>
      BY <1>1 DEF OwnerStep, Publish, Replace, ChangeAudience, DeleteRecordsFlag, DeleteCommits,
                  DeleteRollsBack
    <3> QED BY <3>1, <3>2, <3>3
  <2>3. \A k \in Keys : results'[k] = results[k] \/ results'[k] = None
    BY <1>1 DEF OwnerStep, Publish, Replace, ChangeAudience, DeleteRecordsFlag, DeleteCommits,
                DeleteRollsBack, Cascade
  <2> QED BY <2>1, <2>2, <2>3 DEF ContentInv, ListedExposed, ContentGuarded, AnswersMatchContent,
                                 SentWasExposed
<1>2. CASE ServiceStep \/ UNCHANGED vars
  <2>1. UNCHANGED <<copy, exposed, results, sent, pc, job>>
    BY <1>2 DEF ServiceStep, RolloutBegins, RolloutEnds, Rollback, ServingIs, rowVars, localVars, vars
  <2> QED BY <2>1 DEF ContentInv, ListedExposed, ContentGuarded, AnswersMatchContent, SentWasExposed
<1>3. ASSUME NEW k \in Keys, TimePasses(k)  PROVE ContentInv'
  <2>1. UNCHANGED <<copy, exposed, results, sent, pc, job>>
    BY <1>3 DEF TimePasses, rowVars, localVars
  <2> QED BY <2>1 DEF ContentInv, ListedExposed, ContentGuarded, AnswersMatchContent, SentWasExposed
<1>4. ASSUME NEW w \in Workers, WorkerStep(w) \/ Crash(w)  PROVE ContentInv'
  <2>1. /\ UNCHANGED <<copy, exposed>>
        /\ \A u \in Workers \ {w} : pc'[u] = pc[u] /\ job'[u] = job[u]
        /\ Quits(w) \/ GoesOn(w) \/ Claims(w) \/ Lists(w)
    BY <1>4, WorkerPlaces
  <2>2. Lists(w) => <<CopyOf(job'[w]), HashOf(job'[w])>> \in exposed
    <3>1. Lists(w) => copy \in Copy
      BY DEF Lists, TypeInv, TypeOK
    <3> QED BY <3>1, KeyMade DEF Lists, KeyUnder, Copy, ContentInv, ListedExposed
  <2>3. ListedExposed'
    BY <2>1, <2>2 DEF Quits, GoesOn, Claims, Working, WorkingAt, ContentInv, ListedExposed
  <2>4. SentWasExposed'
    <3>1. CASE sent' = sent
      BY <2>1, <3>1 DEF ContentInv, ContentGuarded, SentWasExposed
    <3>2. CASE CheckAnswers(w) \/ CheckFails(w)
      <4>1. /\ pc[w] = "send" /\ got[w] = HashOf(job[w])
            /\ sent' = sent \union {<<CopyOf(job[w]), got[w]>>}
        BY <3>2 DEF CheckAnswers, CheckFails, TypeInv, LocalsLoaded
      <4>2. <<CopyOf(job[w]), HashOf(job[w])>> \in exposed
        BY <4>1 DEF ContentInv, ListedExposed, WorkingAt
      <4> QED BY <2>1, <4>1, <4>2 DEF ContentInv, ContentGuarded, SentWasExposed
    <3> QED BY <1>4, <3>1, <3>2 DEF WorkerStep, Health, List, Claim, ClaimNothing, ClaimLost, PassFails,
               Reload, CheckSet, Read, ReadLegacy, ReadFails, StatementFails, Record, RecordLost,
               Complete, Release, EndLost, Crash, Decide
  <2>5. AnswersMatchContent'
    <3>1. CASE results' = results
      BY <3>1 DEF ContentInv, ContentGuarded, AnswersMatchContent
    <3>2. CASE pc[w] = "record" /\ results' = [results EXCEPT ![AnsweredKey(w)] = Stored(w)]
      <4>1. AnsweredKey(w) \in Keys /\ HashOf(AnsweredKey(w)) = HashOf(job[w])
        BY <3>2, StoredType
      <4>2. got[w] = HashOf(job[w])
        BY <3>2 DEF TypeInv, LocalsLoaded
      <4>3. Stored(w).of = HashOf(AnsweredKey(w))
        BY <4>1, <4>2 DEF Stored, ContentInv, ContentGuarded, AnswersMatchContent
      <4> QED BY <3>2, <4>1, <4>3 DEF ContentInv, ContentGuarded, AnswersMatchContent, TypeInv, TypeOK
    <3> QED BY <1>4, <3>1, <3>2, WorkerResults
  <2> QED BY <2>3, <2>4, <2>5 DEF ContentInv, ContentGuarded
<1> QED BY <1>1, <1>2, <1>3, <1>4 DEF Next

(* Whatever is replaced or hidden between listing, reload, object read and retry,
   nothing private is sent and an answer is filed under the content it examined. *)
THEOREM ContentSafe == Spec => []ContentGuarded
<1>1. ASSUME Init PROVE ContentInv
  BY <1>1 DEF Init, ContentInv, ListedExposed, ContentGuarded, AnswersMatchContent, SentWasExposed,
              WorkingAt
<1>2. Spec => [](TypeInv /\ ContentInv)
  BY <1>1, TypeInit, TypeStep, ContentStep, PTL DEF Spec
<1>3. ContentInv => ContentGuarded
  BY DEF ContentInv
<1> QED BY <1>2, <1>3, PTL

(* A session whose record exists starts out flagged with every later copy:
   InheritIntegrityTombstone runs in the transaction of the first publish, and
   nothing but a deletion takes the inherited flag away. *)
THEOREM RecordFollows == Spec => []RecordInherited
<1>1. ASSUME Init PROVE RecordInherited
  BY <1>1 DEF Init, RecordInherited
<1>2. ASSUME TypeInv, RecordInherited, [Next]_vars  PROVE RecordInherited'
  <2>1. CASE UNCHANGED <<tombstone, inherited, copy>>
    BY <1>2, <2>1 DEF RecordInherited
  <2>2. ASSUME NEW id \in Copies, NEW h \in Hashes, Publish(id, h)  PROVE RecordInherited'
    BY <2>2 DEF Publish, SetCopy, RecordInherited
  <2>3. ASSUME NEW h \in Hashes, Replace(h)  PROVE RecordInherited'
    <3>1. copy \in Copy
      BY <1>2, <2>3 DEF Replace, TypeInv, TypeOK
    <3>2. copy'.id = copy.id
      BY <2>3, <3>1 DEF Replace, SetCopy, Copy
    <3> QED BY <1>2, <2>3, <3>2 DEF Replace, RecordInherited
  <2>4. CASE ChangeAudience
    <3>1. copy \in Copy
      BY <1>2, <2>4 DEF ChangeAudience, TypeInv, TypeOK
    <3>2. copy'.id = copy.id
      BY <2>4, <3>1 DEF ChangeAudience, SetCopy, Copy
    <3> QED BY <1>2, <2>4, <3>2 DEF ChangeAudience, RecordInherited
  <2>5. CASE DeleteCommits
    BY <2>5 DEF DeleteCommits, SetCopy, RecordInherited
  <2>6. CASE DeleteRecordsFlag \/ DeleteRollsBack \/ ServiceStep \/ UNCHANGED vars
    BY <2>1, <2>6 DEF DeleteRecordsFlag, DeleteRollsBack, ServiceStep, RolloutBegins, RolloutEnds,
                      Rollback, ServingIs, rowVars, vars
  <2>7. ASSUME NEW k \in Keys, TimePasses(k)  PROVE RecordInherited'
    BY <2>1, <2>7 DEF TimePasses, rowVars
  <2>8. ASSUME NEW w \in Workers, WorkerStep(w) \/ Crash(w)  PROVE RecordInherited'
    BY <1>2, <2>1, <2>8, WorkerPlaces
  <2> QED BY <1>2, <2>2, <2>3, <2>4, <2>5, <2>6, <2>7, <2>8 DEF Next, OwnerStep
<1> QED BY <1>1, <1>2, TypeInit, TypeStep, PTL DEF Spec

------------------------------------------------------------------------------
(* A flag that closes is closed by a clean answer of a later version that was not
   there before. *)
LEMMA FlagStep ==
    ASSUME TypeInv, [Next]_vars, NEW k \in Keys, FlagOpen(results, k), copy' # None,
           ~FlagOpen(results', k)
    PROVE  \E v \in Versions :
              LET c == <<CopyOf(k), HashOf(k), v>>
              IN  /\ v > VersionOf(k)
                  /\ results[c] = None
                  /\ results'[c] # None
                  /\ results'[c].verdict = "clean"
<1>1. ~DeleteCommits
  BY DEF DeleteCommits, SetCopy
<1>2. \A j \in Keys : results[j] # None => results'[j] = results[j]
  BY <1>1, AnswersKept
<1>3. results'[k] = results[k]
  BY <1>2 DEF FlagOpen
<1>4. PICK v \in Versions :
         LET c == results'[<<CopyOf(k), HashOf(k), v>>]
         IN  v > VersionOf(k) /\ c # None /\ c.verdict = "clean"
  BY <1>3 DEF FlagOpen
<1>5. <<CopyOf(k), HashOf(k), v>> \in Keys
  BY KeyParts, KeyMade
<1> QED BY <1>2, <1>4, <1>5 DEF FlagOpen

(* A stored answer is changed by nothing but the deletion of its copy, and an open
   flag is closed only by a later version's clean answer on the same content: an
   older checker that answers late, or answers twice, settles nothing. *)
THEOREM AnswersHold == Spec => AnswersStand
<1>1. ASSUME TypeInv, [Next]_vars
      PROVE  [\A k \in Keys :
                results[k] # None /\ Exists(CopyOf(k)) /\ copy' # None
                    => results'[k] = results[k]]_vars
  <2>1. copy' # None => ~DeleteCommits
    BY DEF DeleteCommits, SetCopy
  <2> QED BY <1>1, <2>1, AnswersKept
<1>2. ASSUME TypeInv, [Next]_vars
      PROVE  [\A k \in Keys :
                FlagOpen(results, k) /\ copy' # None /\ ~FlagOpen(results', k) =>
                    \E v \in Versions :
                        LET c == <<CopyOf(k), HashOf(k), v>>
                        IN  /\ v > VersionOf(k)
                            /\ results[c] = None
                            /\ results'[c] # None
                            /\ results'[c].verdict = "clean"]_vars
  BY <1>2, FlagStep
<1>3. Spec => []TypeInv
  BY TypeInit, TypeStep, PTL DEF Spec
<1>4. Spec => FirstAnswerStays
  BY <1>1, <1>3, PTL DEF Spec, FirstAnswerStays
<1>5. Spec => OnlyLaterCleanVoids
  BY <1>2, <1>3, PTL DEF Spec, OnlyLaterCleanVoids
<1> QED BY <1>4, <1>5 DEF AnswersStand
=============================================================================
