------------------------- MODULE MCIntegrityCheck -------------------------
(***************************************************************************)
(* Small instances of IntegrityCheck, and a case split for its safety.     *)
(* "servers": two servers, two checker versions and every fault work on    *)
(* one content.  "copies": one server follows two copies and two contents  *)
(* that are published, replaced and deleted, under one version and without *)
(* faults.  "all" fixes nothing.  Workers differ in nothing but their      *)
(* name; symmetry is used only where no liveness property is checked.      *)
(***************************************************************************)
EXTENDS IntegrityCheck, TLC

CONSTANTS t1, h1, Cases

VARIABLE case

mcVars == <<vars, case>>

WorkerSymmetry == Permutations(Workers)

Fixed ==
    CASE case = "all" -> TRUE
      [] case = "servers" ->
           /\ copy = None \/ (copy.id = t1 /\ copy.hash = h1)
           /\ deleting = None
      [] OTHER ->
           /\ \E w \in Workers : \A u \in Workers \ {w} : held[u] = 0 /\ pc[u] = "idle"
           /\ \A k \in Keys : attempts[k] # None => attempts[k].n = 1

(* The steps of a worker whose statements and calls return. *)
CleanStep(w) ==
    \/ Health(w) \/ List(w) \/ Claim(w) \/ ClaimNothing(w)
    \/ Reload(w) \/ CheckSet(w) \/ Read(w) \/ ReadLegacy(w) \/ ReadFails(w)
    \/ CheckAnswers(w) \/ (CheckFails(w) /\ pc'[w] # "refused")
    \/ Record(w) \/ Complete(w) \/ Release(w)

CopiesNext ==
    \/ OwnerStep
    \/ \E w \in Workers : CleanStep(w)
    \/ \E k \in Keys : TimePasses(k)

MCInit == Init /\ case \in Cases

MCNext ==
    /\ \/ case \in {"all", "servers"} /\ Next
       \/ case = "copies" /\ CopiesNext
    /\ UNCHANGED case
    /\ Fixed'

MCSpec == MCInit /\ [][MCNext]_mcVars

MCFairSpec == MCSpec /\ Fairness
=============================================================================
