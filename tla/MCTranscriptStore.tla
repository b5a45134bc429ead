------------------------- MODULE MCTranscriptStore -------------------------
(***************************************************************************)
(* Small instances of TranscriptStore.  Publish p1 and p2 carry            *)
(* authoritative metadata, p3 is a legacy publish; p1 and p3 carry the     *)
(* same content, so an exact replay needs a retry of p1's content by an    *)
(* authoritative request and p4 is that retry.                             *)
(*                                                                         *)
(* Not every request has to meet every other at once: a behaviour plays    *)
(* one case, and requests outside it stay idle.                            *)
(***************************************************************************)
EXTENDS TranscriptStore, TLC

CONSTANTS p1, p2, p3, p4, c1, c2, w1, d1, k1, r1, Cases

VARIABLE case

MCSubmitted ==
    [p \in Publishers |-> IF p = p2 THEN c2 ELSE c1]

MCAuthoritative == Publishers \ {p3}

(* Who takes part. *)
Playing ==
    CASE case = "everyone" -> Requests
      [] case = "writers"  -> {p1, p2, w1}
      [] case = "dying"    -> {p1, p2, d1}
      [] case = "deleted"  -> {p1, p3, d1, r1}
      [] case = "rotated"  -> {p1, p3, k1, r1}
      [] case = "once"     -> {p1, d1, k1, r1}

(* The faults of the instance that a case suffers. *)
Unconfirmed ==
    \E r \in Requests : pc[r] \in {"persist", "delete"} /\ pc'[r] # pc[r] /\ evidence' # evidence

Disconnected == lock # None /\ lock' = None /\ UNCHANGED pc

Dies == \E r \in Requests : pc[r] # "crashed" /\ pc'[r] = "crashed"

StoredLate == \E o \in objects' \ objects : pc'[o[2]] \notin {"putMeta", "persist"}

Suffers ==
    CASE case = "everyone" -> TRUE
      [] case = "writers"  -> ~Dies /\ ~StoredLate
      [] case = "dying"    -> ~Disconnected
      [] OTHER -> ~Unconfirmed /\ ~Disconnected /\ ~Dies /\ ~StoredLate

(* p1 with c1 and p2 with c2 may trade places where both play and p3 does not.
   In the other cases p2 stays idle, so no reached state has a counterpart. *)
Traded ==
    {f \in Permutations({p1, p2, c1, c2}) :
        \A p \in {p1, p2} : f[p] \in {p1, p2} /\ f[MCSubmitted[p]] = MCSubmitted[f[p]]}

MCInit == Init /\ case \in Cases

MCNext ==
    /\ Next
    /\ UNCHANGED case
    /\ \A r \in Requests \ Playing : pc'[r] = "idle"
    /\ Suffers
    /\ case \in {"rotated", "once", "everyone"} \/ audience' # "shared"

MCSpec == MCInit /\ [][MCNext]_<<vars, case>>

MCFairSpec == MCSpec /\ Fairness
=============================================================================
