---------------------------- MODULE Contribution ----------------------------
(***************************************************************************)
(* What a collective promises about the transcripts submitted to it: where *)
(* each submission stands, and the only ways its standing moves.           *)
(***************************************************************************)
EXTENDS Naturals

CONSTANTS Groups, Transcripts

VARIABLE standing

(* never: no submission was ever made.  open: awaiting review.  accepted: part
   of the collective's data.  declined: the collective refused it.  closed:
   withdrawn by its owner or removed by the collective. *)
Standings == {"never", "open", "accepted", "declined", "closed"}

Init == standing \in [Groups -> [Transcripts -> Standings]]

Move(moves) ==
    standing' = [g \in Groups |-> [t \in Transcripts |->
                    IF <<g, t>> \in DOMAIN moves THEN moves[<<g, t>>] ELSE standing[g][t]]]

Moves(from, to) ==
    \E pairs \in SUBSET {p \in Groups \X Transcripts : standing[p[1]][p[2]] \in from} :
        \E moves \in [pairs -> to] : Move(moves)

(* A submission starts only where none is open or accepted. *)
Submit == Moves({"never", "declined", "closed"}, {"open", "accepted"})

(* Only an open submission is decided, once. *)
Decide == Moves({"open"}, {"accepted", "declined"})

(* Only an open or accepted submission is closed. *)
Close == Moves({"open", "accepted"}, {"closed"})

(* A collective or a transcript goes away with its submissions. *)
Clear ==
    \/ \E g \in Groups : standing' = [standing EXCEPT ![g] = [t \in Transcripts |-> "never"]]
    \/ \E t \in Transcripts : standing' = [g \in Groups |-> [standing[g] EXCEPT ![t] = "never"]]

Next == Submit \/ Decide \/ Close \/ Clear

Spec == Init /\ [][Next]_standing
=============================================================================
