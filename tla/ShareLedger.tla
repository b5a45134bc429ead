---------------------------- MODULE ShareLedger ----------------------------
(***************************************************************************)
(* The statements that read and write the submissions of one transcript to *)
(* one collective.  A ledger is the sequence of the statuses of the pair's *)
(* events, its index the event_num: UNIQUE (transcript_id, group_id,       *)
(* event_num) with an append at MAX + 1 keeps it dense.  The row of        *)
(* transcript_shares is derived from the latest event by a trigger.        *)
(***************************************************************************)
EXTENDS Naturals, Sequences

CONSTANT None

Statuses == {"pending", "approved", "rejected", "retracted", "revoked"}

(* What the status column of transcript_shares can hold. *)
ShareRows == {"pending", "approved", "rejected"}

(* An attempt that still occupies the transcript's place in the collective. *)
shareAttemptIsLive(status) == status \in {"pending", "approved"}

(* The pair's most recent event, None when it was never submitted. *)
GetLatestShareAttempt(ledger) ==
    IF ledger = <<>> THEN None ELSE ledger[Len(ledger)]

IsLive(ledger) == shareAttemptIsLive(GetLatestShareAttempt(ledger))

(* The row trg_derive_transcript_share leaves after any insert or update. *)
DerivedRow(ledger) ==
    LET latest == GetLatestShareAttempt(ledger)
    IN  IF latest \in ShareRows THEN latest ELSE None

(* uq_share_attempt_open: at most one open attempt. *)
OpenAttemptAdmits(ledger, status) ==
    status = "pending" => \A i \in DOMAIN ledger : ledger[i] # "pending"

(* The owner submits: the next event. *)
ShareTranscriptWithStatus(ledger, status) == Append(ledger, status)

(* A moderator decides the open attempt, and only an open one. *)
UpdateShareStatus(ledger, status) ==
    [i \in DOMAIN ledger |-> IF ledger[i] = "pending" THEN status ELSE ledger[i]]

HasOpen(ledger) == \E i \in DOMAIN ledger : ledger[i] = "pending"

(* The event the withdrawal statements find: the latest LIVE one, which is not
   the latest one after a withdrawal.  0 when there is none. *)
LiveEvent(ledger) ==
    LET live == {i \in DOMAIN ledger : shareAttemptIsLive(ledger[i])}
    IN  IF live = {} THEN 0 ELSE CHOOSE i \in live : \A j \in live : j <= i

(* An open submission is closed in place; an accepted one gets a further event
   numbered after it, which UNIQUE refuses when that number is taken. *)
WithdrawalAdmitted(ledger) ==
    LET k == LiveEvent(ledger)
    IN  (k > 0 /\ ledger[k] = "approved") => k = Len(ledger)

Withdrawn(ledger, status) ==
    LET k == LiveEvent(ledger)
    IN  IF k = 0 THEN ledger
        ELSE IF ledger[k] = "pending" THEN [ledger EXCEPT ![k] = status]
        ELSE Append(ledger, status)

UnshareTranscript(ledger) == Withdrawn(ledger, "retracted")

RemoveGroupTranscript(ledger) == Withdrawn(ledger, "revoked")

RetractUserSharesInGroup(ledger) == Withdrawn(ledger, "retracted")
=============================================================================
