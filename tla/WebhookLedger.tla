---------------------------- MODULE WebhookLedger ----------------------------
(* The ledger of GitHub webhook deliveries (handler/github_webhook.go) and the
   dispatcher behind it (handler/github_dispatcher.go).  GitHub sends a delivery
   once and an operator may have it sent again at any time, so several attempts
   at one delivery can run at once; an attempt may die between any two
   statements.  What a dispatched command does to its pull request is module
   PromptAttachment; here it is done, refused or failed. *)
EXTENDS Naturals, FiniteSets

CONSTANTS
    Deliveries,     \* X-GitHub-Delivery ids
    Attempts,       \* requests to the receiver
    Event,          \* what each delivery says: a record of EventShape
    NoDelivery,     \* of an attempt that has not begun
    MaxCrashes

EventShape ==
    [type : {"installation", "pull_request", "check_run", "issue_comment", "other"},
     readable : BOOLEAN,        \* the payload decodes
     asks : {"opened", "synchronize", "closed", "attach", "detach", "refresh", "none"},
     onPull : BOOLEAN,          \* it names a pull request
     sender : {"author", "collaborator", "stranger", "unknown"}]

ASSUME WebhookAssumption ==
    /\ Event \in [Deliveries -> EventShape]
    /\ NoDelivery \notin Deliveries
    /\ MaxCrashes \in Nat

VARIABLES
    delivery,   \* github_webhook_deliveries: status and attempts, "none" for no row
    linked,     \* a collective links the events' repository
    attempt,    \* where each attempt is, its delivery and its answer
    outcome,    \* history: what the dispatches of a delivery came to
    crashes

webhookVars == <<delivery, linked, attempt, outcome, crashes>>

(* done: the command was carried out.  nothing: there was nothing to do.
   dropped: the link could not be read, which is taken for no link. *)
Outcomes == {"done", "nothing", "dropped", "failed"}

Statuses == {"none", "pending", "handled", "failed"}

LedgerShape ==
    /\ delivery \in [Deliveries -> [status : Statuses, attempts : Nat]]
    /\ attempt \in [Attempts -> [pc : {"idle", "dispatch", "complete", "fail", "done"},
                                 d : Deliveries \union {NoDelivery},
                                 said : {"none", "replay", "accepted", "error"}]]
    /\ outcome \in [Deliveries -> SUBSET Outcomes]

(* Every variable holds a value of its kind. *)
WebhookTypeOK == LedgerShape /\ linked \in BOOLEAN /\ crashes \in 0..MaxCrashes

WebhookInit ==
    /\ delivery = [d \in Deliveries |-> [status |-> "none", attempts |-> 0]]
    /\ linked \in BOOLEAN
    /\ attempt = [a \in Attempts |-> [pc |-> "idle", d |-> NoDelivery, said |-> "none"]]
    /\ outcome = [d \in Deliveries |-> {}]
    /\ crashes = 0

------------------------------------------------------------------------------
(* matcher.Authorize.  Only the sender of a comment has an association; a click
   on a check run comes without one. *)
Authorize(e) ==
    CASE e.asks \notin {"attach", "detach"} -> "ignore"
      [] e.sender = "unknown" -> "ignore"
      [] e.sender = "author" -> "proceed"
      [] e.asks = "attach" /\ e.type = "issue_comment" /\ e.sender = "collaborator" -> "request"
      [] OTHER -> "ignore"

(* promptCommandDispatcher: does the event ask for anything? *)
PullRequest(e) == e.asks \in {"opened", "synchronize"}
CheckRun(e) == e.asks \in {"attach", "detach", "refresh"} /\ e.onPull
IssueComment(e) == e.asks \in {"attach", "detach"} /\ e.onPull

(* github.Dispatch: an installation, and an event nobody subscribed to, need
   nothing. *)
Asks(e) ==
    \/ e.type = "pull_request" /\ PullRequest(e)
    \/ e.type = "check_run" /\ CheckRun(e)
    \/ e.type = "issue_comment" /\ IssueComment(e)

Decoded(e) == e.type \in {"pull_request", "check_run", "issue_comment"} => e.readable

(* applyPromptCommand and refreshAttachmentForCommand: a command from someone
   who may not give it is ignored. *)
Heard(e) ==
    \/ e.type = "pull_request"
    \/ Authorize(e) # "ignore"
    \/ e.asks = "refresh" /\ e.sender = "author"

------------------------------------------------------------------------------
At(a, label) == attempt[a].pc = label

Moves(a, label) == attempt' = [attempt EXCEPT ![a].pc = label]

Answers(a, what) == attempt' = [attempt EXCEPT ![a].pc = "done", ![a].said = what]

(* RecordGitHubWebhookDelivery: a new row, or the status of the one there is. *)
Recorded(d) ==
    IF delivery[d].status = "none"
    THEN [delivery EXCEPT ![d].status = "pending"]
    ELSE delivery

(* ReceiveGitHubWebhook up to the dispatch. *)
ReceiveGitHubWebhook(a, d) ==
    /\ At(a, "idle")
    /\ delivery' = Recorded(d)
    /\ attempt' = [attempt EXCEPT ![a] =
          IF delivery[d].status = "handled"
          THEN [pc |-> "done", d |-> d, said |-> "replay"]
          ELSE [pc |-> "dispatch", d |-> d, said |-> "none"]]
    /\ UNCHANGED <<linked, outcome, crashes>>

(* The delivery could not be recorded. *)
NotRecorded(a, d) ==
    /\ At(a, "idle")
    /\ attempt' = [attempt EXCEPT ![a] = [pc |-> "done", d |-> d, said |-> "error"]]
    /\ UNCHANGED <<delivery, linked, outcome, crashes>>

Comes(a, what, label) ==
    /\ Moves(a, label)
    /\ outcome' = [outcome EXCEPT ![attempt[a].d] = @ \union {what}]
    /\ UNCHANGED <<delivery, linked, crashes>>

(* The handling point returns nil. *)
Dispatched(a) ==
    LET e == Event[attempt[a].d]
    IN  /\ At(a, "dispatch")
        /\ Decoded(e)
        /\ \/ ~(Asks(e) /\ linked /\ Heard(e)) /\ Comes(a, "nothing", "complete")
           \/ Asks(e) /\ Comes(a, "dropped", "complete")
           \/ Asks(e) /\ linked /\ Heard(e) /\ Comes(a, "done", "complete")

(* It returns an error: the payload does not decode, or GitHub or the database
   failed on the way. *)
DispatchFails(a) ==
    LET e == Event[attempt[a].d]
    IN  /\ At(a, "dispatch")
        /\ ~Decoded(e) \/ (Asks(e) /\ (linked \/ e.asks = "refresh"))
        /\ Comes(a, "failed", "fail")

(* Seeded fault: a late failure is written over a handled row. *)
Complete_Overwrites(d, status) ==
    [delivery EXCEPT ![d] = [status |-> status, attempts |-> @.attempts + 1]]

(* CompleteGitHubWebhookDelivery: handled is absorbing. *)
Complete(d, status) ==
    IF status = "handled" \/ delivery[d].status # "handled"
    THEN [delivery EXCEPT ![d] = [status |-> status, attempts |-> @.attempts + 1]]
    ELSE delivery

Handled(a) ==
    /\ At(a, "complete")
    /\ delivery' = Complete(attempt[a].d, "handled")
    /\ Answers(a, "accepted")
    /\ UNCHANGED <<linked, outcome, crashes>>

failGitHubWebhookDelivery(a) ==
    /\ At(a, "fail")
    /\ delivery' = Complete(attempt[a].d, "failed")
    /\ Answers(a, "error")
    /\ UNCHANGED <<linked, outcome, crashes>>

(* The outcome cannot be written: the row stays as it is. *)
NotCompleted(a) ==
    /\ At(a, "complete") \/ At(a, "fail")
    /\ Answers(a, "error")
    /\ UNCHANGED <<delivery, linked, outcome, crashes>>

(* The server dies: no attempt answers any more. *)
ServerDies ==
    /\ crashes < MaxCrashes
    /\ crashes' = crashes + 1
    /\ attempt' = [a \in Attempts |->
          IF attempt[a].pc = "idle" THEN attempt[a] ELSE [attempt[a] EXCEPT !.pc = "done"]]
    /\ UNCHANGED <<delivery, linked, outcome>>

(* A collective links or unlinks the repository (module CollectiveRepos). *)
LinkMoves ==
    /\ linked' = ~linked
    /\ UNCHANGED <<delivery, attempt, outcome, crashes>>

WebhookNext ==
    \/ \E a \in Attempts :
          \/ \E d \in Deliveries : ReceiveGitHubWebhook(a, d) \/ NotRecorded(a, d)
          \/ Dispatched(a) \/ DispatchFails(a)
          \/ Handled(a) \/ failGitHubWebhookDelivery(a) \/ NotCompleted(a)
    \/ ServerDies
    \/ LinkMoves

WebhookSpec == WebhookInit /\ [][WebhookNext]_webhookVars

------------------------------------------------------------------------------
(* A delivery recorded as handled was taken to its end by some attempt. *)
HandledWasDispatched ==
    \A d \in Deliveries :
        delivery[d].status = "handled" => outcome[d] \ {"failed"} # {}

(* What GitHub was told is what the ledger says. *)
AcceptedIsHandled ==
    \A a \in Attempts :
        attempt[a].said \in {"accepted", "replay"} => delivery[attempt[a].d].status = "handled"

(* Nothing will be dispatched for the delivery any more. *)
Settled(d) ==
    /\ delivery[d].status = "handled"
    /\ \A a \in Attempts : attempt[a].d = d => ~At(a, "dispatch")

(* Once a delivery is handled and its attempts have left the dispatcher it stays
   so, however many attempts are still to write their outcome or still to come
   (CompleteGitHubWebhookDelivery: "handled is ABSORBING"). *)
SettledStays == [][\A d \in Deliveries : Settled(d) => Settled(d)']_webhookVars

(* The ledger and its attempts agree: HandledWasDispatched and AcceptedIsHandled
   always, and SettledStays. *)
DeliveriesSettle ==
    /\ [](HandledWasDispatched /\ AcceptedIsHandled)
    /\ SettledStays
=============================================================================
