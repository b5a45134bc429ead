-------------------------- MODULE NotificationEmail --------------------------
(***************************************************************************)
(* A person's notification address and the invitation emails sent to it.   *)
(* Setting an address and mailing an invitation are chains of statements   *)
(* with the mail provider at the end, and neither holds anything locked:   *)
(* the address can be replaced, removed or opted out in between.           *)
(***************************************************************************)
EXTENDS Naturals, FiniteSets

CONSTANTS
    People,
    Mailboxes,              \* addresses; whoever reads one sees the codes sent to it
    AddressRequests,        \* requests that set an address, in flight
    Notices,                \* invitation emails in flight
    MaxCodesMailed,         \* bound on the verification codes generated
    verificationEmailsPerUserPerDay,
    invitationEmailsPerRecipientPerDay,
    Blank                   \* the absent row, address or code

VARIABLES
    address,    \* user_notification_emails: [to, verified, code, wants], or Blank
    expired,    \* codes older than their lifetime
    setting,    \* requests in flight: [at, who, to, code]
    nextMail,   \* the next code
    delivered,  \* codes that reached a mailbox: [who, to, code]
    confirmed,  \* history: <<who, to>> whose mailbox answered with its code
    optedOut,   \* history: the last choice the person made was "no emails"
    slots,      \* user_daily_quotas of today, by quota
    notice,     \* notices in flight: [at, who, to]
    mailed      \* history: invitations sent: [who, to, consented]

AddressRow == [to : Mailboxes \union {Blank}, verified : BOOLEAN,
               code : Nat \union {Blank}, wants : BOOLEAN]

ASSUME EmailAssumption ==
    /\ {MaxCodesMailed, verificationEmailsPerUserPerDay, invitationEmailsPerRecipientPerDay}
         \subseteq Nat
    /\ Blank \notin Nat \union Mailboxes /\ Blank \notin AddressRow

emailVars == <<address, expired, setting, nextMail, delivered, confirmed, optedOut,
               slots, notice, mailed>>

NoRequest == [at |-> "none"]
Quotas == {"verification_email", "invitation_email"}

EmailInit ==
    /\ address = [p \in People |-> Blank]
    /\ expired = {} /\ delivered = {} /\ confirmed = {} /\ optedOut = {} /\ mailed = {}
    /\ setting = [r \in AddressRequests |-> NoRequest]
    /\ nextMail = 1
    /\ slots = [p \in People |-> [q \in Quotas |-> 0]]
    /\ notice = [n \in Notices |-> NoRequest]

(* One conditional upsert: a slot is taken, or the limit is reached.       *)
takeQuota(p, q, limit, taken) ==
    IF slots[p][q] < limit
    THEN taken /\ slots' = [slots EXCEPT ![p][q] = @ + 1]
    ELSE ~ taken /\ UNCHANGED slots

DayPasses ==
    /\ slots' = [p \in People |-> [q \in Quotas |-> 0]]
    /\ UNCHANGED <<address, expired, setting, nextMail, delivered, confirmed, optedOut,
                   notice, mailed>>

-----------------------------------------------------------------------------
(* Setting the address: read, count, save, send.                           *)

Kept(p, a) == address[p] # Blank /\ address[p].to = a /\ address[p].verified

SetMyNotificationEmail(r, p, a) ==
    /\ setting[r] = NoRequest
    /\ setting' = [setting EXCEPT ![r] =
                    IF Kept(p, a) THEN NoRequest
                    ELSE [at |-> "count", who |-> p, to |-> a, code |-> Blank]]
    /\ UNCHANGED <<address, expired, nextMail, delivered, confirmed, optedOut, slots,
                   notice, mailed>>

CountVerificationEmail(r) ==
    /\ setting[r].at = "count"
    /\ \E taken \in BOOLEAN :
        /\ takeQuota(setting[r].who, "verification_email", verificationEmailsPerUserPerDay, taken)
        /\ setting' = [setting EXCEPT ![r] = IF taken THEN [@ EXCEPT !.at = "save"] ELSE NoRequest]
    /\ UNCHANGED <<address, expired, nextMail, delivered, confirmed, optedOut, notice, mailed>>

(* A different address is unverified again, the same one stays verified,   *)
(* the new code replaces the old one, and the opt-out is kept.             *)
Replaced(row, a, code) ==
    IF row = Blank THEN [to |-> a, verified |-> FALSE, code |-> code, wants |-> TRUE]
    ELSE [row EXCEPT !.to = a, !.verified = (row.to = a /\ row.verified), !.code = code]

SetNotificationEmail(r) ==
    LET p == setting[r].who IN
    /\ setting[r].at = "save"
    /\ nextMail <= MaxCodesMailed
    /\ address' = [address EXCEPT ![p] = Replaced(@, setting[r].to, nextMail)]
    /\ setting' = [setting EXCEPT ![r].at = "send", ![r].code = nextMail]
    /\ nextMail' = nextMail + 1
    /\ UNCHANGED <<expired, delivered, confirmed, optedOut, slots, notice, mailed>>

(* The provider takes the message, or the address stays saved unverified.  *)
SendVerification(r) ==
    /\ setting[r].at = "send"
    /\ setting' = [setting EXCEPT ![r] = NoRequest]
    /\ \/ delivered' = delivered \union
            {[who |-> setting[r].who, to |-> setting[r].to, code |-> setting[r].code]}
       \/ UNCHANGED delivered
    /\ UNCHANGED <<address, expired, nextMail, confirmed, optedOut, slots, notice, mailed>>

CodeExpires(c) ==
    /\ c \in 1..(nextMail - 1)
    /\ expired' = expired \union {c}
    /\ UNCHANGED <<address, setting, nextMail, delivered, confirmed, optedOut, slots,
                   notice, mailed>>

(* Whether the stored code confirms the stored address.                    *)
VerifyNotificationEmail(row, c) ==
    row # Blank /\ row.to # Blank /\ row.code = c /\ c \notin expired

(* The person enters a code some mailbox of theirs received.               *)
VerifyMyNotificationEmail(p, m) ==
    /\ m \in delivered /\ m.who = p
    /\ VerifyNotificationEmail(address[p], m.code)
    /\ address' = [address EXCEPT ![p].verified = TRUE, ![p].code = Blank]
    /\ confirmed' = confirmed \union {<<p, m.to>>}
    /\ UNCHANGED <<expired, setting, nextMail, delivered, optedOut, slots, notice, mailed>>

(* Seeded fault: removing the address deletes the row, choice included.    *)
Removed_Row(row) == Blank

(* The address and everything about it goes; the choice stays.             *)
Removed(row) == IF row = Blank THEN Blank
                ELSE [row EXCEPT !.to = Blank, !.verified = FALSE, !.code = Blank]

RemoveMyNotificationEmail(p) ==
    /\ address' = [address EXCEPT ![p] = Removed(@)]
    /\ UNCHANGED <<expired, setting, nextMail, delivered, confirmed, optedOut, slots,
                   notice, mailed>>

SetEmailInvitations(p, wants) ==
    /\ address' = [address EXCEPT ![p] =
                    IF @ = Blank THEN [to |-> Blank, verified |-> FALSE, code |-> Blank,
                                       wants |-> wants]
                    ELSE [@ EXCEPT !.wants = wants]]
    /\ optedOut' = IF wants THEN optedOut \ {p} ELSE optedOut \union {p}
    /\ UNCHANGED <<expired, setting, nextMail, delivered, confirmed, slots, notice, mailed>>

(* The signed link, followed signed out.  It finds the row or does nothing.*)
UnsubscribeInvitationEmails(p) ==
    /\ \E m \in mailed : m.who = p
    /\ address[p] # Blank
    /\ address' = [address EXCEPT ![p].wants = FALSE]
    /\ optedOut' = optedOut \union {p}
    /\ UNCHANGED <<expired, setting, nextMail, delivered, confirmed, slots, notice, mailed>>

-----------------------------------------------------------------------------
(* An invitation's email, after its response: read, count, send once.      *)

dispatchInvitationNotice(n, p) ==
    /\ notice[n] = NoRequest
    /\ notice' = [notice EXCEPT ![n] = [at |-> "read", who |-> p]]
    /\ UNCHANGED <<address, expired, setting, nextMail, delivered, confirmed, optedOut,
                   slots, mailed>>

(* Only an address that is verified, for a person who takes these emails.  *)
GetInvitationEmailRecipient(p) ==
    address[p] # Blank /\ address[p].to # Blank /\ address[p].verified /\ address[p].wants

readRecipient(n) ==
    LET p == notice[n].who IN
    /\ notice[n].at = "read"
    /\ notice' = [notice EXCEPT ![n] =
                    IF GetInvitationEmailRecipient(p)
                    THEN [at |-> "count", who |-> p, to |-> address[p].to,
                          consented |-> p \notin optedOut]
                    ELSE NoRequest]
    /\ UNCHANGED <<address, expired, setting, nextMail, delivered, confirmed, optedOut,
                   slots, mailed>>

countNotice(n) ==
    /\ notice[n].at = "count"
    /\ \E taken \in BOOLEAN :
        /\ takeQuota(notice[n].who, "invitation_email", invitationEmailsPerRecipientPerDay, taken)
        /\ notice' = [notice EXCEPT ![n] = IF taken THEN [@ EXCEPT !.at = "send"] ELSE NoRequest]
    /\ UNCHANGED <<address, expired, setting, nextMail, delivered, confirmed, optedOut, mailed>>

(* Sent or dropped, never tried again.                                     *)
deliverInvitationNotice(n) ==
    /\ notice[n].at = "send"
    /\ notice' = [notice EXCEPT ![n] = NoRequest]
    /\ \/ mailed' = mailed \union {[who |-> notice[n].who, to |-> notice[n].to,
                                    consented |-> notice[n].consented]}
       \/ UNCHANGED mailed
    /\ UNCHANGED <<address, expired, setting, nextMail, delivered, confirmed, optedOut, slots>>

EmailNext ==
    \/ \E r \in AddressRequests, p \in People, a \in Mailboxes : SetMyNotificationEmail(r, p, a)
    \/ \E r \in AddressRequests :
        CountVerificationEmail(r) \/ SetNotificationEmail(r) \/ SendVerification(r)
    \/ \E p \in People, m \in delivered : VerifyMyNotificationEmail(p, m)
    \/ \E p \in People : RemoveMyNotificationEmail(p) \/ UnsubscribeInvitationEmails(p)
    \/ \E p \in People, wants \in BOOLEAN : SetEmailInvitations(p, wants)
    \/ \E n \in Notices, p \in People : dispatchInvitationNotice(n, p)
    \/ \E n \in Notices : readRecipient(n) \/ countNotice(n) \/ deliverInvitationNotice(n)
    \/ \E c \in 1..MaxCodesMailed : CodeExpires(c)
    \/ DayPasses

EmailSpec == EmailInit /\ [][EmailNext]_emailVars

-----------------------------------------------------------------------------
(* Requests to set an address, and invitations on their way, as far as they can be. *)
AddressRequest == [at : {"count", "save", "send"}, who : People, to : Mailboxes,
            code : Nat \union {Blank}]
Reader == [at : {"read"}, who : People]
Letter == [at : {"count", "send"}, who : People, to : Mailboxes, consented : BOOLEAN]

EmailShape ==
    /\ address \in [People -> AddressRow \union {Blank}]
    /\ setting \in [AddressRequests -> AddressRequest \union {NoRequest}]
    /\ nextMail \in Nat
    /\ delivered \subseteq [who : People, to : Mailboxes, code : Nat]
    /\ optedOut \subseteq People
    /\ notice \in [Notices -> Reader \union Letter \union {NoRequest}]

(* Every variable holds a value of its kind.                               *)
EmailTypeOK == EmailShape /\ slots \in [People -> [Quotas -> Nat]]

(* A verified address was confirmed from its own mailbox: no order of      *)
(* setting, replacing, removing and confirming, with codes arriving late,  *)
(* lets the code sent to one address vouch for another                     *)
(* (SetNotificationEmail, VerifyNotificationEmail).                        *)
AddressConfirmed ==
    \A p \in People : address[p] # Blank /\ address[p].verified => <<p, address[p].to>> \in confirmed

(* Invitations go to a confirmed mailbox of a person who, when the address *)
(* was read, had not opted out.  The opt-out survives removing the address *)
(* and setting one again (RemoveNotificationEmail).                        *)
MailConsented ==
    /\ AddressConfirmed
    /\ \A m \in mailed : m.consented /\ <<m.who, m.to>> \in confirmed
    /\ \A p \in optedOut : address[p] # Blank /\ ~ address[p].wants

(* No day's mail to a person exceeds its two limits, however many requests *)
(* count at once: the count is one conditional statement (takeQuota).      *)
QuotasKept ==
    \A p \in People : /\ slots[p]["verification_email"] <= verificationEmailsPerUserPerDay
                      /\ slots[p]["invitation_email"] <= invitationEmailsPerRecipientPerDay

(* The two, as the run checks them.                                        *)
EmailHolds == MailConsented /\ QuotasKept
=============================================================================
