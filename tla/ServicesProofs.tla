---------------------------- MODULE ServicesProofs ----------------------------
(***************************************************************************)
(* The services beside the transcript, for any number of people, requests, *)
(* viewers, repositories and deliveries: invitation emails go where the    *)
(* person confirmed and agreed (NotificationEmail), what outsiders ask of  *)
(* GitHub is bounded (RepositoryAccess), a collective's GitHub side is     *)
(* bound by those who control it and its commit cache is what its ETag     *)
(* says (CollectiveRepos), a handled delivery stays settled                *)
(* (WebhookLedger), and credentials and the record of organizations belong *)
(* to who signed in (Accounts).                                            *)
(***************************************************************************)
EXTENDS NotificationEmail, RepositoryAccess, CollectiveRepos, WebhookLedger, Accounts, FiniteSetTheorems,
        TLAPS

(* Codes are handed out once, and the stored code of an address is only ever on
   its way to that address. *)
CodesNamed ==
    /\ \A m \in delivered : m.code < nextMail
    /\ \A r \in AddressRequests : setting[r].at = "send"
          => setting[r].code \in Nat /\ setting[r].code < nextMail
    /\ \A p \in People : address[p] # Blank /\ address[p].code # Blank
          => /\ address[p].code < nextMail
             /\ \A m \in delivered : m.code = address[p].code => m.who = p /\ m.to = address[p].to
             /\ \A r \in AddressRequests :
                   setting[r].at = "send" /\ setting[r].code = address[p].code
                      => setting[r].who = p /\ setting[r].to = address[p].to

(* A letter on its way was addressed to a confirmed mailbox of a person who took
   these emails when it was addressed. *)
LettersConsented ==
    \A n \in Notices : notice[n].at \in {"count", "send"}
        => notice[n].consented /\ <<notice[n].who, notice[n].to>> \in confirmed

EmailInv == EmailShape /\ CodesNamed /\ LettersConsented /\ MailConsented

(* At the start nobody has an address and nothing was mailed. *)
LEMMA EmailStart == ASSUME EmailInit PROVE EmailInv
<1>1. EmailShape BY DEF EmailInit, EmailShape
<1>2. CodesNamed BY DEF EmailInit, CodesNamed, NoRequest
<1>3. LettersConsented BY DEF EmailInit, LettersConsented, NoRequest
<1>4. MailConsented BY DEF EmailInit, MailConsented, AddressConfirmed
<1> QED BY <1>1, <1>2, <1>3, <1>4 DEF EmailInv

(* Setting an address. *)
LEMMA SettingKeeps ==
    ASSUME EmailInv, NEW r \in AddressRequests, NEW p \in People, NEW a \in Mailboxes,
           \/ SetMyNotificationEmail(r, p, a) \/ CountVerificationEmail(r)
           \/ SetNotificationEmail(r) \/ SendVerification(r)
    PROVE  EmailInv'
<1> USE EmailAssumption
<1>1. ASSUME SetMyNotificationEmail(r, p, a) PROVE EmailInv'
  <2>0. /\ setting' = [setting EXCEPT ![r] = setting'[r]]
        /\ setting'[r] \in {NoRequest, [at |-> "count", who |-> p, to |-> a, code |-> Blank]}
        /\ UNCHANGED <<address, expired, nextMail, delivered, confirmed, optedOut, slots, notice, mailed>>
    BY <1>1 DEF SetMyNotificationEmail, EmailInv, EmailShape
  <2>1. EmailShape' BY <2>0 DEF EmailInv, EmailShape, AddressRequest
  <2>2. \A q \in AddressRequests : setting'[q].at = "send" => setting'[q] = setting[q]
    BY <2>0 DEF EmailInv, EmailShape, NoRequest
  <2>3. CodesNamed' BY <2>0, <2>2 DEF EmailInv, CodesNamed
  <2>4. LettersConsented' /\ MailConsented'
    BY <2>0 DEF EmailInv, LettersConsented, MailConsented, AddressConfirmed
  <2> QED BY <2>1, <2>3, <2>4 DEF EmailInv
<1>2. ASSUME CountVerificationEmail(r) PROVE EmailInv'
  <2>0. /\ setting' = [setting EXCEPT ![r] = setting'[r]]
        /\ setting'[r] \in {NoRequest, [setting[r] EXCEPT !.at = "save"]}
        /\ setting[r].at = "count"
        /\ UNCHANGED <<address, expired, nextMail, delivered, confirmed, optedOut, notice, mailed>>
    BY <1>2 DEF CountVerificationEmail, EmailInv, EmailShape
  <2>1. setting[r] \in AddressRequest BY <2>0 DEF EmailInv, EmailShape, NoRequest
  <2>2. EmailShape' BY <2>0, <2>1 DEF EmailInv, EmailShape, AddressRequest
  <2>3. \A q \in AddressRequests : setting'[q].at = "send" => setting'[q] = setting[q]
    BY <2>0, <2>1 DEF EmailInv, EmailShape, NoRequest, AddressRequest
  <2>4. CodesNamed' BY <2>0, <2>3 DEF EmailInv, CodesNamed
  <2>5. LettersConsented' /\ MailConsented'
    BY <2>0 DEF EmailInv, LettersConsented, MailConsented, AddressConfirmed
  <2> QED BY <2>2, <2>4, <2>5 DEF EmailInv
<1>3. ASSUME SetNotificationEmail(r) PROVE EmailInv'
  <2> DEFINE o == setting[r].who
             b == setting[r].to
             row == Replaced(address[o], b, nextMail)
             sent == [setting[r] EXCEPT !.at = "send", !.code = nextMail]
  <2>0. /\ setting[r] \in AddressRequest /\ o \in People /\ b \in Mailboxes
        /\ nextMail \in Nat /\ nextMail # Blank
    BY <1>3 DEF SetNotificationEmail, EmailInv, EmailShape, NoRequest, AddressRequest
  <2>1. /\ setting' = [setting EXCEPT ![r] = sent]
        /\ address' = [address EXCEPT ![o] = row]
        /\ nextMail' = nextMail + 1
        /\ UNCHANGED <<delivered, confirmed, optedOut, notice, mailed>>
    BY <1>3, <2>0 DEF SetNotificationEmail, EmailInv, EmailShape
  <2>2. /\ row \in AddressRow /\ row # Blank /\ row.to = b /\ row.code = nextMail
        /\ address[o] # Blank => row.wants = address[o].wants
    <3>1. CASE address[o] = Blank
      <4>1. row = [to |-> b, verified |-> FALSE, code |-> nextMail, wants |-> TRUE]
        BY <3>1 DEF Replaced
      <4> HIDE DEF row
      <4>2. row \in AddressRow /\ row.to = b /\ row.code = nextMail BY <2>0, <4>1 DEF AddressRow
      <4> QED BY <3>1, <4>2
    <3>2. CASE address[o] # Blank
      <4> DEFINE old == address[o]
                 same == old.to = b /\ old.verified
      <4>1. old \in AddressRow /\ same \in BOOLEAN BY <2>0, <3>2 DEF EmailInv, EmailShape, AddressRow
      <4>2. row = [old EXCEPT !.to = b, !.verified = same, !.code = nextMail] BY <3>2 DEF Replaced
      <4> HIDE DEF same, old, row, b
      <4>3. row \in AddressRow /\ row.to = b /\ row.code = nextMail /\ row.wants = old.wants
        BY <2>0, <4>1, <4>2 DEF AddressRow
      <4> QED BY <4>3 DEF old
    <3> QED BY <3>1, <3>2
  <2>3. row.verified => <<o, b>> \in confirmed
    BY <2>0 DEF Replaced, EmailInv, EmailShape, MailConsented, AddressConfirmed, AddressRow
  <2> HIDE DEF row
  <2>4. sent \in AddressRequest /\ sent.at = "send" /\ sent.who = o /\ sent.to = b /\ sent.code = nextMail
    BY <2>0 DEF AddressRequest
  <2> HIDE DEF sent, o, b
  <2>5. EmailShape' BY <2>0, <2>1, <2>2, <2>4 DEF EmailInv, EmailShape
  <2>6. /\ address'[o] = row /\ \A q \in People : q # o => address'[q] = address[q]
        /\ setting'[r] = sent /\ \A q \in AddressRequests : q # r => setting'[q] = setting[q]
    BY <2>0, <2>1 DEF EmailInv, EmailShape
  <2>7. CodesNamed'
    <3>1. \A m \in delivered : m.code < nextMail /\ m.code \in Nat
      BY DEF EmailInv, EmailShape, CodesNamed
    <3>2. \A q \in AddressRequests : setting'[q].at = "send"
            => setting'[q].code \in Nat /\ setting'[q].code < nextMail + 1
      BY <2>0, <2>4, <2>6 DEF EmailInv, CodesNamed
    <3>3. ASSUME NEW w \in People, address'[w] # Blank, address'[w].code # Blank
          PROVE  /\ address'[w].code < nextMail + 1
                 /\ \A m \in delivered : m.code = address'[w].code => m.who = w /\ m.to = address'[w].to
                 /\ \A q \in AddressRequests :
                       setting'[q].at = "send" /\ setting'[q].code = address'[w].code
                          => setting'[q].who = w /\ setting'[q].to = address'[w].to
      <4>1. CASE w = o
        <5>1. \A m \in delivered : m.code # nextMail BY <2>0, <3>1
        <5>2. \A q \in AddressRequests \ {r} : setting[q].at = "send" => setting[q].code # nextMail
          BY <2>0 DEF EmailInv, CodesNamed
        <5> QED BY <2>0, <2>2, <2>4, <2>6, <4>1, <5>1, <5>2
      <4>2. CASE w # o
        <5>1. address'[w] = address[w] BY <2>6, <4>2
        <5>2. address[w].code \in Nat /\ address[w].code < nextMail
          BY <3>3, <5>1 DEF EmailInv, EmailShape, CodesNamed, AddressRow
        <5>3. sent.code # address[w].code BY <2>0, <2>4, <5>2
        <5> QED BY <2>0, <2>6, <3>3, <5>1, <5>2, <5>3 DEF EmailInv, CodesNamed
      <4> QED BY <4>1, <4>2
    <3> QED BY <2>0, <2>1, <3>1, <3>2, <3>3 DEF CodesNamed
  <2>8. LettersConsented' BY <2>1 DEF EmailInv, LettersConsented
  <2>9. AddressConfirmed' BY <2>1, <2>2, <2>3, <2>6 DEF EmailInv, MailConsented, AddressConfirmed
  <2>10. \A q \in optedOut : address'[q] # Blank /\ ~ address'[q].wants
    BY <2>2, <2>6 DEF EmailInv, EmailShape, MailConsented
  <2>11. MailConsented' BY <2>1, <2>9, <2>10 DEF EmailInv, MailConsented
  <2> QED BY <2>5, <2>7, <2>8, <2>11 DEF EmailInv
<1>4. ASSUME SendVerification(r) PROVE EmailInv'
  <2> DEFINE m == [who |-> setting[r].who, to |-> setting[r].to, code |-> setting[r].code]
  <2>0. /\ setting' = [setting EXCEPT ![r] = NoRequest] /\ setting[r].at = "send"
        /\ delivered' \in {delivered, delivered \union {m}}
        /\ UNCHANGED <<address, nextMail, confirmed, optedOut, notice, mailed>>
    BY <1>4 DEF SendVerification
  <2>1. /\ m.who = setting[r].who /\ m.to = setting[r].to /\ m.code = setting[r].code
        /\ m.code < nextMail /\ m \in [who : People, to : Mailboxes, code : Nat]
    BY <2>0 DEF EmailInv, EmailShape, CodesNamed, NoRequest, AddressRequest
  <2> HIDE DEF m
  <2>2. EmailShape' BY <2>0, <2>1 DEF EmailInv, EmailShape
  <2>3. \A q \in AddressRequests : setting'[q].at = "send" => setting'[q] = setting[q]
    BY <2>0 DEF EmailInv, EmailShape, NoRequest
  <2>4. CodesNamed' BY <2>0, <2>1, <2>3 DEF EmailInv, CodesNamed
  <2>5. LettersConsented' /\ MailConsented'
    BY <2>0 DEF EmailInv, LettersConsented, MailConsented, AddressConfirmed
  <2> QED BY <2>2, <2>4, <2>5 DEF EmailInv
<1> QED BY <1>1, <1>2, <1>3, <1>4

(* Confirming, removing and opting out: the row changes, a code only goes. *)
LEMMA RowKeeps ==
    ASSUME EmailInv, NEW p \in People, NEW m, NEW wants \in BOOLEAN,
           \/ VerifyMyNotificationEmail(p, m) \/ RemoveMyNotificationEmail(p)
           \/ SetEmailInvitations(p, wants) \/ UnsubscribeInvitationEmails(p)
    PROVE  EmailInv'
<1> USE EmailAssumption
<1>a. address[p] \in AddressRow \union {Blank} /\ optedOut \subseteq People
  BY DEF EmailInv, EmailShape
<1>1. ASSUME NEW row \in AddressRow \union {Blank},
             address' = [address EXCEPT ![p] = row],
             row # Blank /\ row.code # Blank => address[p] # Blank /\ row.to = address[p].to /\ row.code = address[p].code,
             row # Blank /\ row.verified => <<p, row.to>> \in confirmed',
             confirmed \subseteq confirmed', optedOut' \subseteq optedOut \union {p},
             p \in optedOut' => row # Blank /\ ~ row.wants,
             UNCHANGED <<setting, nextMail, delivered, notice, mailed>>
      PROVE  EmailInv'
  <2>0. address'[p] = row /\ \A q \in People : q # p => address'[q] = address[q]
    BY <1>1 DEF EmailInv, EmailShape
  <2>1. EmailShape' BY <1>1, <1>a DEF EmailInv, EmailShape
  <2>2. CodesNamed'
    <3>1. ASSUME NEW w \in People, address'[w] # Blank, address'[w].code # Blank
          PROVE  address[w] # Blank /\ address[w].to = address'[w].to /\ address[w].code = address'[w].code
      BY <1>1, <2>0, <3>1
    <3> QED BY <1>1, <3>1 DEF EmailInv, CodesNamed
  <2>3. LettersConsented' BY <1>1 DEF EmailInv, LettersConsented
  <2>4. AddressConfirmed' BY <1>1, <2>0 DEF EmailInv, MailConsented, AddressConfirmed
  <2>5. \A q \in optedOut' : address'[q] # Blank /\ ~ address'[q].wants
    BY <1>1, <1>a, <2>0 DEF EmailInv, MailConsented
  <2>6. MailConsented' BY <1>1, <2>4, <2>5 DEF EmailInv, MailConsented
  <2> QED BY <2>1, <2>2, <2>3, <2>6 DEF EmailInv
<1>2. ASSUME VerifyMyNotificationEmail(p, m) PROVE EmailInv'
  <2> DEFINE row == [address[p] EXCEPT !.verified = TRUE, !.code = Blank]
  <2>0. address[p] # Blank /\ address[p].code = m.code /\ m \in delivered
    BY <1>2 DEF VerifyMyNotificationEmail, VerifyNotificationEmail
  <2>1. m.to = address[p].to /\ m.code # Blank
    BY <2>0 DEF EmailInv, EmailShape, CodesNamed
  <2>2. row \in AddressRow /\ row.code = Blank /\ row.to = m.to /\ row.wants = address[p].wants
    BY <1>a, <2>0, <2>1 DEF AddressRow
  <2>3. address' = [address EXCEPT ![p] = row]
    BY <1>2, <1>a, <2>0 DEF VerifyMyNotificationEmail, AddressRow, EmailInv, EmailShape
  <2> HIDE DEF row
  <2>4. p \in optedOut => ~ row.wants BY <2>2 DEF EmailInv, MailConsented
  <2> QED BY <1>1, <1>2, <2>2, <2>3, <2>4 DEF VerifyMyNotificationEmail
<1>3. ASSUME RemoveMyNotificationEmail(p) PROVE EmailInv'
  <2> DEFINE row == Removed(address[p])
  <2>1. /\ row \in AddressRow \union {Blank}
        /\ row # Blank => row.code = Blank /\ ~ row.verified /\ row.wants = address[p].wants
        /\ address[p] # Blank => row # Blank
    BY <1>a DEF Removed, AddressRow
  <2>2. address' = [address EXCEPT ![p] = row]
        /\ UNCHANGED <<setting, nextMail, delivered, confirmed, optedOut, notice, mailed>>
    BY <1>3 DEF RemoveMyNotificationEmail
  <2> HIDE DEF row
  <2>3. p \in optedOut => row # Blank /\ ~ row.wants BY <2>1 DEF EmailInv, MailConsented
  <2> QED BY <1>1, <2>1, <2>2, <2>3
<1>4. ASSUME SetEmailInvitations(p, wants) PROVE EmailInv'
  <2> DEFINE row == IF address[p] = Blank THEN [to |-> Blank, verified |-> FALSE, code |-> Blank,
                                                wants |-> wants]
                    ELSE [address[p] EXCEPT !.wants = wants]
  <2>1. /\ row \in AddressRow /\ row # Blank /\ row.wants = wants
        /\ row.code # Blank => address[p] # Blank /\ row.to = address[p].to /\ row.code = address[p].code
        /\ row.verified => address[p] # Blank /\ row.to = address[p].to /\ address[p].verified
    <3>1. CASE address[p] = Blank
      <4>1. row = [to |-> Blank, verified |-> FALSE, code |-> Blank, wants |-> wants] BY <3>1
      <4> HIDE DEF row
      <4>2. row \in AddressRow /\ row.wants = wants /\ row.code = Blank /\ ~ row.verified
        BY <4>1 DEF AddressRow
      <4> QED BY <4>2
    <3>2. CASE address[p] # Blank BY <1>a, <3>2 DEF AddressRow
    <3> QED BY <3>1, <3>2
  <2>2. address' = [address EXCEPT ![p] = row]
        /\ UNCHANGED <<setting, nextMail, delivered, confirmed, notice, mailed>>
    BY <1>4 DEF SetEmailInvitations
  <2>3. optedOut' \subseteq optedOut \union {p} /\ (p \in optedOut' => ~ wants)
    BY <1>4 DEF SetEmailInvitations
  <2> HIDE DEF row
  <2>4. row.verified => <<p, row.to>> \in confirmed
    BY <2>1 DEF EmailInv, MailConsented, AddressConfirmed
  <2> QED BY <1>1, <2>1, <2>2, <2>3, <2>4
<1>5. ASSUME UnsubscribeInvitationEmails(p) PROVE EmailInv'
  <2> DEFINE row == [address[p] EXCEPT !.wants = FALSE]
  <2>0. address[p] # Blank BY <1>5 DEF UnsubscribeInvitationEmails
  <2>1. /\ row \in AddressRow /\ row # Blank /\ ~ row.wants
        /\ row.to = address[p].to /\ row.code = address[p].code /\ row.verified = address[p].verified
    BY <1>a, <2>0 DEF AddressRow
  <2>2. /\ address' = [address EXCEPT ![p] = row] /\ optedOut' = optedOut \union {p}
        /\ UNCHANGED <<setting, nextMail, delivered, confirmed, notice, mailed>>
    BY <1>5 DEF UnsubscribeInvitationEmails
  <2> HIDE DEF row
  <2>4. row.verified => <<p, row.to>> \in confirmed
    BY <2>0, <2>1 DEF EmailInv, MailConsented, AddressConfirmed
  <2> QED BY <1>1, <2>0, <2>1, <2>2, <2>4
<1> QED BY <1>2, <1>3, <1>4, <1>5

(* Mailing an invitation: what was read of the row is what is sent. *)
LEMMA NoticeKeeps ==
    ASSUME EmailInv, NEW n \in Notices, NEW p \in People,
           \/ dispatchInvitationNotice(n, p) \/ readRecipient(n)
           \/ countNotice(n) \/ deliverInvitationNotice(n)
    PROVE  EmailInv'
<1> USE EmailAssumption
<1>1. ASSUME NEW to \in Reader \union Letter \union {NoRequest},
             notice' = [notice EXCEPT ![n] = to],
             to.at \in {"count", "send"} => to.consented /\ <<to.who, to.to>> \in confirmed,
             \A m \in mailed' \ mailed : m.consented /\ <<m.who, m.to>> \in confirmed,
             UNCHANGED <<address, setting, nextMail, delivered, confirmed, optedOut>>
      PROVE  EmailInv'
  <2>1. EmailShape' BY <1>1 DEF EmailInv, EmailShape
  <2>2. CodesNamed' BY <1>1 DEF EmailInv, CodesNamed
  <2>3. notice'[n] = to /\ \A k \in Notices : k # n => notice'[k] = notice[k]
    BY <1>1 DEF EmailInv, EmailShape
  <2>4. LettersConsented' BY <1>1, <2>3 DEF EmailInv, LettersConsented
  <2>5. MailConsented' BY <1>1 DEF EmailInv, MailConsented, AddressConfirmed
  <2> QED BY <2>1, <2>2, <2>4, <2>5 DEF EmailInv
<1>a. NoRequest.at = "none" BY DEF NoRequest
<1>2. ASSUME dispatchInvitationNotice(n, p) PROVE EmailInv'
  <2> DEFINE to == [at |-> "read", who |-> p]
  <2>1. to \in Reader /\ to.at = "read" BY DEF Reader
  <2>2. notice' = [notice EXCEPT ![n] = to]
        /\ UNCHANGED <<address, setting, nextMail, delivered, confirmed, optedOut, mailed>>
    BY <1>2 DEF dispatchInvitationNotice
  <2> HIDE DEF to
  <2> QED BY <1>1, <2>1, <2>2
<1>3. ASSUME readRecipient(n) PROVE EmailInv'
  <2> DEFINE o == notice[n].who
             to == [at |-> "count", who |-> o, to |-> address[o].to, consented |-> o \notin optedOut]
  <2>0. /\ UNCHANGED <<address, setting, nextMail, delivered, confirmed, optedOut, mailed>>
        /\ notice[n].at = "read"
        /\ notice' = [notice EXCEPT ![n] = IF GetInvitationEmailRecipient(o) THEN to ELSE NoRequest]
    BY <1>3 DEF readRecipient
  <2>1. o \in People BY <2>0 DEF EmailInv, EmailShape, NoRequest, Reader, Letter
  <2>2. CASE GetInvitationEmailRecipient(o)
    <3>1. /\ address[o] # Blank /\ address[o].to \in Mailboxes /\ address[o].verified /\ address[o].wants
      BY <2>1, <2>2 DEF GetInvitationEmailRecipient, EmailInv, EmailShape, AddressRow
    <3>2. o \notin optedOut /\ <<o, address[o].to>> \in confirmed
      BY <2>1, <3>1 DEF EmailInv, MailConsented, AddressConfirmed
    <3>3. to \in Letter BY <2>1, <3>1 DEF Letter
    <3>4. to.consented /\ to.who = o /\ to.to = address[o].to BY <3>2
    <3>5. notice' = [notice EXCEPT ![n] = to] BY <2>0, <2>2
    <3> HIDE DEF to, o
    <3> QED BY <1>1, <2>0, <3>2, <3>3, <3>4, <3>5
  <2>3. CASE ~ GetInvitationEmailRecipient(o)
    BY <1>1, <1>a, <2>0, <2>3
  <2> QED BY <2>2, <2>3
<1>4. ASSUME countNotice(n) PROVE EmailInv'
  <2> DEFINE to == [notice[n] EXCEPT !.at = "send"]
  <2>0. /\ notice[n].at = "count"
        /\ UNCHANGED <<address, setting, nextMail, delivered, confirmed, optedOut, mailed>>
        /\ \/ notice' = [notice EXCEPT ![n] = to]
           \/ notice' = [notice EXCEPT ![n] = NoRequest]
    BY <1>4 DEF countNotice
  <2>1. notice[n] \in Letter BY <2>0 DEF EmailInv, EmailShape, NoRequest, Reader
  <2>2. to \in Letter /\ to.consented = notice[n].consented /\ to.who = notice[n].who
        /\ to.to = notice[n].to
    BY <2>1 DEF Letter
  <2>3. to.consented /\ <<to.who, to.to>> \in confirmed
    BY <2>0, <2>2 DEF EmailInv, LettersConsented
  <2> HIDE DEF to
  <2> QED BY <1>1, <1>a, <2>0, <2>2, <2>3
<1>5. ASSUME deliverInvitationNotice(n) PROVE EmailInv'
  <2> DEFINE m == [who |-> notice[n].who, to |-> notice[n].to, consented |-> notice[n].consented]
  <2>0. /\ notice[n].at = "send" /\ notice' = [notice EXCEPT ![n] = NoRequest]
        /\ mailed' \in {mailed, mailed \union {m}}
        /\ UNCHANGED <<address, setting, nextMail, delivered, confirmed, optedOut>>
    BY <1>5 DEF deliverInvitationNotice
  <2>1. m.who = notice[n].who /\ m.to = notice[n].to /\ m.consented = notice[n].consented
    OBVIOUS
  <2>2. m.consented /\ <<m.who, m.to>> \in confirmed
    BY <2>0, <2>1 DEF EmailInv, LettersConsented
  <2> HIDE DEF m
  <2> QED BY <1>1, <1>a, <2>0, <2>2
<1> QED BY <1>2, <1>3, <1>4, <1>5

(* Steps that touch only quotas and expiry keep the invariant. *)
LEMMA EmailFrame ==
    ASSUME EmailInv,
           UNCHANGED <<address, setting, nextMail, delivered, confirmed, optedOut, notice, mailed>>
    PROVE  EmailInv'
BY DEF EmailInv, EmailShape, CodesNamed, LettersConsented, MailConsented, AddressConfirmed

(* Every step keeps the invariant. *)
LEMMA EmailStep == ASSUME EmailInv, [EmailNext]_emailVars PROVE EmailInv'
<1>1. CASE UNCHANGED emailVars BY <1>1, EmailFrame DEF emailVars
<1>2. CASE DayPasses BY <1>2, EmailFrame DEF DayPasses
<1>3. ASSUME NEW c, CodeExpires(c) PROVE EmailInv' BY <1>3, EmailFrame DEF CodeExpires
<1>4. ASSUME NEW r \in AddressRequests, NEW p \in People, NEW a \in Mailboxes,
             SetMyNotificationEmail(r, p, a)
      PROVE  EmailInv'
  BY <1>4, SettingKeeps
<1>5. ASSUME NEW r \in AddressRequests,
             CountVerificationEmail(r) \/ SetNotificationEmail(r) \/ SendVerification(r)
      PROVE  EmailInv'
  <2>1. PICK p \in People, a \in Mailboxes : TRUE
    BY <1>5 DEF EmailInv, EmailShape, AddressRequest, NoRequest, CountVerificationEmail,
                SetNotificationEmail, SendVerification
  <2> QED BY <1>5, <2>1, SettingKeeps
<1>6. ASSUME NEW p \in People, NEW m \in delivered, VerifyMyNotificationEmail(p, m) PROVE EmailInv'
  BY <1>6, RowKeeps
<1>7. ASSUME NEW p \in People, RemoveMyNotificationEmail(p) \/ UnsubscribeInvitationEmails(p)
      PROVE  EmailInv'
  BY <1>7, RowKeeps
<1>8. ASSUME NEW p \in People, NEW wants \in BOOLEAN, SetEmailInvitations(p, wants) PROVE EmailInv'
  BY <1>8, RowKeeps
<1>9. ASSUME NEW n \in Notices, NEW p \in People, dispatchInvitationNotice(n, p) PROVE EmailInv'
  BY <1>9, NoticeKeeps
<1>10. ASSUME NEW n \in Notices, readRecipient(n) \/ countNotice(n) \/ deliverInvitationNotice(n)
       PROVE  EmailInv'
  <2>1. PICK p \in People : TRUE
    BY <1>10 DEF EmailInv, EmailShape, Reader, Letter, NoRequest, readRecipient, countNotice,
                 deliverInvitationNotice
  <2> QED BY <1>10, <2>1, NoticeKeeps
<1> QED BY <1>1, <1>2, <1>3, <1>4, <1>5, <1>6, <1>7, <1>8, <1>9, <1>10 DEF EmailNext

(* The counts of the day, which each count takes by one conditional statement. *)
QuotaInv == slots \in [People -> [Quotas -> Nat]] /\ QuotasKept

(* Taking a slot of either quota, at its own limit. *)
LEMMA SlotTaken ==
    ASSUME QuotaInv, NEW p \in People, NEW q \in Quotas, NEW taken \in BOOLEAN, NEW limit \in Nat,
           takeQuota(p, q, limit, taken),
           limit = IF q = "verification_email" THEN verificationEmailsPerUserPerDay
                   ELSE invitationEmailsPerRecipientPerDay
    PROVE  QuotaInv'
<1> USE EmailAssumption
<1>1. CASE slots[p][q] < limit
  <2>1. slots' = [slots EXCEPT ![p][q] = @ + 1] BY <1>1 DEF takeQuota
  <2>2. slots' \in [People -> [Quotas -> Nat]] BY <2>1 DEF QuotaInv
  <2>3. slots'[p][q] = slots[p][q] + 1 /\ slots'[p][q] <= limit BY <1>1, <2>1 DEF QuotaInv
  <2>4. \A o \in People, k \in Quotas : o # p \/ k # q => slots'[o][k] = slots[o][k]
    BY <2>1 DEF QuotaInv
  <2>5. QuotasKept' BY <2>3, <2>4 DEF QuotaInv, QuotasKept, Quotas
  <2> QED BY <2>2, <2>5 DEF QuotaInv
<1>2. CASE ~ (slots[p][q] < limit)
  BY <1>2 DEF takeQuota, QuotaInv, QuotasKept
<1> QED BY <1>1, <1>2

(* Nothing else touches the counts, but the next day. *)
LEMMA QuotaStep == ASSUME EmailInv, QuotaInv, [EmailNext]_emailVars PROVE QuotaInv'
<1> USE EmailAssumption
<1>1. CASE UNCHANGED slots BY <1>1 DEF QuotaInv, QuotasKept
<1>2. CASE DayPasses BY <1>2 DEF DayPasses, QuotaInv, QuotasKept, Quotas
<1>3. ASSUME NEW r \in AddressRequests, CountVerificationEmail(r) PROVE QuotaInv'
  <2>1. setting[r].who \in People
    BY <1>3 DEF CountVerificationEmail, EmailInv, EmailShape, AddressRequest, NoRequest
  <2>2. PICK taken \in BOOLEAN :
          takeQuota(setting[r].who, "verification_email", verificationEmailsPerUserPerDay, taken)
    BY <1>3 DEF CountVerificationEmail
  <2> QED BY <2>1, <2>2, SlotTaken DEF Quotas
<1>4. ASSUME NEW n \in Notices, countNotice(n) PROVE QuotaInv'
  <2>1. notice[n].who \in People
    BY <1>4 DEF countNotice, EmailInv, EmailShape, Reader, Letter, NoRequest
  <2>2. PICK taken \in BOOLEAN :
          takeQuota(notice[n].who, "invitation_email", invitationEmailsPerRecipientPerDay, taken)
    BY <1>4 DEF countNotice
  <2> QED BY <2>1, <2>2, SlotTaken DEF Quotas
<1>5. CASE UNCHANGED emailVars BY <1>1, <1>5 DEF emailVars
<1>6. CASE EmailNext
  <2>1. \/ UNCHANGED slots \/ DayPasses \/ \E r \in AddressRequests : CountVerificationEmail(r)
        \/ \E n \in Notices : countNotice(n)
    BY <1>6 DEF EmailNext, SetMyNotificationEmail, SetNotificationEmail, SendVerification,
       VerifyMyNotificationEmail, RemoveMyNotificationEmail, UnsubscribeInvitationEmails,
       SetEmailInvitations, dispatchInvitationNotice, readRecipient, deliverInvitationNotice,
       CodeExpires
  <2> QED BY <1>1, <1>2, <1>3, <1>4, <2>1
<1> QED BY <1>5, <1>6

(* Invitation emails reach only a mailbox that its owner confirmed from that
   mailbox, and only a person who had not opted out when the address was read,
   whatever order setting, replacing, removing, confirming and opting out come
   in; and a day's counts stay within their limits (SetNotificationEmail,
   VerifyNotificationEmail, RemoveNotificationEmail, takeQuota). *)
THEOREM MailIsConsented == EmailSpec => [](EmailHolds /\ EmailTypeOK)
<1>1. EmailInit => EmailInv /\ QuotaInv
  <2>1. EmailInit => QuotaInv BY EmailAssumption DEF EmailInit, QuotaInv, QuotasKept, Quotas
  <2> QED BY <2>1, EmailStart
<1>2. EmailInv /\ QuotaInv /\ [EmailNext]_emailVars => EmailInv' /\ QuotaInv' BY EmailStep, QuotaStep
<1>3. EmailInv /\ QuotaInv => EmailHolds /\ EmailTypeOK
  BY DEF EmailInv, QuotaInv, EmailHolds, EmailTypeOK
<1> QED BY <1>1, <1>2, <1>3, PTL DEF EmailSpec

-----------------------------------------------------------------------------
(* The repository access limiter and cache. *)

(* A read that began names its viewer, and one past the budget its time. *)
ReadsTimed ==
    \A r \in Reads :
        /\ read[r].pc # "idle" => read[r].v \in Viewers
        /\ read[r].pc \in {"lookup", "allow", "ask", "store"}
              => 1 <= read[r].now /\ read[r].now <= clock

(* A read under way whose viewer is granted access now was granted it during the
   read, and only such a read shows the page. *)
HoldsKnown ==
    /\ \A r \in Reads : read[r].pc \notin {"idle", "done"} /\ read[r].v \in grants => read[r].held
    /\ \A r \in Reads : read[r].said = "page" => read[r].pc = "done" /\ read[r].held

(* A remembered refusal rests on a question that GitHub refused. *)
RefusalsFounded ==
    /\ \A v \in Viewers : refusal[v] # 0 => refusal[v] <= lastNo[v] + repositoryAccessTTL
    /\ \A r \in Reads : read[r].pc = "store" => read[r].now <= lastNo[read[r].v]
    /\ \A r \in Reads : read[r].cached =>
          read[r].pc = "done" /\ read[r].now < lastNo[read[r].v] + repositoryAccessTTL

(* The most a bucket that is never dropped lets through. *)
Allowance == repositoryAccessBurst + (clock - 1)
Product(a, b) == a * b

(* What was asked and what is left in the bucket is a burst and the ticks up to
   the last refill, and an allowance for each bucket dropped. *)
BucketsPay ==
    \A v \in Viewers :
        /\ Seen(v) =>
              /\ 1 <= bucket[v].refill /\ bucket[v].refill <= clock
              /\ asked[v] + bucket[v].tokens <=
                    Product(Allowance, dropped[v]) + repositoryAccessBurst + (bucket[v].refill - 1)
        /\ ~ Seen(v) => asked[v] <= Product(Allowance, dropped[v])

AccessInv == AccessShape /\ ReadsTimed /\ HoldsKnown /\ RefusalsFounded /\ BucketsPay


(* The products of the bound, kept folded so that the steps are linear. *)
LEMMA ProductNat == ASSUME NEW a \in Nat, NEW b \in Nat PROVE Product(a, b) \in Nat
BY DEF Product

(* One more bucket dropped is one more allowance. *)
LEMMA ProductDrop == ASSUME NEW a \in Nat, NEW b \in Nat
                     PROVE  Product(a, b + 1) = Product(a, b) + a /\ Product(a, 1 + b) = Product(a, b) + a
BY DEF Product

(* A tick adds to the allowance. *)
LEMMA ProductTick == ASSUME NEW a \in Nat, NEW b \in Nat PROVE Product(a, b) <= Product(a + 1, b)
<1>1. Product(a + 1, b) = Product(a, b) + b BY DEF Product
<1> QED BY <1>1, ProductNat

(* The allowance is a number. *)
LEMMA AllowanceNat == ASSUME AccessShape PROVE Allowance \in Nat
BY AccessAssumption DEF AccessShape, Allowance

(* At the start nothing was asked. *)
LEMMA AccessStart == ASSUME AccessInit PROVE AccessInv
<1> USE AccessAssumption
<1>1. AccessShape
  <2>1. read \in [Reads -> ReadState] BY DEF AccessInit, ReadState
  <2>2. NoBucket \in [tokens : Nat, refill : Nat \union {-1}] BY DEF NoBucket
  <2>3. bucket \in [Viewers -> [tokens : Nat, refill : Nat \union {-1}]]
    <3> HIDE DEF NoBucket
    <3> QED BY <2>2 DEF AccessInit
  <2>4. clock \in Nat \ {0} BY DEF AccessInit
  <2>5. refusal \in [Viewers -> Nat] /\ asked \in [Viewers -> Nat] /\ dropped \in [Viewers -> Nat]
        /\ lastNo \in [Viewers -> Nat]
    BY DEF AccessInit
  <2> QED BY <2>1, <2>3, <2>4, <2>5 DEF AccessShape
<1>2. ReadsTimed BY DEF AccessInit, ReadsTimed
<1>3. HoldsKnown BY DEF AccessInit, HoldsKnown
<1>4. RefusalsFounded BY DEF AccessInit, RefusalsFounded
<1>5. BucketsPay
  <2>1. \A v \in Viewers : ~ Seen(v) /\ asked[v] = 0 /\ dropped[v] = 0
    BY DEF AccessInit, Seen, NoBucket
  <2>2. Product(Allowance, 0) \in Nat BY <1>1, AllowanceNat, ProductNat
  <2> QED BY <2>1, <2>2 DEF BucketsPay
<1> QED BY <1>1, <1>2, <1>3, <1>4, <1>5 DEF AccessInv

(* A bounded read: the state of one read moves on, nothing else changes. *)
LEMMA ReadMoves ==
    ASSUME AccessInv, NEW r \in Reads, NEW to \in ReadState,
           read' = [read EXCEPT ![r] = to],
           UNCHANGED <<clock, grants, bucket, asked, dropped>>,
           to.pc # "idle" => to.v \in Viewers,
           to.pc \in {"lookup", "allow", "ask", "store"} => 1 <= to.now /\ to.now <= clock,
           to.pc \notin {"idle", "done"} /\ to.v \in grants => to.held,
           to.said = "page" => to.pc = "done" /\ to.held
    PROVE  ReadsTimed' /\ HoldsKnown' /\ BucketsPay'
<1>1. read'[r] = to /\ \A q \in Reads : q # r => read'[q] = read[q]
  BY DEF AccessInv, AccessShape
<1>2. ReadsTimed' BY <1>1 DEF AccessInv, ReadsTimed
<1>3. HoldsKnown' BY <1>1 DEF AccessInv, HoldsKnown
<1>4. BucketsPay'
  <2>1. \A v \in Viewers : Seen(v)' = Seen(v) BY DEF Seen
  <2>2. Allowance' = Allowance BY DEF Allowance
  <2> QED BY <2>1, <2>2 DEF AccessInv, BucketsPay
<1> QED BY <1>2, <1>3, <1>4

(* The same where the answers and the remembered refusals stay. *)
LEMMA ReadGoesOn ==
    ASSUME AccessInv, NEW r \in Reads, NEW to \in ReadState,
           read' = [read EXCEPT ![r] = to],
           UNCHANGED <<clock, grants, bucket, asked, dropped, refusal, lastNo>>,
           to.pc # "idle" => to.v \in Viewers,
           to.pc \in {"lookup", "allow", "ask", "store"} => 1 <= to.now /\ to.now <= clock,
           to.pc \notin {"idle", "done"} /\ to.v \in grants => to.held,
           to.said = "page" => to.pc = "done" /\ to.held,
           to.pc # "store",
           to.cached => to.pc = "done" /\ to.now < lastNo[to.v] + repositoryAccessTTL
    PROVE  AccessInv'
<1>1. read'[r] = to /\ \A q \in Reads : q # r => read'[q] = read[q]
  BY DEF AccessInv, AccessShape
<1>2. AccessShape' BY DEF AccessInv, AccessShape
<1>3. RefusalsFounded' BY <1>1 DEF AccessInv, RefusalsFounded
<1> QED BY <1>2, <1>3, ReadMoves DEF AccessInv

(* A read begins with what GitHub grants its viewer at that moment. *)
LEMMA ReadBegins ==
    ASSUME AccessInv, NEW r \in Reads, NEW v \in Viewers, GetPullRequestAttachment(r, v)
    PROVE  AccessInv'
<1> DEFINE granted == v \in grants
           to == [read[r] EXCEPT !.pc = "budget", !.v = v, !.held = granted]
<1>a. granted \in BOOLEAN OBVIOUS
<1>1. read[r] \in ReadState /\ read[r].pc = "idle"
  BY DEF AccessInv, AccessShape, GetPullRequestAttachment, Reading
<1>2. read[r].said # "page" /\ ~ read[r].cached
  BY <1>1 DEF AccessInv, HoldsKnown, RefusalsFounded
<1>5. /\ read' = [read EXCEPT ![r] = to]
      /\ UNCHANGED <<clock, grants, bucket, asked, dropped, refusal, lastNo>>
  BY DEF GetPullRequestAttachment
<1> HIDE DEF granted
<1>3. /\ to \in ReadState /\ to.pc = "budget" /\ to.v = v /\ to.said = read[r].said
      /\ to.cached = read[r].cached /\ to.held = granted
  BY <1>1, <1>a DEF ReadState
<1>4. to.v \in grants => to.held BY <1>3 DEF granted
<1> HIDE DEF to
<1> QED BY <1>2, <1>3, <1>4, <1>5, ReadGoesOn


(* The budget check reads the clock, or ends the read. *)
LEMMA ReadBudget == ASSUME AccessInv, NEW r \in Reads, Budget(r) PROVE AccessInv'
<1> DEFINE over == [read[r] EXCEPT !.pc = "done", !.said = "throttled"]
           hidden == [read[r] EXCEPT !.pc = "done", !.said = "absent"]
           next == [read[r] EXCEPT !.pc = "lookup", !.now = clock]
<1>1. read[r] \in ReadState /\ read[r].pc = "budget" /\ clock \in Nat /\ 1 <= clock
  BY DEF AccessInv, AccessShape, Budget, Reading
<1>2. /\ read[r].said # "page" /\ ~ read[r].cached /\ read[r].v \in Viewers
      /\ read[r].v \in grants => read[r].held
  BY <1>1 DEF AccessInv, ReadsTimed, HoldsKnown, RefusalsFounded
<1>3. UNCHANGED <<clock, grants, bucket, asked, dropped, refusal, lastNo>> BY DEF Budget
<1>4. \/ read' = [read EXCEPT ![r] = over]
      \/ read' = [read EXCEPT ![r] = hidden]
      \/ read' = [read EXCEPT ![r] = next]
  BY DEF Budget, Says, AccessInv, AccessShape
<1>5. /\ over \in ReadState /\ over.pc = "done" /\ over.said = "throttled"
      /\ over.v = read[r].v /\ over.cached = read[r].cached
  BY <1>1 DEF ReadState
<1>6. /\ hidden \in ReadState /\ hidden.pc = "done" /\ hidden.said = "absent"
      /\ hidden.v = read[r].v /\ hidden.cached = read[r].cached
  BY <1>1 DEF ReadState
<1>7. /\ next \in ReadState /\ next.pc = "lookup" /\ next.said = read[r].said /\ next.now = clock
      /\ next.v = read[r].v /\ next.cached = read[r].cached /\ next.held = read[r].held
  BY <1>1 DEF ReadState
<1> HIDE DEF over, hidden, next
<1>8. CASE read' = [read EXCEPT ![r] = over] BY <1>2, <1>3, <1>5, <1>8, ReadGoesOn
<1>9. CASE read' = [read EXCEPT ![r] = hidden] BY <1>2, <1>3, <1>6, <1>9, ReadGoesOn
<1>10. CASE read' = [read EXCEPT ![r] = next]
  <2>1. 1 <= next.now /\ next.now <= clock BY <1>1, <1>7
  <2> QED BY <1>2, <1>3, <1>7, <1>10, <2>1, ReadGoesOn
<1> QED BY <1>4, <1>8, <1>9, <1>10

(* A remembered refusal is told only while it is younger than its TTL. *)
LEMMA ReadLookup == ASSUME AccessInv, NEW r \in Reads, Lookup(r) PROVE AccessInv'
<1> DEFINE told == [read[r] EXCEPT !.pc = "done", !.said = "absent", !.cached = TRUE]
           next == [read[r] EXCEPT !.pc = "allow"]
           v == read[r].v
<1>1. read[r] \in ReadState /\ read[r].pc = "lookup"
  BY DEF AccessInv, AccessShape, Lookup, Reading
<1>2. /\ read[r].said # "page" /\ ~ read[r].cached /\ v \in Viewers
      /\ 1 <= read[r].now /\ read[r].now <= clock
      /\ v \in grants => read[r].held
  BY <1>1 DEF AccessInv, ReadsTimed, HoldsKnown, RefusalsFounded
<1>3. UNCHANGED <<clock, grants, bucket, asked, dropped, refusal, lastNo>> BY DEF Lookup
<1>4. /\ told \in ReadState /\ told.pc = "done" /\ told.said = "absent"
      /\ told.v = v /\ told.now = read[r].now
  BY <1>1 DEF ReadState
<1>5. /\ next \in ReadState /\ next.pc = "allow" /\ next.said = read[r].said /\ next.now = read[r].now
      /\ next.v = v /\ next.cached = read[r].cached /\ next.held = read[r].held
  BY <1>1 DEF ReadState
<1>6. CASE lookup(v, read[r].now)
  <2>1. read' = [read EXCEPT ![r] = told]
    BY <1>6 DEF Lookup, AccessInv, AccessShape
  <2>2. read[r].now < lastNo[v] + repositoryAccessTTL
    BY <1>1, <1>2, <1>6, AccessAssumption DEF lookup, AccessInv, AccessShape, RefusalsFounded, ReadState
  <2> HIDE DEF told, v
  <2> QED BY <1>2, <1>3, <1>4, <2>1, <2>2, ReadGoesOn
<1>7. CASE ~ lookup(v, read[r].now)
  <2>1. read' = [read EXCEPT ![r] = next]
    BY <1>7 DEF Lookup, Goes, AccessInv, AccessShape
  <2> HIDE DEF next, v
  <2> QED BY <1>1, <1>2, <1>3, <1>5, <2>1, ReadGoesOn
<1> QED BY <1>6, <1>7

(* GitHub's answer: yes only while the access is granted, and a no is dated. *)
LEMMA ReadAsks == ASSUME AccessInv, NEW r \in Reads, AskGitHub(r) PROVE AccessInv'
<1> DEFINE shown == [read[r] EXCEPT !.pc = "done", !.said = "page"]
           next == [read[r] EXCEPT !.pc = "store"]
           v == read[r].v
           now == read[r].now
<1>1. read[r] \in ReadState /\ read[r].pc = "ask"
  BY DEF AccessInv, AccessShape, AskGitHub, Reading
<1>2. /\ read[r].said # "page" /\ ~ read[r].cached /\ v \in Viewers
      /\ 1 <= now /\ now <= clock /\ now \in Nat
      /\ v \in grants => read[r].held
  BY <1>1 DEF AccessInv, ReadsTimed, HoldsKnown, RefusalsFounded, ReadState
<1>3. UNCHANGED <<clock, grants, bucket, asked, dropped, refusal>> BY DEF AskGitHub
<1>4. /\ shown \in ReadState /\ shown.pc = "done" /\ shown.v = v
      /\ shown.held = read[r].held /\ shown.cached = read[r].cached
  BY <1>1 DEF ReadState
<1>5. /\ next \in ReadState /\ next.pc = "store" /\ next.said = read[r].said /\ next.now = now
      /\ next.v = v /\ next.cached = read[r].cached /\ next.held = read[r].held
  BY <1>1 DEF ReadState
<1>6. \/ /\ v \in grants /\ read' = [read EXCEPT ![r] = shown] /\ lastNo' = lastNo
      \/ /\ read' = [read EXCEPT ![r] = next]
         /\ lastNo' = IF lastNo[v] > now THEN lastNo ELSE [lastNo EXCEPT ![v] = now]
  BY DEF AskGitHub, Says, Goes, AccessInv, AccessShape
<1> HIDE DEF shown, next, v, now
<1>7. CASE v \in grants /\ read' = [read EXCEPT ![r] = shown] /\ lastNo' = lastNo
  BY <1>2, <1>3, <1>4, <1>7, ReadGoesOn
<1>8. CASE /\ read' = [read EXCEPT ![r] = next]
           /\ lastNo' = IF lastNo[v] > now THEN lastNo ELSE [lastNo EXCEPT ![v] = now]
  <2>1. ReadsTimed' /\ HoldsKnown' /\ BucketsPay' BY <1>2, <1>3, <1>5, <1>8, ReadMoves
  <2>2. /\ lastNo' \in [Viewers -> Nat] /\ now <= lastNo'[v]
        /\ \A w \in Viewers : lastNo[w] <= lastNo'[w]
    BY <1>2, <1>8 DEF AccessInv, AccessShape
  <2>3. AccessShape' BY <1>3, <1>5, <1>8, <2>2 DEF AccessInv, AccessShape
  <2>4. read'[r] = next /\ \A q \in Reads : q # r => read'[q] = read[q]
    BY <1>8 DEF AccessInv, AccessShape
  <2>5. \A q \in Reads : read[q].now \in Nat /\ (read[q].pc # "idle" => lastNo[read[q].v] <= lastNo'[read[q].v]
                          /\ lastNo[read[q].v] \in Nat /\ lastNo'[read[q].v] \in Nat)
    BY <2>2 DEF AccessInv, AccessShape, ReadsTimed, ReadState
  <2>6. \A w \in Viewers : refusal[w] # 0 => refusal[w] <= lastNo'[w] + repositoryAccessTTL
    BY <2>2, AccessAssumption DEF AccessInv, AccessShape, RefusalsFounded
  <2>7. \A q \in Reads : read'[q].pc = "store" => read'[q].now <= lastNo'[read'[q].v]
    BY <1>5, <2>2, <2>4, <2>5 DEF AccessInv, RefusalsFounded
  <2>8. \A q \in Reads : read'[q].cached =>
          read'[q].pc = "done" /\ read'[q].now < lastNo'[read'[q].v] + repositoryAccessTTL
    <3>1. SUFFICES ASSUME NEW q \in Reads, read'[q].cached
                   PROVE  read'[q].pc = "done" /\ read'[q].now < lastNo'[read'[q].v] + repositoryAccessTTL
      OBVIOUS
    <3>2. read'[q] = read[q] BY <1>2, <1>5, <2>4, <3>1
    <3>3. read[q].pc = "done" /\ read[q].now < lastNo[read[q].v] + repositoryAccessTTL
      BY <3>1, <3>2 DEF AccessInv, RefusalsFounded
    <3> QED BY <2>5, <3>2, <3>3, AccessAssumption
  <2>9. RefusalsFounded' BY <1>3, <2>6, <2>7, <2>8 DEF RefusalsFounded
  <2> QED BY <2>1, <2>3, <2>9 DEF AccessInv
<1> QED BY <1>6, <1>7, <1>8


(* The cache after a refusal is stored: this viewer's entry dates from this
   question, every other one stays or goes. *)
LEMMA StoreIs ==
    ASSUME NEW v \in Viewers, NEW now
    PROVE  /\ store(v, now) = [w \in Viewers |-> store(v, now)[w]]
           /\ store(v, now)[v] = now + repositoryAccessTTL
           /\ \A w \in Viewers : w # v => store(v, now)[w] \in {refusal[w], 0}
<1> DEFINE live == {w \in Entries : now < refusal[w]}
           kept == CASE Cardinality(Entries) < repositoryAccessMaxEntries -> Entries
                  [] Cardinality(live) < repositoryAccessMaxEntries -> live
                  [] OTHER -> {}
<1>1. store(v, now) = [w \in Viewers |-> CASE w = v -> now + repositoryAccessTTL
                             [] w # v /\ w \in kept -> refusal[w]
                             [] OTHER -> 0]
  BY DEF store
<1> HIDE DEF kept
<1>2. store(v, now)[v] = now + repositoryAccessTTL BY <1>1, Zenon
<1>3. ASSUME NEW w \in Viewers, w # v PROVE store(v, now)[w] \in {refusal[w], 0}
  <2>1. CASE w \in kept BY <1>1, <1>3, <2>1, Zenon
  <2>2. CASE w \notin kept BY <1>1, <1>3, <2>2, Zenon
  <2> QED BY <2>1, <2>2
<1>4. store(v, now) = [w \in Viewers |-> store(v, now)[w]] BY <1>1, Zenon
<1> QED BY <1>2, <1>3, <1>4

(* Storing a refusal dates it from the question, not from the moment of storing. *)
LEMMA ReadStores == ASSUME AccessInv, NEW r \in Reads, Store(r) PROVE AccessInv'
<1> DEFINE told == [read[r] EXCEPT !.pc = "done", !.said = "absent"]
           v == read[r].v
           now == read[r].now
<1>1. read[r] \in ReadState /\ read[r].pc = "store"
  BY DEF AccessInv, AccessShape, Store, Reading
<1>2. /\ ~ read[r].cached /\ v \in Viewers /\ now \in Nat /\ now <= lastNo[v]
  BY <1>1 DEF AccessInv, ReadsTimed, RefusalsFounded, ReadState
<1>3. UNCHANGED <<clock, grants, bucket, asked, dropped, lastNo>> BY DEF Store
<1>4. /\ told \in ReadState /\ told.pc = "done" /\ told.v = v /\ told.said = "absent"
      /\ told.cached = read[r].cached
  BY <1>1 DEF ReadState
<1>5. read' = [read EXCEPT ![r] = told] /\ refusal' = store(v, now)
  BY DEF Store, Says, AccessInv, AccessShape
<1> HIDE DEF told, v, now
<1>6. ReadsTimed' /\ HoldsKnown' /\ BucketsPay' BY <1>2, <1>3, <1>4, <1>5, ReadMoves
<1>7. /\ refusal' = [w \in Viewers |-> refusal'[w]] /\ refusal'[v] = now + repositoryAccessTTL
      /\ \A w \in Viewers : w # v => refusal'[w] \in {refusal[w], 0}
  BY <1>2, <1>5, StoreIs
<1>8. \A w \in Viewers : refusal'[w] \in Nat
  BY <1>2, <1>7, AccessAssumption DEF AccessInv, AccessShape
<1>9. AccessShape'
  <2>1. refusal' \in [Viewers -> Nat] BY <1>7, <1>8
  <2> QED BY <1>3, <1>4, <1>5, <2>1 DEF AccessInv, AccessShape
<1>10. \A w \in Viewers : refusal'[w] # 0 => refusal'[w] <= lastNo[w] + repositoryAccessTTL
  BY <1>2, <1>7, AccessAssumption DEF AccessInv, AccessShape, RefusalsFounded
<1>11. read'[r] = told /\ \A q \in Reads : q # r => read'[q] = read[q]
  BY <1>5 DEF AccessInv, AccessShape
<1>12. RefusalsFounded' BY <1>2, <1>3, <1>4, <1>10, <1>11 DEF AccessInv, RefusalsFounded
<1> QED BY <1>6, <1>9, <1>12 DEF AccessInv

(* A grant given marks the reads under way; one taken away unmarks none. *)
LEMMA GrantKeeps == ASSUME AccessInv, NEW v \in Viewers, GrantMoves(v) PROVE AccessInv'
<1>1. UNCHANGED <<clock, refusal, bucket, asked, dropped, lastNo>> BY DEF GrantMoves
<1>2. ASSUME NEW r \in Reads
      PROVE  /\ read'[r] \in ReadState
             /\ read'[r].pc = read[r].pc /\ read'[r].v = read[r].v /\ read'[r].now = read[r].now
             /\ read'[r].said = read[r].said /\ read'[r].cached = read[r].cached
             /\ read[r].held => read'[r].held
             /\ read[r].v = v /\ v \notin grants /\ read[r].pc # "done" => read'[r].held
  <2> DEFINE mark == [read[r] EXCEPT !.held = TRUE]
  <2>1. read[r] \in ReadState BY DEF AccessInv, AccessShape
  <2>2. /\ mark \in ReadState /\ mark.pc = read[r].pc /\ mark.v = read[r].v /\ mark.now = read[r].now
        /\ mark.said = read[r].said /\ mark.cached = read[r].cached /\ mark.held
    BY <2>1 DEF ReadState
  <2>3. read'[r] = IF read[r].v = v /\ v \notin grants /\ ~ Reading(r, "done") THEN mark ELSE read[r]
    BY DEF GrantMoves
  <2> HIDE DEF mark
  <2> QED BY <2>1, <2>2, <2>3 DEF Reading
<1>3. read' = [r \in Reads |-> read'[r]] BY DEF GrantMoves
<1>4. AccessShape'
  <2>1. read' \in [Reads -> ReadState] BY <1>2, <1>3
  <2> QED BY <1>1, <2>1 DEF AccessInv, AccessShape
<1>5. ReadsTimed' BY <1>1, <1>2 DEF AccessInv, ReadsTimed
<1>6. \A w : w \in grants' => w \in grants \/ (w = v /\ v \notin grants) BY DEF GrantMoves
<1>7. HoldsKnown' BY <1>2, <1>6 DEF AccessInv, HoldsKnown
<1>8. RefusalsFounded' BY <1>1, <1>2 DEF AccessInv, RefusalsFounded
<1>9. BucketsPay'
  <2>1. \A w \in Viewers : Seen(w)' = Seen(w) BY <1>1 DEF Seen
  <2>2. Allowance' = Allowance BY <1>1 DEF Allowance
  <2> QED BY <1>1, <2>1, <2>2 DEF AccessInv, BucketsPay
<1> QED BY <1>4, <1>5, <1>7, <1>8, <1>9 DEF AccessInv

(* A tick only loosens the bounds. *)
LEMMA TickKeeps == ASSUME AccessInv, Tick PROVE AccessInv'
<1> USE AccessAssumption
<1>1. clock' = clock + 1 /\ UNCHANGED <<grants, refusal, bucket, read, asked, dropped, lastNo>>
  BY DEF Tick
<1>2. AccessShape' BY <1>1 DEF AccessInv, AccessShape
<1>3. ReadsTimed' BY <1>1 DEF AccessInv, AccessShape, ReadsTimed, ReadState
<1>4. HoldsKnown' /\ RefusalsFounded' BY <1>1 DEF AccessInv, HoldsKnown, RefusalsFounded
<1>5. BucketsPay'
  <2>1. Allowance \in Nat /\ Allowance' = Allowance + 1
    BY <1>1, AllowanceNat DEF AccessInv, AccessShape, Allowance
  <2>2. SUFFICES ASSUME NEW v \in Viewers
                 PROVE  /\ Seen(v) =>
                            /\ 1 <= bucket[v].refill /\ bucket[v].refill <= clock + 1
                            /\ asked[v] + bucket[v].tokens <=
                                Product(Allowance + 1, dropped[v]) + repositoryAccessBurst + (bucket[v].refill - 1)
                        /\ ~ Seen(v) => asked[v] <= Product(Allowance + 1, dropped[v])
    BY <1>1, <2>1 DEF BucketsPay, Seen
  <2> DEFINE old == Product(Allowance, dropped[v])
             new == Product(Allowance + 1, dropped[v])
  <2>3. dropped[v] \in Nat /\ asked[v] \in Nat /\ clock \in Nat
        /\ bucket[v].tokens \in Nat /\ bucket[v].refill \in Int
    BY DEF AccessInv, AccessShape
  <2>4. old \in Nat /\ new \in Nat /\ old <= new
    <3>1. Allowance + 1 \in Nat BY <2>1
    <3>2. old \in Nat /\ old <= new BY <2>1, <2>3, ProductNat, ProductTick
    <3>3. new \in Nat BY <2>3, <3>1, ProductNat
    <3> QED BY <3>2, <3>3
  <2>5. /\ Seen(v) =>
              /\ 1 <= bucket[v].refill /\ bucket[v].refill <= clock
              /\ asked[v] + bucket[v].tokens <=
                    old + repositoryAccessBurst + (bucket[v].refill - 1)
        /\ ~ Seen(v) => asked[v] <= old
    BY DEF AccessInv, BucketsPay
  <2> HIDE DEF old, new
  <2>6. /\ Seen(v) =>
              /\ 1 <= bucket[v].refill /\ bucket[v].refill <= clock + 1
              /\ asked[v] + bucket[v].tokens <=
                    new + repositoryAccessBurst + (bucket[v].refill - 1)
        /\ ~ Seen(v) => asked[v] <= new
    BY <2>3, <2>4, <2>5
  <2> QED BY <2>6 DEF new
<1> QED BY <1>2, <1>3, <1>4, <1>5 DEF AccessInv


-----------------------------------------------------------------------------
(* allow: the viewer's bucket is made or spent from, others may be dropped. *)

LEMMA SpentIs ==
    ASSUME NEW v, NEW now
    PROVE  /\ ~ Seen(v) => Spent(v, now) = [tokens |-> repositoryAccessBurst - 1, refill |-> now]
           /\ Seen(v) /\ TokensAt(bucket[v], now) < 1 =>
                Spent(v, now) = [tokens |-> TokensAt(bucket[v], now), refill |-> RefillAt(bucket[v], now)]
           /\ Seen(v) /\ ~ (TokensAt(bucket[v], now) < 1) =>
                Spent(v, now) = [tokens |-> TokensAt(bucket[v], now) - 1, refill |-> RefillAt(bucket[v], now)]
<1>1. ASSUME ~ Seen(v) PROVE Spent(v, now) = [tokens |-> repositoryAccessBurst - 1, refill |-> now]
  BY <1>1, Zenon DEF Spent
<1>2. ASSUME Seen(v), TokensAt(bucket[v], now) < 1
      PROVE  Spent(v, now) = [tokens |-> TokensAt(bucket[v], now), refill |-> RefillAt(bucket[v], now)]
  BY <1>2, Zenon DEF Spent
<1>3. ASSUME Seen(v), ~ (TokensAt(bucket[v], now) < 1)
      PROVE  Spent(v, now) = [tokens |-> TokensAt(bucket[v], now) - 1, refill |-> RefillAt(bucket[v], now)]
  BY <1>3, Zenon DEF Spent
<1> QED BY <1>1, <1>2, <1>3

(* What refilling adds is the ticks that passed, and a late caller adds nothing. *)
LEMMA Refilled ==
    ASSUME AccessInv, NEW v \in Viewers, Seen(v), NEW now \in Nat, now <= clock
    PROVE  LET t == TokensAt(bucket[v], now)
               f == RefillAt(bucket[v], now)
           IN  /\ t \in Nat /\ f \in Nat /\ 1 <= f /\ f <= clock
               /\ t - f <= bucket[v].tokens - bucket[v].refill
<1>1. /\ bucket[v].tokens \in Nat /\ bucket[v].refill \in Nat
      /\ 1 <= bucket[v].refill /\ bucket[v].refill <= clock /\ clock \in Nat
  BY DEF AccessInv, AccessShape, BucketsPay, Seen
<1> QED BY <1>1, AccessAssumption DEF TokensAt, RefillAt, Capped

(* Buckets dropped to make room existed, and are not the one being made. *)
LEMMA EvictedSeen ==
    ASSUME NEW v \in Viewers, NEW now
    PROVE  (\A w \in Evicted(v, now) : w \in Viewers /\ Seen(w)) /\ v \notin Evicted(v, now)
<1>1. pruneLocked(now) \subseteq Table BY DEF pruneLocked
<1> QED BY <1>1 DEF Evicted, Table

(* Each question is paid for by a token of the bucket or by the bucket made anew. *)
LEMMA AllowKeeps == ASSUME AccessInv, NEW r \in Reads, Allow(r) PROVE AccessInv'
<1> USE AccessAssumption
<1> DEFINE v == read[r].v
           now == read[r].now
           gone == Evicted(v, now)
           t == TokensAt(bucket[v], now)
           f == RefillAt(bucket[v], now)
           ask == [read[r] EXCEPT !.pc = "ask"]
           denied == [read[r] EXCEPT !.pc = "done", !.said = "throttled"]
<1>1. read[r] \in ReadState /\ read[r].pc = "allow"
  BY DEF AccessInv, AccessShape, Allow, Reading
<1>2. /\ read[r].said # "page" /\ ~ read[r].cached /\ v \in Viewers
      /\ 1 <= now /\ now <= clock /\ now \in Nat
      /\ v \in grants => read[r].held
  BY <1>1 DEF AccessInv, ReadsTimed, HoldsKnown, RefusalsFounded, ReadState
<1>3. UNCHANGED <<clock, grants, refusal, lastNo>> BY DEF Allow
<1>4. /\ ask \in ReadState /\ ask.pc = "ask" /\ ask.said = read[r].said /\ ask.now = now
      /\ ask.v = v /\ ask.cached = read[r].cached /\ ask.held = read[r].held
  BY <1>1 DEF ReadState
<1>5. /\ denied \in ReadState /\ denied.pc = "done" /\ denied.said = "throttled"
      /\ denied.v = v /\ denied.cached = read[r].cached
  BY <1>1 DEF ReadState
<1>6. \/ /\ Allowed(v, now) /\ read' = [read EXCEPT ![r] = ask]
         /\ asked' = [asked EXCEPT ![v] = asked[v] + 1]
      \/ /\ ~ Allowed(v, now) /\ read' = [read EXCEPT ![r] = denied] /\ asked' = asked
  BY DEF Allow, Goes, Says, AccessInv, AccessShape
<1>7. /\ dropped' = [w \in Viewers |-> IF w \in gone THEN dropped[w] + 1 ELSE dropped[w]]
      /\ bucket' = [w \in Viewers |-> CASE w = v -> Spent(v, now)
                                        [] w # v /\ w \in gone -> NoBucket
                                        [] OTHER -> bucket[w]]
  BY DEF Allow
<1>8. /\ bucket' = [w \in Viewers |-> bucket'[w]]
      /\ bucket'[v] = Spent(v, now)
      /\ \A w \in Viewers : w # v /\ w \in gone => bucket'[w] = NoBucket
      /\ \A w \in Viewers : w # v /\ w \notin gone => bucket'[w] = bucket[w]
  <2> HIDE DEF v, now, gone
  <2>1. bucket' = [w \in Viewers |-> bucket'[w]] BY <1>7, Zenon
  <2>2. bucket'[v] = Spent(v, now) BY <1>2, <1>7, Zenon
  <2>3. ASSUME NEW w \in Viewers, w # v, w \in gone PROVE bucket'[w] = NoBucket
    BY <1>7, <2>3, Zenon
  <2>4. ASSUME NEW w \in Viewers, w # v, w \notin gone PROVE bucket'[w] = bucket[w]
    BY <1>7, <2>4, Zenon
  <2> QED BY <2>1, <2>2, <2>3, <2>4
<1>9. (\A w \in gone : w \in Viewers /\ Seen(w)) /\ v \notin gone BY <1>2, EvictedSeen
<1>10. ~ Seen(v) => bucket'[v] = [tokens |-> repositoryAccessBurst - 1, refill |-> now]
  BY <1>8, SpentIs
<1>11. Seen(v) => /\ t < 1 => bucket'[v] = [tokens |-> t, refill |-> f]
                  /\ ~ (t < 1) => bucket'[v] = [tokens |-> t - 1, refill |-> f]
  BY <1>8, SpentIs
<1>12. Seen(v) => /\ t \in Nat /\ f \in Nat /\ 1 <= f /\ f <= clock
                  /\ t - f <= bucket[v].tokens - bucket[v].refill
  BY <1>2, Refilled
<1>13. (Seen(v) => t >= 1) <=> Allowed(v, now) BY DEF Allowed
<1> HIDE DEF v, now, gone, t, f, ask, denied
<1>14. /\ asked'[v] = IF Allowed(v, now) THEN asked[v] + 1 ELSE asked[v]
       /\ \A w \in Viewers : w # v => asked'[w] = asked[w]
       /\ asked' \in [Viewers -> Nat]
  BY <1>2, <1>6 DEF AccessInv, AccessShape
<1>15. NoBucket \in [tokens : Nat, refill : Nat \union {-1}] /\ NoBucket.refill = -1 BY DEF NoBucket
<1>16. /\ bucket'[v] \in [tokens : Nat, refill : Nat \union {-1}]
       /\ ~ Seen(v) => bucket'[v].tokens = repositoryAccessBurst - 1 /\ bucket'[v].refill = now
       /\ Seen(v) => bucket'[v].tokens = (IF t < 1 THEN t ELSE t - 1) /\ bucket'[v].refill = f
  <2>1. CASE ~ Seen(v) BY <1>2, <1>10, <2>1
  <2>2. CASE Seen(v) /\ t < 1 BY <1>11, <1>12, <2>2
  <2>3. CASE Seen(v) /\ ~ (t < 1)
    <3>1. t - 1 \in Nat BY <1>12, <2>3
    <3> QED BY <1>11, <1>12, <2>3, <3>1
  <2> QED BY <2>1, <2>2, <2>3
<1>17. AccessShape'
  <2>1. \A w \in Viewers : bucket'[w] \in [tokens : Nat, refill : Nat \union {-1}]
    BY <1>8, <1>15, <1>16 DEF AccessInv, AccessShape
  <2>2. bucket' \in [Viewers -> [tokens : Nat, refill : Nat \union {-1}]] BY <1>8, <2>1
  <2>3. dropped' \in [Viewers -> Nat] BY <1>7 DEF AccessInv, AccessShape
  <2>4. read' \in [Reads -> ReadState] BY <1>4, <1>5, <1>6 DEF AccessInv, AccessShape
  <2> QED BY <1>3, <1>14, <2>2, <2>3, <2>4 DEF AccessInv, AccessShape
<1>18. PICK to \in {ask, denied} : read' = [read EXCEPT ![r] = to] BY <1>6
<1>19. /\ read'[r] = to /\ to.v = v /\ to.pc \in {"ask", "done"} /\ to.said # "page" /\ ~ to.cached
       /\ to.pc = "ask" => to.now = now /\ to.held = read[r].held
       /\ \A q \in Reads : q # r => read'[q] = read[q]
  BY <1>2, <1>4, <1>5, <1>18 DEF AccessInv, AccessShape
<1>20. ReadsTimed' BY <1>2, <1>3, <1>19 DEF AccessInv, ReadsTimed
<1>21. HoldsKnown' BY <1>2, <1>3, <1>19 DEF AccessInv, HoldsKnown
<1>22. RefusalsFounded' BY <1>3, <1>19 DEF AccessInv, RefusalsFounded
<1>23. BucketsPay'
  <2>1. Allowance' = Allowance /\ Allowance \in Nat
    BY <1>3, AllowanceNat DEF Allowance, AccessInv
  <2>2. ASSUME NEW w \in Viewers
        PROVE  /\ Seen(w)' =>
                    /\ 1 <= bucket'[w].refill /\ bucket'[w].refill <= clock
                    /\ asked'[w] + bucket'[w].tokens <=
                        Product(Allowance, dropped'[w]) + repositoryAccessBurst + (bucket'[w].refill - 1)
               /\ ~ Seen(w)' => asked'[w] <= Product(Allowance, dropped'[w])
    <3> DEFINE old == Product(Allowance, dropped[w])
    <3>0. dropped[w] \in Nat /\ asked[w] \in Nat /\ clock \in Nat
          /\ bucket[w].tokens \in Nat /\ bucket[w].refill \in Int
      BY DEF AccessInv, AccessShape
    <3>1. old \in Nat BY <2>1, <3>0, ProductNat
    <3>2. /\ Seen(w) =>
              /\ 1 <= bucket[w].refill /\ bucket[w].refill <= clock
              /\ asked[w] + bucket[w].tokens <=
                    old + repositoryAccessBurst + (bucket[w].refill - 1)
          /\ ~ Seen(w) => asked[w] <= old
      BY DEF AccessInv, BucketsPay
    <3>3. Product(Allowance, dropped[w] + 1) = old + Allowance BY <2>1, <3>0, ProductDrop
    <3>4. CASE w = v
      <4>1. dropped'[w] = dropped[w] BY <1>7, <1>9, <3>4
      <4>2. bucket'[w].refill >= 0 /\ 1 <= bucket'[w].refill /\ bucket'[w].refill <= clock
        BY <1>2, <1>12, <1>16, <3>0, <3>4
      <4>3. asked'[w] + bucket'[w].tokens <= old + repositoryAccessBurst + (bucket'[w].refill - 1)
        <5> HIDE DEF old
        <5>1. CASE ~ Seen(v) BY <1>2, <1>13, <1>14, <1>16, <3>0, <3>1, <3>2, <3>4, <5>1
        <5>2. CASE Seen(v) /\ t < 1
          BY <1>2, <1>12, <1>13, <1>14, <1>16, <3>0, <3>1, <3>2, <3>4, <5>2
        <5>3. CASE Seen(v) /\ ~ (t < 1)
          BY <1>2, <1>12, <1>13, <1>14, <1>16, <3>0, <3>1, <3>2, <3>4, <5>3
        <5> QED BY <5>1, <5>2, <5>3
      <4>4. Seen(w)' BY <4>2 DEF Seen
      <4> QED BY <4>1, <4>2, <4>3, <4>4
    <3>5. CASE w # v /\ w \notin gone
      <4>1. dropped'[w] = dropped[w] /\ bucket'[w] = bucket[w] /\ asked'[w] = asked[w]
        BY <1>7, <1>8, <1>14, <3>5
      <4>2. Seen(w)' = Seen(w) BY <4>1 DEF Seen
      <4> QED BY <3>2, <4>1, <4>2
    <3>6. CASE w # v /\ w \in gone
      <4>1. dropped'[w] = dropped[w] + 1 /\ bucket'[w].refill = -1 /\ asked'[w] = asked[w]
        BY <1>7, <1>8, <1>14, <1>15, <3>6
      <4>2. ~ Seen(w)' BY <4>1 DEF Seen
      <4>3. asked[w] <= old + Allowance
        <5> HIDE DEF old
        <5> QED BY <1>9, <2>1, <3>0, <3>1, <3>2, <3>6 DEF Allowance
      <4> QED BY <3>3, <4>1, <4>2, <4>3
    <3> QED BY <3>4, <3>5, <3>6
  <2> QED BY <1>3, <2>1, <2>2 DEF BucketsPay
<1> QED BY <1>17, <1>20, <1>21, <1>22, <1>23 DEF AccessInv

(* Every step keeps the invariant. *)
LEMMA AccessStep == ASSUME AccessInv, [AccessNext]_accessVars PROVE AccessInv'
<1>1. CASE UNCHANGED accessVars
  <2>1. UNCHANGED <<clock, grants, refusal, bucket, read, asked, dropped, lastNo>>
    BY <1>1 DEF accessVars
  <2> QED BY <2>1 DEF AccessInv, AccessShape, ReadsTimed, HoldsKnown, RefusalsFounded, BucketsPay,
                      Seen, Allowance
<1>2. ASSUME NEW r \in Reads, NEW v \in Viewers, GetPullRequestAttachment(r, v) PROVE AccessInv'
  BY <1>2, ReadBegins
<1>3. ASSUME NEW r \in Reads, Budget(r) \/ Lookup(r) \/ Allow(r) \/ AskGitHub(r) \/ Store(r)
      PROVE  AccessInv'
  BY <1>3, ReadBudget, ReadLookup, AllowKeeps, ReadAsks, ReadStores
<1>4. ASSUME NEW v \in Viewers, GrantMoves(v) PROVE AccessInv' BY <1>4, GrantKeeps
<1> QED BY <1>1, <1>2, <1>3, <1>4, TickKeeps DEF AccessNext

(* The invariant bounds the questions. *)
LEMMA AccessInvBounds == ASSUME AccessInv PROVE QuestionsBounded /\ AdmissionIsLive /\ RefusalIsRecent
<1>1. QuestionsBounded
  <2>1. SUFFICES ASSUME NEW v \in Viewers
                 PROVE  asked[v] <= Product(Allowance, 1 + dropped[v])
    BY DEF QuestionsBounded, Product, Allowance
  <2> DEFINE old == Product(Allowance, dropped[v])
  <2>2. dropped[v] \in Nat /\ asked[v] \in Nat /\ clock \in Nat /\ Allowance \in Nat
        /\ bucket[v].tokens \in Nat /\ bucket[v].refill \in Int
    BY AllowanceNat DEF AccessInv, AccessShape
  <2>3. old \in Nat /\ Product(Allowance, 1 + dropped[v]) = old + Allowance
    BY <2>2, ProductNat, ProductDrop
  <2>4. /\ Seen(v) =>
              /\ 1 <= bucket[v].refill /\ bucket[v].refill <= clock
              /\ asked[v] + bucket[v].tokens <=
                    old + repositoryAccessBurst + (bucket[v].refill - 1)
        /\ ~ Seen(v) => asked[v] <= old
    BY DEF AccessInv, BucketsPay
  <2> HIDE DEF old
  <2> QED BY <2>2, <2>3, <2>4, AccessAssumption DEF Allowance
<1>2. AdmissionIsLive BY DEF AccessInv, HoldsKnown, AdmissionIsLive
<1>3. RefusalIsRecent BY DEF AccessInv, RefusalsFounded, RefusalIsRecent
<1> QED BY <1>1, <1>2, <1>3

(* The two tables stay finite and within their limits. *)
TablesInv == IsFiniteSet(Table) /\ IsFiniteSet(Entries) /\ TablesBounded

(* One more entry in a set that was pruned, or in the set it was in already. *)
LEMMA OneMore ==
    ASSUME NEW S, IsFiniteSet(S), NEW T \in SUBSET S, NEW x, NEW R \in SUBSET (T \union {x}),
           NEW limit \in Nat \ {0}, Cardinality(S) <= limit, Cardinality(T) < limit \/ x \in T
    PROVE  IsFiniteSet(R) /\ Cardinality(R) <= limit
<1>1. IsFiniteSet(T) /\ Cardinality(T) <= Cardinality(S) BY FS_Subset
<1>2. Cardinality(T) \in Nat /\ Cardinality(S) \in Nat BY <1>1, FS_CardinalityType
<1>3. /\ IsFiniteSet(T \union {x})
      /\ Cardinality(T \union {x}) = IF x \in T THEN Cardinality(T) ELSE Cardinality(T) + 1
  BY <1>1, FS_AddElement
<1>4. IsFiniteSet(R) /\ Cardinality(R) <= Cardinality(T \union {x}) BY <1>3, FS_Subset
<1>5. Cardinality(R) \in Nat BY <1>4, FS_CardinalityType
<1> QED BY <1>1, <1>2, <1>3, <1>4, <1>5

(* allow prunes a full table of buckets before it makes one. *)
LEMMA AllowPrunes ==
    ASSUME AccessInv, TablesInv, NEW r \in Reads, Allow(r)
    PROVE  TablesInv'
<1> DEFINE v == read[r].v
           now == read[r].now
           gone == Evicted(v, now)
<1>1. v \in Viewers BY DEF AccessInv, ReadsTimed, Allow, Reading
<1>2. /\ refusal' = refusal
      /\ bucket' = [w \in Viewers |-> CASE w = v -> Spent(v, now)
                                        [] w # v /\ w \in gone -> NoBucket
                                        [] OTHER -> bucket[w]]
  BY DEF Allow
<1>3. Table' \subseteq (Table \ gone) \union {v}
  <2> SUFFICES ASSUME NEW w \in Table', w # v PROVE w \in Table \ gone
    OBVIOUS
  <2>1. w \in Viewers /\ bucket'[w].refill >= 0 BY DEF Table, Seen
  <2>2. bucket'[w] = IF w \in gone THEN NoBucket ELSE bucket[w] BY <1>2, <2>1
  <2>3. ~ (NoBucket.refill >= 0) BY DEF NoBucket
  <2> HIDE DEF gone
  <2> QED BY <2>1, <2>2, <2>3 DEF Table, Seen
<1>4. repositoryAccessMaxViewers \in Nat \ {0} BY AccessAssumption
<1>5. Cardinality(Table \ gone) < repositoryAccessMaxViewers \/ v \in Table \ gone
  <2>1. CASE Seen(v)
    <3>1. gone = {} BY <2>1 DEF Evicted
    <3> HIDE DEF gone, v
    <3> QED BY <1>1, <2>1, <3>1 DEF Table
  <2>2. CASE ~ Seen(v) /\ Cardinality(Table) >= repositoryAccessMaxViewers
    <3> DEFINE idle == {w \in Table : now - bucket[w].refill > repositoryAccessIdle}
    <3>1. gone = IF Cardinality(Table \ idle) >= repositoryAccessMaxViewers THEN Table ELSE idle
      BY <2>2 DEF Evicted, pruneLocked
    <3>2. IsFiniteSet(Table \ idle) BY FS_Subset, Table \ idle \in SUBSET Table DEF TablesInv
    <3>3. Cardinality(Table \ idle) \in Nat BY <3>2, FS_CardinalityType
    <3> HIDE DEF idle, gone, v, now
    <3>4. CASE gone = Table
      <4>1. Table \ gone = {} BY <3>4
      <4> QED BY <1>4, <4>1, FS_EmptySet
    <3>5. CASE gone = idle /\ ~ (Cardinality(Table \ idle) >= repositoryAccessMaxViewers)
      BY <1>4, <3>3, <3>5
    <3> QED BY <3>1, <3>4, <3>5
  <2>3. CASE ~ Seen(v) /\ ~ (Cardinality(Table) >= repositoryAccessMaxViewers)
    <3>1. gone = {} BY <2>3 DEF Evicted
    <3> HIDE DEF gone
    <3>2. Table \ gone = Table BY <3>1
    <3>3. Cardinality(Table) \in Nat BY FS_CardinalityType DEF TablesInv
    <3> QED BY <1>4, <2>3, <3>2, <3>3
  <2> QED BY <2>1, <2>2, <2>3
<1> HIDE DEF gone, v, now
<1>6. IsFiniteSet(Table') /\ Cardinality(Table') <= repositoryAccessMaxViewers
  BY <1>3, <1>4, <1>5, OneMore, Table \ gone \in SUBSET Table DEF TablesInv, TablesBounded
<1>7. Entries' = Entries BY <1>2 DEF Entries
<1> QED BY <1>6, <1>7 DEF TablesInv, TablesBounded

(* store prunes a full cache before it remembers a refusal. *)
LEMMA StorePrunes ==
    ASSUME AccessInv, TablesInv, NEW r \in Reads, Store(r)
    PROVE  TablesInv'
<1> DEFINE v == read[r].v
           now == read[r].now
           live == {w \in Entries : now < refusal[w]}
           kept == CASE Cardinality(Entries) < repositoryAccessMaxEntries -> Entries
                     [] Cardinality(live) < repositoryAccessMaxEntries -> live
                     [] OTHER -> {}
<1>1. /\ bucket' = bucket
      /\ refusal' = [w \in Viewers |-> CASE w = v -> now + repositoryAccessTTL
                                         [] w # v /\ w \in kept -> refusal[w]
                                         [] OTHER -> 0]
  BY DEF Store, store
<1>2. repositoryAccessMaxEntries \in Nat \ {0} BY AccessAssumption
<1>3. kept \in SUBSET Entries /\ Cardinality(kept) < repositoryAccessMaxEntries
  <2>1. live \in SUBSET Entries OBVIOUS
  <2>2. Cardinality({}) < repositoryAccessMaxEntries BY <1>2, FS_EmptySet
  <2> HIDE DEF live
  <2>3. \/ kept = Entries /\ Cardinality(Entries) < repositoryAccessMaxEntries
        \/ kept = live /\ Cardinality(live) < repositoryAccessMaxEntries
        \/ kept = {}
    OBVIOUS
  <2> HIDE DEF kept
  <2> QED BY <2>1, <2>2, <2>3
<1> HIDE DEF kept
<1>4. Entries' \subseteq kept \union {v}
  <2> SUFFICES ASSUME NEW w \in Entries', w # v, w \notin kept PROVE FALSE
    OBVIOUS
  <2>1. w \in Viewers /\ refusal'[w] # 0 BY DEF Entries
  <2> HIDE DEF v, now
  <2>2. refusal'[w] = 0 BY <1>1, <2>1
  <2> QED BY <2>1, <2>2
<1> HIDE DEF v
<1>5. IsFiniteSet(Entries') /\ Cardinality(Entries') <= repositoryAccessMaxEntries
  BY <1>2, <1>3, <1>4, OneMore DEF TablesInv, TablesBounded
<1>6. Table' = Table BY <1>1 DEF Table, Seen
<1> QED BY <1>5, <1>6 DEF TablesInv, TablesBounded

(* No other step touches a table. *)
LEMMA TablesStep == ASSUME AccessInv, TablesInv, [AccessNext]_accessVars PROVE TablesInv'
<1>1. CASE UNCHANGED <<bucket, refusal>>
  <2>1. Table' = Table /\ Entries' = Entries BY <1>1 DEF Table, Seen, Entries
  <2> QED BY <2>1 DEF TablesInv, TablesBounded
<1>2. CASE UNCHANGED accessVars BY <1>1, <1>2 DEF accessVars
<1>3. CASE AccessNext
  <2>1. \/ UNCHANGED <<bucket, refusal>> \/ \E r \in Reads : Allow(r) \/ Store(r)
    BY <1>3 DEF AccessNext, GetPullRequestAttachment, Budget, Lookup, AskGitHub, GrantMoves, Tick
  <2> QED BY <1>1, <2>1, AllowPrunes, StorePrunes
<1> QED BY <1>2, <1>3

(* Only viewers are let in. *)
GrantsTyped == grants \subseteq Viewers

(* GitHub lets in or turns away a viewer, and nobody else. *)
LEMMA GrantsStep == ASSUME GrantsTyped, [AccessNext]_accessVars PROVE GrantsTyped'
<1>1. CASE UNCHANGED grants BY <1>1 DEF GrantsTyped
<1>2. ASSUME NEW v \in Viewers, GrantMoves(v) PROVE GrantsTyped'
  BY <1>2 DEF GrantMoves, GrantsTyped
<1>3. UNCHANGED grants \/ \E v \in Viewers : GrantMoves(v)
  BY DEF accessVars, AccessNext, GetPullRequestAttachment, Budget, Lookup, Allow, AskGitHub, Store, Tick
<1> QED BY <1>1, <1>2, <1>3

(* What an outsider's reads ask of GitHub is bounded by the burst, the time that
   passed and the buckets a full table dropped; a page is shown only on access
   held during the read, a remembered refusal is younger than its TTL, and neither
   table outgrows its limit, although a full one takes entries for callers whose
   clocks are behind (repository_access_limiter.go, repository_access_cache.go). *)
THEOREM AccessIsBounded == AccessSpec => [](AccessBounded /\ AccessTypeOK)
<1>1. AccessInit => AccessInv /\ TablesInv /\ GrantsTyped
  <2>1. ASSUME AccessInit PROVE Table = {} /\ Entries = {} /\ GrantsTyped
    BY <2>1 DEF AccessInit, Table, Seen, Entries, NoBucket, GrantsTyped
  <2>2. AccessInit => TablesInv
    BY <2>1, FS_EmptySet, AccessAssumption DEF TablesInv, TablesBounded
  <2> QED BY <2>1, <2>2, AccessStart
<1>2. AccessInv /\ TablesInv /\ GrantsTyped /\ [AccessNext]_accessVars
        => AccessInv' /\ TablesInv' /\ GrantsTyped'
  BY AccessStep, TablesStep, GrantsStep
<1>3. AccessInv /\ TablesInv /\ GrantsTyped => AccessBounded /\ AccessTypeOK
  BY AccessInvBounds DEF AccessInv, TablesInv, GrantsTyped, AccessBounded, AccessTypeOK
<1> QED BY <1>1, <1>2, <1>3, PTL DEF AccessSpec

-----------------------------------------------------------------------------
(* The collective's GitHub account and its cached commits. *)

(* The account a creation is about to bind was controlled when that was asked. *)
CreationsVouched ==
    \A x \in Creations : creating[x].at = "insert" => (creating[x].had <=> creating[x].to # Unset)

(* A collective whose creator is not recorded yet exists, has no owner who could
   delete it, and is the work of one request. *)
Founded ==
    \A x \in Creations : creating[x].at = "own" =>
        /\ creating[x].g \in existing /\ owners[creating[x].g] = {}
        /\ \A y \in Creations : creating[y].at = "own" /\ creating[y].g = creating[x].g => y = x

(* What does not exist has no owner. *)
OwnedExist == \A g \in Collectives : owners[g] # {} => g \in existing

(* The commit a stored ETag names is cached. *)
TagsCached ==
    \A g \in Collectives, r \in Repositories :
        link[g][r] = Unset \/ link[g][r] = 0 \/ link[g][r] \in cached[r]

(* The commit of the ETag that a refresh carries is cached or about to be. *)
Carried(q, cache) ==
    /\ q.at = "first" => q.etag = 0 \/ q.etag \in cache[q.r]
    /\ q.at = "next" => q.etag \in q.todo
    /\ q.at = "write" => q.etag \in q.todo \union cache[q.r]
    /\ q.at = "sync" => q.etag \in cache[q.r]

RefreshesCarry == \A x \in Refreshes : Carried(refreshing[x], cached)

OwningInv == CreationsVouched /\ Founded /\ OwnedExist
BindingInv == BindingShape /\ OwningInv /\ BoundByController
CacheInv == CacheShape /\ TagsCached /\ RefreshesCarry /\ NotModifiedIsCurrent
ReposInv == BindingInv /\ CacheInv

(* An absent request is at no step. *)
LEMMA UnaskedAt == Unasked.at = "none"
BY DEF Unasked

(* At the start no account is bound, no link made and nothing cached. *)
LEMMA ReposStart == ASSUME ReposInit PROVE ReposInv
<1> USE ReposAssumption, UnaskedAt
<1>1. BindingInv
  BY DEF ReposInit, BindingInv, BindingShape, OwningInv, CreationsVouched, Founded, OwnedExist, BoundByController
<1>2. CacheShape BY DEF ReposInit, CacheShape, Versioned
<1>3. TagsCached /\ NotModifiedIsCurrent BY DEF ReposInit, TagsCached, NotModifiedIsCurrent
<1>4. RefreshesCarry BY DEF ReposInit, RefreshesCarry, Carried
<1> QED BY <1>1, <1>2, <1>3, <1>4 DEF ReposInv, CacheInv

(* Steps of the cache leave the binding alone. *)
LEMMA BindingFrame ==
    ASSUME BindingInv,
           UNCHANGED <<existing, made, owners, memberOf, boundTo, vouched, creating, handshake>>
    PROVE  BindingInv'
<1>1. BindingShape' BY DEF BindingInv, BindingShape
<1>2. OwningInv' BY DEF BindingInv, OwningInv, CreationsVouched, Founded, OwnedExist
<1>3. BoundByController' BY DEF BindingInv, BoundByController
<1> QED BY <1>1, <1>2, <1>3 DEF BindingInv

(* Steps of the binding leave the cache alone. *)
LEMMA CacheFrame ==
    ASSUME CacheInv, UNCHANGED <<link, head, cached, linking, refreshing, missed>>
    PROVE  CacheInv'
BY DEF CacheInv, CacheShape, TagsCached, RefreshesCarry, Carried, NotModifiedIsCurrent

(* The callback picks a collective of this installation. *)
LEMMA TargetsAre ==
    ASSUME NEW p, NEW a, NEW preferred
    PROVE  BindingTargets(p, a, preferred) \subseteq Collectives
<1> DEFINE same == {g \in Owned(p) : boundTo[g] = a}
           open == {g \in Owned(p) : boundTo[g] = Unset}
           one == Cardinality(open) = 1
<1>1. BindingTargets(p, a, preferred) =
        CASE preferred \in Owned(p) -> {preferred}
          [] preferred \notin Owned(p) /\ same # {} -> same
          [] preferred \notin Owned(p) /\ same = {} /\ one -> open
          [] OTHER -> {}
  BY DEF BindingTargets
<1>2. Owned(p) \subseteq Collectives BY DEF Owned
<1>3. same \subseteq Collectives /\ open \subseteq Collectives BY <1>2
<1> HIDE DEF same, open, one
<1>4. CASE preferred \in Owned(p)
  <2>1. BindingTargets(p, a, preferred) = {preferred} BY <1>1, <1>4, Zenon
  <2> QED BY <1>2, <1>4, <2>1
<1>5. CASE preferred \notin Owned(p) /\ same # {}
  <2>1. BindingTargets(p, a, preferred) = same BY <1>1, <1>5, Zenon
  <2> QED BY <1>3, <2>1
<1>6. CASE preferred \notin Owned(p) /\ same = {} /\ one
  <2>1. BindingTargets(p, a, preferred) = open BY <1>1, <1>6, Zenon
  <2> QED BY <1>3, <2>1
<1>7. CASE preferred \notin Owned(p) /\ same = {} /\ ~ one
  <2>1. BindingTargets(p, a, preferred) = {} BY <1>1, <1>7, Zenon
  <2> QED BY <2>1
<1> QED BY <1>4, <1>5, <1>6, <1>7

(* What a handshake and the settings leave alone. *)
OwningFrame == UNCHANGED <<existing, made, owners, memberOf, creating>>

(* The parts about owners speak of nothing else. *)
LEMMA OwningKept == ASSUME OwningInv, OwningFrame PROVE OwningInv'
BY DEF OwningInv, OwningFrame, CreationsVouched, Founded, OwnedExist

(* A binding of a collective that exists is cleared, or vouched for now. *)
LEMMA Rebound ==
    ASSUME BindingInv, OwningFrame, NEW h \in existing, NEW a \in GitHubAccounts \union {Unset},
           boundTo' = [boundTo EXCEPT ![h] = a],
           \/ a = Unset /\ vouched' = vouched
           \/ a # Unset /\ vouched' = [vouched EXCEPT ![h] = vouched[h] \union {a}],
           handshake' \in [Handshakes -> ShakeState \union {Unasked}]
    PROVE  BindingInv'
<1>1. h \in Collectives BY DEF BindingInv, BindingShape
<1>2. /\ vouched' \in [Collectives -> SUBSET GitHubAccounts] /\ (a = Unset \/ a \in vouched'[h])
      /\ \A g \in Collectives : vouched[g] \subseteq vouched'[g]
  BY <1>1 DEF BindingInv, BindingShape
<1>3. BindingShape' BY <1>1, <1>2 DEF BindingInv, BindingShape, OwningFrame
<1>4. boundTo'[h] = a /\ \A g \in Collectives : g # h => boundTo'[g] = boundTo[g]
  BY <1>1 DEF BindingInv, BindingShape
<1>5. BoundByController' BY <1>2, <1>4 DEF BindingInv, BoundByController, OwningFrame
<1> QED BY <1>3, <1>5, OwningKept DEF BindingInv

(* An owner's collective exists. *)
LEMMA OwnersExist ==
    ASSUME BindingInv, NEW p, NEW g \in Collectives, requireGroupOwner(p, g)
    PROVE  g \in existing
BY DEF BindingInv, OwningInv, OwnedExist, requireGroupOwner

(* No creation comes to its last statement. *)
LEMMA FoundedFew ==
    ASSUME Founded, UNCHANGED <<existing, owners>>,
           \A y \in Creations : creating'[y].at = "own" => creating'[y] = creating[y]
    PROVE  Founded'
<1> SUFFICES ASSUME NEW x \in Creations, creating'[x].at = "own"
             PROVE  /\ creating'[x].g \in existing' /\ owners'[creating'[x].g] = {}
                    /\ \A y \in Creations :
                          creating'[y].at = "own" /\ creating'[y].g = creating'[x].g => y = x
  BY DEF Founded
<1>1. creating'[x] = creating[x] /\ creating[x].at = "own" OBVIOUS
<1>2. /\ creating[x].g \in existing /\ owners[creating[x].g] = {}
      /\ \A y \in Creations : creating[y].at = "own" /\ creating[y].g = creating[x].g => y = x
  BY <1>1 DEF Founded
<1>3. ASSUME NEW y \in Creations, creating'[y].at = "own", creating'[y].g = creating'[x].g PROVE y = x
  <2>1. creating'[y] = creating[y] BY <1>3
  <2> QED BY <1>1, <1>2, <1>3, <2>1
<1> QED BY <1>1, <1>2, <1>3

(* A step of a creation keeps the binding's part. *)
LEMMA CreationKeeps == ASSUME ReposInv, CreationStep PROVE ReposInv'
<1> USE ReposAssumption, UnaskedAt
<1>0. BindingInv /\ CacheInv BY DEF ReposInv
<1> SUFFICES ASSUME NEW x \in Creations,
                    \/ \E p \in Persons, a \in GitHubAccounts \union {Unset} : CreateGroup(x, p, a)
                    \/ \E g \in Collectives : InsertGroup(x, g)
                    \/ AddGroupCreator(x) \/ CreationFails(x)
             PROVE  ReposInv'
  BY DEF CreationStep
<1>1. /\ UNCHANGED <<link, head, cached, linking, refreshing, missed>>
      /\ UNCHANGED <<memberOf, handshake>>
  BY DEF CreateGroup, InsertGroup, AddGroupCreator, CreationFails, collectiveVars, githubVars
<1>2. CacheInv' BY <1>0, <1>1, CacheFrame
<1>3. ASSUME NEW p \in Persons, NEW a \in GitHubAccounts \union {Unset}, CreateGroup(x, p, a)
      PROVE  BindingInv'
  <2> DEFINE q == [at |-> "insert", who |-> p, to |-> a, g |-> Unset, had |-> controlsAccount(p, a)]
  <2>1. /\ UNCHANGED <<existing, made, owners, boundTo, vouched>>
        /\ creating' = [creating EXCEPT ![x] = q] /\ creating[x] = Unasked
    BY <1>3 DEF CreateGroup, collectiveVars
  <2>2. controlsAccount(p, a) \in BOOLEAN /\ (controlsAccount(p, a) <=> a # Unset)
    BY <1>3 DEF CreateGroup, hasOrgMembership, controlsAccount
  <2>3. q \in CreateState /\ q.at = "insert" /\ (q.had <=> q.to # Unset) BY <2>2 DEF CreateState
  <2> HIDE DEF q
  <2>4. BindingShape' BY <1>0, <1>1, <2>1, <2>3 DEF BindingInv, BindingShape
  <2>5. creating'[x] = q /\ \A y \in Creations : y # x => creating'[y] = creating[y]
    BY <1>0, <2>1 DEF BindingInv, BindingShape
  <2>6. CreationsVouched' /\ Founded' /\ OwnedExist'
    <3>1. CreationsVouched' BY <1>0, <2>3, <2>5 DEF BindingInv, OwningInv, CreationsVouched
    <3>2. \A y \in Creations : creating'[y].at = "own" => creating'[y] = creating[y] BY <2>3, <2>5
    <3>3. OwnedExist' BY <1>0, <2>1 DEF BindingInv, OwningInv, OwnedExist
    <3> QED BY <1>0, <2>1, <3>1, <3>2, <3>3, FoundedFew DEF BindingInv, OwningInv
  <2>7. BoundByController' BY <1>0, <2>1 DEF BindingInv, BoundByController
  <2> QED BY <2>4, <2>6, <2>7 DEF BindingInv, OwningInv
<1>4. ASSUME NEW g \in Collectives, InsertGroup(x, g) PROVE BindingInv'
  <2> DEFINE q == creating[x]
             r == [q EXCEPT !.at = "own", !.g = g]
  <2>1. /\ q.at = "insert" /\ g \notin made /\ existing' = existing \union {g} /\ made' = made \union {g}
        /\ boundTo' = [boundTo EXCEPT ![g] = q.to] /\ creating' = [creating EXCEPT ![x] = r]
        /\ owners' = owners
        /\ vouched' = IF q.had THEN [vouched EXCEPT ![g] = vouched[g] \union {q.to}] ELSE vouched
    BY <1>4 DEF InsertGroup
  <2>2. q \in CreateState /\ (q.had <=> q.to # Unset)
    BY <1>0, <2>1 DEF BindingInv, BindingShape, OwningInv, CreationsVouched
  <2>3. r \in CreateState /\ r.at = "own" /\ r.g = g BY <2>2 DEF CreateState
  <2>4. q.to \in GitHubAccounts \union {Unset} BY <2>2 DEF CreateState
  <2> DEFINE to == q.to
             had == q.had
  <2>5. /\ boundTo' = [boundTo EXCEPT ![g] = to] /\ (had <=> to # Unset) /\ to \in GitHubAccounts \union {Unset}
        /\ vouched' = IF had THEN [vouched EXCEPT ![g] = vouched[g] \union {to}] ELSE vouched
    BY <2>1, <2>2, <2>4
  <2> HIDE DEF q, r, to, had
  <2>5a. g \notin existing BY <1>0, <2>1 DEF BindingInv, BindingShape
  <2>6. BindingShape'
    <3>1. had \in BOOLEAN BY <2>2 DEF CreateState, had
    <3>2. vouched' \in [Collectives -> SUBSET GitHubAccounts]
      BY <1>0, <2>5, <3>1 DEF BindingInv, BindingShape
    <3> QED BY <1>0, <1>1, <2>1, <2>3, <2>5, <3>2 DEF BindingInv, BindingShape
  <2>7. creating'[x] = r /\ \A y \in Creations : y # x => creating'[y] = creating[y]
    BY <1>0, <2>1 DEF BindingInv, BindingShape
  <2>8. CreationsVouched' BY <1>0, <2>3, <2>7 DEF BindingInv, OwningInv, CreationsVouched
  <2>9. OwnedExist' BY <1>0, <2>1 DEF BindingInv, OwningInv, OwnedExist
  <2>10. owners[g] = {} BY <1>0, <2>5a DEF BindingInv, OwningInv, OwnedExist
  <2>11. \A y \in Creations : creating[y].at = "own" => creating[y].g # g
    BY <1>0, <2>5a DEF BindingInv, OwningInv, Founded
  <2>12. Founded'
    <3> SUFFICES ASSUME NEW z \in Creations, creating'[z].at = "own"
                 PROVE  /\ creating'[z].g \in existing' /\ owners'[creating'[z].g] = {}
                        /\ \A y \in Creations :
                              creating'[y].at = "own" /\ creating'[y].g = creating'[z].g => y = z
      BY DEF Founded
    <3>1. CASE z = x
      <4>1. creating'[z].g = g BY <2>3, <2>7, <3>1
      <4>2. \A y \in Creations : creating'[y].at = "own" /\ creating'[y].g = g => y = x BY <2>7, <2>11
      <4> QED BY <2>1, <2>10, <3>1, <4>1, <4>2
    <3>2. CASE z # x
      <4>1. creating'[z] = creating[z] BY <2>7, <3>2
      <4>2. /\ creating[z].g \in existing /\ owners[creating[z].g] = {}
            /\ \A y \in Creations : creating[y].at = "own" /\ creating[y].g = creating[z].g => y = z
        BY <1>0, <4>1 DEF BindingInv, OwningInv, Founded
      <4>3. creating[z].g # g BY <2>11, <4>1
      <4>4. ASSUME NEW y \in Creations, creating'[y].at = "own", creating'[y].g = creating'[z].g PROVE y = z
        <5>1. y # x BY <2>3, <2>7, <4>1, <4>3, <4>4
        <5>2. creating'[y] = creating[y] BY <2>7, <5>1
        <5> QED BY <4>1, <4>2, <4>4, <5>2
      <4> QED BY <2>1, <4>1, <4>2, <4>4
    <3> QED BY <3>1, <3>2
  <2>13. boundTo'[g] = to /\ \A h \in Collectives : h # g => boundTo'[h] = boundTo[h]
    BY <1>0, <2>5 DEF BindingInv, BindingShape
  <2>14. (to # Unset => to \in vouched'[g]) /\ \A h \in Collectives : vouched[h] \subseteq vouched'[h]
    BY <1>0, <2>5 DEF BindingInv, BindingShape
  <2>15. BoundByController' BY <1>0, <2>1, <2>13, <2>14 DEF BindingInv, BoundByController
  <2> QED BY <2>6, <2>8, <2>9, <2>12, <2>15 DEF BindingInv, OwningInv
<1>5. ASSUME AddGroupCreator(x) PROVE BindingInv'
  <2> DEFINE g == creating[x].g
             p == creating[x].who
  <2>1. /\ UNCHANGED <<existing, made, boundTo, vouched>> /\ creating[x].at = "own"
        /\ creating' = [creating EXCEPT ![x] = Unasked]
        /\ owners' = [owners EXCEPT ![g] = owners[g] \union {p}]
    BY <1>5 DEF AddGroupCreator
  <2>2. p \in Persons BY <1>0, <2>1 DEF BindingInv, BindingShape, CreateState
  <2>3. g \in existing /\ \A y \in Creations : creating[y].at = "own" /\ creating[y].g = g => y = x
    BY <1>0, <2>1 DEF BindingInv, OwningInv, Founded
  <2>4. g \in Collectives BY <1>0, <2>3 DEF BindingInv, BindingShape
  <2> HIDE DEF g, p
  <2>5. BindingShape' BY <1>0, <1>1, <2>1, <2>2, <2>4 DEF BindingInv, BindingShape
  <2>6. creating'[x] = Unasked /\ \A y \in Creations : y # x => creating'[y] = creating[y]
    BY <1>0, <2>1 DEF BindingInv, BindingShape
  <2>7. \A h \in Collectives : h # g => owners'[h] = owners[h]
    BY <1>0, <2>1 DEF BindingInv, BindingShape
  <2>8. CreationsVouched' BY <1>0, <2>6 DEF BindingInv, OwningInv, CreationsVouched
  <2>9. OwnedExist' BY <1>0, <2>1, <2>3, <2>7 DEF BindingInv, OwningInv, OwnedExist
  <2>10. \A y \in Creations : creating[y].at = "own" => creating[y].g \in Collectives
    BY <1>0 DEF BindingInv, BindingShape, OwningInv, Founded
  <2>11. Founded'
    BY <1>0, <2>1, <2>3, <2>6, <2>7, <2>10 DEF BindingInv, OwningInv, Founded
  <2>12. BoundByController' BY <1>0, <2>1 DEF BindingInv, BoundByController
  <2> QED BY <2>5, <2>8, <2>9, <2>11, <2>12 DEF BindingInv, OwningInv
<1>6. ASSUME CreationFails(x) PROVE BindingInv'
  <2>1. /\ UNCHANGED <<existing, made, owners, boundTo, vouched>>
        /\ creating' = [creating EXCEPT ![x] = Unasked]
    BY <1>6 DEF CreationFails, collectiveVars
  <2>2. BindingShape' BY <1>0, <1>1, <2>1 DEF BindingInv, BindingShape
  <2>3. creating'[x] = Unasked /\ \A y \in Creations : y # x => creating'[y] = creating[y]
    BY <1>0, <2>1 DEF BindingInv, BindingShape
  <2>4. CreationsVouched' /\ Founded' /\ OwnedExist'
    <3>1. CreationsVouched' BY <1>0, <2>3 DEF BindingInv, OwningInv, CreationsVouched
    <3>2. \A y \in Creations : creating'[y].at = "own" => creating'[y] = creating[y] BY <2>3
    <3>3. OwnedExist' BY <1>0, <2>1 DEF BindingInv, OwningInv, OwnedExist
    <3> QED BY <1>0, <2>1, <3>1, <3>2, <3>3, FoundedFew DEF BindingInv, OwningInv
  <2>5. BoundByController' BY <1>0, <2>1 DEF BindingInv, BoundByController
  <2> QED BY <2>2, <2>4, <2>5 DEF BindingInv, OwningInv
<1>7. BindingInv' BY <1>3, <1>4, <1>5, <1>6
<1> QED BY <1>2, <1>7 DEF ReposInv

(* What a refresh may become, while the cache only grows. *)
LEMMA RefreshKeeps ==
    ASSUME CacheInv, NEW x \in Refreshes, NEW to \in RefreshState \union {Unasked},
           refreshing' = [refreshing EXCEPT ![x] = to],
           link' \in [Collectives -> [Repositories -> Nat \union {Unset}]],
           cached' \in [Repositories -> SUBSET Nat],
           \A r \in Repositories : cached[r] \subseteq cached'[r],
           \A g \in Collectives, r \in Repositories :
              link'[g][r] \in {link[g][r], Unset, 0} \/ link'[g][r] \in cached[r],
           to = Unasked \/ Carried(to, cached'),
           UNCHANGED <<head, linking, missed>>
    PROVE  CacheInv'
<1>1. CacheShape' BY DEF CacheInv, CacheShape
<1>2. TagsCached' BY DEF CacheInv, TagsCached
<1>3. refreshing'[x] = to /\ \A y \in Refreshes : y # x => refreshing'[y] = refreshing[y]
  BY DEF CacheInv, CacheShape
<1>4. ASSUME NEW y \in Refreshes PROVE Carried(refreshing'[y], cached')
  <2>1. CASE y = x
    <3>1. CASE to = Unasked BY <1>3, <2>1, <3>1, UnaskedAt DEF Carried
    <3>2. CASE Carried(to, cached') BY <1>3, <2>1, <3>2 DEF Carried
    <3> QED BY <3>1, <3>2
  <2>2. CASE y # x
    <3>1. refreshing'[y] = refreshing[y] BY <1>3, <2>2
    <3>2. CASE refreshing[y] = Unasked BY <3>1, <3>2, UnaskedAt DEF Carried
    <3>3. CASE refreshing[y] # Unasked
      <4>1. refreshing[y].r \in Repositories BY <3>3 DEF CacheInv, CacheShape, RefreshState
      <4> QED BY <3>1, <4>1 DEF CacheInv, RefreshesCarry, Carried
    <3> QED BY <3>2, <3>3
  <2> QED BY <2>1, <2>2
<1>5. RefreshesCarry' BY <1>4 DEF RefreshesCarry
<1>6. NotModifiedIsCurrent' BY DEF CacheInv, NotModifiedIsCurrent
<1> QED BY <1>1, <1>2, <1>5, <1>6 DEF CacheInv

(* A change of the links alone: rows appear without an ETag, or go. *)
LEMMA LinkKeeps ==
    ASSUME CacheInv,
           link' \in [Collectives -> [Repositories -> Nat \union {Unset}]],
           linking' \in [Linkings -> LinkState \union {Unasked}],
           \A g \in Collectives, r \in Repositories : link'[g][r] \in {link[g][r], Unset, 0},
           UNCHANGED <<head, cached, refreshing, missed>>
    PROVE  CacheInv'
<1>1. CacheShape' BY DEF CacheInv, CacheShape
<1>2. TagsCached' BY DEF CacheInv, TagsCached
<1>3. RefreshesCarry' BY DEF CacheInv, RefreshesCarry, Carried
<1>4. NotModifiedIsCurrent' BY DEF CacheInv, NotModifiedIsCurrent
<1> QED BY <1>1, <1>2, <1>3, <1>4 DEF CacheInv

(* A deletion takes the collective's owners, binding and links with it. *)
LEMMA DeletionKeeps ==
    ASSUME ReposInv, NEW p \in Persons, NEW g \in Collectives, DeleteGroup(p, g)
    PROVE  ReposInv'
<1> USE UnaskedAt
<1>0. BindingInv /\ CacheInv BY DEF ReposInv
<1>1. /\ UNCHANGED <<made, memberOf, vouched, creating, handshake>>
      /\ UNCHANGED <<head, cached, linking, refreshing, missed>>
      /\ existing' = existing \ {g} /\ owners' = [owners EXCEPT ![g] = {}] /\ owners[g] # {}
      /\ boundTo' = [boundTo EXCEPT ![g] = Unset]
      /\ link' = [link EXCEPT ![g] = [r \in Repositories |-> Unset]]
  BY DEF DeleteGroup, githubVars, requestVars, requireGroupOwner
<1>2. BindingShape' BY <1>0, <1>1 DEF BindingInv, BindingShape
<1>3. owners'[g] = {} /\ \A h \in Collectives : h # g => owners'[h] = owners[h]
  BY <1>0, <1>1 DEF BindingInv, BindingShape
<1>4. boundTo'[g] = Unset /\ \A h \in Collectives : h # g => boundTo'[h] = boundTo[h]
  BY <1>0, <1>1 DEF BindingInv, BindingShape
<1>5. CreationsVouched' BY <1>0, <1>1 DEF BindingInv, OwningInv, CreationsVouched
<1>6. \A x \in Creations : creating[x].at = "own" => creating[x].g \in Collectives /\ creating[x].g # g
  BY <1>0, <1>1 DEF BindingInv, BindingShape, OwningInv, Founded
<1>7. Founded' BY <1>0, <1>1, <1>3, <1>6 DEF BindingInv, OwningInv, Founded
<1>8. OwnedExist' BY <1>0, <1>1, <1>3 DEF BindingInv, OwningInv, OwnedExist
<1>9. BoundByController' BY <1>0, <1>1, <1>4 DEF BindingInv, BoundByController
<1>10. link' \in [Collectives -> [Repositories -> Nat \union {Unset}]]
  BY <1>0, <1>1 DEF CacheInv, CacheShape
<1>11. \A h \in Collectives, r \in Repositories : link'[h][r] \in {link[h][r], Unset}
  BY <1>0, <1>1 DEF CacheInv, CacheShape
<1>12. linking' \in [Linkings -> LinkState \union {Unasked}] BY <1>0, <1>1 DEF CacheInv, CacheShape
<1>13. CacheInv' BY <1>0, <1>1, <1>10, <1>11, <1>12, LinkKeeps
<1> QED BY <1>2, <1>5, <1>7, <1>8, <1>9, <1>13 DEF ReposInv, BindingInv, OwningInv

(* A step that moves a handshake and binds nothing. *)
LEMMA ShakeKeeps ==
    ASSUME BindingInv, CacheInv, OwningFrame,
           handshake' \in [Handshakes -> ShakeState \union {Unasked}],
           UNCHANGED <<boundTo, link, head, cached, linking, refreshing, vouched, missed>>
    PROVE  ReposInv'
<1>1. BindingShape' BY DEF BindingInv, BindingShape, OwningFrame
<1>2. BoundByController' BY DEF BindingInv, BoundByController, OwningFrame
<1>3. BindingInv' BY <1>1, <1>2, OwningKept DEF BindingInv
<1> QED BY <1>3, CacheFrame DEF ReposInv

(* Whoever owns the collective and controls the account vouches for it. *)
LEMMA BindsKeep ==
    ASSUME BindingInv, OwningFrame, NEW p, NEW g \in Collectives, NEW a \in GitHubAccounts,
           requireGroupOwner(p, g), controlsAccount(p, a), Binds(p, g, a),
           handshake' \in [Handshakes -> ShakeState \union {Unasked}]
    PROVE  BindingInv'
<1>1. g \in existing BY OwnersExist
<1>2. a # Unset BY ReposAssumption
<1>3. /\ boundTo' = [boundTo EXCEPT ![g] = a]
      /\ vouched' = [vouched EXCEPT ![g] = vouched[g] \union {a}]
  BY DEF Binds, requireGroupOwner
<1> QED BY <1>1, <1>2, <1>3, Rebound

(* A step of a handshake or of the settings keeps both. *)
LEMMA BindingKeeps == ASSUME ReposInv, BindingStep PROVE ReposInv'
<1> USE ReposAssumption, UnaskedAt
<1>0. BindingInv /\ CacheInv BY DEF ReposInv
<1>1. ASSUME NEW x \in Handshakes, NEW p \in Persons, NEW a \in GitHubAccounts, NEW c,
             GitHubInstallCallback(x, p, a, c)
      PROVE  ReposInv'
  <2>1. OwningFrame /\ UNCHANGED <<boundTo, link, head, cached, linking, refreshing, vouched, missed>>
    BY <1>1 DEF GitHubInstallCallback, githubVars, collectiveVars, OwningFrame
  <2>2. handshake' \in [Handshakes -> ShakeState \union {Unasked}]
    <3>1. CASE UNCHANGED handshake BY <1>0, <3>1 DEF BindingInv, BindingShape
    <3>2. CASE handshake' # handshake
      <4>1. PICK g \in Collectives :
              handshake' = [handshake EXCEPT ![x] = [at |-> "control", who |-> p, to |-> a, g |-> g]]
        BY <1>1, <3>2, TargetsAre DEF GitHubInstallCallback
      <4>2. [at |-> "control", who |-> p, to |-> a, g |-> g] \in ShakeState BY <4>1 DEF ShakeState
      <4> QED BY <1>0, <4>1, <4>2 DEF BindingInv, BindingShape
    <3> QED BY <3>1, <3>2
  <2> QED BY <1>0, <2>1, <2>2, ShakeKeeps
<1>2. ASSUME NEW x \in Handshakes, InstallControl(x) PROVE ReposInv'
  <2>1. /\ OwningFrame /\ UNCHANGED <<boundTo, link, head, cached, linking, refreshing, vouched, missed>>
        /\ handshake[x].at = "control"
    BY <1>2 DEF InstallControl, githubVars, collectiveVars, OwningFrame
  <2>2. handshake[x] \in ShakeState BY <1>0, <2>1 DEF BindingInv, BindingShape
  <2>3. [handshake[x] EXCEPT !.at = "bind"] \in ShakeState BY <2>2 DEF ShakeState
  <2>4. handshake' \in [Handshakes -> ShakeState \union {Unasked}]
    BY <1>0, <1>2, <2>3 DEF InstallControl, BindingInv, BindingShape
  <2> QED BY <1>0, <2>1, <2>4, ShakeKeeps
<1>3. ASSUME NEW x \in Handshakes, SetGroupLinkedGitHubOrg(x) PROVE ReposInv'
  <2> DEFINE q == handshake[x]
  <2>1. /\ OwningFrame /\ UNCHANGED <<link, head, cached, linking, refreshing, missed>>
        /\ q.at = "bind" /\ handshake' = [handshake EXCEPT ![x] = Unasked]
    BY <1>3 DEF SetGroupLinkedGitHubOrg, githubVars, collectiveVars, OwningFrame
  <2>2. q.who \in Persons /\ q.to \in GitHubAccounts /\ q.g \in Collectives
    BY <1>0, <2>1 DEF BindingInv, BindingShape, ShakeState
  <2>3. handshake' \in [Handshakes -> ShakeState \union {Unasked}]
    BY <1>0, <2>1 DEF BindingInv, BindingShape
  <2>4. CASE MayBind(q.who, q.g, q.to)
    <3>1. Binds(q.who, q.g, q.to) /\ requireGroupOwner(q.who, q.g) /\ controlsAccount(q.who, q.to)
      BY <1>3, <2>4 DEF SetGroupLinkedGitHubOrg, MayBind
    <3> HIDE DEF q
    <3>2. BindingInv' BY <1>0, <2>1, <2>2, <2>3, <3>1, BindsKeep
    <3> QED BY <1>0, <2>1, <3>2, CacheFrame DEF ReposInv
  <2>5. CASE ~ MayBind(q.who, q.g, q.to)
    <3>1. UNCHANGED <<boundTo, vouched>> BY <1>3, <2>5 DEF SetGroupLinkedGitHubOrg
    <3> QED BY <1>0, <2>1, <2>3, <3>1, ShakeKeeps
  <2> QED BY <2>4, <2>5
<1>4. ASSUME NEW p \in Persons, NEW g \in Collectives, UpdateGroup(p, g) PROVE ReposInv'
  <2>1. /\ OwningFrame /\ UNCHANGED <<link, head, cached, handshake, linking, refreshing, missed>>
        /\ requireGroupOwner(p, g)
    BY <1>4 DEF UpdateGroup, githubVars, collectiveVars, requestVars, OwningFrame
  <2>2. handshake' \in [Handshakes -> ShakeState \union {Unasked}]
    BY <1>0, <2>1 DEF BindingInv, BindingShape
  <2>3. CASE boundTo' = [boundTo EXCEPT ![g] = Unset] /\ vouched' = vouched
    <3>1. g \in existing BY <1>0, <2>1, OwnersExist
    <3> QED BY <1>0, <2>1, <2>2, <2>3, <3>1, Rebound, CacheFrame DEF ReposInv
  <2>4. ASSUME NEW a \in GitHubAccounts, hasOrgMembership(p, a), Binds(p, g, a) PROVE ReposInv'
    <3>1. controlsAccount(p, a) BY <2>4 DEF hasOrgMembership, controlsAccount
    <3>2. BindingInv' BY <1>0, <2>1, <2>2, <2>4, <3>1, BindsKeep
    <3> QED BY <1>0, <2>1, <3>2, CacheFrame DEF ReposInv
  <2> QED BY <1>4, <2>3, <2>4 DEF UpdateGroup
<1>5. ASSUME NEW p \in Persons, NEW g \in Collectives, DeleteGroup(p, g) PROVE ReposInv'
  BY <1>5, DeletionKeeps
<1> QED BY <1>1, <1>2, <1>3, <1>4, <1>5 DEF BindingStep

(* Linking makes a row without an ETag, or keeps the one that is there. *)
LEMMA LinksKeep ==
    ASSUME ReposInv, NEW x \in Linkings, NEW p, NEW g \in Collectives,
           NEW r \in Repositories,
           \/ LinkRepository(x, p, g, r) \/ LinkCollectiveRepository(x)
    PROVE  ReposInv'
<1> USE ReposAssumption, UnaskedAt
<1>0. CacheInv BY DEF ReposInv
<1>1. ASSUME LinkRepository(x, p, g, r) PROVE ReposInv'
  <2> DEFINE q == [at |-> "insert", g |-> g, r |-> r]
  <2>1. /\ UNCHANGED <<existing, made, owners, memberOf, boundTo, vouched, creating, handshake>>
        /\ UNCHANGED <<link, head, cached, refreshing, missed>>
        /\ linking' = [linking EXCEPT ![x] = q]
    BY <1>1 DEF LinkRepository, githubVars, collectiveVars
  <2>2. q \in LinkState BY DEF LinkState
  <2> HIDE DEF q
  <2>3. linking' \in [Linkings -> LinkState \union {Unasked}] BY <1>0, <2>1, <2>2 DEF CacheInv, CacheShape
  <2>4. link' \in [Collectives -> [Repositories -> Nat \union {Unset}]] BY <1>0, <2>1 DEF CacheInv, CacheShape
  <2>5. CacheInv' BY <1>0, <2>1, <2>3, <2>4, LinkKeeps
  <2> QED BY <2>1, <2>5, BindingFrame DEF ReposInv
<1>2. ASSUME LinkCollectiveRepository(x) PROVE ReposInv'
  <2> DEFINE h == linking[x].g
             s == linking[x].r
             etag == IF link[h][s] = Unset /\ h \in existing THEN 0 ELSE link[h][s]
  <2>1. /\ UNCHANGED <<existing, made, owners, memberOf, boundTo, vouched, creating, handshake>>
        /\ UNCHANGED <<head, cached, refreshing, missed>>
        /\ linking' = [linking EXCEPT ![x] = Unasked] /\ linking[x].at = "insert"
        /\ link' = [link EXCEPT ![h][s] = etag]
    BY <1>2 DEF LinkCollectiveRepository, githubVars, collectiveVars
  <2>2. h \in Collectives /\ s \in Repositories BY <1>0, <2>1 DEF CacheInv, CacheShape, LinkState
  <2>3. etag \in Nat \union {Unset} /\ etag \in {link[h][s], 0} BY <1>0, <2>2 DEF CacheInv, CacheShape
  <2> HIDE DEF etag, h, s
  <2>4. linking' \in [Linkings -> LinkState \union {Unasked}] BY <1>0, <2>1 DEF CacheInv, CacheShape
  <2>5. link' \in [Collectives -> [Repositories -> Nat \union {Unset}]]
    BY <1>0, <2>1, <2>2, <2>3 DEF CacheInv, CacheShape
  <2>6. \A k \in Collectives, t \in Repositories : link'[k][t] \in {link[k][t], 0}
    BY <1>0, <2>1, <2>2, <2>3 DEF CacheInv, CacheShape
  <2>7. CacheInv' BY <1>0, <2>1, <2>4, <2>5, <2>6, LinkKeeps
  <2> QED BY <2>1, <2>7, BindingFrame DEF ReposInv
<1> QED BY <1>1, <1>2

(* Unlinking forgets the ETag and leaves the commits. *)
LEMMA UnlinkKeeps ==
    ASSUME ReposInv, NEW p \in Persons, NEW g \in Collectives, NEW r \in Repositories,
           UnlinkRepository(p, g, r)
    PROVE  ReposInv'
<1>0. CacheInv BY DEF ReposInv
<1>1. /\ UNCHANGED <<existing, made, owners, memberOf, boundTo, vouched, creating, handshake>>
      /\ UNCHANGED <<head, cached, linking, refreshing, missed>>
      /\ link' = [link EXCEPT ![g][r] = Unset]
  BY DEF UnlinkRepository, githubVars, requestVars, collectiveVars
<1>2. link' \in [Collectives -> [Repositories -> Nat \union {Unset}]] BY <1>0, <1>1 DEF CacheInv, CacheShape
<1>3. \A k \in Collectives, t \in Repositories : link'[k][t] \in {link[k][t], Unset}
  BY <1>0, <1>1 DEF CacheInv, CacheShape
<1>4. linking' \in [Linkings -> LinkState \union {Unasked}] BY <1>0, <1>1 DEF CacheInv, CacheShape
<1>5. CacheInv' BY <1>0, <1>1, <1>2, <1>3, <1>4, LinkKeeps
<1> QED BY <1>1, <1>5, BindingFrame DEF ReposInv

(* A refresh: the link with its ETag, the pages, the commits, the new ETag. *)
LEMMA RefreshBegins ==
    ASSUME ReposInv, NEW x \in Refreshes, NEW p \in Persons, NEW g \in Collectives,
           NEW r \in Repositories, ListRepositoryCommits(x, p, g, r)
    PROVE  ReposInv'
<1> USE ReposAssumption
<1>0. CacheInv BY DEF ReposInv
<1> DEFINE q == [at |-> "first", g |-> g, r |-> r, etag |-> link[g][r], todo |-> {}]
<1>1. /\ UNCHANGED <<existing, made, owners, memberOf, boundTo, vouched, creating, handshake>>
      /\ UNCHANGED <<link, head, cached, linking, missed>>
      /\ refreshing' = [refreshing EXCEPT ![x] = q]
      /\ link[g][r] # Unset
  BY DEF ListRepositoryCommits, ListRepositories, githubVars, collectiveVars
<1>2. link[g][r] \in Nat /\ (link[g][r] = 0 \/ link[g][r] \in cached[r])
  BY <1>0, <1>1 DEF CacheInv, CacheShape, TagsCached
<1>3. q \in RefreshState /\ q.at = "first" /\ q.etag = link[g][r] /\ q.r = r
  BY <1>2 DEF RefreshState
<1> HIDE DEF q
<1>4. Carried(q, cached') BY <1>1, <1>2, <1>3 DEF Carried
<1>5. /\ link' \in [Collectives -> [Repositories -> Nat \union {Unset}]]
      /\ cached' \in [Repositories -> SUBSET Nat]
  BY <1>0, <1>1 DEF CacheInv, CacheShape
<1>6. CacheInv' BY <1>0, <1>1, <1>3, <1>4, <1>5, RefreshKeeps
<1> QED BY <1>1, <1>6, BindingFrame DEF ReposInv

(* The steps of a refresh, of which any may be the last. *)
LEMMA RefreshGoesOn ==
    ASSUME ReposInv, NEW x \in Refreshes,
           \/ FirstPage(x) \/ NextPage(x) \/ UpsertRepositoryCommit(x)
           \/ UpdateCollectiveRepositorySync(x) \/ RefreshFails(x)
    PROVE  ReposInv'
<1> USE ReposAssumption, UnaskedAt
<1> DEFINE q == refreshing[x]
<1>0. CacheInv /\ UNCHANGED <<existing, made, owners, memberOf, boundTo, vouched, creating, handshake>>
      /\ UNCHANGED <<head, linking>>
  BY DEF ReposInv, FirstPage, NextPage, UpsertRepositoryCommit, UpdateCollectiveRepositorySync,
         RefreshFails, RefreshMoves, collectiveVars, githubVars
<1>a. link \in [Collectives -> [Repositories -> Nat \union {Unset}]] /\ cached \in [Repositories -> SUBSET Nat]
  BY <1>0 DEF CacheInv, CacheShape
<1>b. q.at \in {"first", "next", "write", "sync"} =>
        /\ q \in RefreshState /\ q.r \in Repositories /\ q.g \in Collectives /\ q.etag \in Nat
        /\ q.todo \subseteq Nat /\ head[q.r] \in Nat \ {0} /\ Carried(q, cached)
  BY <1>0 DEF CacheInv, CacheShape, RefreshState, RefreshesCarry, Versioned
<1>1. ASSUME FirstPage(x) PROVE CacheInv'
  <2> DEFINE v == head[q.r]
             to == [q EXCEPT !.at = "next", !.etag = v, !.todo = {v}]
  <2>1. q.at = "first" /\ UNCHANGED <<link, cached>> BY <1>1 DEF FirstPage
  <2>2. CASE q.etag = v
    <3>1. v \in cached[q.r] BY <1>b, <2>1, <2>2 DEF Carried
    <3>2. refreshing' = [refreshing EXCEPT ![x] = Unasked] /\ missed' = missed
      BY <1>1, <2>2, <3>1 DEF FirstPage, RefreshMoves
    <3> QED BY <1>0, <1>a, <2>1, <3>2, RefreshKeeps
  <2>3. CASE q.etag # v
    <3>1. refreshing' = [refreshing EXCEPT ![x] = to] /\ missed' = missed
      BY <1>1, <2>3 DEF FirstPage, RefreshMoves
    <3>2. to \in RefreshState /\ to.at = "next" /\ to.etag \in to.todo
      BY <1>b, <2>1 DEF RefreshState
    <3> HIDE DEF to
    <3>3. Carried(to, cached') BY <3>2 DEF Carried
    <3> QED BY <1>0, <1>a, <2>1, <3>1, <3>2, <3>3, RefreshKeeps
  <2> QED BY <2>2, <2>3
<1>2. ASSUME NextPage(x) PROVE CacheInv'
  <2> DEFINE more == q.todo \union ({head[q.r] - 1} \ {0})
             to == [q EXCEPT !.at = "write", !.todo = more]
  <2>1. q.at = "next" /\ UNCHANGED <<link, cached, missed>> /\ refreshing' = [refreshing EXCEPT ![x] = to]
    BY <1>2 DEF NextPage, RefreshMoves
  <2>2. more \subseteq Nat /\ q.etag \in more BY <1>b, <2>1 DEF Carried
  <2> HIDE DEF more
  <2>3. to \in RefreshState /\ to.at = "write" /\ to.etag \in to.todo
    BY <1>b, <2>1, <2>2 DEF RefreshState
  <2> HIDE DEF to
  <2>4. Carried(to, cached') BY <2>3 DEF Carried
  <2> QED BY <1>0, <1>a, <2>1, <2>3, <2>4, RefreshKeeps
<1>3. ASSUME UpsertRepositoryCommit(x) PROVE CacheInv'
  <2>1. q.at = "write" /\ UNCHANGED <<link, missed>> BY <1>3 DEF UpsertRepositoryCommit
  <2>2. PICK c \in q.todo :
          /\ cached' = [cached EXCEPT ![q.r] = cached[q.r] \union {c}]
          /\ refreshing' = [refreshing EXCEPT ![x] =
                [q EXCEPT !.todo = q.todo \ {c}, !.at = IF q.todo = {c} THEN "sync" ELSE "write"]]
    BY <1>3 DEF UpsertRepositoryCommit, RefreshMoves
  <2> DEFINE at == IF q.todo = {c} THEN "sync" ELSE "write"
             to == [q EXCEPT !.todo = q.todo \ {c}, !.at = at]
  <2>3. at \in {"sync", "write"} /\ (at = "sync" => q.todo = {c}) OBVIOUS
  <2>4. refreshing' = [refreshing EXCEPT ![x] = to] BY <2>2
  <2> HIDE DEF at
  <2>5. to \in RefreshState /\ to.at = at /\ to.etag = q.etag /\ to.todo = q.todo \ {c} /\ to.r = q.r
    BY <1>b, <2>1, <2>3 DEF RefreshState
  <2> HIDE DEF to
  <2>6. /\ cached' \in [Repositories -> SUBSET Nat] /\ cached'[q.r] = cached[q.r] \union {c}
        /\ \A r \in Repositories : cached[r] \subseteq cached'[r]
    BY <1>a, <1>b, <2>1, <2>2
  <2>7. q.etag \in q.todo \union cached[q.r] BY <1>b, <2>1 DEF Carried
  <2>8. Carried(to, cached') BY <2>3, <2>5, <2>6, <2>7 DEF Carried
  <2> QED BY <1>0, <1>a, <2>1, <2>4, <2>5, <2>6, <2>8, RefreshKeeps
<1>4. ASSUME UpdateCollectiveRepositorySync(x) PROVE CacheInv'
  <2> DEFINE tag == IF link[q.g][q.r] = Unset THEN Unset ELSE q.etag
  <2>1. /\ q.at = "sync" /\ UNCHANGED <<cached, missed>>
        /\ refreshing' = [refreshing EXCEPT ![x] = Unasked]
        /\ link' = [link EXCEPT ![q.g][q.r] = tag]
    BY <1>4 DEF UpdateCollectiveRepositorySync, RefreshMoves
  <2>2. q.etag \in cached[q.r] BY <1>b, <2>1 DEF Carried
  <2>3. tag \in Nat \union {Unset} /\ (tag = Unset \/ tag \in cached[q.r]) BY <1>b, <2>1, <2>2
  <2> HIDE DEF tag
  <2>4. link' \in [Collectives -> [Repositories -> Nat \union {Unset}]]
    BY <1>a, <1>b, <2>1, <2>3
  <2>5. \A g \in Collectives, r \in Repositories :
              link'[g][r] \in {link[g][r], Unset, 0} \/ link'[g][r] \in cached[r]
    BY <1>a, <1>b, <2>1, <2>3
  <2> QED BY <1>0, <1>a, <2>1, <2>4, <2>5, RefreshKeeps
<1>5. ASSUME RefreshFails(x) PROVE CacheInv'
  <2>1. refreshing' = [refreshing EXCEPT ![x] = Unasked] /\ UNCHANGED <<link, cached, missed>>
    BY <1>5 DEF RefreshFails, RefreshMoves
  <2> QED BY <1>0, <1>a, <2>1, RefreshKeeps
<1>6. CacheInv' BY <1>1, <1>2, <1>3, <1>4, <1>5
<1> QED BY <1>0, <1>6, BindingFrame DEF ReposInv

(* Ownership, control and the branch move by themselves. *)
LEMMA MovesKeep == ASSUME ReposInv, GitHubMoves PROVE ReposInv'
<1>0. BindingInv /\ CacheInv BY DEF ReposInv
<1>1. /\ UNCHANGED <<existing, made, boundTo, vouched, creating, handshake>>
      /\ UNCHANGED <<link, cached, linking, refreshing, missed>>
  BY DEF GitHubMoves, requestVars
<1>2. /\ owners' \in [Collectives -> SUBSET Persons]
      /\ \A g \in Collectives : owners[g] = {} => owners'[g] = {}
  BY <1>0 DEF GitHubMoves, BindingInv, BindingShape
<1>3. memberOf' \in [Persons -> SUBSET Organizations]
  BY <1>0 DEF GitHubMoves, BindingInv, BindingShape
<1>4. head' \in [Repositories -> Versioned]
  BY <1>0 DEF GitHubMoves, CacheInv, CacheShape
<1>5. BindingShape' BY <1>0, <1>1, <1>2, <1>3 DEF BindingInv, BindingShape
<1>6. \A x \in Creations : creating[x].at = "own" => creating[x].g \in Collectives
  BY <1>0 DEF BindingInv, BindingShape, OwningInv, Founded
<1>7. OwningInv'
  BY <1>0, <1>1, <1>2, <1>6 DEF BindingInv, OwningInv, CreationsVouched, Founded, OwnedExist
<1>8. BoundByController' BY <1>0, <1>1 DEF BindingInv, BoundByController
<1>9. CacheInv'
  BY <1>0, <1>1, <1>4 DEF CacheInv, CacheShape, TagsCached, RefreshesCarry, Carried, NotModifiedIsCurrent
<1> QED BY <1>5, <1>7, <1>8, <1>9 DEF ReposInv, BindingInv

(* Every step keeps the invariant. *)
LEMMA ReposStep == ASSUME ReposInv, [ReposNext]_reposVars PROVE ReposInv'
<1>1. CASE UNCHANGED reposVars
  BY <1>1, BindingFrame, CacheFrame DEF reposVars, collectiveVars, githubVars, requestVars, ReposInv
<1>2. ASSUME NEW p \in Persons, NEW g \in Collectives, NEW r \in Repositories,
             NEW x \in Linkings, LinkRepository(x, p, g, r)
      PROVE  ReposInv'
  BY <1>2, LinksKeep
<1>3. ASSUME NEW x \in Linkings, LinkCollectiveRepository(x) PROVE ReposInv'
  <2>1. PICK g \in Collectives, r \in Repositories : TRUE
    BY <1>3, UnaskedAt DEF LinkCollectiveRepository, ReposInv, CacheInv, CacheShape, LinkState
  <2> QED BY <1>3, <2>1, LinksKeep
<1>4. CASE RepositoryStep
  BY <1>2, <1>3, <1>4, UnlinkKeeps, RefreshBegins, RefreshGoesOn DEF RepositoryStep
<1> QED BY <1>1, <1>4, CreationKeeps, BindingKeeps, MovesKeep DEF ReposNext

(* Installations are recorded for GitHub accounts only. *)
InstalledTyped == installed \subseteq GitHubAccounts

(* Only the install callback records one, for the account GitHub names. *)
LEMMA InstalledStep == ASSUME InstalledTyped, [ReposNext]_reposVars PROVE InstalledTyped'
<1>1. CASE UNCHANGED installed BY <1>1 DEF InstalledTyped
<1>2. ASSUME NEW x, NEW p, NEW a \in GitHubAccounts, NEW g, GitHubInstallCallback(x, p, a, g)
      PROVE  InstalledTyped'
  BY <1>2 DEF GitHubInstallCallback, InstalledTyped
<1>3. CASE UNCHANGED reposVars BY <1>1, <1>3 DEF reposVars
<1>4. CASE BindingStep
  <2>1. \/ UNCHANGED installed
        \/ \E x \in Handshakes, p \in Persons, a \in GitHubAccounts, g \in Collectives \union {Unset} :
              GitHubInstallCallback(x, p, a, g)
    BY <1>4 DEF BindingStep, InstallControl, SetGroupLinkedGitHubOrg, UpdateGroup, DeleteGroup
  <2> QED BY <1>1, <1>2, <2>1
<1>5. CASE RepositoryStep
  <2>1. UNCHANGED installed
    BY <1>5 DEF RepositoryStep, LinkRepository, UnlinkRepository, ListRepositoryCommits,
       LinkCollectiveRepository, FirstPage, NextPage, UpsertRepositoryCommit,
       UpdateCollectiveRepositorySync, RefreshFails, RefreshMoves
  <2> QED BY <1>1, <2>1
<1>6. CASE GitHubMoves BY <1>1, <1>6 DEF GitHubMoves
<1>7. CASE CreationStep
  <2>1. UNCHANGED installed
    BY <1>7 DEF CreationStep, CreateGroup, InsertGroup, AddGroupCreator, CreationFails
  <2> QED BY <1>1, <2>1
<1> QED BY <1>3, <1>4, <1>5, <1>6, <1>7 DEF ReposNext

(* A collective is bound only to an account that an owner who controlled it at
   that moment bound, or that its creator controlled when the creation asked; a
   deleted one is bound to nothing; and a 304 finds the newest commit cached,
   however creations, handshakes, settings updates, deletions, links and refreshes
   interleave (groups.go, github_install.go, collective_repos.go). *)
THEOREM RepositoriesHold == ReposSpec => [](ReposHold /\ ReposTypeOK)
<1>1. ReposInit => ReposInv /\ InstalledTyped
  <2>1. ReposInit => InstalledTyped BY DEF ReposInit, InstalledTyped
  <2> QED BY <2>1, ReposStart
<1>2. ReposInv /\ InstalledTyped /\ [ReposNext]_reposVars => ReposInv' /\ InstalledTyped'
  BY ReposStep, InstalledStep
<1>3. ReposInv /\ InstalledTyped => ReposHold /\ ReposTypeOK
  BY DEF ReposInv, BindingInv, CacheInv, ReposHold, InstalledTyped, ReposTypeOK
<1> QED BY <1>1, <1>2, <1>3, PTL DEF ReposSpec

-----------------------------------------------------------------------------
(* The webhook ledger.  An attempt past the dispatch has an outcome that is no
   failure behind it. *)
Began == \A a \in Attempts : attempt[a].pc # "idle" => attempt[a].d \in Deliveries

SilentUntilDone == \A a \in Attempts : attempt[a].pc # "done" => attempt[a].said = "none"

Succeeded(results) == results \ {"failed"} # {}

CompletesSuccess == \A a \in Attempts : attempt[a].pc = "complete" => Succeeded(outcome[attempt[a].d])

WebhookInv ==
    /\ LedgerShape /\ Began /\ SilentUntilDone /\ CompletesSuccess
    /\ HandledWasDispatched /\ AcceptedIsHandled

(* Nothing was delivered yet. *)
LEMMA WebhookStart == ASSUME WebhookInit PROVE WebhookInv
<1>1. LedgerShape BY DEF WebhookInit, LedgerShape, Statuses
<1>2. Began /\ SilentUntilDone /\ CompletesSuccess
  BY DEF WebhookInit, Began, SilentUntilDone, CompletesSuccess
<1>3. HandledWasDispatched /\ AcceptedIsHandled
  BY DEF WebhookInit, HandledWasDispatched, AcceptedIsHandled
<1> QED BY <1>1, <1>2, <1>3 DEF WebhookInv

(* What a step may do to the ledger: a handled row stays handled, outcomes are
   only added, one attempt moves or all of them end, and none begins to dispatch
   what is handled. *)
LedgerMoves ==
    /\ \A d \in Deliveries : delivery[d].status = "handled" => delivery'[d].status = "handled"
    /\ \A d \in Deliveries : delivery'[d].status = "handled" => delivery[d].status = "handled" \/ Succeeded(outcome[d])
    /\ \A d \in Deliveries : outcome[d] \subseteq outcome'[d]

AttemptMoves(b) ==
    \/ attempt'[b] = attempt[b]
    \/ /\ attempt'[b].d \in Deliveries
       /\ attempt[b].pc = "idle" \/ attempt'[b].d = attempt[b].d
       /\ \/ attempt'[b].pc = "dispatch" /\ attempt'[b].said = "none"
                /\ delivery[attempt'[b].d].status # "handled"
          \/ attempt'[b].pc = "complete" /\ attempt'[b].said = "none" /\ Succeeded(outcome'[attempt'[b].d])
          \/ attempt'[b].pc = "fail" /\ attempt'[b].said = "none"
          \/ attempt'[b].pc = "done" /\ attempt'[b].said \in {"none", "error"}
          \/ attempt'[b].pc = "done" /\ attempt'[b].said \in {"accepted", "replay"}
                /\ delivery'[attempt'[b].d].status = "handled"

(* Every step of the receiver, the dispatcher and a dying server. *)
LEMMA WebhookMoves ==
    ASSUME WebhookInv, WebhookNext
    PROVE  LedgerShape' /\ LedgerMoves /\ \A b \in Attempts : AttemptMoves(b)
<1>0. LedgerShape BY DEF WebhookInv
<1>1. ASSUME NEW a \in Attempts, NEW d \in Deliveries, ReceiveGitHubWebhook(a, d)
      PROVE  LedgerShape' /\ LedgerMoves /\ \A b \in Attempts : AttemptMoves(b)
  <2>1. LedgerShape' /\ LedgerMoves
    BY <1>0, <1>1 DEF ReceiveGitHubWebhook, Recorded, LedgerShape, LedgerMoves, Statuses, Succeeded
  <2>2. ASSUME NEW b \in Attempts PROVE AttemptMoves(b)
    BY <1>0, <1>1 DEF ReceiveGitHubWebhook, Recorded, LedgerShape, AttemptMoves, Statuses, At
  <2> QED BY <2>1, <2>2
<1>2. ASSUME NEW a \in Attempts, NEW d \in Deliveries, NotRecorded(a, d)
      PROVE  LedgerShape' /\ LedgerMoves /\ \A b \in Attempts : AttemptMoves(b)
  BY <1>0, <1>2 DEF NotRecorded, LedgerShape, LedgerMoves, AttemptMoves, At
<1>3. ASSUME NEW a \in Attempts, Dispatched(a) \/ DispatchFails(a)
      PROVE  LedgerShape' /\ LedgerMoves /\ \A b \in Attempts : AttemptMoves(b)
  <2>1. PICK what \in Outcomes, label \in {"complete", "fail"} :
          At(a, "dispatch") /\ Comes(a, what, label) /\ (label = "complete" => what # "failed")
    BY <1>3 DEF Dispatched, DispatchFails, Outcomes
  <2>2. attempt[a].d \in Deliveries BY <2>1 DEF WebhookInv, Began, At
  <2>3. LedgerShape' /\ LedgerMoves
    BY <1>0, <2>1, <2>2 DEF Comes, Moves, LedgerShape, LedgerMoves, Outcomes
  <2>4. what \in outcome'[attempt[a].d] BY <1>0, <2>1, <2>2 DEF Comes, LedgerShape
  <2>5. ASSUME NEW b \in Attempts PROVE AttemptMoves(b)
    <3>1. CASE b # a BY <1>0, <2>1, <3>1 DEF Comes, Moves, LedgerShape, AttemptMoves
    <3>2. CASE b = a
      <4>1. attempt'[a].pc = label /\ attempt'[a].d = attempt[a].d /\ attempt'[a].said = "none"
        BY <1>0, <2>1 DEF Comes, Moves, LedgerShape, At, WebhookInv, SilentUntilDone
      <4>2. label = "complete" => Succeeded(outcome'[attempt'[a].d]) BY <2>1, <2>4, <4>1 DEF Succeeded
      <4> QED BY <2>1, <2>2, <3>2, <4>1, <4>2 DEF AttemptMoves
    <3> QED BY <3>1, <3>2
  <2> QED BY <2>3, <2>5
<1>4. ASSUME NEW a \in Attempts, Handled(a) \/ failGitHubWebhookDelivery(a) \/ NotCompleted(a)
      PROVE  LedgerShape' /\ LedgerMoves /\ \A b \in Attempts : AttemptMoves(b)
  <2>1. attempt[a].pc \in {"complete", "fail"} /\ UNCHANGED outcome
    BY <1>4 DEF Handled, failGitHubWebhookDelivery, NotCompleted, At
  <2>2. attempt[a].d \in Deliveries /\ (attempt[a].pc = "complete" => Succeeded(outcome[attempt[a].d]))
    BY <2>1 DEF WebhookInv, Began, CompletesSuccess
  <2>3. PICK said \in {"accepted", "error"} : Answers(a, said)
    BY <1>4 DEF Handled, failGitHubWebhookDelivery, NotCompleted
  <2>4. /\ delivery' \in [Deliveries -> [status : Statuses, attempts : Nat]]
        /\ \A d \in Deliveries : delivery[d].status = "handled" => delivery'[d].status = "handled"
        /\ \A d \in Deliveries : delivery'[d].status = "handled" => delivery[d].status = "handled" \/ Succeeded(outcome[d])
    <3>1. CASE Handled(a)
      <4>1. delivery' = [delivery EXCEPT ![attempt[a].d] = [status |-> "handled", attempts |-> @.attempts + 1]]
        BY <3>1 DEF Handled, Complete
      <4>2. attempt[a].pc = "complete" BY <3>1 DEF Handled, At
      <4> QED BY <1>0, <2>2, <4>1, <4>2 DEF LedgerShape, Statuses
    <3>2. CASE failGitHubWebhookDelivery(a)
      <4>1. \/ delivery' = delivery
            \/ /\ delivery[attempt[a].d].status # "handled"
               /\ delivery' = [delivery EXCEPT ![attempt[a].d] =
                                  [status |-> "failed", attempts |-> @.attempts + 1]]
        BY <3>2 DEF failGitHubWebhookDelivery, Complete
      <4>2. CASE delivery' = delivery BY <1>0, <4>2 DEF LedgerShape
      <4>3. CASE delivery[attempt[a].d].status # "handled" /\ delivery' # delivery
        <5>1. [status |-> "failed", attempts |-> delivery[attempt[a].d].attempts + 1]
                \in [status : Statuses, attempts : Nat]
          BY <1>0, <2>2 DEF LedgerShape, Statuses
        <5>2. delivery' \in [Deliveries -> [status : Statuses, attempts : Nat]]
          BY <1>0, <4>1, <4>3, <5>1 DEF LedgerShape
        <5>3. \A d \in Deliveries : IF d = attempt[a].d THEN delivery'[d].status = "failed"
                                    ELSE delivery'[d] = delivery[d]
          BY <1>0, <4>1, <4>3 DEF LedgerShape
        <5> QED BY <4>3, <5>2, <5>3
      <4> QED BY <4>1, <4>2, <4>3
    <3>3. CASE NotCompleted(a) BY <1>0, <3>3 DEF NotCompleted, LedgerShape
    <3> QED BY <1>4, <3>1, <3>2, <3>3
  <2>5. LedgerShape' /\ LedgerMoves BY <1>0, <2>1, <2>3, <2>4 DEF LedgerShape, LedgerMoves, Answers
  <2>6. attempt'[a].said = "accepted" => delivery'[attempt[a].d].status = "handled"
    BY <1>0, <1>4, <2>2 DEF Handled, failGitHubWebhookDelivery, NotCompleted, Complete, LedgerShape, Answers
  <2>7. ASSUME NEW b \in Attempts PROVE AttemptMoves(b)
    BY <1>0, <2>2, <2>3, <2>6 DEF LedgerShape, Answers, AttemptMoves
  <2> QED BY <2>5, <2>7
<1>5. ASSUME ServerDies PROVE LedgerShape' /\ LedgerMoves /\ \A b \in Attempts : AttemptMoves(b)
  <2>1. LedgerShape' /\ LedgerMoves BY <1>0, <1>5 DEF ServerDies, LedgerShape, LedgerMoves
  <2>2. ASSUME NEW b \in Attempts PROVE AttemptMoves(b)
    <3>1. CASE attempt[b].pc = "idle" BY <1>5, <3>1 DEF ServerDies, AttemptMoves
    <3>2. CASE attempt[b].pc = "done" BY <1>0, <1>5, <3>2 DEF ServerDies, AttemptMoves, LedgerShape
    <3>3. CASE attempt[b].pc \notin {"idle", "done"}
      <4>1. attempt[b].said = "none" /\ attempt[b].d \in Deliveries
        BY <3>3 DEF WebhookInv, Began, SilentUntilDone
      <4>2. attempt'[b].pc = "done" /\ attempt'[b].said = "none" /\ attempt'[b].d = attempt[b].d
        BY <1>0, <1>5, <3>3, <4>1 DEF ServerDies, LedgerShape
      <4> QED BY <4>1, <4>2 DEF AttemptMoves
    <3> QED BY <3>1, <3>2, <3>3
  <2> QED BY <2>1, <2>2
<1>6. ASSUME LinkMoves PROVE LedgerShape' /\ LedgerMoves /\ \A b \in Attempts : AttemptMoves(b)
  BY <1>0, <1>6 DEF LinkMoves, LedgerShape, LedgerMoves, AttemptMoves
<1> QED BY <1>1, <1>2, <1>3, <1>4, <1>5, <1>6 DEF WebhookNext

(* Such a step keeps the invariant. *)
LEMMA WebhookStep ==
    ASSUME WebhookInv, [WebhookNext]_webhookVars
    PROVE  WebhookInv'
<1>1. CASE WebhookNext
  <2>1. LedgerShape' /\ LedgerMoves /\ \A b \in Attempts : AttemptMoves(b) BY <1>1, WebhookMoves
  <2>2. Began' BY <2>1 DEF Began, AttemptMoves, WebhookInv
  <2>3. SilentUntilDone' BY <2>1 DEF SilentUntilDone, AttemptMoves, WebhookInv
  <2>4. \A d \in Deliveries : Succeeded(outcome[d]) => Succeeded(outcome'[d]) BY <2>1 DEF LedgerMoves, Succeeded
  <2>5. CompletesSuccess'
    <3> SUFFICES ASSUME NEW b \in Attempts, attempt'[b].pc = "complete" PROVE Succeeded(outcome'[attempt'[b].d])
      BY DEF CompletesSuccess
    <3>1. CASE attempt'[b] = attempt[b] BY <2>4, <3>1 DEF WebhookInv, CompletesSuccess, Began
    <3>2. CASE attempt'[b] # attempt[b] BY <2>1, <3>2 DEF AttemptMoves
    <3> QED BY <3>1, <3>2
  <2>6. HandledWasDispatched'
    BY <2>1, <2>4 DEF HandledWasDispatched, WebhookInv, LedgerMoves, Succeeded
  <2>7. AcceptedIsHandled'
    <3> SUFFICES ASSUME NEW b \in Attempts, attempt'[b].said \in {"accepted", "replay"}
                 PROVE  delivery'[attempt'[b].d].status = "handled"
      BY DEF AcceptedIsHandled
    <3>1. CASE attempt'[b] = attempt[b]
      <4>1. attempt[b].pc # "idle" BY <3>1 DEF WebhookInv, SilentUntilDone
      <4> QED BY <2>1, <3>1, <4>1 DEF WebhookInv, AcceptedIsHandled, LedgerMoves, Began
    <3>2. CASE attempt'[b] # attempt[b] BY <2>1, <3>2 DEF AttemptMoves
    <3> QED BY <3>1, <3>2
  <2> QED BY <2>1, <2>2, <2>3, <2>5, <2>6, <2>7 DEF WebhookInv
<1>2. CASE UNCHANGED webhookVars
  BY <1>2 DEF webhookVars, WebhookInv, LedgerShape, Began, SilentUntilDone, CompletesSuccess, Succeeded,
              HandledWasDispatched, AcceptedIsHandled
<1> QED BY <1>1, <1>2

(* Whether the repository is linked, and the crashes so far. *)
SurroundingsTyped == linked \in BOOLEAN /\ crashes \in 0..MaxCrashes

(* Linking flips it; a crash is counted only below MaxCrashes. *)
LEMMA SurroundingsStep ==
    ASSUME SurroundingsTyped, [WebhookNext]_webhookVars
    PROVE  SurroundingsTyped'
<1> USE WebhookAssumption
<1>1. CASE UNCHANGED <<linked, crashes>> BY <1>1 DEF SurroundingsTyped
<1>2. CASE ServerDies BY <1>2 DEF ServerDies, SurroundingsTyped
<1>3. CASE LinkMoves BY <1>3 DEF LinkMoves, SurroundingsTyped
<1>4. UNCHANGED <<linked, crashes>> \/ ServerDies \/ LinkMoves
  BY DEF webhookVars, WebhookNext, ReceiveGitHubWebhook, NotRecorded, Dispatched, DispatchFails, Comes,
     Handled, failGitHubWebhookDelivery, NotCompleted
<1> QED BY <1>1, <1>2, <1>3, <1>4

(* The ledger and its attempts are type correct. *)
THEOREM WebhookTyped == WebhookSpec => []WebhookTypeOK
<1>1. WebhookInit => WebhookInv /\ SurroundingsTyped
  <2>1. WebhookInit => SurroundingsTyped BY WebhookAssumption DEF WebhookInit, SurroundingsTyped
  <2> QED BY <2>1, WebhookStart
<1>2. WebhookInv /\ SurroundingsTyped /\ [WebhookNext]_webhookVars => WebhookInv' /\ SurroundingsTyped'
  BY WebhookStep, SurroundingsStep
<1>3. WebhookInv /\ SurroundingsTyped => WebhookTypeOK
  BY DEF WebhookInv, SurroundingsTyped, WebhookTypeOK
<1> QED BY <1>1, <1>2, <1>3, PTL DEF WebhookSpec

(* However often a delivery is sent again, and wherever an attempt dies, a handled
   delivery was carried through, GitHub was told so only then, and once its
   attempts have left the dispatcher it is settled for good: a late failure does
   not reopen it (ReceiveGitHubWebhook, CompleteGitHubWebhookDelivery). *)
THEOREM DeliveriesStaySettled == WebhookSpec => DeliveriesSettle
<1>1. WebhookInit => WebhookInv BY WebhookStart
<1>2. WebhookInv /\ [WebhookNext]_webhookVars => WebhookInv' BY WebhookStep
<1>3. WebhookInv => HandledWasDispatched /\ AcceptedIsHandled BY DEF WebhookInv
<1>4. WebhookInv /\ [WebhookNext]_webhookVars
        => [\A d \in Deliveries : Settled(d) => Settled(d)']_webhookVars
  <2> SUFFICES ASSUME WebhookInv, WebhookNext, NEW d \in Deliveries, Settled(d) PROVE Settled(d)'
    OBVIOUS
  <2>1. LedgerMoves /\ \A b \in Attempts : AttemptMoves(b) BY WebhookMoves
  <2>2. ASSUME NEW b \in Attempts, attempt'[b].d = d, attempt'[b].pc = "dispatch" PROVE FALSE
    BY <2>1, <2>2 DEF AttemptMoves, Settled, At
  <2>3. delivery'[d].status = "handled" BY <2>1 DEF LedgerMoves, Settled
  <2> QED BY <2>2, <2>3 DEF Settled, At
<1> QED BY <1>1, <1>2, <1>3, <1>4, PTL DEF WebhookSpec, DeliveriesSettle, SettledStays

-----------------------------------------------------------------------------
(* Accounts. *)
(* A sign-in that came from a command line has its session's row. *)
SessionsStand ==
    \A f \in SignIns : signIn[f] # Idle /\ signIn[f].session # NoUser => cli[signIn[f].session] # NoUser

(* An account's organizations come from a sync that the account has issued; ids
   still to be given have none. *)
SyncsIssued ==
    \A u \in UserIds :
        /\ user[u] # NoUser => u < nextUser /\ orgGen[u] <= user[u].gen
        /\ u >= nextUser => orgGen[u] = 0

ShownPublished == \A u \in UserIds, o \in Orgs : orgRow[u][o] = "shown" => o \in published[u]

(* A code is sent once, and the session that still carries it has the account it
   was sent for. *)
CodesSent ==
    \A m \in sentCode :
        /\ m.code < nextCode
        /\ cli[m.session] # NoUser /\ cli[m.session].code = m.code => m.user = cli[m.session].user

Used(s) == cli[s] # NoUser /\ cli[s].exchanged

SentAs(r) == \E m \in sentCode : m.code = r.code /\ m.session = r.session /\ m.user = r.user

(* A session is used for one exchange, which becomes one key. *)
ExchangesUsed ==
    \A x \in Exchanges : exchange[x] # NoUser =>
        /\ Used(exchange[x].session) /\ SentAs(exchange[x])
        /\ \A y \in Exchanges : exchange[y] # NoUser /\ exchange[y].session = exchange[x].session => y = x
        /\ \A k \in KeyIds : key[k] # NoUser => key[k].session # exchange[x].session

KeysUsed ==
    \A k \in KeyIds : key[k] # NoUser =>
        /\ user[key[k].user] # NoUser
        /\ key[k].session # NoUser =>
              /\ Used(key[k].session) /\ SentAs(key[k])
              /\ \A l \in KeyIds : key[l] # NoUser /\ key[l].session = key[k].session => l = k

AccountsInv ==
    /\ UsersShape /\ OrgsShape /\ LoginsShape
    /\ SessionsStand /\ SyncsIssued /\ ShownPublished /\ CodesSent /\ ExchangesUsed /\ KeysUsed

(* Nobody has signed in. *)
LEMMA AccountsStart == ASSUME AccountsInit PROVE AccountsInv
<1>1. UsersShape BY DEF AccountsInit, UsersShape
<1>2. OrgsShape BY DEF AccountsInit, OrgsShape
<1>3. LoginsShape BY DEF AccountsInit, LoginsShape
<1>4. SessionsStand /\ SyncsIssued /\ ShownPublished
  BY DEF AccountsInit, SessionsStand, SyncsIssued, ShownPublished, UserIds
<1>5. CodesSent /\ ExchangesUsed /\ KeysUsed
  BY DEF AccountsInit, CodesSent, ExchangesUsed, KeysUsed
<1> QED BY <1>1, <1>2, <1>3, <1>4, <1>5 DEF AccountsInv

(* The name a sign-in goes by is one of its candidates. *)
LEMMA NameIsHandle == ASSUME NEW i \in Identities PROVE generateUniqueUsername(i) \subseteq Handles
BY AccountsAssumption DEF generateUniqueUsername, Handles

(* What a step may do to the accounts. *)
UserMoves ==
    /\ nextUser' >= nextUser
    /\ \A u \in UserIds :
        \/ user'[u] = user[u]
        \/ user'[u] # NoUser /\ user[u] # NoUser /\ user'[u].gen >= user[u].gen
        \/ user'[u] # NoUser /\ u = nextUser /\ nextUser' = nextUser + 1 /\ user'[u].gen = 0
        \/ DeleteAccount(u)

(* A provider's answer begins a sign-in, under one of its candidates. *)
LEMMA CallbackMoves ==
    ASSUME AccountsInv, NEW f \in SignIns, NEW i \in Identities, NEW s \in LoginSessions \union {NoUser},
           GitHubCallback(f, i, s) \/ providerCallback(f, i)
    PROVE  UsersShape' /\ UserMoves /\ SessionsStand'
<1> USE AbsentAssumption
<1>0. UsersShape /\ SessionsStand BY DEF AccountsInv
<1>1. PICK t \in LoginSessions \union {NoUser}, name \in Handles :
        /\ t # NoUser => cli[t] # NoUser
        /\ signIn' = [signIn EXCEPT ![f] = [at |-> "upsert", who |-> i, session |-> t, name |-> name]]
        /\ UNCHANGED <<user, nextUser, belongs, cli>>
  BY NameIsHandle DEF GitHubCallback, providerCallback, cliVars
<1>2. [at |-> "upsert", who |-> i, session |-> t, name |-> name] \in Upserting BY DEF Upserting
<1>3. UsersShape' /\ UserMoves BY <1>0, <1>1, <1>2 DEF UsersShape, UserMoves
<1>4. SessionsStand' BY <1>0, <1>1 DEF SessionsStand, UsersShape
<1> QED BY <1>3, <1>4

(* The fields of a sign-in that has its account. *)
LEMMA SignedInAt ==
    ASSUME UsersShape, NEW f \in SignIns, signIn[f].at \in {"confirm", "issue", "fetch", "install", "finish"}
    PROVE  signIn[f] \in SignedIn
BY DEF UsersShape, Idle, Upserting

(* The fields of a sign-in that is still to find its account. *)
LEMMA UpsertingAt ==
    ASSUME UsersShape, NEW f \in SignIns, signIn[f].at = "upsert"
    PROVE  signIn[f] \in Upserting
BY DEF UsersShape, Idle, SignedIn

(* A sign-in gets the account it has, a new one, or ends. *)
LEMMA UpsertMoves ==
    ASSUME AccountsInv, NEW f \in SignIns, UpsertUser(f)
    PROVE  UsersShape' /\ UserMoves /\ SessionsStand'
<1> USE AbsentAssumption
<1> DEFINE g == signIn[f]
<1>0. UsersShape /\ SessionsStand /\ SyncsIssued /\ UNCHANGED <<belongs, cli>>
  BY DEF AccountsInv, UpsertUser, cliVars
<1>1. g \in Upserting /\ g # Idle BY <1>0, UpsertingAt DEF UpsertUser, Upserting, Idle
<1>2. ASSUME NEW u \in UserIds, user' \in [UserIds -> AccountRow \union {NoUser}], user'[u] # NoUser,
             NEW at \in {"finish", "confirm", "issue"},
             signIn' = [signIn EXCEPT ![f] = [at |-> at, who |-> g.who,
                                session |-> g.session, user |-> u, name |-> user'[u].handle,
                                issued |-> 0, snap |-> {}]]
      PROVE  signIn' \in [SignIns -> {Idle} \union Upserting \union SignedIn] /\ SessionsStand'
  <2>1. user'[u].handle \in Handles BY <1>2 DEF AccountRow
  <2>2. [at |-> at, who |-> g.who, session |-> g.session, user |-> u, name |-> user'[u].handle,
         issued |-> 0, snap |-> {}] \in SignedIn
    BY <1>1, <2>1 DEF SignedIn, Upserting
  <2>3. signIn' \in [SignIns -> {Idle} \union Upserting \union SignedIn] BY <1>0, <1>2, <2>2 DEF UsersShape
  <2>4. SessionsStand' BY <1>0, <1>1, <1>2 DEF SessionsStand, UsersShape
  <2> QED BY <2>3, <2>4
<1> HIDE DEF g
<1>3. ASSUME NEW u \in AccountOf(g.who), UNCHANGED <<user, nextUser>>,
             NEW at \in {"finish", "confirm", "issue"},
             signIn' = [signIn EXCEPT ![f] = [at |-> at, who |-> g.who,
                                session |-> g.session, user |-> u, name |-> user'[u].handle,
                                issued |-> 0, snap |-> {}]]
      PROVE  UsersShape' /\ UserMoves /\ SessionsStand'
  <2>1. u \in UserIds /\ user[u] # NoUser BY DEF AccountOf, LiveUsers
  <2>2. user' \in [UserIds -> AccountRow \union {NoUser}] /\ user'[u] # NoUser
    BY <1>0, <1>3, <2>1 DEF UsersShape
  <2>3. signIn' \in [SignIns -> {Idle} \union Upserting \union SignedIn] /\ SessionsStand'
    BY <1>2, <1>3, <2>1, <2>2
  <2> QED BY <1>0, <1>3, <2>2, <2>3 DEF UsersShape, UserMoves
<1>4. ASSUME nextUser \in UserIds,
             user' = [user EXCEPT ![nextUser] = [who |-> g.who, handle |-> g.name, chosen |-> FALSE,
                                                 listed |-> TRUE, gen |-> 0]],
             nextUser' = nextUser + 1,
             NEW at \in {"finish", "confirm", "issue"},
             signIn' = [signIn EXCEPT ![f] = [at |-> at, who |-> g.who,
                                session |-> g.session, user |-> nextUser, name |-> user'[nextUser].handle,
                                issued |-> 0, snap |-> {}]]
      PROVE  UsersShape' /\ UserMoves /\ SessionsStand'
  <2>1. [who |-> g.who, handle |-> g.name, chosen |-> FALSE, listed |-> TRUE, gen |-> 0] \in AccountRow
    BY <1>1 DEF AccountRow, Upserting
  <2>2. user' \in [UserIds -> AccountRow \union {NoUser}] /\ user'[nextUser] # NoUser
    BY <1>0, <1>4, <2>1 DEF UsersShape
  <2>3. user'[nextUser].gen = 0 /\ \A u \in UserIds : u # nextUser => user'[u] = user[u]
    BY <1>0, <1>4 DEF UsersShape
  <2>4. nextUser \in Nat /\ nextUser' \in Nat /\ nextUser' >= nextUser BY <1>0, <1>4 DEF UsersShape
  <2> QED BY <1>0, <1>2, <1>4, <2>2, <2>3, <2>4 DEF UsersShape, UserMoves
<1>5. ASSUME signIn' = [signIn EXCEPT ![f] = Idle], UNCHANGED <<user, nextUser>>
      PROVE  UsersShape' /\ UserMoves /\ SessionsStand'
  BY <1>0, <1>5 DEF UsersShape, UserMoves, SessionsStand
<1> QED BY <1>3, <1>4, <1>5 DEF UpsertUser, g


(* A sign-in that moves on keeps its account and its session. *)
LEMMA PlaceMoves ==
    ASSUME AccountsInv, NEW f \in SignIns, signIn[f] \in SignedIn, NEW to \in SignedIn \union {Idle},
           to # Idle => to.session = signIn[f].session, signIn' = [signIn EXCEPT ![f] = to],
           \A s \in LoginSessions : cli[s] # NoUser => cli'[s] # NoUser
    PROVE  signIn' \in [SignIns -> {Idle} \union Upserting \union SignedIn] /\ SessionsStand'
<1> USE AbsentAssumption
<1>0. UsersShape /\ SessionsStand BY DEF AccountsInv
<1>1. signIn' \in [SignIns -> {Idle} \union Upserting \union SignedIn] BY <1>0 DEF UsersShape
<1>2. \A h \in SignIns : signIn[h] # Idle => signIn[h].session \in LoginSessions \union {NoUser}
  BY <1>0 DEF UsersShape, Upserting, SignedIn
<1>3. signIn[f] # Idle BY DEF SignedIn, Idle
<1>4. ASSUME NEW h \in SignIns, signIn'[h] # Idle, signIn'[h].session # NoUser
      PROVE  cli'[signIn'[h].session] # NoUser
  <2>1. signIn[h] # Idle /\ signIn'[h].session = signIn[h].session BY <1>0, <1>3, <1>4 DEF UsersShape
  <2> QED BY <1>0, <1>2, <1>4, <2>1 DEF SessionsStand
<1> QED BY <1>1, <1>4 DEF SessionsStand

(* The steps of a sign-in that has its account. *)
LEMMA SignInMoves ==
    ASSUME AccountsInv, NEW f \in SignIns,
           \/ ConfirmOwnHandle(f) \/ IssueGitHubOrgSyncGeneration(f) \/ fetchGitHubOrgSnapshot(f)
           \/ syncGitHubOrgSnapshot(f) \/ CreateToken(f)
    PROVE  UsersShape' /\ UserMoves /\ SessionsStand'
<1> USE AbsentAssumption
<1> DEFINE g == signIn[f]
<1>0. UsersShape /\ SessionsStand /\ UNCHANGED <<nextUser, belongs, cli>>
  BY DEF AccountsInv, ConfirmOwnHandle, IssueGitHubOrgSyncGeneration, fetchGitHubOrgSnapshot,
         syncGitHubOrgSnapshot, CreateToken, cliVars
<1>1. g \in SignedIn
  BY <1>0, SignedInAt DEF ConfirmOwnHandle, IssueGitHubOrgSyncGeneration, fetchGitHubOrgSnapshot,
         syncGitHubOrgSnapshot, CreateToken
<1>2. g.user \in UserIds /\ g.who \in Identities /\ belongs[g.who] \subseteq Orgs
      /\ user[g.user] \in AccountRow \union {NoUser}
  BY <1>0, <1>1 DEF SignedIn, UsersShape
<1>3. ASSUME NEW to \in SignedIn \union {Idle}, to # Idle => to.session = g.session,
             signIn' = [signIn EXCEPT ![f] = to], UNCHANGED user
      PROVE  UsersShape' /\ UserMoves /\ SessionsStand'
  <2>1. signIn' \in [SignIns -> {Idle} \union Upserting \union SignedIn] /\ SessionsStand'
    BY <1>0, <1>1, <1>3, PlaceMoves
  <2> QED BY <1>0, <1>3, <2>1 DEF UsersShape, UserMoves
<1>4. ASSUME NEW to \in SignedIn, to.session = g.session, signIn' = [signIn EXCEPT ![f] = to],
             user[g.user] # NoUser, NEW row \in AccountRow, row.gen >= user[g.user].gen,
             user' = [user EXCEPT ![g.user] = row]
      PROVE  UsersShape' /\ UserMoves /\ SessionsStand'
  <2>1. signIn' \in [SignIns -> {Idle} \union Upserting \union SignedIn] /\ SessionsStand'
    BY <1>0, <1>1, <1>4, PlaceMoves
  <2>2. user' \in [UserIds -> AccountRow \union {NoUser}] BY <1>0, <1>2, <1>4 DEF UsersShape
  <2>3. UserMoves BY <1>0, <1>2, <1>4 DEF UsersShape, UserMoves
  <2> QED BY <1>0, <2>1, <2>2, <2>3 DEF UsersShape
<1>5. ASSUME ConfirmOwnHandle(f) PROVE UsersShape' /\ UserMoves /\ SessionsStand'
  <2> DEFINE to == [g EXCEPT !.at = "issue",
                             !.name = IF user[g.user] = NoUser THEN @ ELSE user[g.user].handle]
  <2>1. to \in SignedIn /\ to.session = g.session
    BY <1>1, <1>2 DEF SignedIn, AccountRow
  <2>2. signIn' = [signIn EXCEPT ![f] = to] BY <1>0, <1>5 DEF ConfirmOwnHandle, UsersShape
  <2>3. CASE user' = user BY <1>3, <2>1, <2>2, <2>3
  <2>4. CASE user[g.user] # NoUser /\ user' = [user EXCEPT ![g.user].chosen = TRUE]
    <3>1. user[g.user] \in AccountRow BY <1>2, <2>4
    <3> DEFINE row == [user[g.user] EXCEPT !.chosen = TRUE]
    <3>2. row \in AccountRow /\ row.gen = user[g.user].gen /\ row.gen \in Nat BY <3>1 DEF AccountRow
    <3>3. user' = [user EXCEPT ![g.user] = row] BY <2>4
    <3> HIDE DEF row, to
    <3>4. row.gen >= user[g.user].gen BY <3>2
    <3> QED BY <1>4, <2>1, <2>2, <2>4, <3>2, <3>3, <3>4
  <2> QED BY <1>5, <2>3, <2>4 DEF ConfirmOwnHandle, Holds
<1>6. ASSUME IssueGitHubOrgSyncGeneration(f) PROVE UsersShape' /\ UserMoves /\ SessionsStand'
  <2>1. CASE user' = user /\ signIn' = [signIn EXCEPT ![f].at = "finish"]
    <3> DEFINE to == [g EXCEPT !.at = "finish"]
    <3>1. to \in SignedIn /\ to.session = g.session BY <1>1 DEF SignedIn
    <3>2. signIn' = [signIn EXCEPT ![f] = to] BY <2>1
    <3> QED BY <1>3, <2>1, <3>1, <3>2
  <2>2. CASE /\ user[g.user] # NoUser
             /\ user' = [user EXCEPT ![g.user].gen = @ + 1]
             /\ signIn' = [signIn EXCEPT ![f].at = "fetch", ![f].issued = user[g.user].gen + 1]
    <3>1. user[g.user] \in AccountRow BY <1>2, <2>2
    <3> DEFINE row == [user[g.user] EXCEPT !.gen = @ + 1]
               to == [g EXCEPT !.at = "fetch", !.issued = user[g.user].gen + 1]
    <3>2. row \in AccountRow /\ row.gen = user[g.user].gen + 1 /\ user[g.user].gen \in Nat
      BY <3>1 DEF AccountRow
    <3>3. user' = [user EXCEPT ![g.user] = row] BY <2>2
    <3>4. to \in SignedIn /\ to.session = g.session
      <4>1. user[g.user].gen + 1 \in Nat BY <3>2
      <4> QED BY <1>1, <4>1 DEF SignedIn
    <3>5. signIn' = [signIn EXCEPT ![f] = to] BY <1>0, <2>2 DEF UsersShape
    <3> HIDE DEF row, to
    <3>6. row.gen >= user[g.user].gen BY <3>2
    <3> QED BY <1>4, <2>2, <3>2, <3>3, <3>4, <3>5, <3>6
  <2> QED BY <1>6, <2>1, <2>2 DEF IssueGitHubOrgSyncGeneration
<1>7. ASSUME fetchGitHubOrgSnapshot(f) \/ syncGitHubOrgSnapshot(f)
      PROVE  UsersShape' /\ UserMoves /\ SessionsStand'
  <2>1. user' = user BY <1>7 DEF fetchGitHubOrgSnapshot, syncGitHubOrgSnapshot
  <2>2. CASE signIn' = [signIn EXCEPT ![f].at = "finish"]
    <3> DEFINE to == [g EXCEPT !.at = "finish"]
    <3>1. to \in SignedIn /\ to.session = g.session BY <1>1 DEF SignedIn
    <3>2. signIn' = [signIn EXCEPT ![f] = to] BY <2>2
    <3> QED BY <1>3, <2>1, <3>1, <3>2
  <2>3. CASE signIn' = [signIn EXCEPT ![f].at = "install", ![f].snap = belongs[g.who]]
    <3> DEFINE to == [g EXCEPT !.at = "install", !.snap = belongs[g.who]]
    <3>1. to \in SignedIn /\ to.session = g.session BY <1>1, <1>2 DEF SignedIn
    <3>2. signIn' = [signIn EXCEPT ![f] = to] BY <1>0, <2>3 DEF UsersShape
    <3> QED BY <1>3, <2>1, <3>1, <3>2
  <2> QED BY <1>7, <2>2, <2>3 DEF fetchGitHubOrgSnapshot, syncGitHubOrgSnapshot
<1>8. ASSUME CreateToken(f) PROVE UsersShape' /\ UserMoves /\ SessionsStand'
  BY <1>3, <1>8 DEF CreateToken
<1> QED BY <1>5, <1>6, <1>7, <1>8


(* The command line: sessions appear and change, and never go. *)
LEMMA CommandLineMoves ==
    ASSUME AccountsInv,
           \/ \E s \in LoginSessions : CLILogin(s) \/ SessionExpires(s)
           \/ \E x \in Exchanges : CLIExchange(x) \/ CLIExchangeKey(x)
    PROVE  UsersShape' /\ UserMoves /\ SessionsStand'
<1> USE AbsentAssumption
<1>0. UsersShape /\ LoginsShape /\ SessionsStand /\ UNCHANGED <<user, nextUser, signIn, belongs>>
  BY DEF AccountsInv, CLILogin, SessionExpires, CLIExchange, CLIExchangeKey
<1>1. \A s \in LoginSessions : cli[s] # NoUser => cli'[s] # NoUser
  <2> SUFFICES ASSUME NEW s \in LoginSessions, cli[s] # NoUser PROVE cli'[s] # NoUser OBVIOUS
  <2>1. cli[s] \in CLISession BY <1>0 DEF LoginsShape
  <2>2. CASE \E t \in LoginSessions : CLILogin(t)
    <3>1. PICK t \in LoginSessions : CLILogin(t) BY <2>2
    <3>2. cli'[s] = cli[s] BY <1>0, <3>1 DEF CLILogin, LoginsShape
    <3> QED BY <3>2
  <2>3. CASE \E t \in LoginSessions : SessionExpires(t)
    <3>1. PICK t \in LoginSessions : cli' = [cli EXCEPT ![t].fresh = FALSE] BY <2>3 DEF SessionExpires
    <3>2. cli'[s] = cli[s] \/ cli'[s] = [cli[s] EXCEPT !.fresh = FALSE] BY <1>0, <3>1 DEF LoginsShape
    <3>3. [cli[s] EXCEPT !.fresh = FALSE] \in CLISession BY <2>1 DEF CLISession
    <3> QED BY <3>2, <3>3
  <2>4. CASE \E x \in Exchanges : CLIExchange(x)
    <3>1. PICK m \in sentCode : cli' = [cli EXCEPT ![m.session].exchanged = TRUE] BY <2>4 DEF CLIExchange
    <3>2. cli'[s] = cli[s] \/ cli'[s] = [cli[s] EXCEPT !.exchanged = TRUE] BY <1>0, <3>1 DEF LoginsShape
    <3>3. [cli[s] EXCEPT !.exchanged = TRUE] \in CLISession BY <2>1 DEF CLISession
    <3> QED BY <3>2, <3>3
  <2>5. CASE \E x \in Exchanges : CLIExchangeKey(x) BY <2>5 DEF CLIExchangeKey
  <2> QED BY <2>2, <2>3, <2>4, <2>5
<1>2. \A f \in SignIns : signIn[f] # Idle => signIn[f].session \in LoginSessions \union {NoUser}
  BY <1>0 DEF UsersShape, Upserting, SignedIn
<1>3. SessionsStand' BY <1>0, <1>1, <1>2 DEF SessionsStand
<1> QED BY <1>0, <1>3 DEF UsersShape, UserMoves

(* What the holder of an account does, and GitHub. *)
LEMMA HolderMoves ==
    ASSUME AccountsInv, HolderStep
    PROVE  UsersShape' /\ UserMoves /\ SessionsStand'
<1> USE AbsentAssumption
<1>0. /\ UsersShape /\ SessionsStand /\ UNCHANGED <<nextUser, signIn, cli>>
  BY DEF AccountsInv, HolderStep, CreateAPIKey, UpdateMySettings, DeleteAccount, RevokeAPIKey,
         SetMyUsername, SetOrgVisibility, JoinsOrLeavesOrg, cliVars
<1>1. SessionsStand' BY <1>0 DEF SessionsStand
<1>2. ASSUME NEW u \in UserIds, user[u] # NoUser, NEW row \in AccountRow, row.gen = user[u].gen,
             user' = [user EXCEPT ![u] = row], UNCHANGED belongs
      PROVE  UsersShape' /\ UserMoves
  <2>1. user[u].gen \in Nat BY <1>0, <1>2 DEF UsersShape, AccountRow
  <2>2. UsersShape' BY <1>0, <1>2 DEF UsersShape
  <2>3. UserMoves BY <1>0, <1>2, <2>1 DEF UsersShape, UserMoves
  <2> QED BY <2>2, <2>3
<1>3. ASSUME NEW u \in UserIds, UpdateMySettings(u) PROVE UsersShape' /\ UserMoves
  <2> DEFINE row == [user[u] EXCEPT !.listed = ~ @]
  <2>1. user[u] \in AccountRow BY <1>0, <1>3 DEF UsersShape, UpdateMySettings
  <2>2. row \in AccountRow /\ row.gen = user[u].gen
    <3>1. (~ user[u].listed) \in BOOLEAN OBVIOUS
    <3> QED BY <2>1, <3>1 DEF AccountRow
  <2>3. user[u] # NoUser /\ user' = [user EXCEPT ![u] = row] /\ UNCHANGED belongs
    BY <1>3 DEF UpdateMySettings
  <2> HIDE DEF row
  <2> QED BY <1>2, <2>2, <2>3
<1>4. ASSUME NEW u \in UserIds, NEW h \in Handles, SetMyUsername(u, h) PROVE UsersShape' /\ UserMoves
  <2> DEFINE row == [user[u] EXCEPT !.handle = h, !.chosen = TRUE]
  <2>1. user[u] \in AccountRow BY <1>0, <1>4 DEF UsersShape, SetMyUsername
  <2>2. row \in AccountRow /\ row.gen = user[u].gen BY <2>1 DEF AccountRow
  <2>3. user[u] # NoUser /\ user' = [user EXCEPT ![u] = row] /\ UNCHANGED belongs
    BY <1>0, <1>4 DEF SetMyUsername, UsersShape
  <2> HIDE DEF row
  <2> QED BY <1>2, <2>2, <2>3
<1>5. ASSUME NEW u \in UserIds, DeleteAccount(u) PROVE UsersShape' /\ UserMoves
  <2>1. user' = [user EXCEPT ![u] = NoUser] /\ UNCHANGED belongs BY <1>5 DEF DeleteAccount
  <2>2. \A v \in UserIds : user'[v] = user[v] \/ DeleteAccount(v) BY <1>0, <1>5, <2>1 DEF UsersShape
  <2> QED BY <1>0, <2>1, <2>2 DEF UsersShape, UserMoves
<1>6. ASSUME NEW i \in AtGitHub, NEW o \in Orgs, JoinsOrLeavesOrg(i, o) PROVE UsersShape' /\ UserMoves
  <2>1. i \in Identities BY AccountsAssumption
  <2>2. UNCHANGED user /\ belongs' \in [Identities -> SUBSET Orgs]
    BY <1>0, <1>6, <2>1 DEF JoinsOrLeavesOrg, UsersShape
  <2> QED BY <1>0, <2>2 DEF UsersShape, UserMoves
<1>7. ASSUME UNCHANGED <<user, belongs>> PROVE UsersShape' /\ UserMoves
  BY <1>0, <1>7 DEF UsersShape, UserMoves
<1>8. ASSUME NEW u \in UserIds, CreateAPIKey(u) PROVE UNCHANGED <<user, belongs>>
  BY <1>8 DEF CreateAPIKey
<1>9. ASSUME NEW u \in UserIds, NEW k \in KeyIds, RevokeAPIKey(u, k) PROVE UNCHANGED <<user, belongs>>
  BY <1>9 DEF RevokeAPIKey
<1>10. ASSUME NEW u \in UserIds, NEW o \in Orgs, NEW shown \in BOOLEAN, SetOrgVisibility(u, o, shown)
       PROVE  UNCHANGED <<user, belongs>>
  BY <1>10 DEF SetOrgVisibility
<1>11. UsersShape' /\ UserMoves
  BY <1>3, <1>4, <1>5, <1>6, <1>7, <1>8, <1>9, <1>10 DEF HolderStep
<1> QED BY <1>1, <1>11

(* The end of a command line's sign-in: a fresh code for its session. *)
LEMMA CallbackRow ==
    ASSUME AccountsInv, NEW f \in SignIns, handleCLICallback(f)
    PROVE  /\ signIn[f] \in SignedIn /\ signIn[f].session \in LoginSessions
           /\ signIn[f].user \in UserIds
           /\ cli[signIn[f].session] \in CLISession
           /\ cli' = [cli EXCEPT ![signIn[f].session] = cli'[signIn[f].session]]
           /\ cli'[signIn[f].session] \in CLISession
           /\ cli'[signIn[f].session].code = nextCode /\ cli'[signIn[f].session].user = signIn[f].user
           /\ cli'[signIn[f].session].exchanged = cli[signIn[f].session].exchanged
<1> USE AbsentAssumption
<1> DEFINE g == signIn[f]
           row == [cli[g.session] EXCEPT !.code = nextCode, !.user = g.user]
<1>0. UsersShape /\ LoginsShape /\ SessionsStand BY DEF AccountsInv
<1>1. g \in SignedIn BY <1>0, SignedInAt DEF handleCLICallback
<1>2. g.session \in LoginSessions /\ g.user \in UserIds /\ g # Idle
  BY <1>1 DEF SignedIn, handleCLICallback, Idle
<1>3. cli[g.session] \in CLISession BY <1>0, <1>2 DEF SessionsStand, LoginsShape
<1>4. row \in CLISession /\ row.code = nextCode /\ row.user = g.user
      /\ row.exchanged = cli[g.session].exchanged
  BY <1>0, <1>2, <1>3 DEF CLISession, LoginsShape
<1>5. cli' = [cli EXCEPT ![g.session] = row] BY <1>0 DEF handleCLICallback, LoginsShape
<1> HIDE DEF row
<1>6. cli'[g.session] = row BY <1>0, <1>2, <1>5 DEF LoginsShape
<1> QED BY <1>1, <1>2, <1>3, <1>4, <1>5, <1>6

(* That sign-in ends and the accounts stay. *)
LEMMA CallbackUsers ==
    ASSUME AccountsInv, NEW f \in SignIns, handleCLICallback(f)
    PROVE  UsersShape' /\ UserMoves /\ SessionsStand'
<1> USE AbsentAssumption
<1>0. UsersShape /\ LoginsShape /\ UNCHANGED <<user, nextUser, belongs>>
  BY DEF AccountsInv, handleCLICallback
<1>1. signIn' = [signIn EXCEPT ![f] = Idle] BY DEF handleCLICallback
<1>2. \A s \in LoginSessions : cli[s] # NoUser => cli'[s] # NoUser
  BY <1>0, CallbackRow DEF LoginsShape
<1>3. signIn' \in [SignIns -> {Idle} \union Upserting \union SignedIn] /\ SessionsStand'
  BY <1>1, <1>2, CallbackRow, PlaceMoves
<1> QED BY <1>0, <1>3 DEF UsersShape, UserMoves


(* Every step, on the accounts and the sign-ins. *)
LEMMA UsersStep ==
    ASSUME AccountsInv, AccountsNext
    PROVE  UsersShape' /\ UserMoves /\ SessionsStand'
<1>1. CASE SignInStep
  BY <1>1, CallbackMoves, UpsertMoves, SignInMoves, CallbackUsers DEF SignInStep
<1>2. CASE CommandLineStep BY <1>2, CommandLineMoves DEF CommandLineStep
<1>3. CASE HolderStep BY <1>3, HolderMoves
<1> QED BY <1>1, <1>2, <1>3 DEF AccountsNext

(* What a step may do to the record of organizations: install the answer of the
   sync an account issued last, change what its holder shows, or forget it. *)
OrgMoves ==
    /\ OrgsShape' /\ ShownPublished'
    /\ \A u \in UserIds :
        \/ orgGen'[u] = orgGen[u]
        \/ user[u] # NoUser /\ user'[u] = user[u] /\ orgGen'[u] = user[u].gen

(* Every step, on the record of organizations. *)
LEMMA OrgStep ==
    ASSUME AccountsInv, AccountsNext
    PROVE  OrgMoves
<1> USE AbsentAssumption
<1>0. UsersShape /\ OrgsShape /\ ShownPublished BY DEF AccountsInv
<1>1. CASE UNCHANGED orgVars BY <1>0, <1>1 DEF orgVars, OrgsShape, ShownPublished, OrgMoves
<1>2. ASSUME NEW f \in SignIns, syncGitHubOrgSnapshot(f), ~ UNCHANGED orgVars PROVE OrgMoves
  <2> DEFINE u == signIn[f].user
             snap == signIn[f].snap
  <2>1. signIn[f] \in SignedIn BY <1>0, <1>2, SignedInAt DEF syncGitHubOrgSnapshot
  <2>2. u \in UserIds /\ snap \subseteq Orgs /\ signIn[f].issued \in Nat BY <2>1 DEF SignedIn
  <2>3. /\ user[u] # NoUser /\ user[u].gen = signIn[f].issued /\ user' = user
        /\ orgRow' = [orgRow EXCEPT ![u] = Snapshot(@, snap)]
        /\ orgGen' = [orgGen EXCEPT ![u] = signIn[f].issued]
        /\ published' = [published EXCEPT ![u] = @ \intersect snap]
    BY <1>2 DEF syncGitHubOrgSnapshot, MayInstall
  <2> HIDE DEF u, snap
  <2>4. Snapshot(orgRow[u], snap) \in [Orgs -> {"none", "hidden", "shown"}]
    BY <1>0, <2>2 DEF Snapshot, OrgsShape
  <2>5. OrgsShape' BY <1>0, <2>2, <2>3, <2>4 DEF OrgsShape
  <2>6. \A o \in Orgs : Snapshot(orgRow[u], snap)[o] = "shown" => o \in snap /\ orgRow[u][o] = "shown"
    BY DEF Snapshot
  <2>7. /\ orgRow'[u] = Snapshot(orgRow[u], snap) /\ published'[u] = published[u] \intersect snap
        /\ \A v \in UserIds : v # u => orgRow'[v] = orgRow[v] /\ published'[v] = published[v]
    BY <1>0, <2>2, <2>3 DEF OrgsShape
  <2>8. ShownPublished' BY <1>0, <2>2, <2>6, <2>7 DEF ShownPublished
  <2>9. \A v \in UserIds : orgGen'[v] = orgGen[v]
                           \/ (user[v] # NoUser /\ user'[v] = user[v] /\ orgGen'[v] = user[v].gen)
    BY <1>0, <2>2, <2>3 DEF OrgsShape
  <2> QED BY <2>5, <2>8, <2>9 DEF OrgMoves
<1>3. ASSUME NEW u \in UserIds, NEW o \in Orgs, NEW shown \in BOOLEAN, SetOrgVisibility(u, o, shown)
      PROVE  OrgMoves
  <2>1. orgGen' = orgGen BY <1>3 DEF SetOrgVisibility
  <2>2. PICK now \in {"none", "hidden", "shown"} :
          /\ orgRow' = [orgRow EXCEPT ![u][o] = now]
          /\ now = "shown" => shown /\ orgRow[u][o] # "none"
    BY <1>0, <1>3 DEF SetOrgVisibility, OrgsShape
  <2>3. PICK S \in SUBSET Orgs :
          /\ published' = [published EXCEPT ![u] = S]
          /\ shown /\ orgRow[u][o] # "none" => o \in S
          /\ \A p \in Orgs : p # o => (p \in S <=> p \in published[u])
    <3>1. CASE shown /\ orgRow[u][o] # "none"
      <4>1. published' = [published EXCEPT ![u] = @ \union {o}] BY <1>3, <3>1 DEF SetOrgVisibility
      <4>2. (published[u] \union {o}) \in SUBSET Orgs BY <1>0 DEF OrgsShape
      <4> QED BY <3>1, <4>1, <4>2
    <3>2. CASE ~ (shown /\ orgRow[u][o] # "none")
      <4>1. published' = [published EXCEPT ![u] = @ \ {o}] BY <1>3, <3>2 DEF SetOrgVisibility
      <4>2. (published[u] \ {o}) \in SUBSET Orgs BY <1>0 DEF OrgsShape
      <4> QED BY <3>2, <4>1, <4>2
    <3> QED BY <3>1, <3>2
  <2>4. OrgsShape' BY <1>0, <2>1, <2>2, <2>3 DEF OrgsShape
  <2>5. ASSUME NEW v \in UserIds, NEW p \in Orgs, orgRow'[v][p] = "shown" PROVE p \in published'[v]
    <3>1. CASE v # u
      <4>1. orgRow'[v] = orgRow[v] /\ published'[v] = published[v] BY <1>0, <2>2, <2>3, <3>1 DEF OrgsShape
      <4> QED BY <1>0, <2>5, <4>1 DEF ShownPublished
    <3>2. CASE v = u /\ p # o
      <4>1. orgRow'[v][p] = orgRow[v][p] /\ published'[v] = S BY <1>0, <2>2, <2>3, <3>2 DEF OrgsShape
      <4> QED BY <1>0, <2>3, <2>5, <3>2, <4>1 DEF ShownPublished
    <3>3. CASE v = u /\ p = o
      <4>1. orgRow'[v][p] = now /\ published'[v] = S BY <1>0, <2>2, <2>3, <3>3 DEF OrgsShape
      <4> QED BY <2>2, <2>3, <2>5, <3>3, <4>1
    <3> QED BY <3>1, <3>2, <3>3
  <2> QED BY <2>1, <2>4, <2>5 DEF OrgMoves, ShownPublished
<1>4. ASSUME NEW u \in UserIds, DeleteAccount(u) PROVE OrgMoves
  <2>1. /\ orgRow' = [orgRow EXCEPT ![u] = [o \in Orgs |-> "none"]]
        /\ published' = [published EXCEPT ![u] = {}] /\ orgGen' = orgGen
    BY <1>4 DEF DeleteAccount
  <2>2. OrgsShape' BY <1>0, <2>1 DEF OrgsShape
  <2>3. ShownPublished' BY <1>0, <2>1 DEF OrgsShape, ShownPublished
  <2> QED BY <2>1, <2>2, <2>3 DEF OrgMoves
<1>5. CASE SignInStep
  <2>1. UNCHANGED orgVars \/ \E f \in SignIns : syncGitHubOrgSnapshot(f)
    BY <1>5 DEF SignInStep, GitHubCallback, providerCallback, UpsertUser, ConfirmOwnHandle,
       IssueGitHubOrgSyncGeneration, fetchGitHubOrgSnapshot, CreateToken, handleCLICallback
  <2> QED BY <1>1, <1>2, <2>1
<1>6. CASE CommandLineStep
  BY <1>1, <1>6 DEF CommandLineStep, CLILogin, SessionExpires, CLIExchange, CLIExchangeKey
<1>7. CASE HolderStep
  <2>1. ASSUME NEW u \in UserIds, CreateAPIKey(u) \/ UpdateMySettings(u) PROVE UNCHANGED orgVars
    BY <2>1 DEF CreateAPIKey, UpdateMySettings
  <2>2. ASSUME NEW u \in UserIds, NEW k \in KeyIds, RevokeAPIKey(u, k) PROVE UNCHANGED orgVars
    BY <2>2 DEF RevokeAPIKey
  <2>3. ASSUME NEW u \in UserIds, NEW h \in Handles, SetMyUsername(u, h) PROVE UNCHANGED orgVars
    BY <2>3 DEF SetMyUsername
  <2>4. ASSUME NEW i \in AtGitHub, NEW o \in Orgs, JoinsOrLeavesOrg(i, o) PROVE UNCHANGED orgVars
    BY <2>4 DEF JoinsOrLeavesOrg
  <2> QED BY <1>1, <1>3, <1>4, <1>7, <2>1, <2>2, <2>3, <2>4 DEF HolderStep
<1> QED BY <1>5, <1>6, <1>7 DEF AccountsNext

(* So the record only moves to a later sync. *)
LEMMA SyncStep ==
    ASSUME AccountsInv, UsersShape', UserMoves, OrgMoves
    PROVE  SyncsIssued' /\ \A u \in UserIds : orgGen'[u] >= orgGen[u]
<1> USE AbsentAssumption
<1>0. UsersShape /\ OrgsShape /\ SyncsIssued BY DEF AccountsInv
<1> SUFFICES ASSUME NEW u \in UserIds
             PROVE  /\ user'[u] # NoUser => u < nextUser' /\ orgGen'[u] <= user'[u].gen
                    /\ u >= nextUser' => orgGen'[u] = 0
                    /\ orgGen'[u] >= orgGen[u]
  BY DEF SyncsIssued
<1>1. /\ u \in Nat /\ nextUser \in Nat /\ nextUser' \in Nat /\ nextUser' >= nextUser
      /\ orgGen[u] \in Nat /\ orgGen'[u] \in Nat
      /\ user[u] # NoUser => user[u].gen \in Nat /\ u < nextUser /\ orgGen[u] <= user[u].gen
      /\ u >= nextUser => orgGen[u] = 0
  BY <1>0 DEF UsersShape, OrgsShape, SyncsIssued, UserMoves, OrgMoves, AccountRow, UserIds
<1>2. user'[u] # NoUser => user'[u].gen \in Nat BY DEF UsersShape, AccountRow
<1>3. CASE orgGen'[u] = orgGen[u]
  <2>1. ASSUME user'[u] # NoUser PROVE u < nextUser' /\ orgGen'[u] <= user'[u].gen
    <3>1. CASE user'[u] = user[u] BY <1>1, <1>3, <2>1, <3>1
    <3>2. CASE user'[u] # NoUser /\ user[u] # NoUser /\ user'[u].gen >= user[u].gen
      BY <1>1, <1>2, <1>3, <2>1, <3>2
    <3>3. CASE u = nextUser /\ nextUser' = nextUser + 1 /\ user'[u].gen = 0
      BY <1>1, <1>3, <3>3
    <3>4. CASE DeleteAccount(u) BY <1>0, <2>1, <3>4 DEF DeleteAccount, UsersShape
    <3> QED BY <3>1, <3>2, <3>3, <3>4 DEF UserMoves
  <2> QED BY <1>1, <1>3, <2>1
<1>4. CASE user[u] # NoUser /\ user'[u] = user[u] /\ orgGen'[u] = user[u].gen
  BY <1>1, <1>4
<1> QED BY <1>3, <1>4 DEF OrgMoves


LoginsInv == LoginsShape /\ CodesSent /\ ExchangesUsed /\ KeysUsed

(* What is used and was sent stays so. *)
SessionsMove ==
    /\ \A s \in LoginSessions : Used(s) => Used(s)'
    /\ sentCode \subseteq sentCode'

(* Steps that leave exchanges and keys alone, and take no account away. *)
LEMMA SessionsKeep ==
    ASSUME AccountsInv, LoginsShape', CodesSent', SessionsMove, UNCHANGED <<exchange, key>>,
           \A u \in UserIds : user[u] # NoUser => user'[u] # NoUser
    PROVE  LoginsInv'
<1> USE AbsentAssumption
<1>0. LoginsShape /\ ExchangesUsed /\ KeysUsed BY DEF AccountsInv
<1>1. \A x \in Exchanges : exchange[x] # NoUser => exchange[x].session \in LoginSessions
  BY <1>0 DEF LoginsShape, Exchange
<1>2. \A k \in KeyIds : key[k] # NoUser =>
        key[k].user \in UserIds /\ (key[k].session # NoUser => key[k].session \in LoginSessions)
  BY <1>0 DEF LoginsShape, APIKey
<1>3. ExchangesUsed'
  <2> SUFFICES ASSUME NEW x \in Exchanges, exchange'[x] # NoUser
               PROVE  /\ Used(exchange[x].session)' /\ SentAs(exchange[x])'
                      /\ \A y \in Exchanges : exchange[y] # NoUser
                            /\ exchange[y].session = exchange[x].session => y = x
                      /\ \A k \in KeyIds : key[k] # NoUser => key[k].session # exchange[x].session
    BY DEF ExchangesUsed
  <2>1. Used(exchange[x].session)' BY <1>0, <1>1 DEF ExchangesUsed, SessionsMove, Used
  <2>2. SentAs(exchange[x])' BY <1>0 DEF ExchangesUsed, SessionsMove, SentAs
  <2> QED BY <1>0, <2>1, <2>2 DEF ExchangesUsed
<1>4. KeysUsed'
  <2> SUFFICES ASSUME NEW k \in KeyIds, key'[k] # NoUser
               PROVE  /\ user'[key[k].user] # NoUser
                      /\ key[k].session # NoUser =>
                            /\ Used(key[k].session)' /\ SentAs(key[k])'
                            /\ \A l \in KeyIds : key[l] # NoUser /\ key[l].session = key[k].session => l = k
    BY DEF KeysUsed
  <2>1. key[k].session # NoUser => Used(key[k].session)' BY <1>0, <1>2 DEF KeysUsed, SessionsMove, Used
  <2>2. key[k].session # NoUser => SentAs(key[k])' BY <1>0 DEF KeysUsed, SessionsMove, SentAs
  <2> QED BY <1>0, <1>2, <2>1, <2>2 DEF KeysUsed
<1> QED BY <1>3, <1>4 DEF LoginsInv

(* A session begins, or its five minutes pass. *)
LEMMA SessionKeeps ==
    ASSUME AccountsInv, NEW s \in LoginSessions, CLILogin(s) \/ SessionExpires(s)
    PROVE  LoginsInv'
<1> USE AbsentAssumption
<1>0. LoginsShape /\ CodesSent /\ UNCHANGED <<user, nextCode, sentCode, exchange, key, nextKey>>
  BY DEF AccountsInv, CLILogin, SessionExpires
<1>1. PICK row \in CLISession :
        /\ cli' = [cli EXCEPT ![s] = row]
        /\ \/ cli[s] = NoUser /\ row.code = NoUser
           \/ /\ cli[s] # NoUser /\ row.code = cli[s].code /\ row.user = cli[s].user
              /\ row.exchanged = cli[s].exchanged
  <2>1. CASE CLILogin(s)
    <3> DEFINE r == [code |-> NoUser, user |-> NoUser, exchanged |-> FALSE, fresh |-> TRUE]
    <3>1. r \in CLISession /\ r.code = NoUser BY DEF CLISession
    <3> QED BY <2>1, <3>1 DEF CLILogin
  <2>2. CASE SessionExpires(s)
    <3> DEFINE r == [cli[s] EXCEPT !.fresh = FALSE]
    <3>1. cli[s] \in CLISession /\ cli[s] # NoUser BY <1>0, <2>2 DEF LoginsShape, SessionExpires
    <3>2. /\ r \in CLISession /\ r.code = cli[s].code /\ r.user = cli[s].user
          /\ r.exchanged = cli[s].exchanged
      BY <3>1 DEF CLISession
    <3>3. cli' = [cli EXCEPT ![s] = r] BY <2>2 DEF SessionExpires
    <3> QED BY <3>1, <3>2, <3>3
  <2> QED BY <2>1, <2>2
<1>2. row # NoUser BY <1>1
<1>3. cli'[s] = row /\ \A t \in LoginSessions : t # s => cli'[t] = cli[t] BY <1>0, <1>1 DEF LoginsShape
<1>4. LoginsShape' BY <1>0, <1>1 DEF LoginsShape
<1>5. CodesSent'
  <2> SUFFICES ASSUME NEW m \in sentCode
               PROVE  /\ m.code < nextCode
                      /\ cli'[m.session] # NoUser /\ cli'[m.session].code = m.code
                            => m.user = cli'[m.session].user
    BY <1>0 DEF CodesSent
  <2>1. m.code \in Nat /\ m.session \in LoginSessions BY <1>0 DEF LoginsShape
  <2> QED BY <1>0, <1>1, <1>3, <2>1 DEF CodesSent
<1>6. SessionsMove BY <1>0, <1>1, <1>2, <1>3 DEF SessionsMove, Used
<1> QED BY <1>0, <1>4, <1>5, <1>6, SessionsKeep

(* The callback gives its session a code that nobody was sent before. *)
LEMMA CallbackKeeps ==
    ASSUME AccountsInv, NEW f \in SignIns, handleCLICallback(f)
    PROVE  LoginsInv'
<1> USE AbsentAssumption
<1> DEFINE s == signIn[f].session
           m == [code |-> nextCode, session |-> s, user |-> signIn[f].user]
<1>0. LoginsShape /\ CodesSent /\ UNCHANGED <<user, exchange, key, nextKey>> /\ nextCode' = nextCode + 1
      /\ sentCode' = sentCode \union {m}
  BY DEF AccountsInv, handleCLICallback
<1>1. /\ s \in LoginSessions /\ signIn[f].user \in UserIds /\ cli[s] \in CLISession
      /\ cli' = [cli EXCEPT ![s] = cli'[s]] /\ cli'[s] \in CLISession
      /\ cli'[s].code = nextCode /\ cli'[s].user = signIn[f].user /\ cli'[s].exchanged = cli[s].exchanged
  BY CallbackRow
<1>2. m \in [code : Nat, session : LoginSessions, user : UserIds]
      /\ m.code = nextCode /\ m.session = s /\ m.user = signIn[f].user
  BY <1>0, <1>1 DEF LoginsShape
<1> HIDE DEF s, m
<1>3. LoginsShape' BY <1>0, <1>1, <1>2 DEF LoginsShape
<1>4. \A t \in LoginSessions : t # s => cli'[t] = cli[t] BY <1>0, <1>1 DEF LoginsShape
<1>5. CodesSent'
  <2> SUFFICES ASSUME NEW n \in sentCode'
               PROVE  /\ n.code < nextCode'
                      /\ cli'[n.session] # NoUser /\ cli'[n.session].code = n.code
                            => n.user = cli'[n.session].user
    BY DEF CodesSent
  <2>1. nextCode \in Nat BY <1>0 DEF LoginsShape
  <2>2. CASE n = m BY <1>0, <1>1, <1>2, <2>1, <2>2
  <2>3. CASE n \in sentCode
    <3>1. n.code \in Nat /\ n.session \in LoginSessions BY <1>0, <2>3 DEF LoginsShape
    <3>2. n.code < nextCode BY <1>0, <2>3 DEF CodesSent
    <3> QED BY <1>0, <1>1, <1>4, <2>1, <2>3, <3>1, <3>2 DEF CodesSent
  <2> QED BY <1>0, <2>2, <2>3
<1>6. SessionsMove BY <1>0, <1>1, <1>4 DEF SessionsMove, Used
<1> QED BY <1>0, <1>3, <1>5, <1>6, SessionsKeep


(* A code is exchanged: its session was unused, so nothing came of it before. *)
LEMMA ExchangeKeeps ==
    ASSUME AccountsInv, NEW x \in Exchanges, CLIExchange(x)
    PROVE  LoginsInv'
<1> USE AbsentAssumption
<1>0. LoginsShape /\ CodesSent /\ ExchangesUsed /\ KeysUsed
      /\ UNCHANGED <<user, nextCode, sentCode, key, nextKey>>
  BY DEF AccountsInv, CLIExchange
<1>1. PICK m \in sentCode :
        /\ ExchangeCLISession(m.session, m.code)
        /\ cli' = [cli EXCEPT ![m.session].exchanged = TRUE]
        /\ exchange' = [exchange EXCEPT ![x] = [session |-> m.session, code |-> m.code,
                                                user |-> cli[m.session].user]]
  BY DEF CLIExchange
<1> DEFINE s == m.session
           row == [cli[s] EXCEPT !.exchanged = TRUE]
           e == [session |-> s, code |-> m.code, user |-> cli[s].user]
<1>2. /\ s \in LoginSessions /\ m.code \in Nat /\ m.user \in UserIds
      /\ cli[s] \in CLISession /\ cli[s] # NoUser /\ cli[s].code = m.code /\ ~ cli[s].exchanged
  BY <1>0, <1>1 DEF LoginsShape, ExchangeCLISession
<1>3. cli[s].user = m.user BY <1>0, <1>2 DEF CodesSent
<1>4. /\ row \in CLISession /\ row.code = cli[s].code /\ row.user = cli[s].user
      /\ row.exchanged = TRUE
  BY <1>2 DEF CLISession
<1>5. e \in Exchange /\ e.session = s /\ e.code = m.code /\ e.user = m.user
  BY <1>2, <1>3 DEF Exchange
<1>6. cli' = [cli EXCEPT ![s] = row] /\ exchange' = [exchange EXCEPT ![x] = e] BY <1>1
<1> HIDE DEF s, row, e
<1>7. /\ cli'[s] = row /\ \A t \in LoginSessions : t # s => cli'[t] = cli[t]
      /\ exchange'[x] = e /\ \A y \in Exchanges : y # x => exchange'[y] = exchange[y]
  BY <1>0, <1>2, <1>6 DEF LoginsShape
<1>8. LoginsShape' BY <1>0, <1>4, <1>5, <1>6 DEF LoginsShape
<1>9. CodesSent'
  <2> SUFFICES ASSUME NEW n \in sentCode
               PROVE  /\ n.code < nextCode
                      /\ cli'[n.session] # NoUser /\ cli'[n.session].code = n.code
                            => n.user = cli'[n.session].user
    BY <1>0 DEF CodesSent
  <2>1. n.session \in LoginSessions BY <1>0 DEF LoginsShape
  <2> QED BY <1>0, <1>2, <1>4, <1>7, <2>1 DEF CodesSent
<1>10. \A t \in LoginSessions : Used(t) => Used(t)' BY <1>2, <1>4, <1>7 DEF Used
<1>11. ~ Used(s) /\ Used(s)' BY <1>2, <1>4, <1>7 DEF Used
<1>12. \A y \in Exchanges : exchange[y] # NoUser =>
         exchange[y].session \in LoginSessions /\ exchange[y].session # s /\ Used(exchange[y].session)
  BY <1>0, <1>11 DEF LoginsShape, Exchange, ExchangesUsed
<1>13. \A k \in KeyIds : key[k] # NoUser =>
         key[k].session # s /\ (key[k].session # NoUser => key[k].session \in LoginSessions)
  BY <1>0, <1>2, <1>11 DEF LoginsShape, APIKey, KeysUsed
<1>14. SentAs(e) BY <1>5 DEF SentAs, s
<1>15. \A r : SentAs(r) => \E n \in sentCode' : n.code = r.code /\ n.session = r.session /\ n.user = r.user
  BY <1>0 DEF SentAs
<1>16. ExchangesUsed'
  <2> SUFFICES ASSUME NEW y \in Exchanges, exchange'[y] # NoUser
               PROVE  /\ Used(exchange[y].session)' /\ SentAs(exchange[y])'
                      /\ \A z \in Exchanges : exchange'[z] # NoUser
                            /\ exchange'[z].session = exchange'[y].session => z = y
                      /\ \A k \in KeyIds : key[k] # NoUser => key[k].session # exchange'[y].session
    BY <1>0 DEF ExchangesUsed
  <2>1. CASE y = x
    <3>1. exchange'[y] = e /\ e.session = s BY <1>5, <1>7, <2>1
    <3>2. Used(exchange[y].session)' BY <1>11, <3>1 DEF Used
    <3>3. SentAs(exchange[y])' BY <1>14, <1>15, <3>1 DEF SentAs
    <3>4. \A z \in Exchanges : z # x /\ exchange'[z] # NoUser => exchange'[z].session # s
      BY <1>7, <1>12
    <3> QED BY <1>13, <2>1, <3>1, <3>2, <3>3, <3>4
  <2>2. CASE y # x
    <3>1. exchange'[y] = exchange[y] BY <1>7, <2>2
    <3>2. Used(exchange[y].session)' BY <1>10, <1>12, <3>1 DEF Used
    <3>3. SentAs(exchange[y])' BY <1>0, <1>15, <3>1 DEF SentAs, ExchangesUsed
    <3>4. \A z \in Exchanges : exchange'[z] # NoUser /\ exchange'[z].session = exchange'[y].session => z = y
      BY <1>0, <1>5, <1>7, <1>12, <3>1 DEF ExchangesUsed
    <3> QED BY <1>0, <3>1, <3>2, <3>3, <3>4 DEF ExchangesUsed
  <2> QED BY <2>1, <2>2
<1>17. KeysUsed'
  <2> SUFFICES ASSUME NEW k \in KeyIds, key[k] # NoUser
               PROVE  /\ user[key[k].user] # NoUser
                      /\ key[k].session # NoUser =>
                            /\ Used(key[k].session)' /\ SentAs(key[k])'
                            /\ \A l \in KeyIds : key[l] # NoUser /\ key[l].session = key[k].session => l = k
    BY <1>0 DEF KeysUsed
  <2>1. key[k].session # NoUser => Used(key[k].session)' BY <1>0, <1>10, <1>13 DEF KeysUsed, Used
  <2>2. key[k].session # NoUser => SentAs(key[k])' BY <1>0, <1>15 DEF KeysUsed, SentAs
  <2> QED BY <1>0, <2>1, <2>2 DEF KeysUsed
<1> QED BY <1>8, <1>9, <1>16, <1>17 DEF LoginsInv

(* Steps that leave the sessions alone and make at most one key: for no session,
   or for the one whose exchange ends. *)
LEMMA KeyMade ==
    ASSUME AccountsInv, UNCHANGED <<user, cli, nextCode, sentCode>>,
           exchange' \in [Exchanges -> Exchange \union {NoUser}],
           \A y \in Exchanges : exchange'[y] \in {exchange[y], NoUser},
           NEW u \in UserIds, NEW s \in LoginSessions \union {NoUser}, NEW c \in Nat \union {NoUser},
           InsertKey(u, s, c) \/ UNCHANGED <<key, nextKey>>,
           s # NoUser => \E x \in Exchanges : /\ exchange[x] # NoUser /\ exchange'[x] = NoUser
                                              /\ exchange[x].session = s /\ exchange[x].code = c
                                              /\ exchange[x].user = u
    PROVE  LoginsInv'
<1> USE AbsentAssumption
<1>0. LoginsShape /\ CodesSent /\ ExchangesUsed /\ KeysUsed BY DEF AccountsInv
<1>1. CodesSent' BY <1>0 DEF CodesSent
<1>2. \A t : Used(t) => cli'[t] # NoUser /\ cli'[t].exchanged BY DEF Used
<1>3. \A r : SentAs(r) => \E n \in sentCode' : n.code = r.code /\ n.session = r.session /\ n.user = r.user
  BY DEF SentAs
<1> DEFINE r == [user |-> u, session |-> s, code |-> c, revoked |-> FALSE]
<1>4. r \in APIKey /\ r.user = u /\ r.session = s /\ r.code = c BY DEF APIKey
<1> HIDE DEF r
<1>5. \/ key' = key /\ nextKey' = nextKey
      \/ /\ user[u] # NoUser /\ nextKey \in KeyIds /\ nextKey' = nextKey + 1
         /\ key' = [key EXCEPT ![nextKey] = r]
  BY DEF InsertKey, r
<1>6. key' \in [KeyIds -> APIKey \union {NoUser}] /\ nextKey' \in Nat
  BY <1>0, <1>4, <1>5 DEF LoginsShape
<1>7. LoginsShape' BY <1>0, <1>6 DEF LoginsShape
<1>8. \A k \in KeyIds : key'[k] = key[k] \/ (key'[k] = r /\ k = nextKey /\ user[u] # NoUser)
  BY <1>0, <1>5 DEF LoginsShape
<1>9. s # NoUser => /\ Used(s) /\ SentAs(r)
                    /\ \A k \in KeyIds : key[k] # NoUser => key[k].session # s
                    /\ \A y \in Exchanges : exchange'[y] # NoUser => exchange'[y].session # s
  <2> SUFFICES ASSUME NEW x \in Exchanges, exchange[x] # NoUser, exchange'[x] = NoUser,
                      exchange[x].session = s, exchange[x].code = c, exchange[x].user = u
               PROVE  /\ Used(s) /\ SentAs(r)
                      /\ \A k \in KeyIds : key[k] # NoUser => key[k].session # s
                      /\ \A y \in Exchanges : exchange'[y] # NoUser => exchange'[y].session # s
    OBVIOUS
  <2>1. SentAs(r) BY <1>0, <1>4 DEF ExchangesUsed, SentAs
  <2> QED BY <1>0, <2>1 DEF ExchangesUsed
<1>10. ExchangesUsed'
  <2> SUFFICES ASSUME NEW y \in Exchanges, exchange'[y] # NoUser
               PROVE  /\ Used(exchange[y].session)' /\ SentAs(exchange[y])'
                      /\ \A z \in Exchanges : exchange'[z] # NoUser
                            /\ exchange'[z].session = exchange'[y].session => z = y
                      /\ \A k \in KeyIds : key'[k] # NoUser => key'[k].session # exchange'[y].session
    BY DEF ExchangesUsed
  <2>1. exchange'[y] = exchange[y] /\ exchange[y].session \in LoginSessions
    BY <1>0 DEF LoginsShape, Exchange
  <2>2. Used(exchange[y].session)' BY <1>0, <1>2, <2>1 DEF ExchangesUsed, Used
  <2>3. SentAs(exchange[y])' BY <1>0, <1>3, <2>1 DEF ExchangesUsed, SentAs
  <2>4. \A z \in Exchanges : exchange'[z] # NoUser /\ exchange'[z].session = exchange'[y].session => z = y
    BY <1>0, <2>1 DEF ExchangesUsed
  <2>5. ASSUME NEW k \in KeyIds, key'[k] # NoUser PROVE key'[k].session # exchange'[y].session
    <3>1. CASE key'[k] = key[k] BY <1>0, <2>1, <2>5, <3>1 DEF ExchangesUsed
    <3>2. CASE key'[k] = r BY <1>4, <1>9, <2>1, <3>2
    <3> QED BY <1>8, <3>1, <3>2
  <2> QED BY <2>2, <2>3, <2>4, <2>5
<1>11. KeysUsed'
  <2> SUFFICES ASSUME NEW k \in KeyIds, key'[k] # NoUser
               PROVE  /\ user[key'[k].user] # NoUser
                      /\ key'[k].session # NoUser =>
                            /\ Used(key[k].session)' /\ SentAs(key[k])'
                            /\ \A l \in KeyIds : key'[l] # NoUser /\ key'[l].session = key'[k].session => l = k
    BY DEF KeysUsed
  <2>1. CASE key'[k] = r /\ k = nextKey /\ user[u] # NoUser
    <3>1. ASSUME s # NoUser PROVE Used(key[k].session)' /\ SentAs(key[k])'
      BY <1>2, <1>3, <1>4, <1>9, <2>1, <3>1 DEF Used, SentAs
    <3>2. ASSUME s # NoUser, NEW l \in KeyIds, key'[l] # NoUser, key'[l].session = s PROVE l = k
      BY <1>8, <1>9, <2>1, <3>2
    <3> QED BY <1>4, <2>1, <3>1, <3>2
  <2>2. CASE key'[k] = key[k]
    <3>1. user[key[k].user] # NoUser BY <1>0, <2>2 DEF KeysUsed
    <3>2. ASSUME key[k].session # NoUser PROVE Used(key[k].session)' /\ SentAs(key[k])'
      BY <1>0, <1>2, <1>3, <2>2, <3>2 DEF Used, SentAs, KeysUsed
    <3>3. ASSUME key[k].session # NoUser, NEW l \in KeyIds, key'[l] # NoUser,
                 key'[l].session = key[k].session
          PROVE  l = k
      <4>1. CASE key'[l] = key[l] BY <1>0, <2>2, <3>3, <4>1 DEF KeysUsed
      <4>2. CASE key'[l] = r BY <1>4, <1>9, <2>2, <3>3, <4>2
      <4> QED BY <1>8, <4>1, <4>2
    <3> QED BY <2>2, <3>1, <3>2, <3>3
  <2> QED BY <1>8, <2>1, <2>2
<1> QED BY <1>1, <1>7, <1>10, <1>11 DEF LoginsInv


(* The insert that ends an exchange, and a key made in the browser. *)
LEMMA KeysKeep ==
    ASSUME AccountsInv,
           (\E x \in Exchanges : CLIExchangeKey(x)) \/ \E u \in UserIds : CreateAPIKey(u)
    PROVE  LoginsInv'
<1> USE AbsentAssumption
<1>0. LoginsShape BY DEF AccountsInv
<1>1. ASSUME NEW x \in Exchanges, CLIExchangeKey(x) PROVE LoginsInv'
  <2>1. /\ exchange[x] # NoUser /\ exchange' = [exchange EXCEPT ![x] = NoUser]
        /\ UNCHANGED <<user, cli, nextCode, sentCode>>
        /\ \/ InsertKey(exchange[x].user, exchange[x].session, exchange[x].code)
           \/ UNCHANGED <<key, nextKey>>
    BY <1>1 DEF CLIExchangeKey
  <2>2. exchange[x].user \in UserIds /\ exchange[x].session \in LoginSessions /\ exchange[x].code \in Nat
    BY <1>0, <2>1 DEF LoginsShape, Exchange
  <2>3. /\ exchange' \in [Exchanges -> Exchange \union {NoUser}] /\ exchange'[x] = NoUser
        /\ \A y \in Exchanges : exchange'[y] \in {exchange[y], NoUser}
    BY <1>0, <2>1 DEF LoginsShape
  <2> QED BY <2>1, <2>2, <2>3, KeyMade
<1>2. ASSUME NEW u \in UserIds, CreateAPIKey(u) PROVE LoginsInv'
  <2>1. InsertKey(u, NoUser, NoUser) /\ UNCHANGED <<user, cli, nextCode, sentCode, exchange>>
    BY <1>2 DEF CreateAPIKey
  <2>2. exchange' \in [Exchanges -> Exchange \union {NoUser}]
        /\ \A y \in Exchanges : exchange'[y] \in {exchange[y], NoUser}
    BY <1>0, <2>1 DEF LoginsShape
  <2> QED BY <2>1, <2>2, KeyMade
<1> QED BY <1>1, <1>2

(* Keys are revoked, or go with their account. *)
LEMMA KeysLeave ==
    ASSUME AccountsInv, NEW u \in UserIds,
           DeleteAccount(u) \/ \E k \in KeyIds : RevokeAPIKey(u, k)
    PROVE  LoginsInv'
<1> USE AbsentAssumption
<1>0. UsersShape /\ LoginsShape /\ CodesSent /\ ExchangesUsed /\ KeysUsed
      /\ UNCHANGED <<cli, nextCode, sentCode, exchange, nextKey>>
  BY DEF AccountsInv, DeleteAccount, RevokeAPIKey
<1>1. /\ key' \in [KeyIds -> APIKey \union {NoUser}]
      /\ \A k \in KeyIds : key'[k] # NoUser =>
            /\ key[k] # NoUser /\ key'[k].user = key[k].user /\ key'[k].session = key[k].session
            /\ key'[k].code = key[k].code /\ user'[key[k].user] # NoUser
  <2>1. CASE DeleteAccount(u)
    <3>1. /\ user' = [user EXCEPT ![u] = NoUser]
          /\ key' = [k \in KeyIds |-> IF key[k] # NoUser /\ key[k].user = u THEN NoUser ELSE key[k]]
      BY <2>1 DEF DeleteAccount
    <3>2. key' \in [KeyIds -> APIKey \union {NoUser}] BY <1>0, <3>1 DEF LoginsShape
    <3>3. \A k \in KeyIds : key'[k] # NoUser => key'[k] = key[k] /\ key[k].user # u BY <3>1
    <3>4. \A k \in KeyIds : key[k] # NoUser => key[k].user \in UserIds /\ user[key[k].user] # NoUser
      BY <1>0 DEF LoginsShape, APIKey, KeysUsed
    <3>5. \A v \in UserIds : v # u => user'[v] = user[v] BY <1>0, <3>1 DEF UsersShape
    <3> QED BY <3>2, <3>3, <3>4, <3>5
  <2>2. ASSUME NEW j \in KeyIds, RevokeAPIKey(u, j)
        PROVE  /\ key' \in [KeyIds -> APIKey \union {NoUser}]
               /\ \A k \in KeyIds : key'[k] # NoUser =>
                     /\ key[k] # NoUser /\ key'[k].user = key[k].user /\ key'[k].session = key[k].session
                     /\ key'[k].code = key[k].code /\ user'[key[k].user] # NoUser
    <3> DEFINE r == [key[j] EXCEPT !.revoked = TRUE]
    <3>1. key[j] \in APIKey BY <1>0, <2>2 DEF LoginsShape, RevokeAPIKey
    <3>2. r \in APIKey /\ r.user = key[j].user /\ r.session = key[j].session /\ r.code = key[j].code
      BY <3>1 DEF APIKey
    <3>3. key' = [key EXCEPT ![j] = r] /\ user' = user BY <2>2 DEF RevokeAPIKey
    <3> HIDE DEF r
    <3>4. key'[j] = r /\ \A k \in KeyIds : k # j => key'[k] = key[k] BY <1>0, <3>3 DEF LoginsShape
    <3>5. key' \in [KeyIds -> APIKey \union {NoUser}] BY <1>0, <3>2, <3>3 DEF LoginsShape
    <3> QED BY <1>0, <3>1, <3>2, <3>3, <3>4, <3>5 DEF KeysUsed
  <2> QED BY <2>1, <2>2
<1>2. LoginsShape' BY <1>0, <1>1 DEF LoginsShape
<1>3. CodesSent' BY <1>0 DEF CodesSent
<1>4. ExchangesUsed' BY <1>0, <1>1 DEF ExchangesUsed, Used, SentAs
<1>5. KeysUsed' BY <1>0, <1>1 DEF KeysUsed, Used, SentAs
<1> QED BY <1>2, <1>3, <1>4, <1>5 DEF LoginsInv

(* Every step, on sessions, codes, exchanges and keys. *)
LEMMA LoginsStep ==
    ASSUME AccountsInv, AccountsNext, UserMoves
    PROVE  LoginsInv'
<1> USE AbsentAssumption
<1>1. ASSUME UNCHANGED cliVars PROVE LoginsInv'
  <2>0. LoginsShape /\ CodesSent /\ ExchangesUsed /\ KeysUsed /\ UsersShape BY DEF AccountsInv
  <2>1. UNCHANGED <<cli, nextCode, sentCode, exchange, key, nextKey>> BY <1>1 DEF cliVars
  <2>2. CASE \E u \in UserIds : DeleteAccount(u) BY <2>2, KeysLeave
  <2>3. CASE ~ \E u \in UserIds : DeleteAccount(u)
    <3>1. \A u \in UserIds : user[u] # NoUser => user'[u] # NoUser BY <2>3 DEF UserMoves
    <3>2. LoginsShape' /\ CodesSent' BY <2>0, <2>1 DEF LoginsShape, CodesSent
    <3>3. SessionsMove BY <2>1 DEF SessionsMove, Used
    <3> QED BY <2>1, <3>1, <3>2, <3>3, SessionsKeep
  <2> QED BY <2>2, <2>3
<1>2. CASE SignInStep
  <2>1. UNCHANGED cliVars \/ \E f \in SignIns : handleCLICallback(f)
    BY <1>2 DEF SignInStep, GitHubCallback, providerCallback, UpsertUser, ConfirmOwnHandle,
       IssueGitHubOrgSyncGeneration, fetchGitHubOrgSnapshot, syncGitHubOrgSnapshot, CreateToken
  <2> QED BY <1>1, <2>1, CallbackKeeps
<1>3. CASE CommandLineStep
  BY <1>3, SessionKeeps, ExchangeKeeps, KeysKeep DEF CommandLineStep
<1>4. CASE HolderStep
  <2>1. ASSUME NEW u \in UserIds, UpdateMySettings(u) PROVE UNCHANGED cliVars
    BY <2>1 DEF UpdateMySettings
  <2>2. ASSUME NEW u \in UserIds, NEW h \in Handles, SetMyUsername(u, h) PROVE UNCHANGED cliVars
    BY <2>2 DEF SetMyUsername
  <2>3. ASSUME NEW u \in UserIds, NEW o \in Orgs, NEW shown \in BOOLEAN, SetOrgVisibility(u, o, shown)
        PROVE  UNCHANGED cliVars
    BY <2>3 DEF SetOrgVisibility
  <2>4. ASSUME NEW i \in AtGitHub, NEW o \in Orgs, JoinsOrLeavesOrg(i, o) PROVE UNCHANGED cliVars
    BY <2>4 DEF JoinsOrLeavesOrg
  <2> QED BY <1>1, <1>4, <2>1, <2>2, <2>3, <2>4, KeysKeep, KeysLeave DEF HolderStep
<1> QED BY <1>2, <1>3, <1>4 DEF AccountsNext

(* The parts of the invariant together. *)
LEMMA AccountsStep ==
    ASSUME AccountsInv, [AccountsNext]_accountVars
    PROVE  AccountsInv' /\ \A u \in UserIds : orgGen'[u] >= orgGen[u]
<1>1. CASE AccountsNext
  <2>1. UsersShape' /\ UserMoves /\ SessionsStand' BY <1>1, UsersStep
  <2>2. OrgMoves BY <1>1, OrgStep
  <2>3. SyncsIssued' /\ \A u \in UserIds : orgGen'[u] >= orgGen[u] BY <2>1, <2>2, SyncStep
  <2>4. LoginsInv' BY <1>1, <2>1, LoginsStep
  <2> QED BY <2>1, <2>2, <2>3, <2>4 DEF AccountsInv, LoginsInv, OrgMoves
<1>2. CASE UNCHANGED accountVars
  <2>1. UNCHANGED <<user, nextUser, signIn, belongs, orgRow, orgGen, published,
                    cli, nextCode, sentCode, exchange, key, nextKey>>
    BY <1>2 DEF accountVars
  <2>2. \A u \in UserIds : orgGen'[u] >= orgGen[u] BY <2>1 DEF AccountsInv, OrgsShape
  <2>3. (UsersShape /\ OrgsShape /\ LoginsShape)' BY <2>1 DEF AccountsInv, UsersShape, OrgsShape, LoginsShape
  <2>4. (SessionsStand /\ SyncsIssued /\ ShownPublished /\ CodesSent)'
    BY <2>1 DEF AccountsInv, SessionsStand, SyncsIssued, ShownPublished, CodesSent
  <2>5. (ExchangesUsed /\ KeysUsed)' BY <2>1 DEF AccountsInv, ExchangesUsed, KeysUsed, Used, SentAs
  <2> QED BY <2>2, <2>3, <2>4, <2>5 DEF AccountsInv
<1> QED BY <1>1, <1>2

(* Accounts, sign-ins, sessions and keys are type correct. *)
THEOREM AccountsTyped == AccountsSpec => []AccountsTypeOK
<1>1. AccountsInit => AccountsInv BY AccountsStart
<1>2. AccountsInv /\ [AccountsNext]_accountVars => AccountsInv' BY AccountsStep
<1>3. AccountsInv => AccountsTypeOK BY DEF AccountsInv, AccountsTypeOK
<1> QED BY <1>1, <1>2, <1>3, PTL DEF AccountsSpec

(* Whatever sign-ins, callbacks, exchanges, syncs and deletions overlap, one login
   hands out one key, for the account that signed in; no key outlives its
   account; an organization is shown only by its member's choice; and the record
   of organizations never goes back to an older sync (handleCLICallback,
   CLIExchange, syncGitHubOrgSnapshot, DeleteAccount). *)
THEOREM CredentialsKept == AccountsSpec => CredentialsHold
<1>1. AccountsInit => AccountsInv BY AccountsStart
<1>2. AccountsInv /\ [AccountsNext]_accountVars => AccountsInv' BY AccountsStep
<1>3. AccountsInv => OneKeyPerLogin /\ NoKeyOutlivesAccount /\ ShownByChoice
  <2> SUFFICES ASSUME AccountsInv PROVE OneKeyPerLogin /\ NoKeyOutlivesAccount /\ ShownByChoice
    OBVIOUS
  <2>1. OneKeyPerLogin BY DEF AccountsInv, KeysUsed, SentAs, OneKeyPerLogin
  <2>2. NoKeyOutlivesAccount BY DEF AccountsInv, KeysUsed, NoKeyOutlivesAccount
  <2>3. ShownByChoice
    BY DEF AccountsInv, ShownPublished, ShownByChoice, ListOrgMembers, ListUserPublicOrgs,
           ListUserVisibleOrgs, LiveUsers
  <2> QED BY <2>1, <2>2, <2>3
<1>4. AccountsInv /\ [AccountsNext]_accountVars => [\A u \in UserIds : orgGen'[u] >= orgGen[u]]_accountVars
  BY AccountsStep
<1> QED BY <1>1, <1>2, <1>3, <1>4, PTL DEF AccountsSpec, CredentialsHold, OrgRecordForward
=============================================================================
