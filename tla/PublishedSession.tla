--------------------------- MODULE PublishedSession ---------------------------
(***************************************************************************)
(* What the encrypted storage of one session promises to the people who    *)
(* use it: there is one published value at a time, whoever stores, copies, *)
(* re-encrypts and deletes objects behind it.  A publish or a deletion     *)
(* takes effect at most once, while its request is open, and on the        *)
(* session that the request found; a reader is given the value of one      *)
(* moment of its request, at which the session was not private; and the    *)
(* audience is the one the owner chose or the private one.                 *)
(***************************************************************************)
CONSTANTS Publishers, Deleters, Readers, Submitted, Visibilities, None

VARIABLES
    session,    \* the publish that created what is published, or None
    value,      \* what is published
    visible,    \* the audience in force
    chosen,     \* the audience the owner chose
    open,       \* publishes and deletions that may still take effect
    target,     \* the session each of them found
    reading,    \* the value each reader will be given
    answer      \* the value each reader was given

sessionVars == <<session, value, visible, chosen, open, target, reading, answer>>

Effects == Publishers \union Deleters

(* The request can have no effect any more. *)
Close(r) == open' = open \ {r} /\ target' = [target EXCEPT ![r] = None]

(* The request finds out what is published. *)
Find(r) ==
    /\ r \in open
    /\ target' = [target EXCEPT ![r] = session]
    /\ UNCHANGED <<session, value, visible, chosen, open, reading, answer>>

(* It fails, gives up, or has nothing to do. *)
Abandon(r) ==
    /\ r \in open
    /\ Close(r)
    /\ UNCHANGED <<session, value, visible, chosen, reading, answer>>

Create(p) ==
    /\ p \in open
    /\ target[p] = None /\ session = None
    /\ session' = p
    /\ value' = Submitted[p]
    /\ visible' = "private"
    /\ chosen' = "private"
    /\ Close(p)
    /\ UNCHANGED <<reading, answer>>

(* The request found the session that is there now. *)
OnTarget(r) == r \in open /\ session # None /\ target[r] = session

Replace(p) ==
    /\ OnTarget(p)
    /\ value' = Submitted[p]
    /\ visible' \in {visible, chosen}
    /\ Close(p)
    /\ UNCHANGED <<session, chosen, reading, answer>>

(* A replacement hides the session first; it may get no further. *)
Hide(p) ==
    /\ OnTarget(p)
    /\ visible' = "private"
    /\ Close(p) \/ UNCHANGED <<open, target>>
    /\ UNCHANGED <<session, value, chosen, reading, answer>>

(* A replacement that failed shows the session again. *)
Show ==
    /\ session # None
    /\ visible' = chosen
    /\ UNCHANGED <<session, value, chosen, open, target, reading, answer>>

Delete(d) ==
    /\ OnTarget(d)
    /\ session' = None
    /\ value' = None
    /\ visible' = "private"
    /\ Close(d)
    /\ UNCHANGED <<chosen, reading, answer>>

Choose(v) ==
    /\ session # None
    /\ visible' = v
    /\ chosen' = v
    /\ UNCHANGED <<session, value, open, target, reading, answer>>

(* A reader is let in, for the first time or again. *)
Admit(r) ==
    /\ session # None /\ visible # "private"
    /\ answer[r] = None
    /\ reading' = [reading EXCEPT ![r] = value]
    /\ UNCHANGED <<session, value, visible, chosen, open, target, answer>>

Serve(r) ==
    /\ reading[r] # None
    /\ answer' = [answer EXCEPT ![r] = reading[r]]
    /\ reading' = [reading EXCEPT ![r] = None]
    /\ UNCHANGED <<session, value, visible, chosen, open, target>>

Refuse(r) ==
    /\ reading' = [reading EXCEPT ![r] = None]
    /\ UNCHANGED <<session, value, visible, chosen, open, target, answer>>

SessionInit ==
    /\ session = None
    /\ value = None
    /\ visible = "private"
    /\ chosen = "private"
    /\ open = Effects
    /\ target = [r \in Effects |-> None]
    /\ reading = [r \in Readers |-> None]
    /\ answer = [r \in Readers |-> None]

SessionNext ==
    \/ \E r \in Effects : Find(r) \/ Abandon(r)
    \/ \E p \in Publishers : Create(p) \/ Replace(p) \/ Hide(p)
    \/ \E d \in Deleters : Delete(d)
    \/ \E v \in Visibilities : Choose(v)
    \/ \E r \in Readers : Admit(r) \/ Serve(r) \/ Refuse(r)
    \/ Show

SessionSpec == SessionInit /\ [][SessionNext]_sessionVars
==============================================================================
