------------------------------ MODULE Backfills ------------------------------
(* The maintenance commands that fill in columns of a stored transcript: the
   content identity, the session origin and the title.  Each lists the row,
   reads its body and installs what it decided with a compare-and-set, while the
   owner publishes and edits, reads rewrite the body and keys are rewrapped.
   Rows are independent, so the module follows one. *)
EXTENDS Integers

CONSTANTS
    Sessions,       \* the sessions the owner may publish under the row
    Declared,       \* the origin the producer declared in each, "none" without one
    Classified,     \* sessionorigin.Classify of each
    Prompt,         \* the title derived from each, NoTitle without a usable turn
    NoTitle,
    Jobs,           \* maintenance runs
    JobKind,        \* "identity", "origin" or "title"
    MaxWrites       \* bound on transactions that stamp the row

ASSUME BackfillAssumption ==
    /\ Declared \in [Sessions -> {"user", "agent", "unknown", "none"}]
    /\ Classified \in [Sessions -> {"user", "agent", "unknown"}]
    /\ JobKind \in [Jobs -> {"identity", "origin", "title"}]
    /\ MaxWrites \in Nat

(* A title is a label for where its text came from: the prompt of one session, or
   none of them. *)
ASSUME PromptAssumption ==
    /\ \A s, t \in Sessions : Prompt[s] = Prompt[t] => s = t \/ Prompt[s] = NoTitle
    /\ \A s \in Sessions : Prompt[s] \notin {"session", "leaky", "prose", "named"}
    /\ NoTitle \notin {"session", "leaky", "prose", "named"}

VARIABLES
    stored,     \* the row; session and form say what the object under its key holds
    visit,      \* each run's visit to the row: [at, saw, decided]
    writes,     \* transactions that stamped the row
    chosen      \* history: the title of the owner's last edit since a publish

backfillVars == <<stored, visit, writes, chosen>>

(* "session" stands for a generic title or harness markup, "leaky" for prose that
   the title pipeline changes and "prose" for what it becomes. *)
Titles == {NoTitle, "session", "leaky", "prose", "named"} \union {Prompt[s] : s \in Sessions}

NoHash == <<>>
Hash(row) == <<row.session, row.form>>

Forms == {"legacy", "canonical"}

Stored ==
    [session : Sessions, form : Forms,
     gen : 0..MaxWrites,                    \* blob_key
     wrap : 0..MaxWrites,                   \* wrapped_data_key, key_version
     hash : {NoHash} \union (Sessions \X Forms),
     origin : {"user", "agent", "unknown"},
     title : Titles, generated : Titles,
     stamp : 0..MaxWrites]                  \* updated_at

Visits ==
    [at : {"idle"}] \union [at : {"listed"}, saw : Stored]
    \union [at : {"decided"}, saw : Stored,
            decided : [origin : {"user", "agent", "unknown"}]
                      \union [hash : Sessions \X Forms]
                      \union [title : Titles, generated : Titles]]

BackfillsTypeOK ==
    /\ stored \in Stored
    /\ visit \in [Jobs -> Visits]
    /\ writes \in 0..MaxWrites
    /\ chosen \in Titles

------------------------------------------------------------------------------
(* The writers of the row. *)

(* One more transaction sets updated_at = now(). *)
Stamped(row) ==
    /\ writes < MaxWrites
    /\ writes' = writes + 1
    /\ stored' = [row EXCEPT !.stamp = writes + 1]

ResolvePublishedOrigin(s) ==
    IF Declared[s] \in {"user", "agent"} THEN Declared[s] ELSE Classified[s]

(* UpdateTranscriptByOwnerAndLocalID: the generated title, or the fallback named
   after the harness, becomes both titles. *)
Republish(s, form, generated) ==
    /\ Stamped([session |-> s, form |-> form, gen |-> writes + 1, wrap |-> writes + 1,
                hash |-> <<s, form>>, origin |-> ResolvePublishedOrigin(s),
                title |-> generated, generated |-> generated, stamp |-> 0])
    /\ chosen' = NoTitle
    /\ UNCHANGED visit

(* UpdateTranscriptMetadata, by an edit that carries a title. *)
EditTitle(title) ==
    /\ Stamped([stored EXCEPT !.title = title])
    /\ chosen' = title
    /\ UNCHANGED visit

(* CompareAndSwapTranscriptBlob, by a read that found a legacy body. *)
RewriteLegacy ==
    /\ stored.form = "legacy"
    /\ Stamped([stored EXCEPT !.form = "canonical", !.gen = writes + 1, !.wrap = writes + 1,
                              !.hash = <<stored.session, "canonical">>])
    /\ UNCHANGED <<visit, chosen>>

(* CompareAndSwapWrappedDataKey, by key rotation. *)
RewrapKey ==
    /\ Stamped([stored EXCEPT !.wrap = writes + 1])
    /\ UNCHANGED <<visit, chosen>>

------------------------------------------------------------------------------
(* A run's visit. *)

Idling == [at |-> "idle"]

(* The batch listings; the identity run lists only rows without a hash. *)
List(j) ==
    /\ visit[j].at = "idle"
    /\ JobKind[j] = "identity" => stored.hash = NoHash
    /\ visit' = [visit EXCEPT ![j] = [at |-> "listed", saw |-> stored]]
    /\ UNCHANGED <<stored, writes, chosen>>

titleNeedsRederivation(title) == title = "session"

Sanitize(title) == IF title = "leaky" THEN "prose" ELSE title

(* derive: the body's first usable prompt; {} when no turn is usable. *)
derive(row) == {t \in {Prompt[row.session]} : t # NoTitle}

(* TitleBackfill.decide: an owner's prose is kept, a generated title comes next,
   a derived one last; {} when the decision fails. *)
decideTitle(row) ==
    LET title     == Sanitize(row.title)
        generated == Sanitize(row.generated)
        Usable(t) == t # NoTitle /\ ~titleNeedsRederivation(t)
    IN  CASE Usable(title) -> {[title |-> title, generated |-> generated]}
          [] ~Usable(title) /\ Usable(generated) ->
                 {[title |-> generated, generated |-> generated]}
          [] OTHER -> {[title |-> t, generated |-> t] : t \in derive(row)}

(* OriginBackfill.decide: the classifier, whatever the producer declared. *)
decideOrigin(row) == {[origin |-> Classified[row.session]]}

Decisions(kind, row) ==
    CASE kind = "identity" -> {[hash |-> Hash(row)]}
      [] kind = "origin"   -> decideOrigin(row)
      [] kind = "title"    -> decideTitle(row)

(* What the row would hold after a decision. *)
Decided(row, decision) ==
    [f \in DOMAIN row |-> IF f \in DOMAIN decision THEN decision[f] ELSE row[f]]

(* The body is read under the listed descriptor: a superseded object may still be
   there and opens to what it held when it was listed. *)
Decide(j) ==
    /\ visit[j].at = "listed"
    /\ \E d \in Decisions(JobKind[j], visit[j].saw) :
          /\ Decided(visit[j].saw, d) # visit[j].saw
          /\ visit' = [visit EXCEPT ![j] =
                          [at |-> "decided", saw |-> visit[j].saw, decided |-> d]]
    /\ UNCHANGED <<stored, writes, chosen>>

(* Nothing to change, a dry run, an object that is gone, content that cannot be
   read or cleaned, or a transaction that fails: the row is left for a rerun. *)
LeaveRow(j) ==
    /\ visit[j].at # "idle"
    /\ visit' = [visit EXCEPT ![j] = Idling]
    /\ UNCHANGED <<stored, writes, chosen>>

(* The WHERE clauses of the compare-and-set statements. *)
CompareAndSwapContentIdentity(saw) ==
    /\ stored.gen = saw.gen
    /\ stored.wrap = saw.wrap
    /\ stored.hash = NoHash

(* Seeded fault: only the column that is replaced is compared. *)
CompareAndSwapTranscriptSessionOrigin_Column(saw) == stored.origin = saw.origin

CompareAndSwapTranscriptSessionOrigin(saw) ==
    /\ stored.origin = saw.origin
    /\ stored.stamp = saw.stamp

CompareAndSwapTranscriptTitles(saw) ==
    /\ stored.title = saw.title
    /\ stored.generated = saw.generated
    /\ stored.stamp = saw.stamp

Matches(kind, saw) ==
    CASE kind = "identity" -> CompareAndSwapContentIdentity(saw)
      [] kind = "origin"   -> CompareAndSwapTranscriptSessionOrigin(saw)
      [] kind = "title"    -> CompareAndSwapTranscriptTitles(saw)

(* CompareAndSwapContentIdentity leaves updated_at alone, the other two set it.
   The commit is executed, whether or not its answer arrives. *)
Install(j) ==
    /\ visit[j].at = "decided"
    /\ Matches(JobKind[j], visit[j].saw)
    /\ IF JobKind[j] = "identity"
       THEN stored' = Decided(stored, visit[j].decided) /\ UNCHANGED writes
       ELSE Stamped(Decided(stored, visit[j].decided))
    /\ visit' = [visit EXCEPT ![j] = Idling]
    /\ UNCHANGED chosen

------------------------------------------------------------------------------
(* A row from before the columns existed: no hash and the default origin. *)
BackfillsInit ==
    /\ stored \in [session : {s \in Sessions : Declared[s] = "none"}, form : {"legacy"},
                   gen : {0}, wrap : {0}, hash : {NoHash}, origin : {"unknown"},
                   title : {NoTitle, "session", "leaky"}, generated : {NoTitle},
                   stamp : {0}]
    /\ visit = [j \in Jobs |-> Idling]
    /\ writes = 0
    /\ chosen = NoTitle

BackfillsNext ==
    \/ \E s \in Sessions, form \in Forms, generated \in {"session"} :
          Republish(s, form, generated)
    \/ \E s \in Sessions, form \in Forms :
          Prompt[s] # NoTitle /\ Republish(s, form, Prompt[s])
    \/ \E title \in {"named", "session"} : EditTitle(title)
    \/ RewriteLegacy
    \/ RewrapKey
    \/ \E j \in Jobs : List(j) \/ Decide(j) \/ LeaveRow(j) \/ Install(j)

------------------------------------------------------------------------------
(* Whatever was published, edited, rewritten or rewrapped between a run's listing
   and its compare-and-set, what the row says of its body is about the body it
   holds: the hash, an origin other than the default, and a title taken from a
   prompt; and a title the owner chose since the last publish stands, unless it
   is one that says nothing. *)
DerivedCurrent ==
    /\ stored.hash \in {NoHash, Hash(stored)}
    /\ stored.origin \in {"unknown", Classified[stored.session],
                          ResolvePublishedOrigin(stored.session)}
    /\ \A s \in Sessions :
          Prompt[s] # NoTitle /\ Prompt[s] \in {stored.title, stored.generated}
              => stored.session = s
    /\ chosen # NoTitle /\ ~titleNeedsRederivation(chosen) => stored.title = chosen

(* The origin a backfill installs is the one a publish of the same body stores,
   so that a backfilled row and a freshly published one never disagree. *)
BackfillAgreesWithPublish ==
    [][\A j \in Jobs :
          JobKind[j] = "origin" /\ Install(j)
              => stored'.origin = ResolvePublishedOrigin(stored.session)]_backfillVars
=============================================================================
