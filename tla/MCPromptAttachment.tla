------------------------- MODULE MCPromptAttachment -------------------------
(* Small instances of PromptAttachment: requests are interchangeable, and so
   are transcripts.  Up to three requests run in any way; a fourth joins only
   while nothing failed, was lost or overlapped. *)
EXTENDS PromptAttachment, TLC

Symmetry == Permutations(Requests) \union Permutations(Transcripts)

Bounded == incidents # {} => \E r \in Requests : pc[r] = "idle"
=============================================================================
