----------------------------- MODULE MCBackfills -----------------------------
(* Two sessions: the prompts of dictated were typed by another agent, as its
   producer declared; silent has no prompt and no declaration. *)
EXTENDS Backfills, TLC

CONSTANTS dictated, silent, dictatedTitle, origin1, title1, identity1

MCDeclared   == (dictated :> "agent" @@ silent :> "none")
MCClassified == (dictated :> "user" @@ silent :> "agent")
MCPrompt     == (dictated :> dictatedTitle @@ silent :> NoTitle)
MCJobKind    == (origin1 :> "origin" @@ title1 :> "title" @@ identity1 :> "identity")

BackfillsSpec == BackfillsInit /\ [][BackfillsNext]_backfillVars
=============================================================================
