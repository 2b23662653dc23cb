---------------------------- MODULE MCFrontEnds -----------------------------
(* What drives the analysis outside the plug-in:                            *)
(*   window    Free Studio with two profile directories and three runs;     *)
(*   dialog    its settings with two HTTP providers that may share a base   *)
(*             URL, one of them with an API key, one CLI provider, two base *)
(*             URLs, one optional key;                                      *)
(*   batch     two functions and two runs into one directory (MCIdaBatch);  *)
(*   replay    three inputs of a function and three batches;                *)
(*   pack      two builds of two versions of a corpus (MCKernelPack), with  *)
(*             readers across them, in one place;                           *)
(*   places    one build, copied and relocated between three places.        *)
(* These parts share no state, and a behaviour explores one of them.        *)
EXTENDS MCFreeStudio, MCIdaBatch, SettingsDialog, LlmReplay, MCKernelPack

CONSTANTS openai, lmstudio, codex, remote, local, none, typed

MCHttp == {openai, lmstudio}
MCKeyed == {openai}
MCCli == {codex}
MCUrls == {remote, local}
MCKeys == {none, typed}
MCDefaultUrl == [p \in MCHttp |-> IF p = openai THEN remote ELSE local]

VARIABLE part     \* what the behaviour explores

MCInit ==
    /\ StudioInit /\ DialogInit /\ Init /\ ReplayInit /\ PackInit
    /\ part \in {"window", "dialog", "batch", "replay", "pack", "places"}
    /\ part # "dialog" => provider = codex
    /\ part # "batch" => opts = Smoke
    /\ part # "replay" => input = "first"
    /\ part # "places" => at = <<nt>>

(* Only the first batch sees Ctrl+C and a report that cannot be read, and   *)
(* the second one is not the smoke run.                                     *)
BatchNext == Next /\ (runs' = MaxRuns => ctrlC' = 0 /\ ~unread' /\ opts' # Smoke)

(* The pack stays in its place; or its corpus and the clock stay, and four  *)
(* of the files derived, copies, requests and kills come together.          *)
PackInPlace == at' = at /\ rel' = "off" /\ PackNext
PackOfOneBuild ==
    /\ UNCHANGED <<corpus, clock>> /\ PackNext
    /\ builds' <= 1 /\ derivedSoFar' + moves' + kills' <= 4

MCNext ==
    /\ UNCHANGED part
    /\ \/ part = "window" /\ StudioNext /\ UNCHANGED <<dialog, vars, replayVars, packVars>>
       \/ part = "dialog" /\ DialogNext /\ UNCHANGED <<studioVars, vars, replayVars, packVars>>
       \/ part = "batch" /\ BatchNext /\ UNCHANGED <<studioVars, dialog, replayVars, packVars>>
       \/ part = "replay" /\ ReplayNext /\ UNCHANGED <<studioVars, dialog, vars, packVars>>
       \/ part = "pack" /\ PackInPlace /\ UNCHANGED <<studioVars, dialog, vars, replayVars>>
       \/ part = "places" /\ PackOfOneBuild /\ UNCHANGED <<studioVars, dialog, vars, replayVars>>

(* The timer and the look-ups of the dialog, the command line, and what     *)
(* FairPackSpec says of packs, are fair.                                    *)
MCSpec ==
    /\ MCInit /\ [][MCNext]_<<part, studioVars, dialog, vars, replayVars, packVars>>
    /\ WF_dialog(part = "dialog" /\ TimerFires) /\ WF_dialog(part = "dialog" /\ Answer)
    /\ WF_vars(part = "batch" /\ CliStep)
    /\ WF_packVars(part = "places" /\ BuildStep) /\ WF_packVars(part = "places" /\ EndDerive)
    /\ WF_packVars(part = "places" /\ RelocateStep)
    /\ SF_packVars(part = "places" /\ Repair /\ Misplaced)

\* Signals only come from workers that ended; a running timer belongs to an HTTP
\* provider; the functions under way, selected and recorded by a batch are disjoint; a
\* baseline has names; what a build has removed is missing until it is written.
FrontEndsTypeOK == WindowTypeOK /\ DialogTypeOK /\ TypeOK /\ ReplayTypeOK /\ PackTypeOK
=============================================================================
