----------------------------- MODULE MCIdaBatch -----------------------------
(* Two functions and two runs into one directory: a smoke run of one        *)
(* function, a resumed run of all that stops on errors and has an own       *)
(* cancel file, a timed run that brings one function up to date.            *)
EXTENDS IdaBatch

CONSTANT rendering

MCEas == {1, 2}
MCTexts == {rendering}
NoText == {}

Plain == [mode |-> "overwrite", wanted |-> Eas, limit |-> 0, timed |-> FALSE,
          stopOnError |-> FALSE, cancelFile |-> "default"]

Smoke == [Plain EXCEPT !.limit = 1]

MCOptions ==
    {Smoke,
     [Plain EXCEPT !.mode = "resume", !.stopOnError = TRUE, !.cancelFile = "custom"],
     [Plain EXCEPT !.mode = "upsert", !.wanted = {2}, !.timed = TRUE]}

(* The smoke run, then the rest.                                            *)
MCResumed == {Smoke, [Plain EXCEPT !.mode = "resume"]}
=============================================================================
