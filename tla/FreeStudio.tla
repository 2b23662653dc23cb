----------------------------- MODULE FreeStudio -----------------------------
(***************************************************************************)
(* The window of Free Studio (FreeStudioWindow and AnalysisWorker in        *)
(* gui/free_app.py) and the analysis it runs (free/service.py).  Each run   *)
(* has a worker object and a QThread; a worker reports to the window with   *)
(* queued signals, and the window forgets its worker when a thread has      *)
(* finished.  The profile directory is one global of the process, set for   *)
(* the length of an analysis or of a save.                                  *)
(***************************************************************************)
EXTENDS Naturals, Sequences

CONSTANTS Profiles,    \* profile directories of the settings
          Default,     \* the profile directory the program starts with
          MaxStarts      \* bound on the analyses started

ASSUME StudioAssumption == Default \in Profiles /\ MaxStarts \in Nat \ {0}

Runs == 1..MaxStarts
NoRun == 0

VARIABLES
    busy,      \* Stop is enabled, and ClickAnalyze, Settings and Save are not
    worker,    \* run of self._worker
    result,    \* run of self._result
    modal,     \* a message box of a failed run is open
    saving,    \* inside _configured_profile_scope of save_result_bundle
    setting,   \* profile_dir of the settings
    started,   \* number of analyses started
    stage,     \* what the worker and the thread of a run are doing
    wants,     \* profile directory of the run's options
    previous,  \* profile directory each scope restores: of the runs, and of a save (NoRun)
    cancel,    \* _cancel_requested of the run's worker
    early,     \* Stop reached the run before its last checkpoint (history)
    profile,   \* PROFILE_DIR of the process
    posted     \* signals posted to the main thread

window == <<busy, worker, result, modal, setting, started>>
studioVars == <<window, saving, stage, wants, previous, cancel, early, profile, posted>>

Checked == {"input", "normalize", "capture", "plan"}   \* a checkpoint follows
InScope == Checked \cup {"write"}
Stages == {"unborn", "created", "loading", "ended", "quit", "gone", "lost"} \cup InScope

WindowTypeOK ==
    /\ {busy, modal, saving} \subseteq BOOLEAN
    /\ {worker, result, started} \subseteq Runs \cup {NoRun}
    /\ setting \in Profiles /\ profile \in Profiles
    /\ stage \in [Runs -> Stages]
    /\ wants \in [Runs -> Profiles]
    /\ previous \in [Runs \cup {NoRun} -> Profiles]
    /\ {cancel, early} \subseteq [Runs -> BOOLEAN]
    /\ posted \in Seq(Runs \X {"completed", "failed", "cancelled", "quit", "finished"})
    /\ \A i \in DOMAIN posted : stage[posted[i][1]] \in {"ended", "quit", "gone"}

StudioInit ==
    /\ busy = FALSE /\ modal = FALSE /\ saving = FALSE
    /\ worker = NoRun /\ result = NoRun /\ started = 0
    /\ setting = Default /\ profile = Default
    /\ stage = [r \in Runs |-> "unborn"]
    /\ wants = [r \in Runs |-> Default]
    /\ previous = [r \in Runs \cup {NoRun} |-> Default]
    /\ cancel = [r \in Runs |-> FALSE] /\ early = [r \in Runs |-> FALSE]
    /\ posted = <<>>

-----------------------------------------------------------------------------
(* The user.  The main thread is in one handler at a time; a save holds it. *)

Idle == ~modal /\ ~saving

Settings(p) ==
    /\ Idle /\ ~busy /\ p # setting
    /\ setting' = p
    /\ UNCHANGED <<busy, worker, result, modal, started, saving, stage, wants, previous,
                   cancel, early, profile, posted>>

NewInput ==      \* Paste, or Open
    /\ Idle /\ ~busy /\ result # NoRun
    /\ result' = NoRun
    /\ UNCHANGED <<busy, worker, modal, setting, started, saving, stage, wants, previous,
                   cancel, early, profile, posted>>

ClickAnalyze ==
    /\ Idle /\ ~busy /\ started < MaxStarts
    /\ LET r == started + 1 IN
        /\ started' = r /\ worker' = r
        /\ stage' = [stage EXCEPT ![r] = "created"]
        /\ wants' = [wants EXCEPT ![r] = setting]
    /\ busy' = TRUE /\ result' = NoRun
    /\ UNCHANGED <<modal, setting, saving, previous, cancel, early, profile, posted>>

Stop ==
    /\ Idle /\ busy /\ worker # NoRun
    /\ cancel' = [cancel EXCEPT ![worker] = TRUE]
    /\ early' = [early EXCEPT ![worker] = @ \/ stage[worker] \in {"created", "loading"} \cup Checked]
    /\ UNCHANGED <<window, saving, stage, wants, previous, profile, posted>>

\* What could be wrong: a bundle is written under the profile in force.
SaveInCurrentProfile ==
    /\ Idle /\ ~busy /\ result # NoRun
    /\ saving' = TRUE
    /\ previous' = [previous EXCEPT ![NoRun] = profile]
    /\ UNCHANGED <<window, stage, wants, cancel, early, profile, posted>>

SaveBegins ==
    /\ Idle /\ ~busy /\ result # NoRun
    /\ saving' = TRUE
    /\ previous' = [previous EXCEPT ![NoRun] = profile]
    /\ profile' = wants[result]
    /\ UNCHANGED <<window, stage, wants, cancel, early, posted>>

SaveEnds ==      \* written, or an OSError and a message box
    /\ saving
    /\ saving' = FALSE /\ profile' = previous[NoRun]
    /\ UNCHANGED <<window, stage, wants, previous, cancel, early, posted>>

CloseBox ==
    /\ modal
    /\ modal' = FALSE
    /\ UNCHANGED <<busy, worker, result, setting, started, saving, stage, wants, previous,
                   cancel, early, profile, posted>>

-----------------------------------------------------------------------------
(* The thread of a run.                                                     *)

To(r, s) == stage' = [stage EXCEPT ![r] = s]

RunBegins(r) ==
    /\ stage[r] = "created" /\ To(r, "loading")
    /\ UNCHANGED <<window, saving, wants, previous, cancel, early, profile, posted>>

EnterScope(r) ==
    /\ stage[r] = "loading" /\ To(r, "input")
    /\ previous' = [previous EXCEPT ![r] = profile]
    /\ profile' = wants[r]
    /\ UNCHANGED <<window, saving, wants, cancel, early, posted>>

\* A signal of the worker is followed by the one that quits its thread.
Emit(r, kind) == posted' = posted \o << <<r, kind>>, <<r, "quit">> >>

LeaveScope(r) == profile' = IF stage[r] \in InScope THEN previous[r] ELSE profile

NextStep == [input |-> "normalize", normalize |-> "capture", capture |-> "plan", plan |-> "write"]

Raise(r) ==
    /\ To(r, "ended") /\ LeaveScope(r)
    /\ Emit(r, IF cancel[r] THEN "cancelled" ELSE "failed")
    /\ UNCHANGED <<window, saving, wants, previous, cancel, early>>

\* What could be wrong: no check after the call of the provider.
CheckpointExceptAfterPlan(r) ==
    /\ stage[r] \in Checked /\ (cancel[r] => stage[r] = "plan")
    /\ To(r, NextStep[stage[r]])
    /\ UNCHANGED <<window, saving, wants, previous, cancel, early, profile, posted>>

Checkpoint(r) ==
    /\ stage[r] \in Checked /\ ~cancel[r]
    /\ To(r, NextStep[stage[r]])
    /\ UNCHANGED <<window, saving, wants, previous, cancel, early, profile, posted>>

Cancelled(r) == stage[r] \in Checked /\ cancel[r] /\ Raise(r)
Fails(r) == stage[r] \in ({"loading"} \cup InScope) \ {"input"} /\ Raise(r)

\* What could be wrong: the result is emitted while the profile is still set.
CompletesInScope(r) ==
    /\ stage[r] = "write"
    /\ To(r, "write") /\ Emit(r, "completed")
    /\ UNCHANGED <<window, saving, wants, previous, cancel, early, profile>>

Completes(r) ==
    /\ stage[r] = "write"
    /\ To(r, "ended") /\ LeaveScope(r) /\ Emit(r, "completed")
    /\ UNCHANGED <<window, saving, wants, previous, cancel, early>>

ThreadExits(r) ==
    /\ stage[r] = "quit" /\ To(r, "gone")
    /\ posted' = Append(posted, <<r, "finished">>)
    /\ UNCHANGED <<window, saving, wants, previous, cancel, early, profile>>

-----------------------------------------------------------------------------
(* The window's slots.  They run in the event loop, of a message box too,   *)
(* but not while a bundle is written.                                       *)

Handle(kind, r) ==
    /\ ~saving /\ posted # <<>> /\ Head(posted) = <<r, kind>>
    /\ posted' = Tail(posted)
    /\ UNCHANGED <<saving, wants, previous, cancel, early, profile, setting, started>>

AnalysisCompleted(r) ==
    /\ Handle("completed", r)
    /\ result' = r /\ busy' = FALSE
    /\ UNCHANGED <<worker, modal, stage>>

AnalysisFailed(r) ==
    /\ Handle("failed", r)
    /\ busy' = FALSE /\ modal' = TRUE
    /\ UNCHANGED <<worker, result, stage>>

AnalysisCancelled(r) ==
    /\ Handle("cancelled", r)
    /\ busy' = FALSE
    /\ UNCHANGED <<worker, result, modal, stage>>

Quit(r) ==
    /\ Handle("quit", r)
    /\ stage' = [stage EXCEPT ![r] = IF @ = "ended" THEN "quit" ELSE @]
    /\ UNCHANGED <<busy, worker, result, modal>>

\* The slot forgets the worker of the window, whichever run has finished; a worker
\* that has not begun to run is collected with the reference.
ClearWorker(r) ==
    /\ Handle("finished", r)
    /\ worker' = NoRun
    /\ stage' = [q \in Runs |-> IF q = worker /\ stage[q] = "created" THEN "lost" ELSE stage[q]]
    /\ UNCHANGED <<busy, result, modal>>

-----------------------------------------------------------------------------
ThreadStep(r) == RunBegins(r) \/ EnterScope(r) \/ Checkpoint(r) \/ Cancelled(r) \/ Fails(r)
                    \/ Completes(r) \/ ThreadExits(r)
Slot(r) == AnalysisCompleted(r) \/ AnalysisFailed(r) \/ AnalysisCancelled(r) \/ Quit(r) \/ ClearWorker(r)
User == (\E p \in Profiles : Settings(p)) \/ NewInput \/ ClickAnalyze \/ Stop \/ SaveBegins \/ SaveEnds \/ CloseBox

StudioNext == User \/ \E r \in Runs : ThreadStep(r) \/ Slot(r)
StudioSpec == StudioInit /\ [][StudioNext]_studioVars

-----------------------------------------------------------------------------
(* Properties.                                                              *)

\* What is shown, copied and saved is the result of the analysis started last: no
\* late signal of an earlier run brings its result back (_clear_current_result,
\* _analysis_completed).  Nor is it that of a run stopped before its last checkpoint, in
\* the call of the provider at the latest ("Current provider call may finish first").
ShownResultIsWanted ==
    /\ result # NoRun => result = started
    /\ \A r \in Runs : early[r] => result # r

\* Whoever reads profiles, the worker of a run or a save, reads them from the
\* directory of that run's options, although the directory is one global of the
\* process that each scope sets and restores; outside every scope it is the one the
\* program started with (_configured_profile_scope).
ProfileOfScope ==
    /\ \A r \in Runs : stage[r] \in InScope => profile = wants[r]
    /\ saving => profile = wants[result]
    /\ ~saving /\ (\A r \in Runs : stage[r] \notin InScope) => profile = Default

\* While a run is under way and Stop is enabled, Stop reaches that run.  It does not:
\* _clear_worker of a thread that finishes late forgets the worker of the next run.
StopReachesTheRun ==
    busy /\ started > 0 /\ stage[started] \in {"created", "loading"} \cup InScope => worker = started
=============================================================================
