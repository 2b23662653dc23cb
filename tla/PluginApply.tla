----------------------------- MODULE PluginApply -----------------------------
(***************************************************************************)
(* Analysing a function in IDA and applying selected renames to the         *)
(* database: ida/actions.py with ida/analysis_state.py and                  *)
(* ida/apply_changes.py.                                                    *)
(*                                                                          *)
(* An analysis runs in a background task: it captures the current function  *)
(* on the main thread, builds the plan on the worker, and stores both as    *)
(* the session.  Meanwhile the user navigates, renames local variables and  *)
(* retypes things so that variables come and go.  Apply runs on the main    *)
(* thread from start to end, its modal chooser included, and is one step.   *)
(* The task group lets one task run at a time (AsyncRunner).                *)
(***************************************************************************)
EXTENDS Naturals

CONSTANTS Funcs,      \* functions of the database
          Vars,       \* local variables of a function, by storage location
          Located,    \* those whose location Hex-Rays reports: the identity
          LvarNames,  \* names of local variables
          Absent,     \* a variable the decompiler does not produce (any more)
          NoSession, MaxEdits

ASSUME ApplyAssumption == Located \subseteq Vars /\ Absent \notin LvarNames /\ MaxEdits \in Nat

VARIABLES
    lvars,     \* the database: [Funcs -> [Vars -> LvarNames or Absent]]
    cur,       \* the function of the current view
    task,      \* the background task: "none", "analyze" or "apply"
    stage,     \* where the task is: "idle", "start", "captured", "stored"
    capture,   \* what the running task captured
    session,   \* _ANALYSIS_STATE
    edits,     \* user edits so far
    checked    \* history: the last apply read the current variables

sessionVars == <<lvars, cur, task, stage, capture, session, edits, checked>>

Maps == [Vars -> LvarNames \cup {Absent}]
Distinct(m) == \A v, w \in Vars : v # w /\ m[v] = m[w] => m[v] = Absent
Named(m) == {m[v] : v \in Vars} \ {Absent}
VarOf(m, n) == CHOOSE v \in Vars : m[v] = n
(* A plan gives some captured names a new one.  validate_renames lets no    *)
(* apply-safe target collide with a captured name or with another target.   *)
Plans(m) == {p \in UNION {[S -> LvarNames] : S \in SUBSET Named(m)} :
                /\ \A o \in DOMAIN p : p[o] \notin Named(m)
                /\ \A o, q \in DOMAIN p : p[o] = p[q] => o = q}
SessionTypeOK ==
    /\ lvars \in [Funcs -> Maps]
    /\ cur \in Funcs
    /\ task \in {"none", "analyze", "apply"}
    /\ stage \in {"idle", "start", "captured", "stored"}
    /\ capture = NoSession \/ capture \in [func : Funcs, names : Maps]
    /\ session = NoSession
       \/ /\ session.func \in Funcs /\ session.names \in Maps
          /\ session.plan \in Plans(session.names)
    /\ edits \in 0..MaxEdits
    /\ checked \in BOOLEAN

ApplyInit ==
    /\ \E m \in [Vars -> LvarNames] : Distinct(m) /\ lvars = [f \in Funcs |-> m]
    /\ cur \in Funcs
    /\ task = "none" /\ stage = "idle" /\ capture = NoSession
    /\ session = NoSession /\ edits = 0 /\ checked = FALSE

-----------------------------------------------------------------------------
(* The user at the main thread.                                             *)

Navigate(f) ==
    /\ f # cur /\ edits < MaxEdits
    /\ cur' = f /\ edits' = edits + 1
    /\ UNCHANGED <<lvars, task, stage, capture, session, checked>>

(* The user renames a variable, or an edit of a type makes the decompiler   *)
(* drop one or produce one: the names of a function stay distinct.          *)
EditVariable(v, n) ==
    /\ edits < MaxEdits
    /\ n # lvars[cur][v]
    /\ Distinct([lvars[cur] EXCEPT ![v] = n])
    /\ lvars' = [lvars EXCEPT ![cur][v] = n]
    /\ edits' = edits + 1
    /\ UNCHANGED <<cur, task, stage, capture, session, checked>>

Analyze ==
    /\ task = "none"
    /\ task' = "analyze" /\ stage' = "start"
    /\ UNCHANGED <<lvars, cur, capture, session, edits, checked>>

-----------------------------------------------------------------------------
(* The background task.                                                     *)

(* capture_current_function runs on the main thread when the event loop     *)
(* gets to it: in the view that is current then.                            *)
CaptureCurrent ==
    /\ stage = "start"
    /\ capture' = [func |-> cur, names |-> lvars[cur]]
    /\ stage' = "captured"
    /\ UNCHANGED <<lvars, cur, task, session, edits, checked>>

(* What could be wrong: the session keeps the variables of the view at the  *)
(* time it is stored with a plan made for the captured ones.                *)
StoreSessionOfView ==
    /\ stage = "captured"
    /\ \E p \in Plans(capture.names) :
        session' = [func |-> cur, names |-> lvars[cur], plan |-> p]
    /\ capture' = NoSession
    /\ stage' = "stored"
    /\ UNCHANGED <<lvars, cur, task, edits, checked>>

(* The plan is built, the .forge file written (a failure is a warning in    *)
(* the plan), and the session stored.                                       *)
StoreSession ==
    /\ stage = "captured"
    /\ \E p \in Plans(capture.names) :
        session' = [func |-> capture.func, names |-> capture.names, plan |-> p]
    /\ capture' = NoSession
    /\ stage' = "stored"
    /\ UNCHANGED <<lvars, cur, task, edits, checked>>

(* The task ends without a session: cancelled at a checkpoint, or failed.   *)
TaskStops ==
    /\ stage \in {"start", "captured"}
    /\ task' = "none" /\ stage' = "idle" /\ capture' = NoSession
    /\ UNCHANGED <<lvars, cur, session, edits, checked>>

ShowPreview ==
    /\ stage = "stored" /\ task = "analyze"
    /\ task' = "none" /\ stage' = "idle"
    /\ UNCHANGED <<lvars, cur, capture, session, edits, checked>>

-----------------------------------------------------------------------------
(* _apply_selected_renames_from_session.                                    *)

SessionMatches == session.func = cur

(* _identity_mismatch: only two known locations can disagree.               *)
IdentityMismatch(old, current) ==
    LET w == VarOf(session.names, old)
        v == VarOf(current, old)
    IN  /\ w \in Located /\ v \in Located
        /\ w # v

(* What could be wrong: the current locations are not looked at.            *)
PreflightWithoutIdentity(selected, current) ==
    {o \in selected \cap Named(current) : session.plan[o] \notin Named(current)}

(* What could be wrong: targets are checked against the capture instead of  *)
(* against the variables the function has now.                              *)
PreflightAgainstCapture(selected, current) ==
    {o \in selected \cap Named(current) :
        ~IdentityMismatch(o, current) /\ session.plan[o] \notin Named(session.names)}

(* preflight_selected_renames against the current variables.                *)
Preflight(selected, current) ==
    {o \in selected \cap Named(current) :
        /\ ~IdentityMismatch(o, current)
        /\ session.plan[o] \notin Named(current)}

(* ida_hexrays.rename_lvar for each accepted rename, in the order of the    *)
(* old names: IDA finds the variable by its name, and may refuse.           *)
Renamed(m, plan, accepted) ==
    [v \in Vars |-> IF m[v] \in accepted THEN plan[m[v]] ELSE m[v]]

ApplyVerified(selected) ==
    \E taken \in SUBSET Preflight(selected, lvars[cur]) :
        lvars' = [lvars EXCEPT ![session.func] = Renamed(@, session.plan, taken)]

(* capture_current_lvars failed: renames with an identity are refused, the  *)
(* others are checked against the names of the capture.                     *)
ApplyUnverified(selected) ==
    /\ \A o \in selected : VarOf(session.names, o) \notin Located
    /\ \E taken \in SUBSET selected :
        lvars' = [lvars EXCEPT ![session.func] = Renamed(@, session.plan, taken)]

(* What could be wrong: nobody compares the session with the view.          *)
ApplyAnySession ==
    \E selected \in SUBSET DOMAIN session.plan :
        /\ selected # {}
        /\ ApplyVerified(selected)
        /\ checked' = TRUE

(* Refused when the view has moved to another function; nothing happens     *)
(* when the chooser is dismissed or empty.                                  *)
ApplyFromSession ==
    /\ SessionMatches
    /\ \E selected \in SUBSET DOMAIN session.plan, verified \in BOOLEAN :
        /\ selected # {}
        /\ IF verified THEN ApplyVerified(selected) ELSE ApplyUnverified(selected)
        /\ checked' = verified

(* The menu action: skipped while a task of the group runs; analyses first  *)
(* when there is no session.                                                *)
ApplyPrepares ==
    /\ task = "none" /\ session = NoSession
    /\ task' = "apply" /\ stage' = "start"
    /\ UNCHANGED <<lvars, cur, capture, session, edits, checked>>

ApplyDirectly ==
    /\ task = "none" /\ session # NoSession
    /\ ApplyFromSession
    /\ UNCHANGED <<cur, task, stage, capture, session, edits>>

(* on_success of the preparing task: it applies, or is refused because the  *)
(* view has moved meanwhile, or dismissed.                                  *)
ApplyPrepared ==
    /\ stage = "stored" /\ task = "apply"
    /\ ApplyFromSession \/ UNCHANGED <<lvars, checked>>
    /\ task' = "none" /\ stage' = "idle"
    /\ UNCHANGED <<cur, capture, session, edits>>

ApplyNext ==
    \/ \E f \in Funcs : Navigate(f)
    \/ \E v \in Vars, n \in LvarNames \cup {Absent} : EditVariable(v, n)
    \/ Analyze \/ CaptureCurrent \/ StoreSession \/ TaskStops \/ ShowPreview
    \/ ApplyPrepares \/ ApplyDirectly \/ ApplyPrepared

ApplySpec == ApplyInit /\ [][ApplyNext]_sessionVars

-----------------------------------------------------------------------------
(* Properties.  An apply is a step that changes names but is no user edit.  *)

Applies == lvars' # lvars /\ edits' = edits

(* Apply refuses a stale session: it writes only to the function that was   *)
(* analysed and is in the view, whatever the user did between the two.      *)
AppliesToTheAnalysedFunction ==
    [][Applies => \A f \in Funcs : lvars'[f] # lvars[f] =>
            f = session.func /\ f = cur]_sessionVars

(* A variable that is renamed is the one the analysis meant, not another    *)
(* one that took over its name since, when both locations are known.        *)
RenamesHitTheirVariable ==
    [][Applies => \A f \in Funcs, v \in Vars :
        /\ lvars'[f][v] # lvars[f][v]
        /\ v \in Located
        /\ VarOf(session.names, lvars[f][v]) \in Located
        => session.names[v] = lvars[f][v]]_sessionVars

(* Names of local variables stay distinct through an apply that could read  *)
(* the current variables, whatever became of the names since the analysis.  *)
NamesStayDistinct ==
    [][Applies /\ checked' => \A f \in Funcs : Distinct(lvars[f]) => Distinct(lvars'[f])]_sessionVars
=============================================================================
