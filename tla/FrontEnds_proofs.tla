-------------------------- MODULE FrontEnds_proofs --------------------------
(***************************************************************************)
(* What is proved of the front ends outside the plug-in: the window of Free *)
(* Studio for any number of analyses and profile directories, its settings  *)
(* dialog for any providers, URLs, keys and edits, and the replay of        *)
(* recorded answers for any inputs and batches.  At the end these and the   *)
(* modules of the batch and the corpus pack are put together.               *)
(***************************************************************************)
EXTENDS MCFrontEnds, IdaBatch_proofs, KernelPack_proofs

-----------------------------------------------------------------------------
(* The window: its invariant.                                               *)

UnderWay == {"created", "loading"} \cup InScope
Past == {"ended", "quit", "gone"}
Outcomes == {"completed", "failed", "cancelled"}
Signals == Runs \X {"completed", "failed", "cancelled", "quit", "finished"}
IsOutcome(i) == posted[i][2] \in Outcomes

(* What is under way, or lost before it began, is the run started last, and *)
(* the window is busy with it.                                              *)
OneUnderWay ==
    /\ \A r \in Runs : stage[r] = "unborn" <=> r > started
    /\ \A r \in Runs : stage[r] \in UnderWay \cup {"lost"} => busy /\ r = started

(* Of the outcomes at most one is in the queue, of the run the window waits *)
(* for.                                                                     *)
OneOutcome ==
    \A i \in DOMAIN posted : IsOutcome(i) =>
        /\ busy /\ posted[i][1] = started
        /\ \A j \in DOMAIN posted : IsOutcome(j) => i = j

(* A run that was stopped in time is not past its last checkpoint.          *)
StoppedInTime ==
    \A r \in Runs : early[r] =>
        /\ stage[r] \in ({"lost", "created", "loading"} \cup Checked) \cup Past
        /\ stage[r] \in UnderWay => cancel[r]
        /\ \A i \in DOMAIN posted : posted[i] # <<r, "completed">>

(* A scope restores the profile directory of the start, and a save holds    *)
(* the main thread while nothing is under way.                              *)
Scopes ==
    /\ busy => result = NoRun
    /\ saving => ~busy /\ ~modal /\ result # NoRun /\ previous[NoRun] = Default
    /\ \A r \in Runs : stage[r] \in InScope => previous[r] = Default

WindowInv ==
    /\ WindowTypeOK /\ OneUnderWay /\ OneOutcome /\ StoppedInTime /\ Scopes
    /\ ShownResultIsWanted /\ ProfileOfScope

-----------------------------------------------------------------------------
LEMMA TwoAdded ==
    ASSUME NEW S, NEW q \in Seq(S), NEW a \in S, NEW b \in S
    PROVE  /\ q \o <<a, b>> \in Seq(S)
           /\ \A i \in DOMAIN (q \o <<a, b>>) :
                \/ i \in DOMAIN q /\ (q \o <<a, b>>)[i] = q[i]
                \/ i = Len(q) + 1 /\ (q \o <<a, b>>)[i] = a
                \/ i = Len(q) + 2 /\ (q \o <<a, b>>)[i] = b
OBVIOUS

LEMMA OneAdded ==
    ASSUME NEW S, NEW q \in Seq(S), NEW a \in S
    PROVE  /\ Append(q, a) \in Seq(S)
           /\ \A i \in DOMAIN Append(q, a) :
                \/ i \in DOMAIN q /\ Append(q, a)[i] = q[i]
                \/ i = Len(q) + 1 /\ Append(q, a)[i] = a
OBVIOUS

LEMMA FirstTaken ==
    ASSUME NEW S, NEW q \in Seq(S), q # <<>>
    PROVE  /\ Tail(q) \in Seq(S)
           /\ 1 \in DOMAIN q /\ Head(q) = q[1]
           /\ \A i \in DOMAIN Tail(q) : i + 1 \in DOMAIN q /\ Tail(q)[i] = q[i + 1] /\ i + 1 # 1
OBVIOUS

LEMMA WindowInit == StudioInit => WindowInv
<1> SUFFICES ASSUME StudioInit PROVE WindowInv
  OBVIOUS
<1> USE StudioAssumption DEF StudioInit, Runs, NoRun
<1>1. posted \in Seq(Signals) /\ DOMAIN posted = {}
  OBVIOUS
<1>2. WindowTypeOK
  BY <1>1 DEF WindowTypeOK, Signals, Stages
<1>3. OneUnderWay /\ OneOutcome /\ StoppedInTime
  BY <1>1 DEF OneUnderWay, OneOutcome, StoppedInTime, UnderWay, InScope, Checked
<1>4. Scopes /\ ShownResultIsWanted /\ ProfileOfScope
  BY DEF Scopes, ShownResultIsWanted, ProfileOfScope, InScope, Checked
<1> QED
  BY <1>2, <1>3, <1>4 DEF WindowInv

LEMMA UserSteps == WindowInv /\ User => WindowInv'
<1> SUFFICES ASSUME WindowInv, User PROVE WindowInv'
  OBVIOUS
<1> USE StudioAssumption DEF WindowInv, Idle, window, Runs, NoRun
<1>1. ASSUME NEW p \in Profiles, Settings(p) PROVE WindowInv'
  BY <1>1 DEF Settings, WindowTypeOK, OneOutcome, IsOutcome, OneUnderWay, StoppedInTime,
              Scopes, ShownResultIsWanted, ProfileOfScope
<1>2. CASE NewInput
  BY <1>2 DEF NewInput, WindowTypeOK, OneOutcome, IsOutcome, OneUnderWay, StoppedInTime,
              Scopes, ShownResultIsWanted, ProfileOfScope
<1>3. CASE ClickAnalyze
  <2> USE <1>3 DEF ClickAnalyze
  <2>1. WindowTypeOK'
    BY DEF WindowTypeOK, Stages, OneUnderWay
  <2>2. OneOutcome'
    BY DEF OneOutcome, IsOutcome
  <2>3. OneUnderWay'
    BY DEF WindowTypeOK, OneUnderWay, UnderWay, InScope, Checked
  <2>4. StoppedInTime'
    BY DEF WindowTypeOK, StoppedInTime, OneUnderWay, UnderWay, InScope, Checked, Past
  <2>5. Scopes' /\ ShownResultIsWanted'
    BY DEF WindowTypeOK, Scopes, ShownResultIsWanted, InScope, Checked
  <2>6. ProfileOfScope'
    BY DEF WindowTypeOK, Scopes, OneUnderWay, ProfileOfScope, InScope, Checked
  <2> QED
    BY <2>1, <2>2, <2>3, <2>4, <2>5, <2>6
<1>4. CASE Stop
  <2> USE <1>4 DEF Stop
  <2>1. WindowTypeOK' /\ OneOutcome' /\ OneUnderWay'
    BY DEF WindowTypeOK, OneOutcome, IsOutcome, OneUnderWay
  <2>2. StoppedInTime'
    <3>1. ASSUME NEW r \in Runs, NEW i \in DOMAIN posted, posted[i] = <<r, "completed">>
          PROVE  stage[r] \in Past
      BY <3>1 DEF WindowTypeOK, Past
    <3>2. ASSUME NEW r \in Runs, early[r]', ~early[r]
          PROVE  r = worker /\ cancel'[r] /\ stage[r] \in {"created", "loading"} \cup Checked
      BY <3>2 DEF WindowTypeOK
    <3>3. \A r \in Runs : cancel[r] => cancel'[r]
      BY DEF WindowTypeOK
    <3> QED
      BY <3>1, <3>2, <3>3 DEF StoppedInTime, UnderWay, InScope, Checked, Past
  <2>3. Scopes' /\ ShownResultIsWanted' /\ ProfileOfScope'
    BY DEF WindowTypeOK, Scopes, ShownResultIsWanted, ProfileOfScope
  <2> QED
    BY <2>1, <2>2, <2>3
<1>5. CASE SaveBegins
  BY <1>5 DEF SaveBegins, WindowTypeOK, OneOutcome, IsOutcome, OneUnderWay, StoppedInTime,
              Scopes, ShownResultIsWanted, ProfileOfScope, UnderWay
<1>6. CASE SaveEnds
  BY <1>6 DEF SaveEnds, WindowTypeOK, OneOutcome, IsOutcome, OneUnderWay, StoppedInTime,
              Scopes, ShownResultIsWanted, ProfileOfScope, UnderWay
<1>7. CASE CloseBox
  BY <1>7 DEF CloseBox, WindowTypeOK, OneOutcome, IsOutcome, OneUnderWay, StoppedInTime,
              Scopes, ShownResultIsWanted, ProfileOfScope
<1> QED
  BY <1>1, <1>2, <1>3, <1>4, <1>5, <1>6, <1>7 DEF User

(* A step of a thread that reports nothing.                                 *)
LEMMA QuietSteps ==
    ASSUME WindowInv, NEW r \in Runs, RunBegins(r) \/ EnterScope(r) \/ Checkpoint(r)
    PROVE  WindowInv'
<1> USE StudioAssumption DEF WindowInv, window, Runs, NoRun, To
<1>1. PICK s \in {"loading", "write"} \cup Checked :
        /\ UNCHANGED <<window, saving, wants, cancel, early, posted>>
        /\ stage' = [stage EXCEPT ![r] = s]
        /\ stage[r] \in {"created", "loading"} \cup Checked
        /\ s = "write" => ~cancel[r]
        /\ \/ stage[r] = "created" /\ s = "loading" /\ UNCHANGED <<previous, profile>>
           \/ /\ stage[r] = "loading" /\ s = "input"
              /\ previous' = [previous EXCEPT ![r] = profile] /\ profile' = wants[r]
           \/ stage[r] \in Checked /\ s \in InScope /\ UNCHANGED <<previous, profile>>
  BY DEF RunBegins, EnterScope, Checkpoint, NextStep, Checked, InScope
<1>2. stage[r] \in UnderWay /\ busy /\ r = started /\ ~saving /\ result = NoRun
  BY <1>1 DEF UnderWay, InScope, OneUnderWay, Scopes
<1>3. WindowTypeOK'
  <2>1. stage' \in [Runs -> Stages]
    BY <1>1 DEF WindowTypeOK, Stages, InScope, Checked
  <2>2. profile' \in Profiles /\ previous' \in [Runs \cup {NoRun} -> Profiles]
    <3>1. profile \in Profiles /\ wants[r] \in Profiles /\ previous \in [Runs \cup {NoRun} -> Profiles]
      BY DEF WindowTypeOK
    <3> QED
      BY <1>1, <3>1
  <2>3. \A i \in DOMAIN posted : posted[i][1] # r
    BY <1>1 DEF WindowTypeOK, Checked
  <2>4. \A i \in DOMAIN posted : posted[i][1] \in Runs
    BY DEF WindowTypeOK
  <2> QED
    BY <1>1, <2>1, <2>2, <2>3, <2>4 DEF WindowTypeOK
<1>4. OneOutcome'
  BY <1>1 DEF OneOutcome, IsOutcome
<1>5. OneUnderWay'
  BY <1>1, <1>2 DEF WindowTypeOK, OneUnderWay, UnderWay, InScope, Checked
<1>6. StoppedInTime'
  BY <1>1, <1>2 DEF WindowTypeOK, StoppedInTime, UnderWay, InScope, Checked, Past
<1>7. \A q \in Runs : q # r => stage[q] \notin InScope /\ stage'[q] = stage[q]
  BY <1>1, <1>2 DEF WindowTypeOK, OneUnderWay, UnderWay
<1>8. Scopes' /\ ShownResultIsWanted' /\ ProfileOfScope'
  BY <1>1, <1>2, <1>7 DEF WindowTypeOK, Scopes, ShownResultIsWanted, ProfileOfScope, InScope, Checked
<1> QED
  BY <1>3, <1>4, <1>5, <1>6, <1>8

(* The step that ends a run leaves its scope and posts its outcome.         *)
LEMMA EndingSteps ==
    ASSUME WindowInv, NEW r \in Runs, Cancelled(r) \/ Fails(r) \/ Completes(r)
    PROVE  WindowInv'
<1> USE StudioAssumption DEF WindowInv, window, Runs, NoRun, To
<1>1. PICK kind \in Outcomes :
        /\ UNCHANGED <<window, saving, wants, previous, cancel, early>>
        /\ stage' = [stage EXCEPT ![r] = "ended"]
        /\ Emit(r, kind) /\ LeaveScope(r)
        /\ stage[r] \in UnderWay
        /\ kind = "completed" => ~early[r]
  BY DEF Cancelled, Fails, Completes, Raise, Outcomes, UnderWay, InScope, Checked, StoppedInTime, Past
<1>2. busy /\ r = started /\ ~saving /\ result = NoRun
  BY <1>1 DEF OneUnderWay, Scopes
<1>3. /\ posted' \in Seq(Signals)
      /\ \A i \in DOMAIN posted' :
            \/ i \in DOMAIN posted /\ posted'[i] = posted[i]
            \/ i = Len(posted) + 1 /\ posted'[i] = <<r, kind>>
            \/ posted'[i] = <<r, "quit">>
  <2>1. <<r, kind>> \in Signals /\ <<r, "quit">> \in Signals /\ posted \in Seq(Signals)
    BY DEF Signals, Outcomes, WindowTypeOK
  <2> QED
    BY <1>1, <2>1, TwoAdded DEF Emit
<1>4. \A i \in DOMAIN posted : posted[i][1] \in Runs \ {r} /\ ~IsOutcome(i)
  <2>1. \A i \in DOMAIN posted : posted[i][1] \in Runs /\ stage[posted[i][1]] \in Past
    BY DEF WindowTypeOK, Past
  <2>2. stage[r] \notin Past
    BY <1>1 DEF UnderWay, InScope, Checked, Past
  <2> QED
    BY <1>2, <2>1, <2>2 DEF OneOutcome
<1>5. WindowTypeOK'
  <2>1. stage' \in [Runs -> Stages]
    BY <1>1 DEF WindowTypeOK, Stages
  <2>2. ASSUME NEW i \in DOMAIN posted' PROVE stage'[posted'[i][1]] \in Past
    BY <1>1, <1>3, <1>4 DEF WindowTypeOK, Past
  <2>3. profile' \in Profiles
    BY <1>1 DEF LeaveScope, WindowTypeOK
  <2> QED
    BY <1>1, <1>3, <2>1, <2>2, <2>3 DEF WindowTypeOK, Signals, Past
<1>6. OneOutcome'
  <2>1. \A i \in DOMAIN posted' : posted'[i][2] \in Outcomes => i = Len(posted) + 1 /\ posted'[i][1] = r
    BY <1>3, <1>4 DEF IsOutcome, Outcomes
  <2> QED
    BY <1>1, <1>2, <2>1 DEF OneOutcome, IsOutcome
<1>7. OneUnderWay'
  BY <1>1, <1>2 DEF WindowTypeOK, OneUnderWay, UnderWay, InScope, Checked
<1>8. StoppedInTime'
  <2>1. ASSUME NEW q \in Runs, early[q], NEW i \in DOMAIN posted', posted'[i] = <<q, "completed">>
        PROVE  FALSE
    <3>1. CASE i \in DOMAIN posted /\ posted'[i] = posted[i]
      BY <2>1, <3>1 DEF StoppedInTime
    <3>2. CASE posted'[i] = <<r, kind>>
      <4>1. q = r /\ kind = "completed"
        BY <2>1, <3>2
      <4> QED
        BY <1>1, <2>1, <4>1
    <3>3. CASE posted'[i] = <<r, "quit">>
      BY <2>1, <3>3
    <3> QED
      BY <1>3, <3>1, <3>2, <3>3
  <2> QED
    BY <1>1, <2>1 DEF WindowTypeOK, StoppedInTime, UnderWay, InScope, Checked, Past
<1>9. \A q \in Runs : stage'[q] \notin InScope
  BY <1>1, <1>2 DEF WindowTypeOK, OneUnderWay, UnderWay, InScope, Checked
<1>10. Scopes' /\ ShownResultIsWanted'
  BY <1>1, <1>2, <1>9 DEF Scopes, ShownResultIsWanted
<1>11. ProfileOfScope'
  <2>1. profile' = Default
    <3>1. CASE stage[r] \in InScope
      BY <1>1, <3>1 DEF LeaveScope, Scopes
    <3>2. CASE stage[r] \notin InScope
      BY <1>1, <1>2, <3>2 DEF LeaveScope, OneUnderWay, UnderWay, ProfileOfScope
    <3> QED
      BY <3>1, <3>2
  <2> QED
    BY <1>1, <1>2, <1>9, <2>1 DEF ProfileOfScope
<1> QED
  BY <1>5, <1>6, <1>7, <1>8, <1>10, <1>11

LEMMA ThreadExitsKeeps ==
    ASSUME WindowInv, NEW r \in Runs, ThreadExits(r)
    PROVE  WindowInv'
<1> USE StudioAssumption DEF WindowInv, ThreadExits, To, window, Runs, NoRun
<1>1. /\ posted' \in Seq(Signals)
      /\ \A i \in DOMAIN posted' :
            \/ i \in DOMAIN posted /\ posted'[i] = posted[i]
            \/ posted'[i] = <<r, "finished">>
  <2>1. <<r, "finished">> \in Signals /\ posted \in Seq(Signals)
    BY DEF Signals, WindowTypeOK
  <2> QED
    BY <2>1, OneAdded
<1>2. \A i \in DOMAIN posted : posted[i][1] \in Runs /\ stage[posted[i][1]] \in Past
  BY DEF WindowTypeOK, Past
<1>3. WindowTypeOK'
  <2>1. stage' \in [Runs -> Stages]
    BY DEF WindowTypeOK, Stages
  <2>2. ASSUME NEW i \in DOMAIN posted' PROVE stage'[posted'[i][1]] \in Past
    BY <1>1, <1>2 DEF WindowTypeOK, Past
  <2> QED
    BY <1>1, <2>1, <2>2 DEF WindowTypeOK, Signals, Past
<1>4. OneOutcome'
  <2>1. \A i \in DOMAIN posted' : posted'[i][2] \in Outcomes => i \in DOMAIN posted /\ posted'[i] = posted[i]
    BY <1>1 DEF Outcomes
  <2> QED
    BY <2>1 DEF OneOutcome, IsOutcome
<1>5. OneUnderWay'
  BY DEF WindowTypeOK, OneUnderWay, UnderWay, InScope, Checked
<1>6. StoppedInTime'
  <2>1. ASSUME NEW q \in Runs, early[q], NEW i \in DOMAIN posted', posted'[i] = <<q, "completed">>
        PROVE  FALSE
    <3>1. i \in DOMAIN posted /\ posted[i] = <<q, "completed">>
      BY <1>1, <2>1
    <3> QED
      BY <2>1, <3>1 DEF StoppedInTime
  <2> QED
    BY <2>1 DEF WindowTypeOK, StoppedInTime, UnderWay, InScope, Checked, Past
<1>7. \A q \in Runs : stage'[q] \in InScope <=> stage[q] \in InScope
  BY DEF WindowTypeOK, InScope, Checked
<1>8. Scopes' /\ ShownResultIsWanted' /\ ProfileOfScope'
  BY <1>7 DEF Scopes, ShownResultIsWanted, ProfileOfScope
<1> QED
  BY <1>3, <1>4, <1>5, <1>6, <1>8

(* A slot takes the first signal.                                           *)
LEMMA SlotSteps ==
    ASSUME WindowInv, NEW r \in Runs, Slot(r)
    PROVE  WindowInv'
<1> USE StudioAssumption DEF WindowInv, Runs, NoRun
<1> DEFINE Takes(kind) ==
      /\ Handle(kind, r)
      /\ busy' = IF kind \in Outcomes THEN FALSE ELSE busy
      /\ result' = IF kind = "completed" THEN r ELSE result
      /\ worker' \in {worker, NoRun} /\ modal' \in {modal, TRUE}
      /\ stage' \in [Runs -> Stages]
      /\ \A q \in Runs :
            \/ stage'[q] = stage[q]
            \/ stage[q] = "ended" /\ stage'[q] = "quit"
            \/ stage[q] = "created" /\ stage'[q] = "lost"
<1>0. stage \in [Runs -> Stages]
  BY DEF WindowTypeOK
<1>1. PICK kind \in Outcomes \cup {"quit", "finished"} : Takes(kind)
  <2>1. CASE AnalysisCompleted(r)
    BY <1>0, <2>1 DEF AnalysisCompleted, Outcomes
  <2>2. CASE AnalysisFailed(r)
    BY <1>0, <2>2 DEF AnalysisFailed, Outcomes
  <2>3. CASE AnalysisCancelled(r)
    BY <1>0, <2>3 DEF AnalysisCancelled, Outcomes
  <2>4. CASE Quit(r)
    BY <1>0, <2>4 DEF Quit, Outcomes, Stages
  <2>5. CASE ClearWorker(r)
    BY <1>0, <2>5 DEF ClearWorker, Outcomes, Stages
  <2> QED
    BY <2>1, <2>2, <2>3, <2>4, <2>5 DEF Slot
<1>2. /\ posted' \in Seq(Signals)
      /\ 1 \in DOMAIN posted /\ posted[1] = <<r, kind>>
      /\ \A i \in DOMAIN posted' : i + 1 \in DOMAIN posted /\ posted'[i] = posted[i + 1] /\ i + 1 # 1
  <2>1. posted \in Seq(Signals)
    BY DEF WindowTypeOK, Signals
  <2> QED
    BY <1>1, <2>1, FirstTaken DEF Handle
<1>3. \A i \in DOMAIN posted : posted[i][1] \in Runs /\ stage[posted[i][1]] \in Past
  BY DEF WindowTypeOK, Past
<1>4. /\ ~saving
      /\ UNCHANGED <<saving, wants, previous, cancel, early, profile, setting, started>>
  BY <1>1 DEF Handle
<1>5. WindowTypeOK'
  <2>1. ASSUME NEW i \in DOMAIN posted' PROVE stage'[posted'[i][1]] \in Past
    BY <1>1, <1>2, <1>3 DEF Past
  <2>2. {busy', modal'} \subseteq BOOLEAN /\ {worker', result'} \subseteq Runs \cup {NoRun}
    <3>1. busy \in BOOLEAN /\ modal \in BOOLEAN
      BY DEF WindowTypeOK
    <3>2. worker \in Runs \cup {NoRun} /\ result \in Runs \cup {NoRun}
      BY DEF WindowTypeOK
    <3>3. busy' \in BOOLEAN /\ modal' \in BOOLEAN
      BY <1>1, <3>1
    <3>4. worker' \in Runs \cup {NoRun} /\ result' \in Runs \cup {NoRun}
      BY <1>1, <3>2
    <3> QED
      BY <3>3, <3>4
  <2> QED
    BY <1>1, <1>2, <1>4, <2>1, <2>2 DEF WindowTypeOK, Signals, Past
<1>6. kind \in Outcomes =>
        /\ busy /\ r = started
        /\ \A i \in DOMAIN posted : IsOutcome(i) => i = 1
  BY <1>2 DEF OneOutcome, IsOutcome
<1>7. OneOutcome'
  <2>1. ASSUME NEW i \in DOMAIN posted', posted'[i][2] \in Outcomes
        PROVE  IsOutcome(i + 1) /\ kind \notin Outcomes /\ posted'[i][1] = started /\ busy
    BY <1>2, <1>6, <2>1 DEF OneOutcome, IsOutcome
  <2>2. ASSUME NEW i \in DOMAIN posted', NEW j \in DOMAIN posted', IsOutcome(i + 1), IsOutcome(j + 1)
        PROVE  i = j
    <3>1. i + 1 = j + 1 /\ i \in Nat /\ j \in Nat
      BY <1>2, <2>2 DEF OneOutcome
    <3> QED
      BY <3>1
  <2> QED
    BY <1>1, <1>4, <2>1, <2>2 DEF OneOutcome, IsOutcome
<1>8. OneUnderWay'
  <2>1. kind \in Outcomes => stage[started] \in Past
    BY <1>2, <1>3, <1>6
  <2>2. \A q \in Runs : stage'[q] \in UnderWay \cup {"lost"} => stage[q] \in UnderWay \cup {"lost"}
    BY <1>1 DEF UnderWay, InScope, Checked
  <2>3. \A q \in Runs : stage'[q] = "unborn" <=> stage[q] = "unborn"
    BY <1>1
  <2>4. \A q \in Runs : stage[q] \in UnderWay \cup {"lost"} => stage[q] \notin Past
    BY DEF UnderWay, InScope, Checked, Past
  <2> QED
    BY <1>1, <1>4, <2>1, <2>2, <2>3, <2>4 DEF OneUnderWay
<1>9. StoppedInTime'
  <2>1. ASSUME NEW q \in Runs, early[q], NEW i \in DOMAIN posted', posted'[i] = <<q, "completed">>
        PROVE  FALSE
    BY <1>2, <2>1 DEF StoppedInTime
  <2> QED
    BY <1>1, <1>4, <2>1 DEF StoppedInTime, UnderWay, InScope, Checked, Past
<1>10. \A q \in Runs : stage'[q] \in InScope <=> stage[q] \in InScope
  BY <1>1 DEF InScope, Checked
<1>11. Scopes' /\ ShownResultIsWanted' /\ ProfileOfScope'
  <2>1. kind = "completed" => ~early[r]
    BY <1>2 DEF StoppedInTime
  <2> QED
    BY <1>1, <1>4, <1>6, <1>10, <2>1 DEF Scopes, ShownResultIsWanted, ProfileOfScope, Outcomes
<1> QED
  BY <1>5, <1>7, <1>8, <1>9, <1>11

LEMMA WindowSteps == WindowInv /\ [StudioNext]_studioVars => WindowInv'
<1> SUFFICES ASSUME WindowInv, [StudioNext]_studioVars PROVE WindowInv'
  OBVIOUS
<1>1. CASE UNCHANGED studioVars
  BY <1>1 DEF studioVars, window, WindowInv, WindowTypeOK, OneUnderWay, OneOutcome, IsOutcome, StoppedInTime,
              Scopes, ShownResultIsWanted, ProfileOfScope
<1>2. ASSUME NEW r \in Runs, ThreadStep(r) PROVE WindowInv'
  BY <1>2, QuietSteps, EndingSteps, ThreadExitsKeeps DEF ThreadStep
<1> QED
  BY <1>1, <1>2, UserSteps, SlotSteps DEF StudioNext

(* What the window shows is the result of the analysis started last, and    *)
(* never one that was stopped before its last checkpoint, whatever signals  *)
(* of earlier runs arrive late (_clear_current_result).                     *)
THEOREM ShownIsWanted == StudioSpec => []ShownResultIsWanted
<1>1. WindowInv => ShownResultIsWanted
  BY DEF WindowInv
<1> QED
  BY <1>1, WindowInit, WindowSteps, PTL DEF StudioSpec

(* Whoever reads profiles reads those of its own run's options, in every    *)
(* order of workers and saves (_configured_profile_scope).                  *)
THEOREM ProfileFollowsScope == StudioSpec => []ProfileOfScope
<1>1. WindowInv => ProfileOfScope
  BY DEF WindowInv
<1> QED
  BY <1>1, WindowInit, WindowSteps, PTL DEF StudioSpec

(* What finding 4 needs: Stop loses the run under way in no other step than *)
(* the slot _clear_worker of an earlier run, whose thread finishes late.    *)
OnlyALateThreadLosesStop ==
    [][StopReachesTheRun /\ ~StopReachesTheRun' => \E r \in Runs : r < started /\ ClearWorker(r)]_studioVars

LEMMA StopIsKept ==
    ASSUME WindowInv, WindowInv', StudioNext, StopReachesTheRun, ~StopReachesTheRun'
    PROVE  \E r \in Runs : r < started /\ ClearWorker(r)
<1> USE DEF WindowInv, WindowTypeOK, StopReachesTheRun
<1>1. ~User
  <2> SUFFICES ASSUME User PROVE FALSE
    OBVIOUS
  <2>1. started' # started => worker' = started'
    BY DEF User, Settings, NewInput, ClickAnalyze, Stop, SaveBegins, SaveEnds, CloseBox, window
  <2>2. started' = started => worker' = worker /\ busy' = busy /\ stage' = stage
    BY DEF User, Settings, NewInput, ClickAnalyze, Stop, SaveBegins, SaveEnds, CloseBox, window,
           Runs, NoRun
  <2> QED
    BY <2>1, <2>2
<1>2. \A r \in Runs : ~ThreadStep(r)
  <2> SUFFICES ASSUME NEW r \in Runs, ThreadStep(r) PROVE FALSE
    OBVIOUS
  <2>1. UNCHANGED window /\ stage[r] \in UnderWay \cup {"quit"}
    BY DEF ThreadStep, RunBegins, EnterScope, Checkpoint, Cancelled, Fails, Completes, ThreadExits, Raise,
           UnderWay, InScope, Checked
  <2>2. \E s : stage' = [stage EXCEPT ![r] = s]
    BY DEF ThreadStep, RunBegins, EnterScope, Checkpoint, Cancelled, Fails, Completes, ThreadExits, Raise, To
  <2>3. stage[r] = "quit" => stage'[r] = "gone"
    BY DEF ThreadStep, RunBegins, EnterScope, Checkpoint, Cancelled, Fails, Completes, ThreadExits, Raise, To,
           InScope, Checked
  <2>4. started \in Runs /\ stage'[started] \in UnderWay /\ busy /\ worker # started
    BY <2>1 DEF window, UnderWay, Runs, NoRun
  <2>5. started' = started /\ busy' = busy /\ worker' = worker
    BY <2>1 DEF window
  <2>6. stage[started] \notin UnderWay
    BY <2>4, <2>5 DEF UnderWay
  <2>7. r = started
    BY <2>2, <2>4, <2>6
  <2> QED
    BY <2>1, <2>3, <2>4, <2>6, <2>7 DEF UnderWay, InScope, Checked
<1>3. PICK r \in Runs : Slot(r)
  BY <1>1, <1>2 DEF StudioNext
<1>4. ClearWorker(r)
  <2>1. busy' /\ worker' # started' /\ started' > 0 /\ stage'[started'] \in {"created", "loading"} \cup InScope
    OBVIOUS
  <2>2. ~(AnalysisCompleted(r) \/ AnalysisFailed(r) \/ AnalysisCancelled(r))
    BY <2>1 DEF AnalysisCompleted, AnalysisFailed, AnalysisCancelled
  <2>3. ASSUME Quit(r) PROVE FALSE
    <3>1. busy' = busy /\ worker' = worker /\ started' = started
      BY <2>3 DEF Quit, Handle
    <3>2. started \in Runs
      BY <2>1, <3>1 DEF Runs, NoRun
    <3>3. stage'[started] \in {stage[started], "quit"}
      BY <2>3, <3>2 DEF Quit
    <3> QED
      BY <2>1, <3>1, <3>3 DEF InScope, Checked
  <2> QED
    BY <1>3, <2>2, <2>3 DEF Slot
<1>5. stage[r] \in Past /\ started' = started /\ busy' = busy
  BY <1>4 DEF ClearWorker, Handle, Past
<1>6. started \in Runs /\ stage[started] \in UnderWay /\ stage[r] # "unborn"
  BY <1>4, <1>5 DEF ClearWorker, Handle, UnderWay, Past, Runs, NoRun, InScope, Checked
<1>7. r <= started /\ r # started
  BY <1>5, <1>6 DEF OneUnderWay, Past, UnderWay, InScope, Checked, Runs
<1> QED
  BY <1>4, <1>6, <1>7 DEF Runs

(* _clear_worker is the one way to lose Stop: while the run started last is *)
(* under way, no click, checkpoint or other signal takes its worker from    *)
(* the window, and the _clear_worker that does is that of an earlier run.   *)
THEOREM OnlyLateThreadsLoseStop == StudioSpec => OnlyALateThreadLosesStop
<1>1. WindowInv /\ WindowInv' /\ [StudioNext]_studioVars
         => [StopReachesTheRun /\ ~StopReachesTheRun'
                => \E r \in Runs : r < started /\ ClearWorker(r)]_studioVars
  BY StopIsKept
<1> QED
  BY <1>1, WindowInit, WindowSteps, PTL DEF StudioSpec, OnlyALateThreadLosesStop

-----------------------------------------------------------------------------
(* The settings dialog.                                                     *)

(* The list is one of the provider; a look-up that can still be answered    *)
(* asks what the fields say, or the timer is going to start another one.    *)
CatalogOfProvider == catalog.provider = provider

LookupsAskTheFields ==
    \A l \in lookups : l.gen = gen =>
        /\ open /\ provider \in Http
        /\ ~timer => l.source = [provider |-> provider, url |-> url, key |-> key]

DialogInv == DialogTypeOK /\ CatalogOfProvider /\ LookupsAskTheFields /\ SettledCatalog

LEMMA StaticIsASource ==
    ASSUME NEW p \in Providers
    PROVE  /\ Static(p) \in Sources /\ <<p, "default">> \in Models
           /\ DefaultUrlOf(p) \in Urls \cup {NoUrl}
BY DialogAssumption DEF Static, Sources, Models, DefaultUrlOf

(* No look-up under way carries the next generation.                        *)
LEMMA NextGeneration ==
    ASSUME DialogTypeOK
    PROVE  /\ gen + 1 \in Nat
           /\ lookups \subseteq [gen : 1..(gen + 1), source : Sources]
           /\ \A l \in lookups : l.gen # gen + 1
<1>1. gen \in Nat /\ \A l \in lookups : l \in [gen : 1..gen, source : Sources]
  BY DEF DialogTypeOK
<1> QED
  BY <1>1

LEMMA DialogInitHolds == DialogInit => DialogInv
<1> SUFFICES ASSUME DialogInit PROVE DialogInv
  OBVIOUS
<1> USE DialogAssumption DEF DialogInit
<1>1. Static(provider) \in Sources /\ <<provider, "default">> \in Models
  BY StaticIsASource
<1>2. url \in Urls \cup {NoUrl} /\ key \in Keys
  OBVIOUS
<1>3. DialogTypeOK
  <2>1. open \in BOOLEAN /\ refresh \in BOOLEAN /\ timer \in BOOLEAN
    OBVIOUS
  <2>2. gen \in Nat /\ edits \in 0..MaxEdits
    OBVIOUS
  <2> QED
    BY <1>1, <1>2, <2>1, <2>2 DEF DialogTypeOK
<1>4. CatalogOfProvider /\ LookupsAskTheFields /\ SettledCatalog
  BY DEF CatalogOfProvider, LookupsAskTheFields, SettledCatalog, Static
<1> QED
  BY <1>3, <1>4 DEF DialogInv

LEMMA StartLookupKeeps ==
    ASSUME DialogInv, open, provider \in Http, StartLookup, edits' \in 0..MaxEdits
    PROVE  DialogInv'
<1> USE DEF DialogInv, StartLookup
<1> DEFINE new == [gen |-> gen', source |-> [provider |-> provider, url |-> url, key |-> key]]
<1>1. new \in [gen : 1..(gen + 1), source : Sources]
  <2>1. provider \in Providers /\ url \in Urls \cup {NoUrl} /\ key \in Keys /\ gen \in Nat
    BY DEF DialogTypeOK
  <2> QED
    BY <2>1 DEF Sources
<1>2. \A l \in lookups : l.gen # gen'
  BY NextGeneration
<1>3. DialogTypeOK'
  <2>1. lookups' \subseteq [gen : 1..gen', source : Sources] /\ gen' \in Nat
    BY <1>1, NextGeneration
  <2> QED
    BY <2>1 DEF DialogTypeOK
<1>4. CatalogOfProvider' /\ LookupsAskTheFields'
  BY <1>2 DEF CatalogOfProvider, LookupsAskTheFields
<1>5. new \in lookups' /\ new.gen = gen'
  OBVIOUS
<1>6. SettledCatalog'
  BY <1>5 DEF SettledCatalog
<1> QED
  BY <1>3, <1>4, <1>6

(* The provider, the base URL or the key changes: the timer starts, or, for *)
(* a CLI provider, what is under way becomes stale.                         *)
LEMMA FieldEditsKeep ==
    ASSUME DialogInv, Edit, NEW p \in Providers, Schedule(p),
           UNCHANGED <<open, lookups>>,
           provider' = p, url' \in Urls \cup {NoUrl}, key' \in Keys,
           \/ UNCHANGED <<provider, model, catalog, refresh>> /\ p \in Http
           \/ model' = <<p, "default">> /\ catalog' = Static(p) /\ refresh' = (p \in Http)
    PROVE  DialogInv'
<1> USE DEF DialogInv, Schedule, Edit
<1>1. gen' \in Nat /\ lookups' \subseteq [gen : 1..gen', source : Sources]
  BY NextGeneration DEF DialogTypeOK
<1>2. model' \in Models /\ catalog' \in Sources /\ model'[1] = provider'
  BY StaticIsASource DEF DialogTypeOK
<1>3. CatalogOfProvider'
  BY DEF CatalogOfProvider, Static
<1>4. DialogTypeOK'
  <2>1. open' \in BOOLEAN /\ refresh' \in BOOLEAN /\ timer' \in BOOLEAN
    <3>1. open \in BOOLEAN /\ refresh \in BOOLEAN
      BY DEF DialogTypeOK
    <3>2. open' \in BOOLEAN
      BY <3>1
    <3>3. refresh' = refresh \/ refresh' = (p \in Http)
      OBVIOUS
    <3>4. refresh' \in BOOLEAN
      <4>1. CASE refresh' = refresh
        BY <3>1, <4>1
      <4>2. CASE refresh' = (p \in Http)
        BY <4>2
      <4> QED
        BY <3>3, <4>1, <4>2
    <3>5. timer' = (p \in Http)
      OBVIOUS
    <3>6. timer' \in BOOLEAN
      BY <3>5
    <3> QED
      BY <3>2, <3>4, <3>6
  <2>2. edits' \in 0..MaxEdits
    BY DialogAssumption DEF DialogTypeOK
  <2>3. timer' => open' /\ provider' \in Http
    OBVIOUS
  <2> QED
    BY <1>1, <1>2, <2>1, <2>2, <2>3 DEF DialogTypeOK
<1>5. p \notin Http => \A l \in lookups' : l.gen # gen'
  BY NextGeneration
<1>6. LookupsAskTheFields'
  BY <1>5 DEF LookupsAskTheFields
<1>7. SettledCatalog'
  BY <1>5 DEF SettledCatalog, DialogTypeOK
<1> QED
  BY <1>3, <1>4, <1>6, <1>7

LEMMA DialogSteps == DialogInv /\ [DialogNext]_dialog => DialogInv'
<1> SUFFICES ASSUME DialogInv, [DialogNext]_dialog PROVE DialogInv'
  OBVIOUS
<1> USE DEF DialogInv
<1>1. ASSUME NEW p \in Providers, NEW k \in Keys, ProviderChanged(p, k) PROVE DialogInv'
  BY <1>1, StaticIsASource, FieldEditsKeep DEF ProviderChanged
<1>2. ASSUME NEW u \in Urls, EditUrl(u) PROVE DialogInv'
  <2>1. provider \in Providers /\ key \in Keys
    BY DEF DialogTypeOK
  <2> QED
    BY <1>2, <2>1, FieldEditsKeep DEF EditUrl
<1>3. ASSUME NEW k \in Keys, EditKey(k) PROVE DialogInv'
  <2>1. provider \in Providers /\ url \in Urls \cup {NoUrl}
    BY DEF DialogTypeOK
  <2> QED
    BY <1>3, <2>1, FieldEditsKeep, DialogAssumption DEF EditKey
<1>4. CASE PickModel
  BY <1>4 DEF PickModel, DialogTypeOK, CatalogOfProvider, LookupsAskTheFields, SettledCatalog, Current, Models
<1>5. CASE RefreshNow
  <2>1. open /\ edits' \in 0..MaxEdits
    BY <1>5, DialogAssumption DEF RefreshNow, Edit, DialogTypeOK
  <2>2. provider \in Http
    BY <1>5 DEF RefreshNow, Edit, SettledCatalog, DialogTypeOK, LookupsAskTheFields
  <2> QED
    BY <1>5, <2>1, <2>2, StartLookupKeeps DEF RefreshNow
<1>6. CASE TimerFires
  BY <1>6, StartLookupKeeps DEF TimerFires, DialogTypeOK
<1>7. CASE Close
  <2> USE <1>7 DEF Close
  <2>1. \A l \in lookups : l.gen # gen'
    BY NextGeneration
  <2>2. DialogTypeOK'
    BY NextGeneration DEF DialogTypeOK
  <2> QED
    BY <2>1, <2>2 DEF CatalogOfProvider, LookupsAskTheFields, SettledCatalog, Current
<1>8. ASSUME NEW l \in lookups, Completed(l) PROVE DialogInv'
  <2> USE <1>8 DEF Completed
  <2>1. l.source \in Sources /\ provider \in Providers
    BY DEF DialogTypeOK
  <2>2. DialogTypeOK'
    BY <2>1, StaticIsASource DEF DialogTypeOK
  <2>3. CatalogOfProvider'
    BY DEF CatalogOfProvider, Current, Static
  <2>4. LookupsAskTheFields'
    BY DEF LookupsAskTheFields
  <2>5. SettledCatalog'
    <3>1. CASE l.gen = gen
      <4>1. open /\ provider \in Http /\ (~timer => l.source = [provider |-> provider, url |-> url, key |-> key])
        BY <3>1 DEF LookupsAskTheFields
      <4>2. ~timer => Current(l)
        BY <3>1, <4>1 DEF Current
      <4> QED
        BY <4>1, <4>2 DEF SettledCatalog
    <3>2. CASE l.gen # gen
      <4>1. UNCHANGED <<catalog, refresh>>
        BY <3>2 DEF Current
      <4> QED
        BY <3>2, <4>1 DEF SettledCatalog, Current
    <3> QED
      BY <3>1, <3>2
  <2> QED
    BY <2>2, <2>3, <2>4, <2>5
<1>9. CASE UNCHANGED dialog
  BY <1>9 DEF dialog, DialogTypeOK, CatalogOfProvider, LookupsAskTheFields, SettledCatalog, Current
<1> QED
  BY <1>1, <1>2, <1>3, <1>4, <1>5, <1>6, <1>7, <1>8, <1>9 DEF DialogNext, DialogUser, Answer

(* When nothing is being looked up, the dialog's list belongs to what its   *)
(* fields say, for any number of edits and of answers out of order          *)
(* (_model_discovery_completed).                                            *)
THEOREM CatalogSettles == DialogSpec => []SettledCatalog
<1>1. DialogInv => SettledCatalog
  BY DEF DialogInv
<1> QED
  BY <1>1, DialogInitHolds, DialogSteps, PTL DEF DialogSpec

-----------------------------------------------------------------------------
(* Recorded answers: a replay hears its recorded baseline.                  *)

Shape ==
    /\ input \in Inputs /\ task \in Tasks \cup {"none"}
    /\ heard = [t \in Tasks |-> heard[t]]
    /\ baseline = [i \in Inputs |-> baseline[i]]
    /\ task # "none" => status = "" /\ heard["candidates"] = NoAnswer /\ damaged = {}
    /\ task = "renames" => heard["renames"] = NoAnswer

OnRecord(i, t, text) == <<i, t>> \in DOMAIN records /\ records[<<i, t>>] = text

(* What a baseline heard is still on record; the input that is recorded now *)
(* has no baseline, and its names are on record once they are heard.        *)
BaselineRecorded ==
    \A i \in Inputs : baseline[i] # NoAnswer =>
        /\ task = "none" \/ ~Recording \/ i # input
        /\ OnRecord(i, "renames", baseline[i]["renames"])
        /\ baseline[i]["candidates"] # NoAnswer => OnRecord(i, "candidates", baseline[i]["candidates"])

NamesRecorded ==
    task = "candidates" /\ Recording => OnRecord(input, "renames", heard["renames"])

NamesReplayed ==
    task = "candidates" /\ ~Recording /\ baseline[input] # NoAnswer =>
        heard["renames"] = baseline[input]["renames"]

ReplayInv == Shape /\ BaselineRecorded /\ NamesRecorded /\ NamesReplayed /\ ReplayReproducesBaseline

(* A replay of an input with a record of its own takes that one.            *)
LEMMA OwnRecordIsTaken ==
    ASSUME ~Recording, NEW t \in Tasks, <<input, t>> \in DOMAIN records
    PROVE  Match(t) # {} /\ Provided(t) = {records[<<input, t>>]}
<1>1. <<input, t>> \in RecordsOf(t)
  BY DEF RecordsOf
<1>2. Match(t) = {<<input, t>>}
  BY <1>1 DEF Match
<1> QED
  BY <1>2 DEF Provided, Recording, StrictReplay

(* Whatever a task writes, the records of other inputs and tasks stay.      *)
LEMMA OthersStay ==
    ASSUME NEW t \in Tasks,
           records' \in CutShort(t) \/ Hears(t) \/ Misses(t),
           NEW i \in Inputs, NEW s \in Tasks, <<i, s>> # <<input, t>> \/ ~Recording,
           NEW text, OnRecord(i, s, text)
    PROVE  OnRecord(i, s, text)'
<1>1. records' = records \/ (Recording /\ \E x : records' = Written(t, x))
  BY DEF CutShort, Hears, Misses
<1>2. CASE records' = records
  BY <1>2 DEF OnRecord
<1>3. ASSUME Recording, NEW x, records' = Written(t, x) PROVE OnRecord(i, s, text)'
  BY <1>3 DEF OnRecord, Written
<1> QED
  BY <1>1, <1>2, <1>3

(* The step that ends a function without a baseline of its own keeps those  *)
(* of the others.                                                           *)
LEMMA EndWithout ==
    ASSUME ReplayInv, NEW t \in Tasks, task = t,
           records' \in CutShort(t) \/ Hears(t) \/ Misses(t),
           task' = "none", UNCHANGED <<input, mode, baseline>>
    PROVE  BaselineRecorded' /\ NamesRecorded' /\ NamesReplayed'
<1> USE DEF ReplayInv
<1>1. NamesRecorded' /\ NamesReplayed'
  BY DEF NamesRecorded, NamesReplayed
<1>2. ASSUME NEW i \in Inputs, baseline[i] # NoAnswer
      PROVE  /\ OnRecord(i, "renames", baseline[i]["renames"])'
             /\ baseline[i]["candidates"] # NoAnswer => OnRecord(i, "candidates", baseline[i]["candidates"])'
  <2>1. ~Recording \/ i # input
    BY <1>2 DEF BaselineRecorded, Tasks
  <2>2. \A s \in Tasks : <<i, s>> # <<input, t>> \/ ~Recording
    BY <2>1
  <2>3. OnRecord(i, "renames", baseline[i]["renames"])
    BY <1>2 DEF BaselineRecorded
  <2>4. OnRecord(i, "renames", baseline[i]["renames"])'
    BY <1>2, <2>2, <2>3, OthersStay DEF Tasks
  <2>5. ASSUME baseline[i]["candidates"] # NoAnswer
        PROVE  OnRecord(i, "candidates", baseline[i]["candidates"])'
    <3>1. OnRecord(i, "candidates", baseline[i]["candidates"])
      BY <1>2, <2>5 DEF BaselineRecorded
    <3> QED
      BY <1>2, <2>2, <3>1, OthersStay DEF Tasks
  <2> QED
    BY <2>4, <2>5
<1>3. BaselineRecorded'
  BY <1>2 DEF BaselineRecorded
<1> QED
  BY <1>1, <1>3

(* Where a replay has a baseline of its input, it hears the record of each  *)
(* task the baseline had an answer to.                                      *)
LEMMA HearsBaseline ==
    ASSUME ReplayInv, ~Recording, baseline[input] # NoAnswer, NEW t \in Tasks, Hears(t) \/ Misses(t),
           t = "renames" \/ baseline[input]["candidates"] # NoAnswer
    PROVE  heard' = [heard EXCEPT ![t] = baseline[input][t]] \/ (t \in damaged' /\ heard' = heard)
<1> USE DEF ReplayInv
<1>1. OnRecord(input, t, baseline[input][t])
  BY DEF BaselineRecorded, Shape, Tasks
<1>2. Match(t) # {} /\ Provided(t) = {baseline[input][t]}
  BY <1>1, OwnRecordIsTaken DEF OnRecord
<1> QED
  BY <1>2 DEF Hears, Misses, Recording, StrictReplay

LEMMA RenamesStep == ReplayInv /\ AskRenames => ReplayInv'
<1> SUFFICES ASSUME ReplayInv, AskRenames PROVE ReplayInv'
  OBVIOUS
<1>1. task = "renames" /\ (Hears("renames") \/ Misses("renames"))
  BY DEF AskRenames, Hears, Misses
<1>2. CASE Hears("renames") /\ task' = "candidates" /\ UNCHANGED <<input, mode, status, batches, baseline>>
  <2>1. Shape'
    BY <1>1, <1>2 DEF ReplayInv, Shape, Hears, Tasks
  <2>2. BaselineRecorded'
    <3> SUFFICES ASSUME NEW i \in Inputs, baseline[i] # NoAnswer
                 PROVE  /\ ~Recording \/ i # input
                        /\ OnRecord(i, "renames", baseline[i]["renames"])'
                        /\ baseline[i]["candidates"] # NoAnswer =>
                              OnRecord(i, "candidates", baseline[i]["candidates"])'
      BY <1>2 DEF BaselineRecorded, Recording
    <3>1. ~Recording \/ i # input
      BY <1>1 DEF ReplayInv, BaselineRecorded
    <3>2. \A s \in Tasks : <<i, s>> # <<input, "renames">> \/ ~Recording
      BY <3>1
    <3>3. OnRecord(i, "renames", baseline[i]["renames"])'
      <4>1. OnRecord(i, "renames", baseline[i]["renames"])
        BY DEF ReplayInv, BaselineRecorded
      <4> QED
        BY <1>1, <1>2, <3>2, <4>1, OthersStay DEF Tasks
    <3>4. ASSUME baseline[i]["candidates"] # NoAnswer
          PROVE  OnRecord(i, "candidates", baseline[i]["candidates"])'
      <4>1. OnRecord(i, "candidates", baseline[i]["candidates"])
        BY <3>4 DEF ReplayInv, BaselineRecorded
      <4> QED
        BY <1>1, <1>2, <3>2, <4>1, OthersStay DEF Tasks
    <3> QED
      BY <3>1, <3>3, <3>4
  <2>3. NamesRecorded'
    <3> SUFFICES ASSUME Recording PROVE OnRecord(input, "renames", heard["renames"])'
      BY <1>2 DEF NamesRecorded, Recording
    <3>1. PICK text : heard' = [heard EXCEPT !["renames"] = text] /\ records' = Written("renames", text)
      BY <1>2 DEF Hears
    <3>2. heard'["renames"] = text
      BY <3>1 DEF ReplayInv, Shape, Tasks
    <3> QED
      BY <1>2, <3>1, <3>2 DEF OnRecord, Written
  <2>4. NamesReplayed'
    <3> SUFFICES ASSUME ~Recording, baseline[input] # NoAnswer
                 PROVE  heard'["renames"] = baseline[input]["renames"]
      BY <1>2 DEF NamesReplayed, Recording
    <3>1. "renames" \notin damaged'
      BY <1>1, <1>2 DEF Hears, ReplayInv, Shape, Tasks
    <3>2. heard' = [heard EXCEPT !["renames"] = baseline[input]["renames"]]
      BY <1>1, <3>1, HearsBaseline DEF Tasks
    <3> QED
      BY <3>2 DEF ReplayInv, Shape, Tasks
  <2>5. ReplayReproducesBaseline'
    BY <1>1, <1>2 DEF ReplayReproducesBaseline, ReplayInv, Shape
  <2> QED
    BY <2>1, <2>2, <2>3, <2>4, <2>5 DEF ReplayInv
<1>3. CASE FallsBack
  <2>1. task' = "none" /\ UNCHANGED <<input, mode, baseline>>
        /\ (status' = "error" \/ (~StrictReplay /\ status' = "fallback"))
    BY <1>3 DEF FallsBack, Over
  <2>2. Shape'
    BY <1>1, <2>1 DEF ReplayInv, Shape, Hears, Misses, Tasks
  <2>3. BaselineRecorded' /\ NamesRecorded' /\ NamesReplayed'
    BY <1>1, <2>1, EndWithout DEF Tasks
  <2>4. ReplayReproducesBaseline'
    <3> SUFFICES ASSUME ~Recording, baseline[input] # NoAnswer
                 PROVE  \/ heard'["renames"] = baseline[input]["renames"]
                        \/ "renames" \in damaged' /\ heard'["renames"] = NoAnswer
      BY <2>1 DEF ReplayReproducesBaseline, Recording, StrictReplay
    <3>1. \/ heard' = [heard EXCEPT !["renames"] = baseline[input]["renames"]]
          \/ "renames" \in damaged' /\ heard' = heard
      BY <1>1, HearsBaseline DEF Tasks
    <3> QED
      BY <1>1, <3>1 DEF ReplayInv, Shape, Tasks
  <2> QED
    BY <2>2, <2>3, <2>4 DEF ReplayInv
<1> QED
  BY <1>2, <1>3 DEF AskRenames

LEMMA CandidatesStep == ReplayInv /\ AskCandidates => ReplayInv'
<1> SUFFICES ASSUME ReplayInv, AskCandidates PROVE ReplayInv'
  OBVIOUS
<1>1. task = "candidates" /\ (Hears("candidates") \/ Misses("candidates"))
  BY DEF AskCandidates, Hears, Misses
<1>2. task' = "none" /\ UNCHANGED <<input, mode>> /\ status' \in {"ok", "error", "fallback"}
      /\ baseline' = (IF Recording /\ status' = "ok" THEN [baseline EXCEPT ![input] = heard'] ELSE baseline)
  BY DEF AskCandidates, FallsBack, Over
<1>3. heard' = [t \in Tasks |-> heard'[t]] /\ heard'["renames"] = heard["renames"]
  BY <1>1 DEF ReplayInv, Shape, Hears, Misses, Tasks
<1>4. Shape'
  BY <1>1, <1>2, <1>3 DEF ReplayInv, Shape
<1>5. ReplayReproducesBaseline'
  <2> SUFFICES ASSUME ~Recording, baseline[input] # NoAnswer
               PROVE  /\ heard'["renames"] = baseline[input]["renames"]
                      /\ \/ heard'["candidates"] = baseline[input]["candidates"]
                         \/ baseline[input]["candidates"] = NoAnswer
                         \/ "candidates" \in damaged' /\ heard'["candidates"] = NoAnswer
    BY <1>2 DEF ReplayReproducesBaseline, Recording
  <2>1. heard'["renames"] = baseline[input]["renames"]
    BY <1>1, <1>3 DEF ReplayInv, NamesReplayed
  <2>2. ASSUME baseline[input]["candidates"] # NoAnswer
        PROVE  \/ heard'["candidates"] = baseline[input]["candidates"]
               \/ "candidates" \in damaged' /\ heard'["candidates"] = NoAnswer
    <3>1. \/ heard' = [heard EXCEPT !["candidates"] = baseline[input]["candidates"]]
          \/ "candidates" \in damaged' /\ heard' = heard
      BY <1>1, <2>2, HearsBaseline DEF Tasks
    <3> QED
      BY <1>1, <3>1 DEF ReplayInv, Shape, Tasks
  <2> QED
    BY <2>1, <2>2
<1>6. CASE baseline' = baseline
  BY <1>1, <1>2, <1>4, <1>5, <1>6, EndWithout DEF ReplayInv, Tasks
<1>7. CASE Recording /\ baseline' = [baseline EXCEPT ![input] = heard']
  <2>1. ASSUME NEW i \in Inputs, i # input, baseline[i] # NoAnswer
        PROVE  /\ OnRecord(i, "renames", baseline[i]["renames"])'
               /\ baseline[i]["candidates"] # NoAnswer =>
                     OnRecord(i, "candidates", baseline[i]["candidates"])'
    <3>1. \A s \in Tasks : <<i, s>> # <<input, "candidates">>
      BY <2>1
    <3>2. /\ OnRecord(i, "renames", baseline[i]["renames"])
          /\ baseline[i]["candidates"] # NoAnswer =>
                OnRecord(i, "candidates", baseline[i]["candidates"])
      BY <2>1 DEF ReplayInv, BaselineRecorded
    <3>3. UNCHANGED baseline[i]
      BY <1>7, <2>1 DEF ReplayInv, Shape
    <3> QED
      BY <1>1, <3>1, <3>2, <3>3, OthersStay DEF Tasks
  <2>2. OnRecord(input, "renames", heard["renames"])'
    <3>1. OnRecord(input, "renames", heard["renames"])
      <4>1. task = "candidates" /\ Recording
        BY <1>1, <1>7
      <4> QED
        BY <4>1 DEF ReplayInv, NamesRecorded
    <3>2. <<input, "renames">> # <<input, "candidates">>
      OBVIOUS
    <3>3. input \in Inputs
      BY DEF ReplayInv, Shape
    <3>4. ASSUME NEW text, OnRecord(input, "renames", text) PROVE OnRecord(input, "renames", text)'
      <4>1. PICK i \in Inputs : i = input
        BY <3>3
      <4>2. OnRecord(i, "renames", text) /\ <<i, "renames">> # <<input, "candidates">>
        BY <3>4, <4>1
      <4>3. OnRecord(i, "renames", text)'
        BY <1>1, <4>2, OthersStay DEF Tasks
      <4> QED
        BY <1>2, <4>1, <4>3 DEF OnRecord
    <3> QED
      BY <1>2, <1>3, <3>1, <3>4 DEF OnRecord
  <2>3. ASSUME heard'["candidates"] # NoAnswer PROVE OnRecord(input, "candidates", heard["candidates"])'
    <3>1. Hears("candidates")
      BY <1>1, <2>3 DEF ReplayInv, Shape, Misses
    <3>2. PICK text : heard' = [heard EXCEPT !["candidates"] = text] /\ records' = Written("candidates", text)
      BY <1>7, <3>1 DEF Hears
    <3>3. heard'["candidates"] = text
      BY <3>2 DEF ReplayInv, Shape, Tasks
    <3> QED
      BY <1>2, <3>2, <3>3 DEF OnRecord, Written
  <2>4. BaselineRecorded'
    <3>1. \A i \in Inputs : baseline'[i] = IF i = input THEN heard' ELSE baseline[i]
      BY <1>7 DEF ReplayInv, Shape
    <3> QED
      BY <1>2, <2>1, <2>2, <2>3, <3>1 DEF BaselineRecorded, OnRecord
  <2>5. NamesRecorded' /\ NamesReplayed'
    BY <1>2 DEF NamesRecorded, NamesReplayed
  <2> QED
    BY <1>4, <1>5, <2>4, <2>5 DEF ReplayInv
<1> QED
  BY <1>2, <1>6, <1>7

LEMMA KilledStep == ReplayInv /\ Killed => ReplayInv'
<1> SUFFICES ASSUME ReplayInv, Killed PROVE ReplayInv'
  OBVIOUS
<1>1. PICK t \in Tasks : task = t /\ ((records' \in CutShort(t) /\ UNCHANGED heard) \/ Hears(t))
  BY DEF Killed
<1>2. task' = "none" /\ UNCHANGED <<input, mode, baseline>> /\ status' = "killed"
  BY DEF Killed, Over
<1>3. Shape'
  BY <1>1, <1>2 DEF ReplayInv, Shape, Hears, Tasks
<1>4. BaselineRecorded' /\ NamesRecorded' /\ NamesReplayed'
  BY <1>1, <1>2, EndWithout
<1> QED
  BY <1>2, <1>3, <1>4 DEF ReplayInv, ReplayReproducesBaseline

LEMMA BeginStep == ASSUME ReplayInv, NEW m \in Modes, BeginBatch(m) PROVE ReplayInv'
<1> USE DEF ReplayInv
<1>1. Shape'
  BY DEF BeginBatch, Shape, Silent, Tasks
<1>2. \A i \in Inputs : baseline'[i] # NoAnswer => baseline'[i] = baseline[i] /\ (m # "replay" => i # input)
  BY DEF BeginBatch, Shape
<1>3. BaselineRecorded'
  BY <1>2 DEF BeginBatch, BaselineRecorded, OnRecord, Recording
<1> QED
  BY <1>1, <1>3 DEF BeginBatch, NamesRecorded, NamesReplayed, ReplayReproducesBaseline

LEMMA OtherStep == ReplayInv /\ (InputChanges \/ UNCHANGED replayVars) => ReplayInv'
<1> SUFFICES ASSUME ReplayInv, InputChanges \/ UNCHANGED replayVars PROVE ReplayInv'
  OBVIOUS
<1>1. CASE InputChanges
  BY <1>1 DEF ReplayInv, InputChanges, Shape, Silent, Tasks, BaselineRecorded, OnRecord, NamesRecorded,
              NamesReplayed, ReplayReproducesBaseline
<1>2. CASE UNCHANGED replayVars
  BY <1>2 DEF ReplayInv, replayVars, Shape, BaselineRecorded, OnRecord, NamesRecorded, NamesReplayed,
              ReplayReproducesBaseline, Recording
<1> QED
  BY <1>1, <1>2

(* A replay of an input hears what its last recording heard, if that one    *)
(* was ok, whatever batches of any inputs came in between.                  *)
THEOREM ReplaysAreFaithful == ReplaySpec => []ReplayReproducesBaseline
<1>1. ReplayInit => ReplayInv
  BY DEF ReplayInit, ReplayInv, Shape, Silent, Tasks, BaselineRecorded, NamesRecorded, NamesReplayed,
         ReplayReproducesBaseline
<1>2. ReplayInv /\ [ReplayNext]_replayVars => ReplayInv'
  BY RenamesStep, CandidatesStep, KilledStep, BeginStep, OtherStep DEF ReplayNext
<1>3. ReplayInv => ReplayReproducesBaseline
  BY DEF ReplayInv
<1> QED
  BY <1>1, <1>2, <1>3, PTL DEF ReplaySpec

-----------------------------------------------------------------------------
(* The types of a replay.                                                   *)

IsRecords(r) == DOMAIN r \subseteq Inputs \X Tasks /\ r \in [DOMAIN r -> Answers]

(* What was heard is an answer; the names are heard before the candidates.  *)
Hearing ==
    /\ IsRecords(records)
    /\ heard \in [Tasks -> Answers \cup {NoAnswer}] /\ damaged \subseteq Tasks
    /\ task = "candidates" \/ status = "ok" => heard["renames"] # NoAnswer
    /\ batches \in 0..MaxBatches /\ (task # "none" => batches > 0)
    /\ mode \in Modes
    /\ status \in {"", "ok", "fallback", "error", "killed"}

Baselines ==
    /\ baseline \in [Inputs -> [Tasks -> Answers \cup {NoAnswer}] \cup {NoAnswer}]
    /\ \A i \in Inputs : baseline[i] # NoAnswer => baseline[i]["renames"] # NoAnswer

LEMMA NoAnswerIsNone == NoAnswer \notin Answers /\ Stub \in Answers
<1>1. \A n \in 1..MaxBatches : n \in Nat
  BY ReplayAssumption
<1> QED
  BY <1>1, ReplayAssumption DEF Answers

LEMMA WrittenTyped ==
    ASSUME IsRecords(records), input \in Inputs, NEW t \in Tasks, NEW text \in Answers
    PROVE  IsRecords(Written(t, text))
<1> PICK dom : dom = DOMAIN records \cup {<<input, t>>}
  OBVIOUS
<1>1. dom \subseteq Inputs \X Tasks
  BY DEF IsRecords
<1>2. \A r \in dom : (IF r = <<input, t>> THEN text ELSE records[r]) \in Answers
  BY DEF IsRecords
<1>3. Written(t, text) = [r \in dom |-> IF r = <<input, t>> THEN text ELSE records[r]]
  BY DEF Written
<1> QED
  BY <1>1, <1>2, <1>3 DEF IsRecords

LEMMA ProvidedTyped ==
    ASSUME Hearing, NEW t \in Tasks, task = t
    PROVE  Provided(t) \subseteq Answers
<1>1. CASE StrictReplay
  <2>1. Match(t) \subseteq DOMAIN records
    BY DEF Match, RecordsOf
  <2>2. \A r \in DOMAIN records : records[r] \in Answers
    BY DEF Hearing, IsRecords
  <2> QED
    BY <1>1, <2>1, <2>2 DEF Provided
<1>2. CASE ~StrictReplay
  <2>1. t # "none"
    BY DEF Tasks
  <2>2. batches \in 1..MaxBatches
    <3>1. batches \in 0..MaxBatches /\ batches > 0
      BY <2>1 DEF Hearing
    <3>2. MaxBatches \in Nat
      BY ReplayAssumption
    <3> QED
      BY ONLY <3>1, <3>2
  <2> QED
    BY <1>2, <2>2 DEF Provided, Answers
<1> QED
  BY <1>1, <1>2

LEMMA RecordsTyped ==
    ASSUME Hearing, input \in Inputs, NEW t \in Tasks, task = t,
           records' \in CutShort(t) \/ Hears(t) \/ Misses(t)
    PROVE  IsRecords(records')
<1>1. \/ records' = records
      \/ \E text \in Provided(t) \cup {Stub} : records' = Written(t, text)
  BY DEF CutShort, Hears, Misses
<1> QED
  BY <1>1, ProvidedTyped, WrittenTyped, NoAnswerIsNone DEF Hearing

LEMMA HeardTyped ==
    ASSUME Hearing, NEW t \in Tasks, task = t, Hears(t)
    PROVE  /\ heard' \in [Tasks -> Answers \cup {NoAnswer}]
           /\ heard'[t] \in Answers /\ \A s \in Tasks : s # t => heard'[s] = heard[s]
<1>1. PICK text \in Provided(t) : heard' = [heard EXCEPT ![t] = text]
  BY DEF Hears
<1>2. text \in Answers
  BY <1>1, ProvidedTyped
<1> QED
  BY <1>1, <1>2 DEF Hearing

LEMMA HearingStep == Shape /\ Hearing /\ [ReplayNext]_replayVars => Hearing'
<1> SUFFICES ASSUME Shape, Hearing, [ReplayNext]_replayVars PROVE Hearing'
  OBVIOUS
<1>0. /\ input \in Inputs /\ "renames" \in Tasks /\ "candidates" \in Tasks /\ "none" \notin Tasks
      /\ NoAnswer \notin Answers
  BY NoAnswerIsNone DEF Shape, Tasks
<1>damaged. damaged' \subseteq Tasks
  BY DEF Hearing, ReplayNext, BeginBatch, InputChanges, AskRenames, AskCandidates, Killed, Hears, Misses,
         replayVars, Tasks
<1>1. CASE AskRenames
  <2>1. task = "renames" /\ (Hears("renames") \/ Misses("renames"))
    BY <1>1 DEF AskRenames, Hears, Misses
  <2>2. IsRecords(records')
    BY <1>0, <2>1, RecordsTyped
  <2>3. heard' \in [Tasks -> Answers \cup {NoAnswer}] /\ (Hears("renames") => heard'["renames"] # NoAnswer)
    <3>1. CASE Hears("renames")
      BY <1>0, <2>1, <3>1, HeardTyped
    <3>2. CASE ~Hears("renames")
      BY <2>1, <3>2 DEF Misses, Hearing
    <3> QED
      BY <3>1, <3>2
  <2>4. /\ UNCHANGED <<batches, mode>>
        /\ \/ Hears("renames") /\ task' = "candidates" /\ status' = status
           \/ task' = "none" /\ status' \in {"error", "fallback"}
    BY <1>1 DEF AskRenames, FallsBack, Over
  <2>5. batches > 0
    BY <2>1 DEF Hearing
  <2> QED
    BY <1>damaged, <2>2, <2>3, <2>4, <2>5 DEF Hearing
<1>2. CASE AskCandidates
  <2>1. task = "candidates" /\ (Hears("candidates") \/ Misses("candidates"))
    BY <1>2 DEF AskCandidates, Hears, Misses
  <2>2. IsRecords(records')
    BY <1>0, <2>1, RecordsTyped
  <2>3. heard' \in [Tasks -> Answers \cup {NoAnswer}] /\ heard'["renames"] = heard["renames"]
    <3>1. CASE Hears("candidates")
      BY <1>0, <2>1, <3>1, HeardTyped
    <3>2. CASE ~Hears("candidates")
      BY <2>1, <3>2 DEF Misses, Hearing
    <3> QED
      BY <3>1, <3>2
  <2>4. /\ UNCHANGED <<batches, mode>> /\ task' = "none" /\ status' \in {"ok", "error", "fallback"}
    BY <1>2 DEF AskCandidates, FallsBack, Over
  <2>5. heard["renames"] # NoAnswer
    BY <2>1 DEF Hearing
  <2> QED
    BY <1>damaged, <2>2, <2>3, <2>4, <2>5 DEF Hearing
<1>3. CASE Killed
  <2>1. task \in Tasks /\ ((records' \in CutShort(task) /\ UNCHANGED heard) \/ Hears(task))
    BY <1>3 DEF Killed
  <2>2. IsRecords(records')
    BY <1>0, <2>1, RecordsTyped
  <2>3. heard' \in [Tasks -> Answers \cup {NoAnswer}]
    BY <2>1, HeardTyped DEF Hearing
  <2>4. task' = "none" /\ status' = "killed" /\ UNCHANGED <<batches, mode>>
    BY <1>3 DEF Killed, Over
  <2> QED
    BY <1>damaged, <2>2, <2>3, <2>4 DEF Hearing
<1>4. ASSUME NEW m \in Modes, BeginBatch(m) PROVE Hearing'
  <2>1. Silent \in [Tasks -> Answers \cup {NoAnswer}]
    BY DEF Silent
  <2>2. batches' \in 0..MaxBatches /\ batches' > 0
    <3>1. batches \in 0..MaxBatches /\ batches < MaxBatches /\ batches' = batches + 1
      BY <1>4 DEF BeginBatch, Hearing
    <3>2. MaxBatches \in Nat
      BY ReplayAssumption
    <3> QED
      BY ONLY <3>1, <3>2
  <2>3. task' = "renames" /\ status' = "" /\ heard' = Silent /\ mode' = m /\ records' = records
    BY <1>4 DEF BeginBatch
  <2> QED
    BY <1>damaged, <2>1, <2>2, <2>3 DEF Hearing
<1>5. CASE InputChanges
  <2>1. Silent \in [Tasks -> Answers \cup {NoAnswer}]
    BY DEF Silent
  <2>2. task' = "none" /\ status' = "" /\ heard' = Silent /\ UNCHANGED <<records, mode, batches>>
    BY <1>5 DEF InputChanges
  <2> QED
    BY <1>damaged, <2>1, <2>2 DEF Hearing
<1>6. CASE UNCHANGED replayVars
  BY <1>6 DEF replayVars, Hearing
<1> QED
  BY <1>1, <1>2, <1>3, <1>4, <1>5, <1>6 DEF ReplayNext

LEMMA BaselinesStep == Shape /\ Hearing /\ Hearing' /\ Baselines /\ [ReplayNext]_replayVars => Baselines'
<1> SUFFICES ASSUME Shape, Hearing, Hearing', Baselines, [ReplayNext]_replayVars PROVE Baselines'
  OBVIOUS
<1>0. input \in Inputs
  BY DEF Shape
<1>1. \/ baseline' = baseline \/ baseline' = [baseline EXCEPT ![input] = NoAnswer]
      \/ baseline' = [baseline EXCEPT ![input] = heard'] /\ status' = "ok"
  BY DEF ReplayNext, BeginBatch, InputChanges, AskRenames, AskCandidates, FallsBack, Killed, Over,
         replayVars
<1>2. CASE baseline' = [baseline EXCEPT ![input] = heard'] /\ status' = "ok"
  <2>1. heard' \in [Tasks -> Answers \cup {NoAnswer}] /\ heard'["renames"] # NoAnswer
    BY <1>2 DEF Hearing
  <2> QED
    BY <1>0, <1>2, <2>1 DEF Baselines
<1>3. CASE baseline' = baseline \/ baseline' = [baseline EXCEPT ![input] = NoAnswer]
  BY <1>0, <1>3 DEF Baselines
<1> QED
  BY <1>1, <1>2, <1>3

LEMMA HearingInit == ReplayInit => ReplayInv /\ Hearing /\ Baselines
<1> SUFFICES ASSUME ReplayInit PROVE ReplayInv /\ Hearing /\ Baselines
  OBVIOUS
<1>1. ReplayInv
  BY DEF ReplayInit, ReplayInv, Shape, Silent, Tasks, BaselineRecorded, NamesRecorded, NamesReplayed,
         ReplayReproducesBaseline
<1>2. IsRecords(records)
  BY DEF ReplayInit, IsRecords
<1>3. heard \in [Tasks -> Answers \cup {NoAnswer}]
  BY DEF ReplayInit, Silent
<1>4. batches \in 0..MaxBatches
  <2>1. batches = 0
    BY DEF ReplayInit
  <2> QED
    BY <2>1, ReplayAssumption
<1>5. Hearing
  BY <1>2, <1>3, <1>4 DEF ReplayInit, Hearing, Modes
<1>6. Baselines
  BY DEF ReplayInit, Baselines
<1> QED
  BY <1>1, <1>5, <1>6

LEMMA ReplayInductive == ReplaySpec => [](ReplayInv /\ Hearing /\ Baselines)
<1>1. ReplayInv /\ Hearing /\ Baselines /\ [ReplayNext]_replayVars => ReplayInv' /\ Hearing' /\ Baselines'
  BY RenamesStep, CandidatesStep, KilledStep, BeginStep, OtherStep, HearingStep, BaselinesStep
     DEF ReplayNext, ReplayInv
<1> QED
  BY HearingInit, <1>1, PTL DEF ReplaySpec

(* Records, answers and baselines keep to their types.                      *)
THEOREM ReplayTypeCorrect == ReplaySpec => []ReplayTypeOK
<1>1. ReplayInv /\ Hearing /\ Baselines => ReplayTypeOK
  BY DEF ReplayInv, Shape, Hearing, IsRecords, Baselines, ReplayTypeOK
<1> QED
  BY ReplayInductive, <1>1, PTL

(* A function that a batch calls ok had an answer to the names, recorded or *)
(* not: of the missing records that the documentation wants to be failures, *)
(* only those of candidates go by as a warning.                             *)
NamesAreHeard == status = "ok" => heard["renames"] # NoAnswer

THEOREM OkMeansNamesHeard == ReplaySpec => []NamesAreHeard
<1>1. Hearing => NamesAreHeard
  BY DEF Hearing, NamesAreHeard
<1> QED
  BY ReplayInductive, <1>1, PTL

-----------------------------------------------------------------------------
(* The front ends together: what MCFrontEnds explores of each is a behaviour*)
(* of it, so what is proved above of each part, and of batches and packs in *)
(* their modules, is what the run checks.                                   *)
THEOREM FrontEndsCompose ==
    MCSpec => StudioSpec /\ DialogInit /\ [][DialogNext]_dialog /\ Spec /\ ReplaySpec /\ PackSpec
<1>1. MCInit => StudioInit /\ DialogInit /\ Init /\ ReplayInit /\ PackInit
  BY DEF MCInit
<1>2. [MCNext]_<<part, studioVars, dialog, vars, replayVars, packVars>>
         => /\ [StudioNext]_studioVars /\ [DialogNext]_dialog /\ [Next]_vars
            /\ [ReplayNext]_replayVars /\ [PackNext]_packVars
  BY DEF MCNext, BatchNext, PackInPlace, PackOfOneBuild
<1> QED
  BY <1>1, <1>2, PTL DEF MCSpec, StudioSpec, Spec, ReplaySpec, PackSpec

(* The window, the dialog, the batch, the replay and the pack keep to their *)
(* types, for any number of runs, functions, inputs and builds.             *)
THEOREM FrontEndsKeepTypes == MCSpec => []FrontEndsTypeOK
<1>1. WindowInv /\ DialogInv /\ TypeOK /\ ReplayTypeOK /\ PackTypeOK => FrontEndsTypeOK
  BY DEF FrontEndsTypeOK, WindowInv, DialogInv
<1>2. StudioSpec => []WindowInv
  BY WindowInit, WindowSteps, PTL DEF StudioSpec
<1>3. DialogInit /\ [][DialogNext]_dialog => []DialogInv
  BY DialogInitHolds, DialogSteps, PTL
<1> QED
  BY <1>1, <1>2, <1>3, FrontEndsCompose, BatchTypeCorrect, ReplayTypeCorrect, PackTypeCorrect, PTL
=============================================================================
