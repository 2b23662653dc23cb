------------------------- MODULE AsyncRunner_proofs -------------------------
(***************************************************************************)
(* Proofs about the background task registry, for any number of task names, *)
(* groups and runs, and for callbacks that raise as well as for those that  *)
(* do not; and the abstract slot it implements: the tasks that name a group *)
(* and whose callbacks do not raise go through the slot of their group, and *)
(* every step of another task leaves all slots as they are.                 *)
(* Then what is proved of one task's work, the type-assisted preview, and   *)
(* of the .forge file that tasks and the batch script write: it lists each  *)
(* function once as long as one writer died at most, and it is the map that *)
(* SectionMap promises (texts without an escape; the run that expands the   *)
(* escapes of a literal is a finding).  At the end the three are put        *)
(* together.                                                                *)
(***************************************************************************)
EXTENDS MCAsyncRunner, ForgeFile_proofs

USE DEF Live, Terminal, WorkerPC, MainPC, registry, mainVars, LiveRun

LEMMA InitIInv == Init => IInv
BY NamesAssumption, GroupsAssumption, RunsAssumption, CallersAssumption
   DEF Init, IInv, TypeOK, RegistryConsistent, MainInv, OwnsName, WorkerInv, CancelledWasAsked

LEMMA NextIInv == IInv /\ [Next]_vars => IInv'
<1> SUFFICES ASSUME IInv, [Next]_vars PROVE IInv'
    OBVIOUS
<1> USE NamesAssumption, GroupsAssumption, RunsAssumption, CallersAssumption
    DEF IInv, TypeOK, RegistryConsistent, MainInv, OwnsName, WorkerInv, CancelledWasAsked
<1>1. ASSUME NEW r \in Runs, NEW n \in Names, RunBackground(r, n) PROVE IInv'
      BY <1>1 DEF RunBackground, Goto
<1>2. ASSUME NEW g \in Groups, CancelClick(g) PROVE IInv'
      BY <1>2 DEF CancelClick
<1>3. CASE CancelLookup
      BY <1>3 DEF CancelLookup, Idle
<1>4. CASE CancelSet
      BY <1>4 DEF CancelSet, Idle
<1>5. ASSUME NEW r \in Runs, StartThread(r) PROVE IInv'
      BY <1>5 DEF StartThread, Goto, Idle
<1>6. ASSUME NEW r \in Runs, StartFails(r) PROVE IInv'
      BY <1>6 DEF StartFails, Goto, Idle
<1>7. ASSUME NEW r \in Runs, BeginCallback(r) PROVE IInv'
      BY <1>7 DEF BeginCallback, Goto
<1>8. ASSUME NEW r \in Runs, CallbackReturns(r) PROVE IInv'
      BY <1>8 DEF CallbackReturns, Goto, Idle, MarkDone
<1>9. ASSUME NEW r \in Runs, CallbackRaises(r) PROVE IInv'
      BY <1>9 DEF CallbackRaises, Goto, Idle, MarkDone
<1>10. ASSUME NEW r \in Runs, ShowError(r) PROVE IInv'
      BY <1>10 DEF ShowError, Goto
<1>11. ASSUME NEW r \in Runs, DismissError(r) PROVE IInv'
      BY <1>11 DEF DismissError, Goto, Idle
<1>12. ASSUME NEW r \in Runs, Peek(r) PROVE IInv'
      BY <1>12 DEF Peek, Goto
<1>13. ASSUME NEW r \in Runs, Test(r) PROVE IInv'
      BY <1>13 DEF Test, Goto
<1>14. ASSUME NEW r \in Runs, WorkReturns(r) \/ WorkFails(r) \/ ErrorUndelivered(r) \/ DeliveryRefused(r)
       PROVE IInv'
      BY <1>14 DEF WorkReturns, WorkFails, ErrorUndelivered, DeliveryRefused, Goto
<1>15. ASSUME NEW r \in Runs, WorkerMarksDone(r) PROVE IInv'
      BY <1>15 DEF WorkerMarksDone, Goto, MarkDone
<1>16. CASE UNCHANGED vars
      BY <1>16 DEF vars
<1> QED BY <1>1, <1>2, <1>3, <1>4, <1>5, <1>6, <1>7, <1>8, <1>9, <1>10, <1>11, <1>12, <1>13,
           <1>14, <1>15, <1>16 DEF Next, MainStep, WorkerStep

(* Types: the registry only ever maps names to runs and groups to names.    *)
THEOREM TypeCorrect == Spec => []TypeOK
<1>1. IInv => TypeOK
      BY DEF IInv
<1> QED BY <1>1, InitIInv, NextIInv, PTL DEF Spec

(* The three tables of the registry agree after every step, for callbacks   *)
(* that raise as well.                                                      *)
THEOREM RegistryStaysConsistent == Spec => []RegistryConsistent
<1>1. IInv => RegistryConsistent
      BY DEF IInv
<1> QED BY <1>1, InitIInv, NextIInv, PTL DEF Spec

LEMMA OwnersAreAlone == IInv => SingleFlight
<1> SUFFICES ASSUME IInv,
                    NEW r \in Runs, NEW s \in Runs,
                    r # s, LiveRun(r), LiveRun(s),
                    task[r] \notin Raising, task[s] \notin Raising
             PROVE  /\ task[r] # task[s]
                    /\ GroupOf[task[r]] = GroupOf[task[s]] => GroupOf[task[r]] = NoGroup
    BY DEF SingleFlight
<1>1. activeCancels[task[r]] = r /\ activeCancels[task[s]] = s
      BY DEF IInv, OwnsName
<1>2. task[r] # task[s]
      BY <1>1
<1>3. task[r] \in Names /\ task[s] \in Names
      BY DEF IInv, MainInv
<1>4. GroupOf[task[r]] \in Groups /\ GroupOf[task[s]] \in Groups
      => /\ activeGroups[GroupOf[task[r]]] = task[r]
         /\ activeGroups[GroupOf[task[s]]] = task[s]
      BY DEF IInv, OwnsName
<1>5. GroupOf[task[r]] \in Groups \cup {NoGroup}
      BY <1>3, CallersAssumption
<1> QED BY <1>2, <1>4, <1>5

(* Two runs that share a name or a group are never between start and        *)
(* release at the same time, unless one of them has a callback that raises. *)
THEOREM OneTaskAtATime == Spec => []SingleFlight
<1> QED BY OwnersAreAlone, InitIInv, NextIInv, PTL DEF Spec

(* A task ends as cancelled only when its own Event was set.                *)
THEOREM CancelledTasksWereAsked == Spec => []CancelledWasAsked
<1>1. IInv => CancelledWasAsked
      BY DEF IInv
<1> QED BY <1>1, InitIInv, NextIInv, PTL DEF Spec

(* A click on Cancel reaches the run it was aimed at and no later one.      *)
THEOREM CancelReachesItsAim == Spec => CancelHitsAimed
<1>1. IInv /\ [Next]_vars => [\A r \in Runs : r \in eventSet' \ eventSet => r = aimed]_vars
  <2> SUFFICES ASSUME IInv, Next, NEW r \in Runs, r \in eventSet' \ eventSet
               PROVE  r = aimed
      OBVIOUS
  <2>1. CancelSet
        BY DEF Next, RunBackground, CancelClick, CancelLookup, MainStep, StartThread,
               StartFails, BeginCallback, CallbackReturns, CallbackRaises, ShowError,
               DismissError, WorkerStep, Peek, Test, WorkReturns, WorkFails,
               ErrorUndelivered, DeliveryRefused, WorkerMarksDone
  <2> QED BY <2>1 DEF CancelSet, IInv, MainInv
<1> QED BY <1>1, InitIInv, NextIInv, PTL DEF Spec, CancelHitsAimed

(* A run that was cancelled before its last check does not deliver.         *)
THEOREM CancelSuppressesDelivery == Spec => NoDeliveryAfterCancel
<1> DEFINE Quiet(r) == /\ pc[r] = "checking" /\ pc'[r] \in {"delivering", "finishing"}
                       /\ task[r] \notin Raising
                       => r \notin eventSet
<1>1. IInv /\ [Next]_vars => [\A r \in Runs : Quiet(r)]_vars
  <2> SUFFICES ASSUME IInv, Next, NEW r \in Runs, pc[r] = "checking",
                      pc'[r] \in {"delivering", "finishing"}, task[r] \notin Raising
               PROVE  r \notin eventSet
      OBVIOUS
  <2>1. held[r] = r
        BY DEF IInv, WorkerInv
  <2>2. Test(r)
        BY DEF IInv, TypeOK, Next, RunBackground, CancelClick, CancelLookup, CancelSet,
               MainStep, StartThread, StartFails, BeginCallback, CallbackReturns,
               CallbackRaises, ShowError, DismissError, WorkerStep, Peek, Test,
               WorkReturns, WorkFails, ErrorUndelivered, DeliveryRefused,
               WorkerMarksDone, Goto
  <2> QED BY <2>1, <2>2 DEF Test, Goto, IInv, TypeOK
<1> QED BY <1>1, InitIInv, NextIInv, PTL DEF Spec, NoDeliveryAfterCancel

-----------------------------------------------------------------------------
(* The slots.                                                               *)

LEMMA InitMaps == Init => Slot!SInit
BY NamesAssumption DEF Init, Slot!SInit, holderBar, phaseBar, askedBar, IsContained, Contained

(* A worker that moves to another place moves the phase of its own run, and *)
(* none when its task is not one of those that go through the slot.         *)
LEMMA PhaseMoves ==
    ASSUME TypeOK, NEW r \in Runs, NEW to, pc[r] # "unused", to # "unused",
           pc' = [pc EXCEPT ![r] = to], UNCHANGED <<task, eventSet>>
    PROVE  /\ phaseBar' = IF task[r] \in Contained
                          THEN [phaseBar EXCEPT ![r] = PhaseOf(to)] ELSE phaseBar
           /\ phaseBar[r] = IF task[r] \in Contained THEN PhaseOf(pc[r]) ELSE "waiting"
           /\ askedBar' = askedBar
BY DEF TypeOK, phaseBar, askedBar, IsContained

(* Registering a run fills the slot of its group and no other.              *)
LEMMA HolderEnters ==
    ASSUME IInv, NEW r \in Runs, NEW n \in Contained, RunBackground(r, n)
    PROVE  /\ GroupOf[n] \in Groups
           /\ holderBar[GroupOf[n]] = NoRun
           /\ holderBar' = [holderBar EXCEPT ![GroupOf[n]] = r]
BY NamesAssumption, CallersAssumption
   DEF IInv, TypeOK, RegistryConsistent, Contained, RunBackground, holderBar

LEMMA OthersDoNotEnter ==
    ASSUME IInv, NEW r \in Runs, NEW n \in Names \ Contained, RunBackground(r, n)
    PROVE  holderBar' = holderBar
BY NamesAssumption, CallersAssumption
   DEF IInv, TypeOK, RegistryConsistent, Contained, RunBackground, holderBar

(* _mark_done of a run that holds its slot empties that slot and no other.  *)
LEMMA HolderLeaves ==
    ASSUME IInv, NEW r \in Runs, LiveRun(r), task[r] \in Contained, MarkDone(task[r])
    PROVE  /\ GroupOf[task[r]] \in Groups
           /\ holderBar[GroupOf[task[r]]] = r
           /\ holderBar' = [holderBar EXCEPT ![GroupOf[task[r]]] = NoRun]
<1>1. /\ task[r] \in Names /\ GroupOf[task[r]] \in Groups
      /\ activeCancels[task[r]] = r /\ activeGroups[GroupOf[task[r]]] = task[r]
      BY DEF IInv, OwnsName, Contained
<1> QED BY <1>1, NamesAssumption
        DEF IInv, TypeOK, RegistryConsistent, MarkDone, holderBar, Contained

LEMMA OthersDoNotLeave ==
    ASSUME IInv, NEW n \in Names \ Contained, MarkDone(n)
    PROVE  holderBar' = holderBar
BY NamesAssumption DEF IInv, TypeOK, RegistryConsistent, MarkDone, holderBar, Contained

Same == holderBar' = holderBar /\ phaseBar' = phaseBar /\ askedBar' = askedBar

LEMMA RegisterMaps ==
    ASSUME IInv, NEW r \in Runs, NEW n \in Names, RunBackground(r, n)
    PROVE  Slot!SNext \/ Same
<1>1. /\ pc[r] = "unused" /\ pc' = [pc EXCEPT ![r] = "accepted"]
      /\ task' = [task EXCEPT ![r] = n] /\ eventSet' = eventSet
      BY DEF RunBackground, Goto
<1>2. r \notin eventSet => askedBar' = askedBar
      BY <1>1 DEF askedBar, IsContained, IInv, TypeOK
<1>3. r \notin eventSet
      BY <1>1 DEF IInv, MainInv
<1>4. CASE n \in Contained
  <2>1. phaseBar[r] = "waiting" /\ phaseBar' = [phaseBar EXCEPT ![r] = "running"]
        BY <1>1, <1>4 DEF phaseBar, IsContained, PhaseOf, Running, IInv, TypeOK
  <2>2. Slot!Enter(r, GroupOf[n])
        BY <1>2, <1>3, <1>4, <2>1, HolderEnters DEF Slot!Enter
  <2> QED BY <1>4, <2>2, HolderEnters DEF Slot!SNext
<1>5. CASE n \notin Contained
  <2>1. phaseBar' = phaseBar
        BY <1>1, <1>5 DEF phaseBar, IsContained, IInv, TypeOK
  <2> QED BY <1>2, <1>3, <1>5, <2>1, OthersDoNotEnter DEF Same
<1> QED BY <1>4, <1>5

(* A step of a worker, or of the main thread on behalf of a run, inside one *)
(* phase.                                                                   *)
LEMMA InsidePhase ==
    ASSUME TypeOK, NEW r \in Runs,
           NEW from \in WorkerPC \ {"unused"}, NEW to \in WorkerPC \ {"unused"},
           Goto(r, from, to), PhaseOf(from) = PhaseOf(to),
           UNCHANGED <<registry, eventSet, task>>
    PROVE  Same
<1>1. phaseBar' = [phaseBar EXCEPT ![r] = phaseBar[r]] \/ phaseBar' = phaseBar
      BY PhaseMoves DEF Goto
<1>2. phaseBar' = phaseBar
      BY <1>1 DEF phaseBar
<1>3. askedBar' = askedBar
      BY PhaseMoves DEF Goto
<1> QED BY <1>2, <1>3 DEF Same, holderBar

(* The check after the work either stays inside the phase or commits.       *)
LEMMA TestMaps ==
    ASSUME IInv, NEW r \in Runs, Test(r)
    PROVE  Slot!SNext \/ Same
<1> USE DEF Running, Committed
<1>1. TypeOK /\ UNCHANGED <<registry, eventSet, task>>
      BY DEF IInv, Test
<1>2. CASE Goto(r, "polling", "cancelling") \/ Goto(r, "checking", "cancelling")
           \/ Goto(r, "polling", "work")
      BY <1>1, <1>2, InsidePhase DEF PhaseOf
<1>3. ASSUME NEW to \in {"delivering", "finishing"}, Goto(r, "checking", to),
             held[r] \notin eventSet
      PROVE  Slot!SNext \/ Same
  <2>1. /\ phaseBar' = IF task[r] \in Contained
                       THEN [phaseBar EXCEPT ![r] = PhaseOf(to)] ELSE phaseBar
        /\ phaseBar[r] = IF task[r] \in Contained THEN PhaseOf("checking") ELSE "waiting"
        /\ askedBar' = askedBar
        BY <1>1, <1>3, PhaseMoves DEF Goto
  <2>2. holderBar' = holderBar
        BY <1>1 DEF holderBar
  <2>3. CASE task[r] \in Contained
    <3>1. r \notin askedBar
          BY <1>3, <2>3 DEF askedBar, Goto, IInv, WorkerInv, Contained
    <3>2. Slot!Commit(r)
          BY <2>1, <2>2, <2>3, <3>1 DEF Slot!Commit, PhaseOf
    <3> QED BY <3>2 DEF Slot!SNext
  <2> QED BY <2>1, <2>2, <2>3 DEF Same
<1> QED BY <1>2, <1>3 DEF Test

(* The step that unregisters a run leaves the slot of its group.            *)
LEMMA LeaveMaps ==
    ASSUME IInv, NEW r \in Runs, NEW from \in WorkerPC, NEW to \in Terminal,
           Goto(r, from, to), MarkDone(task[r]), UNCHANGED <<eventSet, task>>,
           from \in Live \/ from = "reraise",
           \/ PhaseOf(from) = "committed" /\ PhaseOf(to) = "done"
           \/ from = "reported" /\ to = "failed"
           \/ from = "cancelling" /\ to = "cancelled"
           \/ task[r] \notin Contained
    PROVE  Slot!SNext \/ Same
<1>1. /\ phaseBar' = IF task[r] \in Contained
                     THEN [phaseBar EXCEPT ![r] = PhaseOf(to)] ELSE phaseBar
      /\ phaseBar[r] = IF task[r] \in Contained THEN PhaseOf(from) ELSE "waiting"
      /\ askedBar' = askedBar
      BY PhaseMoves DEF Goto, IInv
<1>2. task[r] \in Names
      BY DEF Goto, IInv, MainInv
<1>3. CASE task[r] \in Contained
  <2>1. from # "reraise" /\ LiveRun(r) /\ (from = "cancelling" => r \in askedBar)
        BY <1>3 DEF Goto, IInv, WorkerInv, CancelledWasAsked, Contained, askedBar, IsContained
  <2>2. Slot!Leave(r, GroupOf[task[r]])
        BY <1>1, <1>3, <2>1, HolderLeaves DEF Slot!Leave, PhaseOf, Running, Committed
  <2> QED BY <1>3, <2>1, <2>2, HolderLeaves DEF Slot!SNext
<1>4. CASE task[r] \notin Contained
      BY <1>1, <1>2, <1>4, OthersDoNotLeave DEF Same
<1> QED BY <1>3, <1>4

(* Setting the Event of a run asks that run to stop.                        *)
LEMMA CancelMaps ==
    ASSUME IInv, CancelSet
    PROVE  Slot!SNext \/ Same
<1>1. /\ mainRun \in Runs /\ pc[mainRun] # "unused" /\ task[mainRun] \in Names
      /\ UNCHANGED <<registry, pc, task>> /\ eventSet' = eventSet \cup {mainRun}
      BY DEF CancelSet, IInv, MainInv
<1>2. holderBar' = holderBar /\ phaseBar' = phaseBar
      BY <1>1 DEF holderBar, phaseBar, IsContained
<1>3. CASE task[mainRun] \in Contained
  <2>1. askedBar' = askedBar \cup {mainRun}
        BY <1>1, <1>3 DEF askedBar, IsContained
  <2>2. phaseBar[mainRun] # "waiting"
        BY <1>1, <1>3 DEF phaseBar, IsContained, PhaseOf, Running, Committed, IInv, TypeOK
  <2> QED BY <1>1, <1>2, <2>1, <2>2 DEF Slot!SNext, Slot!Ask
<1>4. CASE task[mainRun] \notin Contained
      BY <1>1, <1>2, <1>4 DEF askedBar, IsContained, Same
<1> QED BY <1>3, <1>4

(* One step of the runner is one step of the slot or leaves it unchanged.   *)
LEMMA StepMaps ==
    ASSUME IInv, [Next]_vars
    PROVE  [Slot!SNext]_(Slot!svars)
<1>1. Same => UNCHANGED Slot!svars
      BY DEF Same, Slot!svars
<1>2. TypeOK
      BY DEF IInv
<1>3. ASSUME NEW g \in Groups, CancelClick(g) PROVE Same
      BY <1>3 DEF CancelClick, Same, holderBar, phaseBar, askedBar, IsContained
<1>4. ASSUME CancelLookup PROVE Same
      BY <1>4 DEF CancelLookup, Same, holderBar, phaseBar, askedBar, IsContained
<1>5. ASSUME UNCHANGED vars PROVE Same
      BY <1>5 DEF vars, Same, holderBar, phaseBar, askedBar, IsContained
<1>6. ASSUME NEW r \in Runs,
             \/ StartThread(r) \/ StartFails(r) \/ BeginCallback(r) \/ ShowError(r)
             \/ DismissError(r) \/ WorkReturns(r) \/ WorkFails(r)
             \/ ErrorUndelivered(r) \/ DeliveryRefused(r)
      PROVE  Same
      BY <1>2, <1>6, InsidePhase
         DEF PhaseOf, Running, Committed, StartThread, StartFails, BeginCallback, ShowError,
             DismissError, WorkReturns, WorkFails, ErrorUndelivered, DeliveryRefused
<1>7. ASSUME NEW r \in Runs, Peek(r) PROVE Same
      BY <1>2, <1>7, InsidePhase DEF PhaseOf, Running, Committed, Peek, Goto
<1>8. ASSUME NEW r \in Runs, CallbackReturns(r) PROVE Slot!SNext \/ Same
      BY <1>8, LeaveMaps DEF CallbackReturns, PhaseOf, Running, Committed
<1>9. ASSUME NEW r \in Runs, CallbackRaises(r) PROVE Same
  <2>1. task[r] \in Names \ Contained /\ TypeOK
        BY <1>9 DEF CallbackRaises, Goto, IInv, MainInv, Contained
  <2>2. phaseBar' = phaseBar /\ askedBar' = askedBar
        BY <1>9, <2>1, PhaseMoves DEF CallbackRaises, Goto
  <2> QED BY <1>9, <2>1, <2>2, OthersDoNotLeave DEF CallbackRaises, Same
<1>10. ASSUME NEW r \in Runs, WorkerMarksDone(r) PROVE Slot!SNext \/ Same
  <2>1. pc[r] = "reraise" => task[r] \notin Contained
        BY DEF IInv, WorkerInv, Contained
  <2> QED BY <1>10, <2>1, LeaveMaps DEF WorkerMarksDone, PhaseOf, Running, Committed, Goto
<1>11. CASE \E r \in Runs : MainStep(r)
       BY <1>1, <1>6, <1>8, <1>9, <1>11 DEF MainStep
<1>12. CASE \E r \in Runs : WorkerStep(r)
       BY <1>1, <1>6, <1>7, <1>10, <1>12, TestMaps DEF WorkerStep
<1> QED BY <1>1, <1>3, <1>4, <1>5, <1>11, <1>12, RegisterMaps, CancelMaps DEF Next

(* The registry, with its names, groups and Events, keeps the promise of a  *)
(* slot: one run at a time, one outcome, no delivery after a cancel,        *)
(* whatever the ungrouped tasks and the raising callbacks do beside it.     *)
THEOREM RunnerImplementsSlot == Spec => ImplementsTaskSlot
<1>1. IInv /\ [Next]_vars => [Slot!SNext]_(Slot!svars)
      BY StepMaps
<1> QED BY <1>1, InitMaps, InitIInv, NextIInv, PTL DEF Spec, ImplementsTaskSlot, Slot!SSpec

-----------------------------------------------------------------------------
(* The preview, for any types, whichever calls of IDA fail, are ignored or  *)
(* raise, and whatever the user sets between them.                          *)

(* The temporary prototype is not the user's, and not what is put back.     *)
Origin ==
    /\ original \in Types
    /\ step \in {"confirm", "read"} => type \in Types

(* A restore that was read back is over: the prototype is gone for good.    *)
RestoredIsGone ==
    restoreOk => step \in {"report"} \cup Ended /\ type \in Types

(* Until the restore the function has the type it had, the prototype, or    *)
(* one the user set.                                                        *)
TypeIsOf ==
    step \in {"apply", "refresh", "decompile"} => type \in {Temp, original} \/ edits > 0

(* After decompiling without an error there is pseudocode that passes for   *)
(* the proposal, under one of these types.                                  *)
ImprovedRealizes ==
    step \in {"restore", "refresh2", "verify", "report"} /\ ~opError =>
        Realizes(improved, proposal) /\ (improved \in {Temp, original} \/ edits > 0)

AssistInv ==
    /\ AssistTypeOK /\ Origin /\ RestoredIsGone /\ TypeIsOf /\ ImprovedRealizes
    /\ TempLeftIsReported /\ PreviewRealizesTheProposal

LEMMA AssistInitHolds == AssistInit => AssistInv
<1> SUFFICES ASSUME AssistInit PROVE AssistInv
  OBVIOUS
<1> USE AssistAssumption DEF AssistInit
<1>1. AssistTypeOK
  <2>1. edits \in 0..MaxEdits
    OBVIOUS
  <2>2. step \in Sections \cup Ended
    BY DEF Sections
  <2> QED
    BY <2>1, <2>2 DEF AssistTypeOK
<1> QED
  BY <1>1 DEF AssistInv, Origin, RestoredIsGone, TypeIsOf, ImprovedRealizes, TempLeftIsReported,
              PreviewRealizesTheProposal, Ended

LEMMA AssistSteps == AssistInv /\ [AssistNext]_assist => AssistInv'
<1> SUFFICES ASSUME AssistInv, [AssistNext]_assist PROVE AssistInv'
  OBVIOUS
<1>p. proposal' = proposal
  BY DEF AssistNext, assist
<1> USE <1>p, AssistAssumption
    DEF AssistInv, AssistTypeOK, Origin, RestoredIsGone, TypeIsOf, ImprovedRealizes,
        TempLeftIsReported, PreviewRealizesTheProposal, Sections, Ended, Fails, Goes
<1>1. CASE Confirm
  BY <1>1 DEF Confirm
<1>2. CASE ReadOriginal
  BY <1>2 DEF ReadOriginal
<1>3. CASE ApplyTemp
  BY <1>3 DEF ApplyTemp
<1>4. CASE RefreshTemp
  BY <1>4 DEF RefreshTemp
<1>5. CASE Decompile
  BY <1>5 DEF Decompile
<1>6. CASE Restore
  BY <1>6 DEF Restore
<1>7. CASE RefreshRestored
  BY <1>7 DEF RefreshRestored
<1>8. CASE Verify
  <2> USE <1>8 DEF Verify
  <2>1. restoreOk' = restoreOk \/ restoreOk' = (type = original)
    OBVIOUS
  <2>2. restoreOk' \in BOOLEAN
    BY <2>1
  <2>3. AssistTypeOK'
    BY <2>2
  <2> QED
    BY <2>3
<1>9. CASE Report
  BY <1>9 DEF Report
<1>10. CASE UserCancels
  BY <1>10 DEF UserCancels
<1>11. ASSUME NEW t \in Types, UserSetsType(t) PROVE AssistInv'
  BY <1>11 DEF UserSetsType
<1>12. CASE UNCHANGED assist
  BY <1>12 DEF assist
<1> QED
  BY <1>1, <1>2, <1>3, <1>4, <1>5, <1>6, <1>7, <1>8, <1>9, <1>10, <1>11, <1>12
     DEF AssistNext, TaskStep

(* A temporary prototype that survives the task was reported: the restore   *)
(* is believed only when the type was read back (finally of the preview).   *)
THEOREM LeftPrototypeIsReported == AssistSpec => []TempLeftIsReported
<1>1. AssistInv => TempLeftIsReported
  BY DEF AssistInv
<1> QED
  BY <1>1, AssistInitHolds, AssistSteps, PTL DEF AssistSpec

(* A preview passes for the proposal, and was decompiled under the proposed *)
(* prototype unless the function already had a type that passes for it, or  *)
(* got one from the user, whatever IDA ignores and the user sets.           *)
THEOREM PreviewCarriesTheProposal == AssistSpec => []PreviewRealizesTheProposal
<1>1. AssistInv => PreviewRealizesTheProposal
  BY DEF AssistInv
<1> QED
  BY <1>1, AssistInitHolds, AssistSteps, PTL DEF AssistSpec

-----------------------------------------------------------------------------
(* A batch that appends appends what the file does not list yet: to a whole *)
(* file an append is then the same as an upsert.  No promise is kept once   *)
(* two writers died and the file is not whole.                              *)
AppendsNew(f, b, m, c) ==
    (Intact(f) \/ c <= 1) /\ b # NoSection /\ m # "upsert" => \A e \in b : e \notin Listed(f)

FileInv ==
    /\ file \in Seq(Lines) /\ crashes \in Nat
    /\ AppendsNew(file, batch, mode, crashes)
    /\ crashes = 0 => Intact(file)
    /\ crashes <= 1 => OneTorn(file)

LEMMA FileInit == ForgeInit => FileInv
  BY EmptyFile DEF ForgeInit, FileInv, AppendsNew

LEMMA FileStep == FileInv /\ [ForgeNext]_forgeVars => FileInv'
<1> SUFFICES ASSUME FileInv, [ForgeNext]_forgeVars PROVE FileInv'
  OBVIOUS
<1>0. /\ file \in Seq(Lines) /\ crashes \in Nat
      /\ AppendsNew(file, batch, mode, crashes)
      /\ crashes = 0 => Intact(file)
      /\ crashes <= 1 => OneTorn(file)
  BY DEF FileInv
<1>t. ASSUME file' \in Seq(Lines), AppendsNew(file', batch', mode', crashes'),
             crashes' = crashes, crashes = 0 => Intact(file'), crashes <= 1 => OneTorn(file')
      PROVE  FileInv'
  BY <1>0, <1>t DEF FileInv
<1>c. ASSUME NEW g \in Seq(Lines), NEW n \in 0..Len(g), file' = SubSeq(g, 1, n),
             crashes = 0 => Intact(g) /\ OneTorn(g), crashes' = crashes + 1, batch' = NoSection
      PROVE  FileInv'
  <2>1. file' \in Seq(Lines)
    BY <1>c, FirstLines
  <2>2. crashes = 0 => OneTorn(file')
    BY <1>c, OneTornLeft
  <2>3. crashes' \in Nat /\ crashes' # 0 /\ (crashes' <= 1 => crashes = 0)
    BY <1>0, <1>c
  <2> QED
    BY <1>c, <2>1, <2>2, <2>3 DEF FileInv, AppendsNew
<1>1. ASSUME NEW e \in Eas, NEW t \in Texts, UpsertSection(e, t) PROVE FileInv'
  <2>1. file' = Upsert(file, e, t) /\ crashes' = crashes
    BY <1>1 DEF UpsertSection
  <2>2. AppendsNew(file', batch', mode', crashes')
    BY <1>1 DEF UpsertSection, Upserting, Done, AppendsNew
  <2> QED
    BY <1>0, <1>t, <2>1, <2>2, UpsertTyped, UpsertKeepsWhole, UpsertAfterTorn
<1>2. ASSUME NEW e \in Eas, NEW t \in Texts, UpsertRaises(e, t) PROVE FileInv'
  <2>1. AppendsNew(file', batch', mode', crashes')
    BY <1>2 DEF UpsertRaises, Upserting, Done, AppendsNew
  <2> QED
    BY <1>0, <1>2, <1>t, <2>1 DEF UpsertRaises
<1>3. ASSUME NEW e \in Eas, NEW t \in Texts, UpsertCrashes(e, t) PROVE FileInv'
  <2>1. PICK g \in Seq(Lines) : g = Upsert(file, e, t)
    BY <1>0, UpsertTyped
  <2>2. crashes = 0 => Intact(g) /\ OneTorn(g)
    BY <1>0, <2>1, UpsertKeepsWhole, UpsertAfterTorn
  <2> QED
    BY <1>3, <1>c, <2>1, <2>2 DEF UpsertCrashes
<1>n. ASSUME NEW e \in Eas, NEW t \in Texts, Appending(e)
      PROVE  /\ file \o Section(e, t) \in Seq(Lines)
             /\ crashes = 0 => Intact(file \o Section(e, t))
             /\ crashes <= 1 => OneTorn(file \o Section(e, t))
             /\ Intact(file \o Section(e, t)) \/ crashes <= 1 =>
                   /\ \A x \in batch : x \notin Listed(file)
                   /\ Listed(file \o Section(e, t)) \subseteq Listed(file) \cup {e}
  <2>1. file \o Section(e, t) \in Seq(Lines)
    BY <1>0, ReplacementIs, Joined
  <2>2. PICK g \in Seq(Lines) : g = file \o Section(e, t)
    BY <2>1
  <2>3. Intact(file) \/ crashes <= 1 => e \notin Listed(file) /\ \A x \in batch : x \notin Listed(file)
    BY <1>0, <1>n DEF Appending, AppendsNew
  <2>4. Intact(file) => Intact(g) /\ Listed(g) \subseteq Listed(file) \cup {e}
    BY <1>0, <2>2, <2>3, ListedWholes, AppendsWhole
  <2>5. Intact(g) => Intact(file)
    BY <1>0, <2>2, DamagedStays
  <2>6. crashes <= 1 => OneTorn(g) /\ Listed(g) \subseteq Listed(file) \cup {e}
    BY <1>0, <2>2, <2>3, AppendsAfterTorn
  <2>7. crashes = 0 => crashes <= 1
    OBVIOUS
  <2> QED
    BY <1>0, <2>2, <2>3, <2>4, <2>5, <2>6, <2>7
<1>4. ASSUME NEW e \in Eas, NEW t \in Texts, BatchAppends(e, t) PROVE FileInv'
  <2>1. Appending(e) /\ file' = file \o Section(e, t) /\ batch' = batch \ {e} /\ crashes' = crashes
    BY <1>4 DEF BatchAppends
  <2>2. AppendsNew(file', batch', mode', crashes')
    BY <1>n, <2>1 DEF AppendsNew
  <2> QED
    BY <1>n, <1>t, <2>1, <2>2
<1>5. ASSUME NEW e \in Eas, NEW t \in Texts, BatchCrashes(e, t) PROVE FileInv'
  <2>1. PICK m \in 0..2 : file' = file \o SubSeq(Section(e, t), 1, m)
    BY <1>5 DEF BatchCrashes
  <2>2. Appending(e) /\ crashes' = crashes + 1 /\ batch' = NoSection
    BY <1>5 DEF BatchCrashes
  <2>3. PICK s \in Seq(Lines) : s = Section(e, t) /\ Len(s) = 3
    BY ReplacementIs
  <2>4. PICK g \in Seq(Lines) : g = file \o s
    BY <1>n, <2>2, <2>3
  <2>5. \E n \in 0..Len(g) : file' = SubSeq(g, 1, n)
    <3>1. m \in 0..Len(s)
      BY <2>3
    <3>2. Len(file) + m \in 0..Len(file \o s) /\ file \o SubSeq(s, 1, m) = SubSeq(file \o s, 1, Len(file) + m)
      BY <1>0, <3>1, PrefixOfBoth
    <3> QED
      BY <2>1, <2>3, <2>4, <3>2, Zenon
  <2>6. crashes = 0 => Intact(g) /\ OneTorn(g)
    <3>1. crashes = 0 => crashes <= 1
      OBVIOUS
    <3> QED
      BY <1>n, <2>2, <2>3, <2>4, <3>1
  <2> QED
    BY <1>c, <2>2, <2>5, <2>6
<1>6. ASSUME NEW m \in Modes, NEW todo \in (SUBSET Eas) \ {{}}, BatchStarts(m, todo) PROVE FileInv'
  <2>1. file' = <<>> \/ (file' = file /\ m \in {"resume", "upsert"})
    <3>1. m \in {"overwrite", "resume", "upsert"}
      BY ForgeAssumption
    <3>2. file' = IF m = "overwrite" THEN <<>> ELSE file
      BY <1>6 DEF BatchStarts
    <3>3. CASE m = "overwrite"
      BY <3>2, <3>3
    <3>4. CASE m # "overwrite"
      BY <3>1, <3>2, <3>4, Zenon
    <3> QED
      BY <3>3, <3>4
  <2>2. crashes' = crashes
    BY <1>6 DEF BatchStarts
  <2>3. CASE file' = <<>>
    <3>1. AppendsNew(file', batch', mode', crashes')
      BY <2>3, EmptyFile DEF AppendsNew
    <3> QED
      BY <1>t, <2>2, <2>3, <3>1, EmptyFile
  <2>4. CASE file' = file /\ m \in {"resume", "upsert"}
    <3>1. AppendsNew(file', batch', mode', crashes')
      BY <1>6, <2>4 DEF BatchStarts, AppendsNew
    <3> QED
      BY <1>0, <1>t, <2>2, <2>4, <3>1
  <2> QED
    BY <2>1, <2>3, <2>4
<1>7. ASSUME NEW e \in Eas, BatchSkips(e) PROVE FileInv'
  BY <1>0, <1>7, <1>t DEF BatchSkips, AppendsNew
<1>8. CASE BatchEnds
  BY <1>0, <1>8, <1>t DEF BatchEnds, AppendsNew
<1>9. CASE UNCHANGED forgeVars
  BY <1>0, <1>9, <1>t DEF forgeVars
<1> QED
  BY <1>1, <1>2, <1>3, <1>4, <1>5, <1>6, <1>7, <1>8, <1>9 DEF ForgeNext

(* The chooser lists a function at most once, also after a writer died and  *)
(* left a torn section that later sections followed.                        *)
THEOREM FunctionsAreListedOnce == ForgeSpec => []ListedOnce
<1>1. FileInv => ListedOnce
  BY OneTornListedOnce DEF FileInv, ListedOnce
<1> QED
  BY <1>1, FileInit, FileStep, PTL DEF ForgeSpec

(* A write to a file of whole sections puts its own text into the map: an   *)
(* upsert replaces or adds the section, an append finds none to replace.    *)
LEMMA WritesPut ==
    ASSUME Escaped = {}, FileInv, Intact(file), NEW e \in Eas, NEW t \in Texts,
           UpsertSection(e, t) \/ BatchAppends(e, t)
    PROVE  Map!Put(e, t)
<1>0. file \in Seq(Lines) /\ AppendsNew(file, batch, mode, crashes)
  BY DEF FileInv
<1>1. /\ Intact(file') /\ crashes' = crashes
      /\ Found(file', e) = t /\ \A x \in Eas \ {e} : Found(file', x) = Found(file, x)
  <2>1. CASE UpsertSection(e, t)
    <3>1. file' = Upsert(file, e, t) /\ crashes' = crashes
      BY <2>1 DEF UpsertSection
    <3> QED
      BY <1>0, <3>1, UpsertKeepsWhole
  <2>2. CASE BatchAppends(e, t)
    <3>1. file' = file \o Section(e, t) /\ crashes' = crashes /\ Appending(e)
      BY <2>2 DEF BatchAppends
    <3>2. \A k \in Wholes(file) : file[k].of # e
      BY <1>0, <3>1, ListedWholes DEF Appending, AppendsNew
    <3> QED
      BY <1>0, <3>1, <3>2, AppendsWhole
  <2> QED
    BY <2>1, <2>2
<1>2. [x \in Eas |-> Found(file', x)] = [[x \in Eas |-> Found(file, x)] EXCEPT ![e] = t]
  BY <1>1
<1> QED
  BY <1>1, <1>2 DEF Map!Put

LEMMA MapStep ==
    ASSUME Escaped = {}, FileInv, [ForgeNext]_forgeVars
    PROVE  [Map!Next]_(Map!svars)
<1> DEFINE found(f) == [x \in Eas |-> Found(f, x)]
<1> USE DEF Map!svars
<1>0. file \in Seq(Lines) /\ crashes \in Nat /\ AppendsNew(file, batch, mode, crashes)
  BY DEF FileInv
<1>s. ASSUME file' = file, crashes' = crashes PROVE UNCHANGED Map!svars
  BY <1>s
<1>d. ASSUME ~Intact(file), crashes' \in {crashes, crashes + 1} PROVE Map!Next
  BY <1>d DEF Map!Next, Map!Unspecified
<1>p. ASSUME NEW e \in Eas, NEW t \in Texts, Intact(file), UpsertSection(e, t) \/ BatchAppends(e, t)
      PROVE  Map!Next
  BY <1>p, WritesPut DEF Map!Next
<1>l. ASSUME NEW e \in Eas, NEW t \in Texts, NEW g \in Seq(Lines), NEW n \in 0..Len(g),
             Intact(file), Intact(g), Found(g, e) = t, \A x \in Eas \ {e} : Found(g, x) = Found(file, x),
             file' = SubSeq(g, 1, n), crashes' = crashes + 1
      PROVE  Map!Next
  <2>1. \A x \in Eas : Found(file', x) \in {Found(g, x), NoSection}
    BY <1>l, PrefixOfWhole
  <2>2. \A x \in Eas : Found(file', x) \in {Found(file, x), NoSection} \cup (IF x = e THEN {t} ELSE {})
    BY <1>l, <2>1
  <2>3. Map!Lose(e, t)
    BY <1>l, <2>2 DEF Map!Lose
  <2> QED
    BY <2>3 DEF Map!Next
<1>n. ASSUME NEW e \in Eas, Appending(e), Intact(file) PROVE \A k \in Wholes(file) : file[k].of # e
  BY <1>0, <1>n, ListedWholes DEF Appending, AppendsNew
<1>1. ASSUME NEW e \in Eas, NEW t \in Texts, UpsertSection(e, t) PROVE Map!Next
  <2>1. crashes' = crashes
    BY <1>1 DEF UpsertSection
  <2> QED
    BY <1>1, <1>d, <1>p, <2>1
<1>2. ASSUME NEW e \in Eas, NEW t \in Texts, UpsertRaises(e, t) PROVE UNCHANGED Map!svars
  BY <1>2, <1>s DEF UpsertRaises
<1>3. ASSUME NEW e \in Eas, NEW t \in Texts, UpsertCrashes(e, t) PROVE Map!Next
  <2>1. /\ \E n \in 0..Len(Upsert(file, e, t)) : file' = SubSeq(Upsert(file, e, t), 1, n)
        /\ crashes' = crashes + 1
    BY <1>3 DEF UpsertCrashes
  <2> QED
    BY <1>0, <1>d, <1>l, <2>1, UpsertKeepsWhole
<1>4. ASSUME NEW e \in Eas, NEW t \in Texts, BatchAppends(e, t) PROVE Map!Next
  <2>1. crashes' = crashes
    BY <1>4 DEF BatchAppends
  <2> QED
    BY <1>4, <1>d, <1>p, <2>1
<1>5. ASSUME NEW e \in Eas, NEW t \in Texts, BatchCrashes(e, t) PROVE Map!Next
  <2>1. PICK n \in 0..2 : file' = file \o SubSeq(Section(e, t), 1, n)
    BY <1>5 DEF BatchCrashes
  <2>2. crashes' = crashes + 1 /\ Appending(e)
    BY <1>5 DEF BatchCrashes
  <2>3. PICK g \in Seq(Lines) : g = file \o Section(e, t)
    <3>1. \A a, b \in Seq(Lines) : a \o b \in Seq(Lines)
      OBVIOUS
    <3> QED
      BY <1>0, <3>1, ReplacementIs
  <2>4. \E m \in 0..Len(g) : file' = SubSeq(g, 1, m)
    <3>1. PICK s \in Seq(Lines) : s = Section(e, t) /\ Len(s) = 3
      BY ReplacementIs
    <3>2. n \in 0..Len(s)
      BY <3>1
    <3>3. Len(file) + n \in 0..Len(file \o s) /\ file \o SubSeq(s, 1, n) = SubSeq(file \o s, 1, Len(file) + n)
      BY <1>0, <3>2, PrefixOfBoth
    <3> QED
      BY <2>1, <2>3, <3>1, <3>3, Zenon
  <2>5. CASE Intact(file)
    <3>1. /\ Intact(g) /\ Found(g, e) = t
          /\ \A x \in Eas \ {e} : Found(g, x) = Found(file, x)
      BY <1>0, <1>n, <2>2, <2>3, <2>5, AppendsWhole
    <3> QED
      BY <1>l, <2>2, <2>4, <2>5, <3>1
  <2> QED
    BY <1>0, <1>d, <2>2, <2>5
<1>6. ASSUME NEW m \in Modes, NEW todo \in (SUBSET Eas) \ {{}}, BatchStarts(m, todo) PROVE [Map!Next]_(Map!svars)
  <2>1. (file' = <<>> \/ file' = file) /\ crashes' = crashes
    BY <1>6 DEF BatchStarts
  <2>2. CASE file' = <<>>
    <3>1. [x \in Eas |-> Found(file', x)] = [x \in Eas |-> NoSection] /\ Intact(file')
      BY <2>2, EmptyFile
    <3>2. Map!StartAfresh
      BY <2>1, <3>1 DEF Map!StartAfresh
    <3> QED
      BY <3>2 DEF Map!Next
  <2>3. CASE file' = file
    BY <1>s, <2>1, <2>3
  <2> QED
    BY <2>1, <2>2, <2>3
<1>7. ASSUME NEW e \in Eas, BatchSkips(e) PROVE UNCHANGED Map!svars
  BY <1>7, <1>s DEF BatchSkips
<1>8. CASE BatchEnds
  BY <1>8, <1>s DEF BatchEnds
<1>9. CASE UNCHANGED forgeVars
  BY <1>9, <1>s DEF forgeVars
<1> QED
  BY <1>1, <1>2, <1>3, <1>4, <1>5, <1>6, <1>7, <1>8, <1>9 DEF ForgeNext

(* For readers the file is the map from functions to their latest section:  *)
(* each plug-in upsert and each batch append to a file of whole sections    *)
(* puts its own text, and writers that die lose sections and change none.   *)
THEOREM FileIsSectionMap == ASSUME Escaped = {} PROVE ForgeSpec => ImplementsSectionMap
<1>1. ForgeInit => Map!Init
  BY EmptyFile DEF ForgeInit, Map!Init
<1>2. FileInv /\ [ForgeNext]_forgeVars => [Map!Next]_(Map!svars)
  BY MapStep
<1>3. FileInv /\ [ForgeNext]_forgeVars
         => [\A e \in Eas, t \in Texts :
                Intact(file) /\ (UpsertSection(e, t) \/ BatchAppends(e, t)) => Map!Put(e, t)]_forgeVars
  BY WritesPut
<1> QED
  BY <1>1, <1>2, <1>3, FileInit, FileStep, PTL DEF ForgeSpec, ImplementsSectionMap, Map!Spec

-----------------------------------------------------------------------------
(* What a writer holds keeps to its type: a batch has functions to do and a *)
(* mode of the command line, and writes and deaths stay in their bounds.    *)
WriterInv ==
    /\ batch = NoSection \/ batch \subseteq Eas
    /\ mode \in Modes \cup {NoSection}
    /\ writes \in 0..MaxWrites /\ crashes \in 0..MaxCrashes

LEMMA WriterInit == ForgeInit => WriterInv
  BY ForgeAssumption DEF ForgeInit, WriterInv

LEMMA WriterStep == WriterInv /\ [ForgeNext]_forgeVars => WriterInv'
<1> SUFFICES ASSUME WriterInv, [ForgeNext]_forgeVars PROVE WriterInv'
  OBVIOUS
<1> USE ForgeAssumption DEF WriterInv
<1>1. ASSUME NEW e \in Eas, NEW t \in Texts, UpsertSection(e, t) \/ UpsertRaises(e, t) PROVE WriterInv'
  BY <1>1 DEF UpsertSection, UpsertRaises, Upserting, Done
<1>2. ASSUME NEW e \in Eas, NEW t \in Texts, UpsertCrashes(e, t) \/ BatchCrashes(e, t) PROVE WriterInv'
  BY <1>2 DEF UpsertCrashes, BatchCrashes, Upserting, Appending
<1>3. ASSUME NEW e \in Eas, NEW t \in Texts, BatchAppends(e, t) PROVE WriterInv'
  BY <1>3 DEF BatchAppends, Appending
<1>4. ASSUME NEW m \in Modes, NEW todo \in (SUBSET Eas) \ {{}}, BatchStarts(m, todo) PROVE WriterInv'
  BY <1>4 DEF BatchStarts
<1>5. CASE (\E e \in Eas : BatchSkips(e)) \/ BatchEnds
  BY <1>5 DEF BatchSkips, BatchEnds
<1>6. CASE UNCHANGED forgeVars
  BY <1>6 DEF forgeVars
<1> QED
  BY <1>1, <1>2, <1>3, <1>4, <1>5, <1>6 DEF ForgeNext

(* The file is made of markers and texts, of whole sections as long as no   *)
(* writer died, and its writers keep to their types.                        *)
LEMMA FileKeepsTypes == FileInv /\ WriterInv => ForgeTypeOK
  BY DEF FileInv, WriterInv, ForgeTypeOK

-----------------------------------------------------------------------------
(* What findings 2 and 3 need.  In a file of whole sections an upsert       *)
(* writes the text as it was rendered when the function is new to the file, *)
(* and expanded when it is not and re.sub has an escape to expand; it       *)
(* leaves every other section as it was.  So a text is only mangled by the  *)
(* second analysis of its function, and others are only lost after a writer *)
(* has died.                                                                *)
RewritesItsSection ==
    [][\A e \in Eas, t \in Texts : Intact(file) /\ UpsertSection(e, t) =>
            /\ Found(file', e) = IF e \in Listed(file) THEN Shown(t) ELSE t
            /\ \A o \in Eas \ {e} : Found(file', o) = Found(file, o)]_forgeVars

(* The promise of upsert_forge_section, as far as it goes: from a file of   *)
(* whole sections a reader gets back the text of this write, but for the    *)
(* escapes re.sub expands in a replacement, and that of every other one.    *)
THEOREM WholeFileIsRewritten == ForgeSpec => RewritesItsSection
<1>1. ASSUME FileInv, NEW e \in Eas, NEW t \in Texts, Intact(file), UpsertSection(e, t)
      PROVE  /\ Found(file', e) = IF e \in Listed(file) THEN Shown(t) ELSE t
             /\ \A o \in Eas \ {e} : Found(file', o) = Found(file, o)
  <2>1. file \in Seq(Lines) /\ file' = Upsert(file, e, t)
    BY <1>1 DEF FileInv, UpsertSection
  <2> QED
    BY <1>1, <2>1, UpsertKeepsWhole, ListedMatches
<1>2. FileInv /\ [ForgeNext]_forgeVars
         => [\A e \in Eas, t \in Texts : Intact(file) /\ UpsertSection(e, t) =>
                /\ Found(file', e) = IF e \in Listed(file) THEN Shown(t) ELSE t
                /\ \A o \in Eas \ {e} : Found(file', o) = Found(file, o)]_forgeVars
  BY <1>1
<1> QED
  BY <1>2, FileInit, FileStep, PTL DEF ForgeSpec, RewritesItsSection

-----------------------------------------------------------------------------
(* What the runs explore.                                                   *)

(* Behind TasksTypeOK: the invariants of the three parts.                   *)
TasksInv == IInv /\ AssistInv /\ FileInv /\ WriterInv

(* The instance that the runs explore takes no step that the registry, the  *)
(* preview or the .forge file would not take: each behaviour is one of every*)
(* component's specification, and what is proved of these holds of it.      *)
THEOREM TasksCompose == MCSpec => Spec /\ AssistSpec /\ ForgeSpec
<1>1. MCInit => Init /\ AssistInit /\ ForgeInit
  BY DEF MCInit
<1>2. [MCNext]_<<part, vars, assist, forgeVars>>
         => [Next]_vars /\ [AssistNext]_assist /\ [ForgeNext]_forgeVars
  BY DEF MCNext
<1> QED
  BY <1>1, <1>2, PTL DEF MCSpec, Spec, AssistSpec, ForgeSpec

(* The tables of the registry, the state of the previewing task and the     *)
(* lines and writers of the file keep to their types, for any number of     *)
(* tasks, types, functions and deaths.                                      *)
THEOREM TasksKeepTypes == MCSpec => []TasksTypeOK
<1>1. TasksInv => TasksTypeOK
  BY FileKeepsTypes DEF TasksInv, TasksTypeOK, IInv, AssistInv
<1>2. Init /\ AssistInit /\ ForgeInit => TasksInv
  BY InitIInv, AssistInitHolds, FileInit, WriterInit DEF TasksInv
<1>3. TasksInv /\ [Next]_vars /\ [AssistNext]_assist /\ [ForgeNext]_forgeVars => TasksInv'
  BY NextIInv, AssistSteps, FileStep, WriterStep DEF TasksInv
<1> QED
  BY <1>1, <1>2, <1>3, TasksCompose, PTL DEF Spec, AssistSpec, ForgeSpec
=============================================================================
