---------------------------- MODULE AsyncRunner ----------------------------
(***************************************************************************)
(* The background task registry of the IDA plug-in                          *)
(* (ida_pseudoforge/ida/async_runner.py) with the two kinds of thread that  *)
(* use it: IDA's main thread, which starts tasks, cancels them and runs     *)
(* their callbacks, and one daemon worker thread per accepted task.         *)
(*                                                                          *)
(* The registry is keyed by task NAME and by group.  A run is one accepted  *)
(* call of run_background; it owns the threading.Event created for it.      *)
(* Every block under _ACTIVE_LOCK is one step; what the code does after it  *)
(* released the lock is another one.                                        *)
(***************************************************************************)
EXTENDS Naturals

CONSTANTS Names,      \* task names: "analyze", "export", "apply", ...
          Groups,     \* coordination groups: the plug-in has "plugin_state"
          Runs,       \* accepted calls of run_background (the model's bound)
          GroupOf,    \* the group each caller passes with its task name
          Polling,    \* names whose work calls raise_if_cancelled(own name)
          Raising,    \* names whose on_success callback may raise
          NoTask, NoGroup, NoRun

ASSUME NamesAssumption  == NoTask \notin Names
ASSUME GroupsAssumption == NoGroup \notin Groups
ASSUME RunsAssumption   == NoRun \notin Runs
ASSUME CallersAssumption ==
    /\ GroupOf \in [Names -> Groups \cup {NoGroup}]
    /\ Polling \subseteq Names
    /\ Raising \subseteq Names

VARIABLES
    activeTasks,    \* _ACTIVE_TASKS
    activeGroups,   \* _ACTIVE_GROUPS, NoTask for a missing key
    activeCancels,  \* _ACTIVE_CANCELS: the run whose Event is registered
    eventSet,       \* the runs whose Event is set
    pc,             \* where the worker thread of each run is
    task,           \* the task name of each run
    held,           \* the Event a worker looked up and has yet to test
    main,           \* what the main thread is doing
    mainRun,        \* the run whose callback, dialog or Event it holds
    mainTask,       \* the name request_group_cancel read from the group
    aimed           \* history: the run registered when Cancel was clicked

vars == <<activeTasks, activeGroups, activeCancels, eventSet, pc, task, held,
          main, mainRun, mainTask, aimed>>
registry == <<activeTasks, activeGroups, activeCancels>>
mainVars == <<main, mainRun, mainTask, aimed>>

(* A run that has not yet executed its own _mark_done. *)
Live == {"accepted", "stillborn", "work", "polling", "returned", "checking",
         "cancelling", "failing", "dialog", "reported", "finishing",
         "delivering", "refused", "callback"}
Terminal == {"cancelled", "failed", "finished", "delivered", "raised"}
WorkerPC == {"unused", "reraise"} \cup Live \cup Terminal
MainPC == {"idle", "starting", "lookup", "setting", "callback", "dialog"}

TypeOK ==
    /\ activeTasks \subseteq Names
    /\ activeGroups \in [Groups -> Names \cup {NoTask}]
    /\ activeCancels \in [Names -> Runs \cup {NoRun}]
    /\ eventSet \subseteq Runs
    /\ pc \in [Runs -> WorkerPC]
    /\ task \in [Runs -> Names \cup {NoTask}]
    /\ held \in [Runs -> Runs \cup {NoRun}]
    /\ main \in MainPC
    /\ mainRun \in Runs \cup {NoRun}
    /\ mainTask \in Names \cup {NoTask}
    /\ aimed \in Runs \cup {NoRun}

Init ==
    /\ activeTasks = {}
    /\ activeGroups = [g \in Groups |-> NoTask]
    /\ activeCancels = [n \in Names |-> NoRun]
    /\ eventSet = {}
    /\ pc = [r \in Runs |-> "unused"]
    /\ task = [r \in Runs |-> NoTask]
    /\ held = [r \in Runs |-> NoRun]
    /\ main = "idle" /\ mainRun = NoRun /\ mainTask = NoTask /\ aimed = NoRun

Goto(r, from, to) == pc[r] = from /\ pc' = [pc EXCEPT ![r] = to]
Idle == main' = "idle" /\ mainRun' = NoRun /\ mainTask' = NoTask /\ aimed' = NoRun

(* What could be wrong with it: the key is kept with an empty value, or     *)
(* the Event stays registered.                                              *)
MarkDoneLeavesKey(n) ==
    /\ activeTasks' = activeTasks \ {n}
    /\ activeCancels' = [activeCancels EXCEPT ![n] = NoRun]
    /\ activeGroups' = [g \in Groups |->
            IF activeGroups[g] = n THEN NoRun ELSE activeGroups[g]]
MarkDoneKeepsEvent(n) ==
    /\ activeTasks' = activeTasks \ {n}
    /\ activeGroups' = [g \in Groups |->
            IF g = GroupOf[n] /\ activeGroups[g] = n THEN NoTask ELSE activeGroups[g]]
    /\ UNCHANGED activeCancels

(* _mark_done: by name, whoever registered it. *)
MarkDone(n) ==
    /\ activeTasks' = activeTasks \ {n}
    /\ activeCancels' = [activeCancels EXCEPT ![n] = NoRun]
    /\ activeGroups' = [g \in Groups |->
            IF g = GroupOf[n] /\ activeGroups[g] = n THEN NoTask ELSE activeGroups[g]]

-----------------------------------------------------------------------------
(* IDA's main thread.                                                       *)

(* What could be wrong: only the name is checked, not the group.            *)
RunBackgroundNoGroupCheck(r, n) ==
    /\ main = "idle"
    /\ n \notin activeTasks
    /\ Goto(r, "unused", "accepted")
    /\ task' = [task EXCEPT ![r] = n]
    /\ activeTasks' = activeTasks \cup {n}
    /\ activeCancels' = [activeCancels EXCEPT ![n] = r]
    /\ activeGroups' = [g \in Groups |-> IF g = GroupOf[n] THEN n ELSE activeGroups[g]]
    /\ main' = "starting" /\ mainRun' = r
    /\ UNCHANGED <<eventSet, held, mainTask, aimed>>

(* run_background, accepted: a refused call returns False and changes       *)
(* nothing.                                                                 *)
RunBackground(r, n) ==
    /\ main = "idle"
    /\ n \notin activeTasks
    /\ GroupOf[n] \in Groups => activeGroups[GroupOf[n]] = NoTask
    /\ Goto(r, "unused", "accepted")
    /\ task' = [task EXCEPT ![r] = n]
    /\ activeTasks' = activeTasks \cup {n}
    /\ activeCancels' = [activeCancels EXCEPT ![n] = r]
    /\ activeGroups' = [g \in Groups |-> IF g = GroupOf[n] THEN n ELSE activeGroups[g]]
    /\ main' = "starting" /\ mainRun' = r
    /\ UNCHANGED <<eventSet, held, mainTask, aimed>>

StartThread(r) ==
    /\ main = "starting" /\ mainRun = r
    /\ Goto(r, "accepted", "work")
    /\ Idle
    /\ UNCHANGED <<registry, eventSet, task, held>>

(* Thread.start raises (no thread can be created): the exception leaves     *)
(* run_background and nobody takes the registration back.                   *)
StartFails(r) ==
    /\ main = "starting" /\ mainRun = r
    /\ Goto(r, "accepted", "stillborn")
    /\ Idle
    /\ UNCHANGED <<registry, eventSet, task, held>>

(* The Cancel menu action: request_group_cancel reads the name of the       *)
(* group's task under the lock, request_cancel then looks its Event up      *)
(* under the lock again, and sets it without the lock.                      *)
CancelClick(g) ==
    /\ main = "idle"
    /\ activeGroups[g] # NoTask
    /\ main' = "lookup" /\ mainTask' = activeGroups[g]
    /\ aimed' = activeCancels[activeGroups[g]]
    /\ UNCHANGED <<registry, eventSet, pc, task, held, mainRun>>

(* What could be wrong: the Event of any active task is taken.              *)
CancelLookupAny ==
    /\ main = "lookup"
    /\ \E n \in activeTasks : main' = "setting" /\ mainRun' = activeCancels[n]
    /\ UNCHANGED <<registry, eventSet, pc, task, held, mainTask, aimed>>

CancelLookup ==
    /\ main = "lookup"
    /\ \/ /\ activeCancels[mainTask] = NoRun
          /\ Idle
       \/ /\ activeCancels[mainTask] # NoRun
          /\ main' = "setting" /\ mainRun' = activeCancels[mainTask]
          /\ UNCHANGED <<mainTask, aimed>>
    /\ UNCHANGED <<registry, eventSet, pc, task, held>>

CancelSet ==
    /\ main = "setting"
    /\ eventSet' = eventSet \cup {mainRun}
    /\ Idle
    /\ UNCHANGED <<registry, pc, task, held>>

(* What could be wrong: the task is unregistered before its callback.       *)
BeginCallbackReleasesFirst(r) ==
    /\ main = "idle"
    /\ Goto(r, "delivering", "callback")
    /\ MarkDone(task[r])
    /\ main' = "callback" /\ mainRun' = r
    /\ UNCHANGED <<eventSet, task, held, mainTask, aimed>>

(* execute_sync(deliver_success) reaches the main thread: on_success runs   *)
(* there, and its finally clause unregisters the task whatever happened.    *)
BeginCallback(r) ==
    /\ main = "idle"
    /\ Goto(r, "delivering", "callback")
    /\ main' = "callback" /\ mainRun' = r
    /\ UNCHANGED <<registry, eventSet, task, held, mainTask, aimed>>

CallbackReturns(r) ==
    /\ main = "callback" /\ mainRun = r
    /\ Goto(r, "callback", "delivered")
    /\ MarkDone(task[r])
    /\ Idle
    /\ UNCHANGED <<eventSet, task, held>>

(* on_success raises: the exception is carried back to the worker, where    *)
(* run_on_main_thread raises it again.                                      *)
CallbackRaises(r) ==
    /\ main = "callback" /\ mainRun = r
    /\ task[r] \in Raising
    /\ Goto(r, "callback", "reraise")
    /\ MarkDone(task[r])
    /\ Idle
    /\ UNCHANGED <<eventSet, task, held>>

ShowError(r) ==
    /\ main = "idle"
    /\ Goto(r, "failing", "dialog")
    /\ main' = "dialog" /\ mainRun' = r
    /\ UNCHANGED <<registry, eventSet, task, held, mainTask, aimed>>

(* The warning was dismissed, or failed to show: the worker swallows that.  *)
DismissError(r) ==
    /\ main = "dialog" /\ mainRun = r
    /\ Goto(r, "dialog", "reported")
    /\ Idle
    /\ UNCHANGED <<registry, eventSet, task, held>>

-----------------------------------------------------------------------------
(* The worker thread of run r.                                              *)

(* cancel_requested(name): look the Event up by name under the lock ...     *)
Peek(r) ==
    /\ \/ pc[r] = "work" /\ task[r] \in Polling /\ pc' = [pc EXCEPT ![r] = "polling"]
       \/ Goto(r, "returned", "checking")
    /\ held' = [held EXCEPT ![r] = activeCancels[task[r]]]
    /\ UNCHANGED <<registry, eventSet, task, mainVars>>

(* What could be wrong: nothing is checked after the work.                  *)
TestOnlyInWork(r) ==
    /\ \/ held[r] \in eventSet /\ Goto(r, "polling", "cancelling")
       \/ held[r] \notin eventSet /\ Goto(r, "polling", "work")
       \/ Goto(r, "checking", "delivering")
    /\ held' = [held EXCEPT ![r] = NoRun]
    /\ UNCHANGED <<registry, eventSet, task, mainVars>>

(* ... and test it without the lock.  In the middle of the work the task    *)
(* goes on when it is not set; after the work it delivers its result, or    *)
(* finishes when the caller passed no on_success.                           *)
Test(r) ==
    /\ \/ /\ held[r] \in eventSet
          /\ Goto(r, "polling", "cancelling") \/ Goto(r, "checking", "cancelling")
       \/ /\ held[r] \notin eventSet
          /\ \/ Goto(r, "polling", "work")
             \/ Goto(r, "checking", "delivering")
             \/ Goto(r, "checking", "finishing")
    /\ held' = [held EXCEPT ![r] = NoRun]
    /\ UNCHANGED <<registry, eventSet, task, mainVars>>

WorkReturns(r) ==
    /\ Goto(r, "work", "returned")
    /\ UNCHANGED <<registry, eventSet, task, held, mainVars>>

WorkFails(r) ==
    /\ Goto(r, "work", "failing")
    /\ UNCHANGED <<registry, eventSet, task, held, mainVars>>

(* What could be wrong: nobody catches it, and the worker thread dies.      *)
ErrorUndeliveredKills(r) ==
    /\ Goto(r, "failing", "stillborn")
    /\ UNCHANGED <<registry, eventSet, task, held, mainVars>>

(* run_on_main_thread itself fails before the function ran.                 *)
ErrorUndelivered(r) ==
    /\ Goto(r, "failing", "reported")
    /\ UNCHANGED <<registry, eventSet, task, held, mainVars>>

DeliveryRefused(r) ==
    /\ Goto(r, "delivering", "refused")
    /\ UNCHANGED <<registry, eventSet, task, held, mainVars>>

(* The four places where the worker itself calls _mark_done: cancelled,     *)
(* failed, no callback, and the except clause around the delivery, which    *)
(* runs also when deliver_success has already unregistered the task.        *)
WorkerMarksDone(r) ==
    /\ \/ Goto(r, "cancelling", "cancelled")
       \/ Goto(r, "reported", "failed")
       \/ Goto(r, "finishing", "finished")
       \/ Goto(r, "refused", "raised")
       \/ Goto(r, "reraise", "raised")
    /\ MarkDone(task[r])
    /\ UNCHANGED <<eventSet, task, held, mainVars>>

-----------------------------------------------------------------------------
MainStep(r) ==
    \/ StartThread(r) \/ StartFails(r)
    \/ BeginCallback(r) \/ CallbackReturns(r) \/ CallbackRaises(r)
    \/ ShowError(r) \/ DismissError(r)

WorkerStep(r) ==
    \/ Peek(r) \/ Test(r) \/ WorkReturns(r) \/ WorkFails(r)
    \/ ErrorUndelivered(r) \/ DeliveryRefused(r) \/ WorkerMarksDone(r)

Next ==
    \/ \E r \in Runs, n \in Names : RunBackground(r, n)
    \/ \E g \in Groups : CancelClick(g)
    \/ CancelLookup \/ CancelSet
    \/ \E r \in Runs : MainStep(r) \/ WorkerStep(r)

Spec == Init /\ [][Next]_vars

(* The work of a task ends (every provider call has a timeout), a started   *)
(* thread is scheduled, a dialog is dismissed, and IDA's event loop serves  *)
(* the queue execute_sync puts its requests in, however often the user      *)
(* clicks in between.                                                       *)
WorkEnds(r) == WorkReturns(r) \/ WorkFails(r)
Fairness ==
    /\ WF_vars(CancelLookup \/ CancelSet)
    /\ \A r \in Runs :
        /\ WF_vars(StartThread(r) \/ StartFails(r))
        /\ WF_vars(CallbackReturns(r) \/ CallbackRaises(r) \/ DismissError(r))
        /\ SF_vars(BeginCallback(r) \/ ShowError(r))
        /\ SF_vars(WorkEnds(r))
        /\ WF_vars((Peek(r) /\ pc[r] = "returned") \/ Test(r) \/ WorkerMarksDone(r))
FairSpec == Spec /\ Fairness

-----------------------------------------------------------------------------
(* Properties.                                                              *)

LiveRun(r) == pc[r] \in Live

(* Overlapping actions cannot race shared plug-in state: of the tasks of a  *)
(* group, and of the runs of a name, one at a time is between its start and *)
(* its release -- provided their callbacks do not raise.                    *)
SingleFlight ==
    \A r, s \in Runs :
        /\ r # s /\ LiveRun(r) /\ LiveRun(s)
        /\ task[r] \notin Raising /\ task[s] \notin Raising
        => /\ task[r] # task[s]
           /\ GroupOf[task[r]] = GroupOf[task[s]] => GroupOf[task[r]] = NoGroup

(* The same, whatever the callbacks do.                                     *)
SingleFlightAlways ==
    \A r, s \in Runs :
        r # s /\ LiveRun(r) /\ LiveRun(s)
        => /\ task[r] # task[s]
           /\ GroupOf[task[r]] = GroupOf[task[s]] => GroupOf[task[r]] = NoGroup

(* The three tables agree whatever the callbacks do: a name is active       *)
(* exactly when it has an Event, the Event belongs to a run of that name    *)
(* that has not ended, and a group points at an active name of that group.  *)
RegistryConsistent ==
    /\ activeTasks = {n \in Names : activeCancels[n] # NoRun}
    /\ \A n \in activeTasks :
        /\ task[activeCancels[n]] = n
        /\ LiveRun(activeCancels[n])
    /\ \A g \in Groups : activeGroups[g] # NoTask =>
        /\ activeGroups[g] \in activeTasks
        /\ GroupOf[activeGroups[g]] = g

(* A task that ends as cancelled was asked to: its own Event was set, not   *)
(* the Event of an earlier or a later task that goes by the same name.      *)
CancelledWasAsked ==
    \A r \in Runs :
        pc[r] \in {"cancelling", "cancelled"} /\ task[r] \notin Raising
        => r \in eventSet

(* A cancel request sets the Event of the run that held the group when the  *)
(* user clicked, although it reads group, Event and flag in three steps.    *)
CancelHitsAimed ==
    [][\A r \in Runs : r \in eventSet' \ eventSet => r = aimed]_vars

(* A request that reaches the Event before the check that follows the work  *)
(* suppresses on_success.                                                   *)
NoDeliveryAfterCancel ==
    [][\A r \in Runs :
        /\ pc[r] = "checking" /\ pc'[r] \in {"delivering", "finishing"}
        /\ task[r] \notin Raising
        => r \notin eventSet]_vars

(* Every task whose thread started releases its name, and a group is not    *)
(* held for ever unless a thread could not be started.                      *)
TasksComeToAnEnd ==
    /\ \A r \in Runs : pc[r] = "work" ~> pc[r] \in Terminal
    /\ \A g \in Groups :
          activeGroups[g] # NoTask
          ~> \/ activeGroups[g] = NoTask
             \/ \E r \in Runs : pc[r] = "stillborn"

-----------------------------------------------------------------------------
(* The inductive invariant behind the safety properties.                    *)

(* What the main thread holds is what the workers say it holds.             *)
MainInv ==
    /\ \A r \in Runs :
        /\ pc[r] = "accepted" => main = "starting" /\ mainRun = r
        /\ pc[r] = "callback" => main = "callback" /\ mainRun = r
        /\ pc[r] = "dialog" => main = "dialog" /\ mainRun = r
        /\ IF pc[r] = "unused" THEN r \notin eventSet ELSE task[r] \in Names
    /\ main = "lookup" => /\ mainTask \in Names
                          /\ activeCancels[mainTask] \in {aimed, NoRun}
    /\ main = "setting" => /\ mainRun = aimed /\ mainRun \in Runs
                           /\ pc[mainRun] # "unused"

(* A live run owns its name and its group, unless its name is one a late    *)
(* second _mark_done can take away.                                         *)
OwnsName ==
    \A r \in Runs :
        LiveRun(r) /\ task[r] \notin Raising
        => /\ activeCancels[task[r]] = r
           /\ GroupOf[task[r]] \in Groups => activeGroups[GroupOf[task[r]]] = task[r]

(* Only a run whose callback raised reaches the second _mark_done, and what *)
(* a worker is about to test is its own Event.                              *)
WorkerInv ==
    \A r \in Runs :
        /\ pc[r] = "reraise" => task[r] \in Raising
        /\ pc[r] \in {"polling", "checking"} /\ task[r] \notin Raising => held[r] = r

IInv ==
    /\ TypeOK /\ RegistryConsistent /\ MainInv /\ OwnsName /\ WorkerInv
    /\ CancelledWasAsked
=============================================================================
