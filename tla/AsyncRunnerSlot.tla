-------------------------- MODULE AsyncRunnerSlot --------------------------
(***************************************************************************)
(* The background runner implements TaskSlot for the tasks that name a      *)
(* group and whose callbacks do not raise, whatever the other tasks do      *)
(* beside them.                                                             *)
(***************************************************************************)
EXTENDS AsyncRunner

Contained == {n \in Names : n \notin Raising /\ GroupOf[n] \in Groups}
IsContained(r) == pc[r] # "unused" /\ task[r] \in Contained

holderBar == [g \in Groups |->
    IF activeGroups[g] \in Contained THEN activeCancels[activeGroups[g]] ELSE NoRun]

Running == {"accepted", "stillborn", "work", "polling", "returned", "checking",
            "cancelling", "failing", "dialog", "reported"}
Committed == {"finishing", "delivering", "refused", "callback"}
PhaseOf(c) ==
    IF c = "unused" THEN "waiting"
    ELSE IF c \in Running THEN "running"
    ELSE IF c \in Committed THEN "committed"
    ELSE IF c \in {"cancelled", "failed"} THEN c
    ELSE "done"

phaseBar == [r \in Runs |-> IF IsContained(r) THEN PhaseOf(pc[r]) ELSE "waiting"]
askedBar == {r \in eventSet : IsContained(r)}

Slot == INSTANCE TaskSlot WITH
    Slots <- Groups, holder <- holderBar, phase <- phaseBar, asked <- askedBar

(* Each group of the registry behaves as one slot: entered by one run at a  *)
(* time, left once by the run that holds it, as cancelled only if that run  *)
(* was asked to stop, committed only if it was not.                         *)
ImplementsTaskSlot == Slot!SSpec
=============================================================================
