----------------------------- MODULE TypeAssist -----------------------------
(***************************************************************************)
(* The type-assisted re-decompile preview of the IDA plug-in                *)
(* (_run_type_assisted_recompile_preview in ida/actions.py): a background   *)
(* task gives the function a temporary prototype, decompiles it, and puts   *)
(* the original type back.  Each call of IDA is a section of its own on the *)
(* main thread; between two of them the user can set a type.                *)
(***************************************************************************)
EXTENDS Naturals

CONSTANTS Types,       \* types the user and the database give a function
          Temp,        \* the proposed prototype
          NoType,      \* the function has no type
          Unstable,    \* types printed with _UNKNOWN: they cannot be restored
          Params,      \* positions with a name and a type that a correction proposes
          NoArity,     \* no correction of the proposal gives a number of parameters
          Arity,       \* for each type the number of parameters its pseudocode has
          Shows,       \* for each type the elements of Params its pseudocode has
          Proposals,   \* what the corrections of a proposal ask for: arity and params
          MaxEdits     \* bound on the user's edits of the type

ASSUME AssistAssumption ==
    Temp \notin Types /\ NoType \in Types /\ Unstable \subseteq Types /\ MaxEdits \in Nat

ASSUME ProposalAssumption ==
    /\ NoArity \notin Nat /\ Arity \in [Types \cup {Temp} -> Nat]
    /\ Shows \in [Types \cup {Temp} -> SUBSET Params]
    /\ Proposals \subseteq [arity : Nat \cup {NoArity}, params : SUBSET Params]

VARIABLES
    type,        \* the type of the function in the database
    step,          \* the next section of the task
    original,    \* what the task read first
    improved,    \* the type the improved pseudocode was decompiled under
    opError,     \* operation_error is set
    restored,    \* restored_type, as read back after the restore
    restoreOk,   \* restore_succeeded
    told,        \* the user saw the HIGH SEVERITY warning or an error
    cancel,      \* the Event of the task is set
    proposal,    \* what the corrections of the proposal ask for
    edits        \* user edits of the type

assist == <<type, step, original, improved, opError, restored, restoreOk, told, cancel,
            proposal, edits>>

Ended == {"refused", "cancelled", "failed", "previewed"}
Sections == {"confirm", "read", "apply", "refresh", "decompile", "restore", "refresh2",
             "verify", "report"}

AssistTypeOK ==
    /\ type \in Types \cup {Temp} /\ original \in Types \cup {Temp}
    /\ improved \in Types \cup {Temp} /\ restored \in Types \cup {Temp}
    /\ step \in Sections \cup Ended
    /\ {opError, restoreOk, told, cancel} \subseteq BOOLEAN
    /\ proposal \in Proposals
    /\ edits \in 0..MaxEdits

AssistInit ==
    /\ type \in Types /\ proposal \in Proposals
    /\ step = "confirm"
    /\ original = NoType /\ improved = NoType /\ restored = NoType
    /\ opError = FALSE /\ restoreOk = FALSE /\ told = FALSE /\ cancel = FALSE
    /\ edits = 0

-----------------------------------------------------------------------------
(* The user, between two sections.                                          *)

UserSetsType(t) ==
    /\ edits < MaxEdits /\ t # type
    /\ type' = t /\ edits' = edits + 1
    /\ UNCHANGED <<step, original, improved, opError, restored, restoreOk, told, cancel>>

UserCancels ==
    /\ step \notin Ended /\ ~cancel
    /\ cancel' = TRUE
    /\ UNCHANGED <<type, step, original, improved, opError, restored, restoreOk, told, edits>>

-----------------------------------------------------------------------------
(* The task.                                                                *)

(* Blockers of the proposal, the question, the last checkpoint for a cancel *)
(* before the database is touched.                                          *)
Confirm ==
    /\ step = "confirm"
    /\ \/ step' = "refused"
       \/ step' = (IF cancel THEN "cancelled" ELSE "read")
    /\ UNCHANGED <<type, original, improved, opError, restored, restoreOk, told, cancel, edits>>

ReadOriginal ==
    /\ step = "read"
    /\ original' = type
    /\ step' = (IF type \in Unstable THEN "failed" ELSE "apply")
    /\ told' = (type \in Unstable)
    /\ UNCHANGED <<type, improved, opError, restored, restoreOk, cancel, edits>>

Fails(next) == opError' = TRUE /\ step' = next
Goes(next) == UNCHANGED opError /\ step' = next

(* SetType takes the prototype, ignores it, or rejects it.                  *)
ApplyTemp ==
    /\ step = "apply"
    /\ \/ type' = Temp /\ Goes("refresh")
       \/ UNCHANGED type /\ Goes("refresh")
       \/ UNCHANGED type /\ Fails("restore")
    /\ UNCHANGED <<original, improved, restored, restoreOk, told, cancel, edits>>

RefreshTemp ==
    /\ step = "refresh"
    /\ Goes("decompile") \/ Fails("restore")
    /\ UNCHANGED <<type, original, improved, restored, restoreOk, told, cancel, edits>>

(* The pseudocode under a type passes for the proposal when it has as many  *)
(* parameters as a correction asks for, and one of the proposed ones, if    *)
(* any is proposed.                                                         *)
Realizes(t, p) ==
    /\ p.arity \in {NoArity, Arity[t]}
    /\ p.params = {} \/ Shows[t] \cap p.params # {}

(* What could be wrong: the result is not compared with the proposal.       *)
DecompileUnchecked ==
    /\ step = "decompile"
    /\ \/ improved' = type /\ Goes("restore")
       \/ UNCHANGED improved /\ Fails("restore")
    /\ UNCHANGED <<type, original, restored, restoreOk, told, cancel, edits>>

(* The pseudocode shows the type it was decompiled under; one that does not *)
(* pass for the proposal is an error.                                       *)
Decompile ==
    /\ step = "decompile"
    /\ \/ /\ improved' = type
          /\ IF Realizes(type, proposal) THEN Goes("restore") ELSE Fails("restore")
       \/ UNCHANGED improved /\ Fails("restore")
    /\ UNCHANGED <<type, original, restored, restoreOk, told, cancel, edits>>

(* finally: the original type is set, or deleted when there was none; IDA   *)
(* takes it, ignores it, or rejects it.                                     *)
Restore ==
    /\ step = "restore"
    /\ \/ type' = original /\ step' = "refresh2"
       \/ UNCHANGED type /\ step' \in {"refresh2", "report"}
    /\ UNCHANGED <<original, improved, opError, restored, restoreOk, told, cancel, edits>>

RefreshRestored ==
    /\ step = "refresh2"
    /\ step' \in {"verify", "report"}
    /\ UNCHANGED <<type, original, improved, opError, restored, restoreOk, told, cancel, edits>>

(* What could be wrong: the restore counts as done when IDA took the call.  *)
VerifyTrusts ==
    /\ step = "verify"
    /\ restored' = type /\ restoreOk' = TRUE /\ step' = "report"
    /\ UNCHANGED <<type, original, improved, opError, told, cancel, edits>>

(* The type is read back and compared; the getter can raise.                *)
Verify ==
    /\ step = "verify"
    /\ \/ restored' = type /\ restoreOk' = (type = original)
       \/ UNCHANGED <<restored, restoreOk>>
    /\ step' = "report"
    /\ UNCHANGED <<type, original, improved, opError, told, cancel, edits>>

(* Warn when the restore is not proven, fail when the operation failed, and *)
(* otherwise return: run_background drops the result of a cancelled task.   *)
(* When the warning cannot be shown, the exception fails the task.          *)
Report ==
    /\ step = "report"
    /\ \/ opError /\ step' = "failed" /\ told' = TRUE
       \/ ~opError /\ ~restoreOk /\ step' = "failed" /\ told' = TRUE
       \/ ~opError /\ told' = (~restoreOk) /\ step' = (IF cancel THEN "cancelled" ELSE "previewed")
    /\ UNCHANGED <<type, original, improved, opError, restored, restoreOk, cancel, edits>>

TaskStep == \/ Confirm \/ ReadOriginal \/ ApplyTemp \/ RefreshTemp \/ Decompile
            \/ Restore \/ RefreshRestored \/ Verify \/ Report

AssistNext ==
    /\ UNCHANGED proposal
    /\ TaskStep \/ UserCancels \/ \E t \in Types : UserSetsType(t)

AssistSpec == AssistInit /\ [][AssistNext]_assist

-----------------------------------------------------------------------------
(* Properties.                                                              *)

(* A temporary prototype that is still there at the end of the task is one  *)
(* the user was told about, and not one the task reports as restored.       *)
TempLeftIsReported ==
    step \in Ended /\ type = Temp => told /\ ~restoreOk

(* The preview shows pseudocode that carries the proposal, or a part of it  *)
(* where the check asks for no more.  When it was not decompiled under the  *)
(* proposed prototype itself, IDA ignored this one and the function has the *)
(* type it had, which passes for the proposal as it is, or the user set a   *)
(* type meanwhile that does.                                                *)
PreviewRealizesTheProposal ==
    step = "previewed" =>
        /\ Realizes(improved, proposal)
        /\ improved = Temp \/ improved = original \/ edits > 0
=============================================================================
