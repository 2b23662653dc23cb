---------------------------- MODULE HelperCapture ----------------------------
(***************************************************************************)
(* Capturing the helpers a command case reaches, for the targeted buffer    *)
(* contract analysis: _capture_buffer_contract_helpers_with_status in       *)
(* ida/actions.py with the limits of core/helper_depth.py.                  *)
(*                                                                          *)
(* Helpers are captured breadth first from the calls of the case, those     *)
(* that are handed a buffer of interest (the focus) before all others, down *)
(* to a depth and up to a number.  The ledger tells what became of each.    *)
(***************************************************************************)
EXTENDS Naturals, FiniteSets, Sequences, SequencesExt

CONSTANTS Helpers,      \* names of functions
          RootLists,    \* what the case may call: sequences of names
          CallLists,    \* what a helper may call with, or without, a focus
                        \*   among the arguments: sequences of names
          MaxDepth,     \* the helper depth, 2 to 4
          MaxHelpers    \* helper_capture_limit_for_depth

ASSUME HelperAssumption ==
    /\ RootLists \subseteq Seq(Helpers) /\ CallLists \subseteq Seq(Helpers)
    /\ MaxDepth \in Nat \ {0} /\ MaxHelpers \in Nat \ {0}

VARIABLES
    roots,          \* helper_names
    priorityQueue,  \* candidates on the focus path, with their depth
    normalQueue,    \* the other candidates
    toQueue,        \* calls of the helper captured last, still to be looked at
    ledger,         \* one entry per name looked at
    calls,          \* result: for each captured helper what it calls, with
                    \*   the focus and otherwise
    settled         \* the function has returned

queues == <<priorityQueue, normalQueue, toQueue>>
helperVars == <<roots, queues, ledger, calls, settled>>

Statuses == {"captured", "capture_unavailable", "capture_failed", "caller_self",
             "capture_limit_skipped"}
Candidates == [name : Helpers, depth : 1..MaxDepth]
FoundCalls == [name : Helpers, depth : 1..MaxDepth, queue : {"priority", "normal"}]
Entries == [name : Helpers, depth : 1..MaxDepth, status : Statuses]

HelperTypeOK ==
    /\ roots \in Seq(Helpers)
    /\ priorityQueue \in Seq(Candidates) /\ normalQueue \in Seq(Candidates)
    /\ toQueue \in Seq(FoundCalls)
    /\ ledger \in Seq(Entries)
    /\ DOMAIN calls \subseteq Helpers
    /\ \A h \in DOMAIN calls : calls[h] \in [focus : Seq(Helpers), other : Seq(Helpers)]
    /\ settled \in BOOLEAN

HelperInit ==
    /\ roots \in RootLists
    /\ priorityQueue = [k \in DOMAIN roots |-> [name |-> roots[k], depth |-> 1]]
    /\ normalQueue = <<>> /\ toQueue = <<>>
    /\ ledger = <<>> /\ calls = <<>> /\ settled = FALSE

-----------------------------------------------------------------------------
(* seen: every name that is looked at gets its entry in the same round.     *)
Seen == {e.name : e \in ToSet(ledger)}

Waiting == toQueue = <<>> /\ (priorityQueue # <<>> \/ normalQueue # <<>>)
Capturing == Waiting /\ Cardinality(DOMAIN calls) < MaxHelpers
Candidate == IF priorityQueue # <<>> THEN Head(priorityQueue) ELSE Head(normalQueue)

Pop ==
    /\ priorityQueue' = IF priorityQueue # <<>> THEN Tail(priorityQueue) ELSE priorityQueue
    /\ normalQueue' = IF priorityQueue # <<>> THEN normalQueue ELSE Tail(normalQueue)

Record(status) ==
    ledger' = Append(ledger, [name |-> Candidate.name, depth |-> Candidate.depth, status |-> status])

(* The name was met before, on another path.                                *)
PassSeen ==
    /\ Capturing /\ Candidate.name \in Seen
    /\ Pop
    /\ UNCHANGED <<roots, toQueue, ledger, calls, settled>>

(* IDA does not decompile it, raises, or the name is that of the caller.    *)
CaptureNothing(status) ==
    /\ Capturing /\ Candidate.name \notin Seen
    /\ Record(status) /\ Pop
    /\ UNCHANGED <<roots, toQueue, calls, settled>>

(* What could be wrong: a helper with a call on the focus path queues these *)
(* calls only.                                                              *)
FoundFocusOnly(focus, other) ==
    [k \in 1..(IF focus = <<>> THEN Len(other) ELSE Len(focus)) |->
        [name |-> IF focus = <<>> THEN other[k] ELSE focus[k],
         depth |-> Candidate.depth + 1,
         queue |-> IF focus = <<>> THEN "normal" ELSE "priority"]]

(* The calls of the candidate: those on the focus path, then the others.    *)
FoundBy(focus, other) ==
    [k \in 1..(Len(focus) + Len(other)) |->
        [name |-> IF k <= Len(focus) THEN focus[k] ELSE other[k - Len(focus)],
         depth |-> Candidate.depth + 1,
         queue |-> IF k <= Len(focus) THEN "priority" ELSE "normal"]]

(* Captured: above the depth limit its calls become candidates one level    *)
(* further down.                                                            *)
Capture(focus, other) ==
    /\ Capturing /\ Candidate.name \notin Seen
    /\ Record("captured") /\ Pop
    /\ calls' = [h \in DOMAIN calls \cup {Candidate.name} |->
            IF h = Candidate.name THEN [focus |-> focus, other |-> other] ELSE calls[h]]
    /\ toQueue' = IF Candidate.depth < MaxDepth THEN FoundBy(focus, other) ELSE <<>>
    /\ UNCHANGED <<roots, settled>>

(* What could be wrong: the calls on the focus path wait with the others.   *)
QueueUnsorted ==
    /\ toQueue # <<>>
    /\ LET call == Head(toQueue)
       IN  normalQueue' = IF call.name \in Seen THEN normalQueue
                          ELSE Append(normalQueue, [name |-> call.name, depth |-> call.depth])
    /\ toQueue' = Tail(toQueue)
    /\ UNCHANGED <<roots, priorityQueue, ledger, calls, settled>>

(* A call is queued unless it was looked at before.                         *)
QueueCall ==
    /\ toQueue # <<>>
    /\ LET call == Head(toQueue)
           After(queue) == IF call.name \in Seen THEN queue
                           ELSE Append(queue, [name |-> call.name, depth |-> call.depth])
       IN  /\ priorityQueue' = IF call.queue = "priority" THEN After(priorityQueue) ELSE priorityQueue
           /\ normalQueue' = IF call.queue = "normal" THEN After(normalQueue) ELSE normalQueue
    /\ toQueue' = Tail(toQueue)
    /\ UNCHANGED <<roots, ledger, calls, settled>>

(* What is left in the queues when the limit is reached is noted, once per  *)
(* name.                                                                    *)
SkipCandidate ==
    /\ Waiting /\ ~Capturing
    /\ IF Candidate.name \in Seen THEN UNCHANGED ledger ELSE Record("capture_limit_skipped")
    /\ Pop
    /\ UNCHANGED <<roots, toQueue, calls, settled>>

Settle ==
    /\ toQueue = <<>> /\ ~Waiting /\ ~settled
    /\ settled' = TRUE
    /\ UNCHANGED <<roots, queues, ledger, calls>>

HelperNext ==
    \/ PassSeen
    \/ \E s \in {"capture_unavailable", "capture_failed", "caller_self"} : CaptureNothing(s)
    \/ \E f, o \in CallLists : Capture(f, o)
    \/ QueueCall \/ SkipCandidate \/ Settle

HelperSpec == HelperInit /\ [][HelperNext]_helperVars

-----------------------------------------------------------------------------
(* Properties.                                                              *)

CallsOf(h) == ToSet(calls[h].focus) \cup ToSet(calls[h].other)

(* One level below the case, or below a captured helper one level higher.   *)
Reached(e) ==
    \/ e.depth = 1 /\ e.name \in ToSet(roots)
    \/ \E c \in ToSet(ledger) :
        c.status = "captured" /\ e.depth = c.depth + 1 /\ e.name \in CallsOf(c.name)

Skipped == {e \in ToSet(ledger) : e.status = "capture_limit_skipped"}

(* The report misses no helper: each one the case calls, and each one       *)
(* called by a helper captured above the depth limit, has one entry, which  *)
(* says whether it was captured; the number of captures keeps its limit, a  *)
(* helper is only skipped when it is reached, and each is as deep below the *)
(* case as its entry says.                                                  *)
HelpersAccounted ==
    settled =>
        /\ \A j, k \in DOMAIN ledger : ledger[j].name = ledger[k].name => j = k
        /\ ToSet(roots) \subseteq Seen
        /\ \A e \in ToSet(ledger) : e.status = "captured" /\ e.depth < MaxDepth =>
                CallsOf(e.name) \subseteq Seen
        /\ DOMAIN calls = {e.name : e \in {x \in ToSet(ledger) : x.status = "captured"}}
        /\ Cardinality(DOMAIN calls) <= MaxHelpers
        /\ Skipped # {} => Cardinality(DOMAIN calls) = MaxHelpers
        /\ \A e \in ToSet(ledger) : Reached(e) /\ e.depth <= MaxDepth

(* The number of captures goes to the focus path first: once a helper that  *)
(* is handed the buffer is known and then skipped, no helper was captured   *)
(* that is not on the focus path as well.                                   *)
FocusFirst ==
    settled => \A h, k \in DOMAIN ledger :
        /\ h < k /\ ledger[h].status = "captured" /\ ledger[k].status = "captured"
        /\ \E e \in Skipped : ledger[h].depth < MaxDepth /\ e.name \in ToSet(calls[ledger[h].name].focus)
        => \/ ledger[k].name \in ToSet(roots)
           \/ \E j \in 1..(k - 1) : /\ ledger[j].status = "captured" /\ ledger[j].depth < MaxDepth
                                    /\ ledger[k].name \in ToSet(calls[ledger[j].name].focus)

(* The helpers within d levels of the case, through captured helpers.       *)
Within[d \in 0..MaxDepth] ==
    IF d = 0 THEN {}
    ELSE IF d = 1 THEN ToSet(roots)
    ELSE Within[d - 1] \cup UNION {CallsOf(h) : h \in Within[d - 1] \cap DOMAIN calls}

(* "--helper-depth 4 follows up to four helper/subhandler levels": unless   *)
(* the number of captures is exhausted, every helper within the depth is    *)
(* looked at.                                                               *)
FollowsToDepth ==
    settled /\ Cardinality(DOMAIN calls) < MaxHelpers => Within[MaxDepth] \subseteq Seen
=============================================================================
