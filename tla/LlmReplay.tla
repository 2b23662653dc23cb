----------------------------- MODULE LlmReplay ------------------------------
(***************************************************************************)
(* The answers of a model that a batch records and another one replays      *)
(* (core/llm_candidate_cache.py), and what becomes of a failure             *)
(* (core/llm_assist.py, _build_plan_with_optional_llm of                     *)
(* tools/pseudoforge_ida_batch.py).  One function: the name of a record     *)
(* begins with the address, so functions share none.  Each batch asks for   *)
(* names, then for candidates.                                              *)
(***************************************************************************)
EXTENDS Naturals, FiniteSets

CONSTANTS Inputs,       \* pseudocode the function has had: input_fingerprint
          MaxBatches,   \* bound on the batches
          Stub,         \* a record cut short, whose text is replayed as it is
          NoAnswer      \* no answer, or no baseline

ASSUME ReplayAssumption ==
    MaxBatches \in Nat /\ Stub \notin Nat /\ NoAnswer \notin Nat \cup {Stub}

Tasks == {"renames", "candidates"}
Modes == {"record", "replay", "rerecord"}   \* live and recorded, replayed, replayed and recorded again
Answers == 1..MaxBatches \cup {Stub}        \* the model answers anew in each batch

VARIABLES
    input,      \* the function as it is now
    records,    \* the candidate directory: the text of a record
    mode,       \* of the batch
    task,       \* what it asks for, "none" when it is over
    heard,      \* what the provider said to each task
    damaged,    \* tasks whose record is there and could not be read
    status,     \* LLM status of the function
    batches,    \* batches begun
    baseline    \* what the last recording batch of an input heard, if it was "ok"

replayVars == <<input, records, mode, task, heard, damaged, status, batches, baseline>>

ReplayTypeOK ==
    /\ input \in Inputs
    /\ DOMAIN records \subseteq Inputs \X Tasks
    /\ records \in [DOMAIN records -> Answers]
    /\ mode \in Modes /\ task \in Tasks \cup {"none"}
    /\ heard \in [Tasks -> Answers \cup {NoAnswer}] /\ damaged \subseteq Tasks
    /\ status \in {"", "ok", "fallback", "error", "killed"} /\ (task # "none" => status = "")
    /\ batches \in 0..MaxBatches
    /\ baseline \in [Inputs -> [Tasks -> Answers \cup {NoAnswer}] \cup {NoAnswer}]
    /\ \A i \in Inputs : baseline[i] # NoAnswer => baseline[i]["renames"] # NoAnswer

Silent == [t \in Tasks |-> NoAnswer]

ReplayInit ==
    /\ input \in Inputs /\ records = [key \in {} |-> Stub]
    /\ mode = "record" /\ task = "none" /\ heard = Silent /\ damaged = {} /\ status = ""
    /\ batches = 0
    /\ baseline = [i \in Inputs |-> NoAnswer]

Recording == mode # "replay"
StrictReplay == mode # "record"

BeginBatch(m) ==
    /\ task = "none" /\ batches < MaxBatches
    /\ batches' = batches + 1 /\ mode' = m
    /\ task' = "renames" /\ heard' = Silent /\ damaged' = {} /\ status' = ""
    /\ baseline' = IF m = "replay" THEN baseline ELSE [baseline EXCEPT ![input] = NoAnswer]
    /\ UNCHANGED <<input, records>>

(* The decompiler has another text: types, names or its version changed.    *)
InputChanges ==
    /\ task = "none"
    /\ input' \in Inputs \ {input} /\ heard' = Silent /\ damaged' = {} /\ status' = ""
    /\ UNCHANGED <<records, mode, task, batches, baseline>>

RecordsOf(t) == {key \in DOMAIN records : key[2] = t}

\* What could be wrong: the only record of the function is taken, and the exact one is not looked for.
MatchOnlyOne(t) == IF Cardinality(RecordsOf(t)) = 1 THEN RecordsOf(t) ELSE {}

(* find_llm_candidate_cache: the record of this input, or the only one of   *)
(* the function.                                                            *)
Match(t) ==
    IF <<input, t>> \in RecordsOf(t) THEN {<<input, t>>}
    ELSE IF Cardinality(RecordsOf(t)) = 1 THEN RecordsOf(t) ELSE {}

Provided(t) == IF StrictReplay THEN {records[key] : key \in Match(t)} ELSE {batches}

Written(t, text) == [key \in DOMAIN records \cup {<<input, t>>} |->
                        IF key = <<input, t>> THEN text ELSE records[key]]

(* A write that fails, or is cut short, leaves the old record or a torn one.*)
CutShort(t) == {records} \cup (IF Recording /\ Provided(t) # {} THEN {Written(t, Stub)} ELSE {})

Over(s) ==
    /\ task' = "none" /\ status' = s
    /\ baseline' = IF Recording /\ s = "ok" THEN [baseline EXCEPT ![input] = heard'] ELSE baseline
    /\ UNCHANGED <<input, mode, batches>>

(* The plan is built again without the provider, unless it replays; it can  *)
(* fail again.                                                              *)
FallsBack == Over("error") \/ (~StrictReplay /\ Over("fallback"))

(* The provider answers the task, and the answer is recorded.               *)
Hears(t) ==
    /\ task = t
    /\ \E text \in Provided(t) :
        /\ heard' = [heard EXCEPT ![t] = text]
        /\ records' = IF Recording THEN Written(t, text) ELSE records
    /\ UNCHANGED damaged

(* The provider fails, has no record or cannot read it, or the answer cannot*)
(* be recorded.                                                             *)
Misses(t) ==
    /\ task = t
    /\ \/ (~StrictReplay \/ Match(t) = {}) /\ UNCHANGED <<records, damaged>>
       \/ StrictReplay /\ Match(t) # {} /\ damaged' = damaged \cup {t} /\ UNCHANGED records
       \/ Recording /\ records' \in CutShort(t) /\ UNCHANGED damaged
    /\ UNCHANGED heard

(* A failure here, or of the answer's reader, fails the plan.               *)
AskRenames ==
    \/ Hears("renames") /\ task' = "candidates" /\ UNCHANGED <<input, mode, status, batches, baseline>>
    \/ (Hears("renames") \/ Misses("renames")) /\ FallsBack

(* A failure for candidates is a warning: the plan is made without them.    *)
(* The rest of the plan can fail.                                           *)
AskCandidates ==
    (Hears("candidates") \/ Misses("candidates")) /\ (Over("ok") \/ FallsBack)

Killed ==
    /\ task \in Tasks
    /\ \/ records' \in CutShort(task) /\ UNCHANGED <<heard, damaged>>
       \/ Hears(task)
    /\ Over("killed")

ReplayNext ==
    \/ \E m \in Modes : BeginBatch(m)
    \/ InputChanges \/ AskRenames \/ AskCandidates \/ Killed

ReplaySpec == ReplayInit /\ [][ReplayNext]_replayVars

-----------------------------------------------------------------------------
(* Properties.                                                              *)

\* A replay of an input hears what the last recording batch of that input heard, if
\* that one was "ok", whatever was recorded, replayed, torn or changed in between
\* (LlmCandidateReplayProvider, find_llm_candidate_cache).  Where it cannot read the
\* record it hears nothing, and never another record; of names this is an error.
ReplayReproducesBaseline ==
    mode = "replay" /\ status \in {"ok", "error"} /\ baseline[input] # NoAnswer =>
        /\ \/ heard["renames"] = baseline[input]["renames"]
           \/ status = "error" /\ "renames" \in damaged /\ heard["renames"] = NoAnswer
        /\ status = "ok" => \/ heard["candidates"] = baseline[input]["candidates"]
                            \/ baseline[input]["candidates"] = NoAnswer
                            \/ "candidates" \in damaged /\ heard["candidates"] = NoAnswer

\* docs/pseudoforge-release-validation.md: a missing replay candidate that falls back
\* to deterministic analysis is a hard failure.  suggest_candidates_with_provider
\* turns it into a warning of a function that is "ok".
MissingRecordFails ==
    mode = "replay" /\ status = "ok" => \A t \in Tasks : heard[t] # NoAnswer
=============================================================================
