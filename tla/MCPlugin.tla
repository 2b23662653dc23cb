------------------------------ MODULE MCPlugin ------------------------------
(* What the plug-in does on its own threads, beside the registry of tasks:  *)
(*   session   two functions with three variables each, one without a known *)
(*             location, and enough names for a target and a name that      *)
(*             moves from one variable to another;                          *)
(*   renames   three variables, one called like an object, two of which     *)
(*             carry a status.  The targets: "status", one that reads like  *)
(*             an object, one that does not, and one the function uses      *)
(*             already; the names tried after them are few enough to run    *)
(*             out;                                                         *)
(*   helpers   four helpers (MCHelperCapture);                              *)
(*   profiles  two profile directories, two switches and two analyses;      *)
(*   rules     three rules that compete, or six of several kinds (MCRules); *)
(*   packs     two files of rules, two callers, two edits and two calls.    *)
(* These parts share no state, and a behaviour explores one of them.        *)
EXTENDS PluginApply, RenameValidation, MCHelperCapture, ProfileCache, MCRules

CONSTANTS f1, f2, v1, v2, v3, n1, n2, n3, n4

MCFuncs == {f1, f2}
MCVars == {v1, v2, v3}
MCLocated == {v1, v2}
MCLvarNames == {n1, n2, n3, n4}

Symmetry == Permutations(MCLvarNames)

MCKnown == {"v1", "v2", "object", "len"}
MCNames == MCKnown \cup {"status", "status2", "file", "count", "count2", "statusValue",
                         "objectStatus", "int", "gone"}
MCObjectStyle == {"file", "object"}
MCCarriers == {"v1", "object"}
MCFallbacks(o, n) == IF "object" \in {o, n} THEN <<"objectStatus", "statusValue">> ELSE <<"statusValue">>
MCObjectStatus(n) == IF n = "object" THEN <<"objectStatus", "statusValue">> ELSE <<>>
MCSuffixed(n) == CASE n = "count" -> <<"count2">> [] n = "status" -> <<"status2">> [] OTHER -> <<>>
MCSources == {"llm", "pattern", "kernel-status"}
MCRank(s) == CASE s = "llm" -> 50 [] s = "pattern" -> 80 [] s = "kernel-status" -> 96
MCRepeatable == {"pattern"}
MCFiltered == {<<"v2", "count">>}

Suggest(o, n, source) == [old |-> o, new |-> n, source |-> source, apply |-> TRUE]
MCSuggested ==
    {Suggest("v1", "status", "kernel-status"), Suggest("v1", "file", "pattern"),
     Suggest("v1", "count", "llm"), Suggest("v1", "count2", "pattern"), Suggest("v1", "int", "llm"),
     Suggest("v2", "status", "llm"), Suggest("v2", "count", "llm"), Suggest("v2", "count", "pattern"),
     Suggest("v2", "statusValue", "pattern"), Suggest("v2", "len", "llm"),
     Suggest("object", "status", "pattern"), Suggest("object", "count", "pattern"),
     Suggest("object", "file", "llm"), Suggest("gone", "count", "pattern"),
     [Suggest("v2", "status", "pattern") EXCEPT !.apply = FALSE],
     [Suggest("object", "count", "kernel-status") EXCEPT !.apply = FALSE]}

VARIABLE part     \* what the behaviour explores

MCInit ==
    /\ part \in {"session", "renames", "helpers", "profiles", "rules", "packs"}
    /\ EngineInit /\ (part # "rules" => todo = <<>>)
    /\ PacksInit /\ (part # "packs" => there = {})
    /\ CacheInit /\ (part # "profiles" => profileDir = "system" /\ configured = "system")
    /\ HelperInit /\ (part # "helpers" => roots = <<"dispatch">>)
    /\ ApplyInit /\ (part # "session" => cur = f1)
    /\ Init

ruleVars == <<engineVars, packsVars>>

MCNext ==
    /\ UNCHANGED part
    /\ \/ part = "session" /\ ApplyNext /\ UNCHANGED <<vars, helperVars, cacheVars, ruleVars>>
       \/ part = "renames" /\ Next /\ UNCHANGED <<sessionVars, helperVars, cacheVars, ruleVars>>
       \/ part = "helpers" /\ HelperNext /\ UNCHANGED <<sessionVars, vars, cacheVars, ruleVars>>
       \/ part = "profiles" /\ CacheNext /\ UNCHANGED <<sessionVars, vars, helperVars, ruleVars>>
       \/ part = "rules" /\ EngineNext /\ UNCHANGED <<sessionVars, vars, helperVars, cacheVars, packsVars>>
       \/ part = "packs" /\ PacksNext /\ UNCHANGED <<sessionVars, vars, helperVars, cacheVars, engineVars>>

MCSpec == MCInit /\ [][MCNext]_<<part, sessionVars, vars, helperVars, cacheVars, ruleVars>>

\* The session belongs to the plan and the plan to the variables it was made for;
\* the tables of the validation, the queues and the ledger of the helpers, and the
\* entries of the caches keep to their types; what the rules emitted is in their order
\* and what is pending not yet decided; packs are kept once for a signature.
PluginTypeOK ==
    /\ SessionTypeOK /\ TypeOK /\ HelperTypeOK /\ CacheTypeOK
    /\ EngineTypeOK /\ PacksTypeOK
=============================================================================
