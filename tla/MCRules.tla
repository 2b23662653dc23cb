------------------------------ MODULE MCRules -------------------------------
(* Rules: three that compete for two variables, arguments or overlapping    *)
(* spans, with every order of priorities and every chain of overrides among *)
(* them, and a set with a rule of each other kind: two packs with a rule of *)
(* one name, one rule that is switched off, one of a phase that is not      *)
(* asked for.  A rule matches nothing, once, twice in one place, or in      *)
(* three places one of which is refused.  Packs: two files, two callers.    *)
EXTENDS RuleEngine, RulePacks

CONSTANTS t1, t2

MCCallers == {t1, t2}

MCPlaces == {"low", "middle", "high"}
MCTarget(p) == IF p = "high" THEN 2 ELSE 1
MCFirst(p) == CASE p = "low" -> 0 [] p = "middle" -> 1 [] p = "high" -> 2
MCBeyond(p) == MCFirst(p) + 2
MCMatchLists ==
    {<<>>, <<"low">>, <<"middle">>, <<"high">>, <<"low", "low">>, <<"high", "refused", "low">>}

Rule(id, kind, priority, overrides) ==
    [id |-> id, kind |-> kind, priority |-> priority, confidence |-> 90 - id,
     overrides |-> overrides, enabled |-> TRUE, dir |-> id % 2, pack |-> id]

MCCompeting ==
    {{Rule(1, kind, p1, o1), Rule(2, kind, p2, o2), Rule(3, kind, p3, o3)} :
        kind \in {"rename", "call_arg_rewrite", "text_rewrite"},
        p1, p2, p3 \in 1..2, o1 \in {0, 2}, o2 \in {0, 3}, o3 \in {0, 1}}
MCMixed ==
    {Rule(1, "rename", 1, 0), [Rule(1, "rename", 1, 0) EXCEPT !.pack = 2, !.dir = 2],
     [Rule(2, "rename", 2, 0) EXCEPT !.enabled = FALSE], Rule(3, "call_arg_rewrite", 1, 0),
     Rule(4, "semantic_comment", 1, 0), Rule(5, "flow", 2, 0)}
MCRuleSets == MCCompeting \cup {MCMixed, {}}
MCPhaseSets == {{"rename", "semantic_comment", "call_arg_rewrite", "text_rewrite"}}
=============================================================================
