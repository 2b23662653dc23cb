----------------------------- MODULE RuleEngine -----------------------------
(***************************************************************************)
(* RuleEngine.run (core/deterministic/engine.py): the rules of the packs,   *)
(* in their order, are matched against a function; each match emits a       *)
(* rename, a comment, or a rewrite that reports show; emissions that want   *)
(* the same thing compete, and the report says what became of each.  A      *)
(* place stands for what a match is about: the variable and its new name,   *)
(* the argument of a call, the dispatcher with its kind of flow, the span   *)
(* of text.                                                                 *)
(***************************************************************************)
EXTENDS Integers, Sequences, FiniteSets, SequencesExt

CONSTANTS RuleSets,     \* the rules a run may have, each with its pack
          PhaseSets,    \* the phases a run may be asked for; a plan asks for one at a time
          Places,
          Target(_),    \* the variable, argument, or dispatcher and kind of flow
          First(_), Beyond(_),   \* its span
          MatchLists,   \* what one rule may match, in order
          Refused       \* a match whose emission is refused, or raises

Kinds == <<"call_arg_rewrite", "flow", "rename", "semantic_comment", "text_rewrite">>

(* Rule identifiers are numbers in their lexical order, 0 is none; a pack   *)
(* is its position, dir that of its directory.                              *)
RuleRecords == [id : Nat \ {0}, kind : ToSet(Kinds), priority : Int, confidence : Nat,
                overrides : Nat, enabled : BOOLEAN, dir : Nat, pack : Nat]

ASSUME RuleEngineAssumption ==
    /\ \A s \in RuleSets : s \subseteq RuleRecords /\ IsFiniteSet(s)
    /\ \A p \in Places : First(p) \in Nat /\ Beyond(p) \in Nat /\ First(p) < Beyond(p)
    /\ Refused \notin Places
    /\ \A m \in MatchLists : m \in Seq(Places \cup {Refused})

VARIABLES
    todo,        \* rules still to be matched
    phases,      \* the kinds asked for
    matches,     \* of the rule matched last, still to be built
    emissions,   \* what the rules emitted, in order
    resolving,   \* is every rule matched
    pending,     \* emissions that are still to be decided
    chosen,      \* emissions of the result, in order
    verdicts     \* of each emission, its entries in the report

decisions == <<pending, chosen, verdicts>>
engineVars == <<todo, phases, matches, emissions, resolving, pending, chosen, verdicts>>

-----------------------------------------------------------------------------
(* Tuples are compared from the left.                                       *)
Exceeds(s, t) == \E k \in DOMAIN s : s[k] > t[k] /\ \A j \in 1..(k - 1) : s[j] = t[j]

(* _ordered_rules                                                           *)
PhaseOf(r) == CHOOSE k \in DOMAIN Kinds : Kinds[k] = r.kind
SortKey(r) == <<PhaseOf(r), -r.priority, -r.confidence, r.pack, r.id>>
Orderings(rules) ==
    {q \in [1..Cardinality(rules) -> rules] :
        \A j, k \in DOMAIN q : j < k => q[j] # q[k] /\ ~Exceeds(SortKey(q[j]), SortKey(q[k]))}

EngineInit ==
    /\ \E s \in RuleSets : todo \in Orderings(s)
    /\ phases \in PhaseSets
    /\ matches = <<>> /\ emissions = <<>> /\ resolving = FALSE
    /\ pending = {} /\ chosen = <<>> /\ verdicts = <<>>

(* A rule that is disabled or of another phase is passed over.              *)
Selected(r) == r.enabled /\ r.kind \in phases

PassOver ==
    /\ matches = <<>> /\ todo # <<>> /\ ~Selected(Head(todo))
    /\ todo' = Tail(todo)
    /\ UNCHANGED <<phases, matches, emissions, resolving, decisions>>

(* The matches of the next rule; none, also when matching raises.           *)
MatchRule(places) ==
    /\ matches = <<>> /\ todo # <<>> /\ Selected(Head(todo))
    /\ matches' = [k \in DOMAIN places |-> [rule |-> Head(todo), place |-> places[k]]]
    /\ todo' = Tail(todo)
    /\ UNCHANGED <<phases, emissions, resolving, decisions>>

(* build_emission: a match that leaves a part of the emission without a     *)
(* value, or raises, makes none.                                            *)
Built(match) == IF match.place = Refused THEN <<>> ELSE <<match>>

EmitMatch ==
    /\ matches # <<>>
    /\ emissions' = emissions \o Built(Head(matches))
    /\ matches' = Tail(matches)
    /\ UNCHANGED <<todo, phases, resolving, decisions>>

-----------------------------------------------------------------------------
(* _resolve_conflicts: the emissions by kind and by what they are about,    *)
(* which every one that was built has.                                      *)

Kind(i) == emissions[i].rule.kind
Place(i) == emissions[i].place
SameTarget(i, j) == Kind(i) = Kind(j) /\ Target(Place(i)) = Target(Place(j))
OfKind(kinds) == {i \in DOMAIN emissions : Kind(i) \in kinds}
Grouped == {"rename", "call_arg_rewrite", "flow"}

(* The same rename by the same rule again: dropped without an entry.        *)
Repeats(i) ==
    /\ Kind(i) = "rename"
    /\ \E j \in 1..(i - 1) :
        Kind(j) = "rename" /\ emissions[j].rule.id = emissions[i].rule.id /\ Place(j) = Place(i)

StartResolving ==
    /\ todo = <<>> /\ matches = <<>> /\ ~resolving
    /\ resolving' = TRUE
    /\ pending' = {i \in DOMAIN emissions : ~Repeats(i)}
    /\ verdicts' = [i \in DOMAIN emissions |-> <<>>]
    /\ UNCHANGED <<todo, phases, matches, emissions, chosen>>

(* An override counts when the rule it names is among the rivals.           *)
Overrides(i, rivals) == \E j \in rivals : emissions[j].rule.id = emissions[i].rule.overrides

(* What could be wrong: confidence is compared before priority.             *)
RankByConfidence(i, rivals) ==
    LET r == emissions[i].rule
    IN  <<IF Overrides(i, rivals) THEN 1 ELSE 0, r.confidence, r.priority, r.dir, r.id>>

(* _emission_rank                                                           *)
EmissionRank(i, rivals) ==
    LET r == emissions[i].rule
    IN  <<IF Overrides(i, rivals) THEN 1 ELSE 0, r.priority, r.confidence, r.dir, r.id>>

(* max, and a stable sort, take the earlier of two equals.                  *)
Precedes(i, j, rivals) ==
    \/ Exceeds(EmissionRank(i, rivals), EmissionRank(j, rivals))
    \/ EmissionRank(i, rivals) = EmissionRank(j, rivals) /\ i <= j

Strongest(i, S, rivals) == i \in S /\ \A j \in S : Precedes(i, j, rivals)

(* _record_rewrite_emission, or an entry of the rejected: the losers of a   *)
(* group, and the winner where that has an entry.                           *)
Entry(status, winner) == [status |-> status, winner |-> winner]
Recorded(i, entry) == Append(verdicts[i], entry)

(* The group whose turn it is: renames first, then arguments, then flows;   *)
(* within a kind the one that was mentioned first.                          *)
Turn(kind) == CASE kind = "rename" -> 1 [] kind = "call_arg_rewrite" -> 2 [] kind = "flow" -> 3
IsNext(i) ==
    /\ i \in pending \cap OfKind(Grouped)
    /\ \A j \in pending \cap OfKind(Grouped) : ~Exceeds(<<Turn(Kind(i)), i>>, <<Turn(Kind(j)), j>>)

ResolveGroup(i) ==
    /\ IsNext(i)
    /\ \E winner \in pending :
        LET group == {j \in pending : SameTarget(i, j)}
        IN  /\ Strongest(winner, group, group)
            /\ chosen' = Append(chosen, winner)
            /\ verdicts' = [j \in DOMAIN verdicts |->
                    CASE j \in group \ {winner} ->
                            Recorded(j, Entry(IF Kind(i) = "rename" THEN "rejected" ELSE "shadowed", winner))
                      [] j = winner /\ Kind(i) # "rename" -> Recorded(j, Entry("applied", winner))
                      [] OTHER -> verdicts[j]]
            /\ pending' = pending \ group
    /\ UNCHANGED <<todo, phases, matches, emissions, resolving>>

(* _spans_overlap                                                           *)
Overlap(i, j) == First(Place(i)) < Beyond(Place(j)) /\ First(Place(j)) < Beyond(Place(i))
Texts == OfKind({"text_rewrite"})

(* What could be wrong: a span is compared with the one accepted last.      *)
OverlapsLast(i) == {k \in DOMAIN chosen : k = Len(chosen) /\ chosen[k] \in Texts /\ Overlap(i, chosen[k])}

(* The accepted spans that a rewrite overlaps.                              *)
Overlapped(i) == {k \in DOMAIN chosen : chosen[k] \in Texts /\ Overlap(i, chosen[k])}

(* _resolve_text_rewrite_conflicts: from the strongest down, among all of   *)
(* them; one that overlaps an accepted one loses to it.                     *)
ResolveText(i) ==
    /\ resolving /\ pending \cap OfKind(Grouped) = {}
    /\ Strongest(i, pending \cap Texts, Texts)
    /\ \/ /\ Overlapped(i) = {}
          /\ chosen' = Append(chosen, i)
          /\ verdicts' = [verdicts EXCEPT ![i] = Recorded(i, Entry("applied", i))]
       \/ \E k \in Overlapped(i) :
            /\ \A h \in Overlapped(i) : k <= h
            /\ verdicts' = [verdicts EXCEPT ![i] = Recorded(i, Entry("shadowed", chosen[k]))]
            /\ UNCHANGED chosen
    /\ pending' = pending \ {i}
    /\ UNCHANGED <<todo, phases, matches, emissions, resolving>>

(* Comments do not compete.                                                 *)
PassThrough(i) ==
    /\ i \in pending /\ pending \subseteq OfKind({"semantic_comment"})
    /\ \A j \in pending : i <= j
    /\ chosen' = Append(chosen, i)
    /\ pending' = pending \ {i}
    /\ UNCHANGED <<todo, phases, matches, emissions, resolving, verdicts>>

EngineNext ==
    \/ PassOver \/ (\E m \in MatchLists : MatchRule(m)) \/ EmitMatch \/ StartResolving
    \/ \E i \in pending : ResolveGroup(i) \/ ResolveText(i) \/ PassThrough(i)

EngineSpec == EngineInit /\ [][EngineNext]_engineVars

-----------------------------------------------------------------------------
(* Properties.                                                              *)

(* Emissions are what is left of the rules in their order, of the phases    *)
(* asked for; what is pending is neither chosen nor in the report.          *)
EngineTypeOK ==
    /\ \A k \in DOMAIN emissions : Selected(emissions[k].rule) /\ Place(k) \in Places
    /\ \A j, k \in DOMAIN emissions :
          j < k => ~Exceeds(SortKey(emissions[j].rule), SortKey(emissions[k].rule))
    /\ pending \subseteq DOMAIN emissions /\ (pending # {} => resolving /\ todo = <<>>)
    /\ pending \cap ToSet(chosen) = {}
    /\ DOMAIN verdicts = IF resolving THEN DOMAIN emissions ELSE {}
    /\ \A i \in pending : verdicts[i] = <<>>

Compete(i, j) ==
    \/ Kind(i) \in Grouped /\ SameTarget(i, j)
    \/ i \in Texts /\ j \in Texts /\ Overlap(i, j)

(* No two emissions of a result compete: a variable gets one name, an       *)
(* argument one rewrite, a dispatcher and kind of flow one, and no span is  *)
(* rewritten twice, in whatever order the rules matched.                    *)
WinnersDoNotCompete ==
    \A h, k \in DOMAIN chosen : h # k => chosen[h] # chosen[k] /\ ~Compete(chosen[h], chosen[k])

(* README.md: "override_of is the strongest conflict signal; otherwise      *)
(* priority wins before confidence."                                        *)
LosesTo(i, w, rivals) ==
    \/ Overrides(w, rivals) /\ ~Overrides(i, rivals)
    \/ /\ Overrides(w, rivals) = Overrides(i, rivals)
       /\ LET lost == emissions[i].rule
              won == emissions[w].rule
          IN  \/ won.priority > lost.priority
              \/ won.priority = lost.priority /\ won.confidence >= lost.confidence

(* Whom an emission competes with: the text rewrites, or what wants the     *)
(* same thing and is not a repetition.                                      *)
Rivals(i) ==
    IF i \in Texts THEN Texts ELSE {j \in DOMAIN emissions : SameTarget(i, j) /\ ~Repeats(j)}

LostTo(i, w) ==
    /\ Len(verdicts[i]) = 1 /\ verdicts[i][1].winner = w
    /\ w # i /\ Compete(i, w) /\ LosesTo(i, w, Rivals(i))

(* Every emission that is not in the result, unless it repeats a rename,    *)
(* has one entry, which names one of the result that it competes with and   *)
(* that the policy prefers, even where it also competed with weaker ones.   *)
LosersNameTheirWinner ==
    resolving /\ pending = {} =>
        \A i \in DOMAIN emissions :
            i \in ToSet(chosen) \/ Repeats(i) \/ \E w \in ToSet(chosen) : LostTo(i, w)
=============================================================================
