------------------------- MODULE RuleEngine_proofs --------------------------
(***************************************************************************)
(* For every set of rules, of matches and of places: emissions are in the   *)
(* order of their rules, no two of a result compete, and each that is not   *)
(* in the result, or a repetition, names the one it lost to.                *)
(***************************************************************************)
EXTENDS RuleEngine, FiniteSetTheorems, TLAPS

Emissions == [rule : RuleRecords, place : Places]
Matched == [rule : RuleRecords, place : Places \cup {Refused}]

InOrder(r, s) == ~Exceeds(SortKey(r), SortKey(s))

(* What is emitted, is matched and is to be matched, in this order, is in   *)
(* the order of the rules.                                                  *)
RulesInOrder ==
    /\ todo \in Seq(RuleRecords)
    /\ matches \in Seq(Matched)
    /\ emissions \in Seq(Emissions)
    /\ \A j, k \in DOMAIN todo : j < k => InOrder(todo[j], todo[k])
    /\ \A j, k \in DOMAIN emissions : j < k => InOrder(emissions[j].rule, emissions[k].rule)
    /\ \A j \in DOMAIN matches, k \in DOMAIN todo : InOrder(matches[j].rule, todo[k])
    /\ \A j \in DOMAIN emissions, k \in DOMAIN todo : InOrder(emissions[j].rule, todo[k])
    /\ \A j \in DOMAIN emissions, k \in DOMAIN matches : InOrder(emissions[j].rule, matches[k].rule)
    /\ \A j, k \in DOMAIN matches : matches[j].rule = matches[k].rule
    /\ \A k \in DOMAIN matches : Selected(matches[k].rule)
    /\ \A k \in DOMAIN emissions : Selected(emissions[k].rule)

(* Before the conflicts are resolved nothing is decided, and afterwards     *)
(* nothing is emitted.                                                      *)
Phases ==
    /\ resolving \in BOOLEAN
    /\ resolving => todo = <<>> /\ matches = <<>>
    /\ ~resolving => pending = {} /\ chosen = <<>> /\ verdicts = <<>>

Shapes ==
    /\ pending \subseteq DOMAIN emissions
    /\ chosen \in Seq(DOMAIN emissions)
    /\ DOMAIN verdicts = IF resolving THEN DOMAIN emissions ELSE {}
    /\ \A i \in pending : verdicts[i] = <<>> /\ ~Repeats(i)
    /\ \A k \in DOMAIN chosen : chosen[k] \notin pending /\ ~Repeats(chosen[k])

(* A group is decided as a whole, and texts from the strongest down.        *)
GroupsAreWhole ==
    \A i, j \in DOMAIN emissions :
        /\ resolving /\ Kind(i) \in Grouped /\ SameTarget(i, j) /\ ~Repeats(i) /\ ~Repeats(j)
        /\ i \in pending
        => j \in pending

StrongestFirst ==
    \A k \in DOMAIN chosen : \A i \in pending :
        chosen[k] \in Texts /\ i \in Texts => Precedes(chosen[k], i, Texts)

(* Every emission is pending, chosen, a repetition, or lost to a chosen one.*)
AllAccounted ==
    resolving => \A i \in DOMAIN emissions :
        i \in pending \/ i \in ToSet(chosen) \/ Repeats(i) \/ \E w \in ToSet(chosen) : LostTo(i, w)

EngineInv ==
    /\ RulesInOrder /\ Phases /\ Shapes
    /\ GroupsAreWhole /\ StrongestFirst /\ AllAccounted
    /\ WinnersDoNotCompete

-----------------------------------------------------------------------------
LEMMA OrderIsIrreflexive == ASSUME NEW r \in RuleRecords PROVE InOrder(r, r)
<1>1. PhaseOf(r) \in 1..5
  <2>1. \E k \in DOMAIN Kinds : Kinds[k] = r.kind
    BY DEF RuleRecords, ToSet
  <2> QED
    BY <2>1 DEF PhaseOf, Kinds
<1>2. /\ -r.priority \in Int /\ -r.confidence \in Int /\ r.pack \in Int /\ r.id \in Int
  BY DEF RuleRecords
<1> QED
  BY <1>1, <1>2 DEF InOrder, Exceeds, SortKey

LEMMA TailOf ==
    ASSUME NEW S, NEW q \in Seq(S), q # <<>>
    PROVE  /\ Head(q) = q[1] /\ 1 \in DOMAIN q /\ Head(q) \in S
           /\ Tail(q) \in Seq(S)
           /\ \A k \in DOMAIN Tail(q) : k + 1 \in DOMAIN q /\ Tail(q)[k] = q[k + 1] /\ k \in Nat
  OBVIOUS

LEMMA OneMore ==
    ASSUME NEW S, NEW q \in Seq(S), NEW e \in S
    PROVE  /\ Append(q, e) \in Seq(S)
           /\ \A k \in DOMAIN q : k \in DOMAIN Append(q, e) /\ Append(q, e)[k] = q[k]
           /\ \A k \in DOMAIN Append(q, e) :
                 \/ k \in DOMAIN q
                 \/ k = Len(q) + 1 /\ Append(q, e)[k] = e
           /\ Len(q) + 1 \in DOMAIN Append(q, e) /\ Append(q, e)[Len(q) + 1] = e
           /\ \A k \in DOMAIN q : k \in Nat /\ k < Len(q) + 1
  OBVIOUS

(* The rules still to be matched are in order, so what comes next is not    *)
(* before what was emitted.                                                 *)
LEMMA PassedInOrder == ASSUME RulesInOrder, PassOver PROVE RulesInOrder'
<1>1. /\ todo # <<>> /\ todo' = Tail(todo) /\ todo \in Seq(RuleRecords)
      /\ UNCHANGED <<phases, matches, emissions>>
  BY DEF PassOver, RulesInOrder
<1>2. /\ todo' \in Seq(RuleRecords)
      /\ \A k \in DOMAIN todo' : k + 1 \in DOMAIN todo /\ todo'[k] = todo[k + 1] /\ k \in Nat
  BY <1>1, TailOf
<1>3. \A j, k \in DOMAIN todo' : j < k => InOrder(todo'[j], todo'[k])
  BY <1>2 DEF RulesInOrder
<1> QED
  BY <1>1, <1>2, <1>3 DEF RulesInOrder, Selected

LEMMA MatchedInOrder ==
    ASSUME RulesInOrder, NEW m \in MatchLists, MatchRule(m) PROVE RulesInOrder'
<1>1. /\ todo # <<>> /\ todo' = Tail(todo) /\ todo \in Seq(RuleRecords)
      /\ UNCHANGED <<phases, emissions>> /\ Selected(Head(todo))
      /\ matches' = [k \in DOMAIN m |-> [rule |-> Head(todo), place |-> m[k]]]
  BY DEF MatchRule, RulesInOrder
<1>2. /\ todo' \in Seq(RuleRecords)
      /\ Head(todo) = todo[1] /\ 1 \in DOMAIN todo /\ Head(todo) \in RuleRecords
      /\ \A k \in DOMAIN todo' : k + 1 \in DOMAIN todo /\ todo'[k] = todo[k + 1] /\ k \in Nat
  BY <1>1, TailOf
<1>3. matches' \in Seq(Matched)
  <2>1. Len(m) \in Nat /\ DOMAIN m = 1..Len(m) /\ \A k \in DOMAIN m : m[k] \in Places \cup {Refused}
    BY RuleEngineAssumption
  <2>2. \A k \in DOMAIN m : [rule |-> Head(todo), place |-> m[k]] \in Matched
    BY <1>2, <2>1 DEF Matched
  <2>3. matches' \in [1..Len(m) -> Matched]
    BY <1>1, <2>1, <2>2
  <2> QED
    BY <2>1, <2>3
<1>4. \A k \in DOMAIN matches' : matches'[k].rule = Head(todo)
  <2>1. DOMAIN matches' = DOMAIN m /\ \A k \in DOMAIN m : matches'[k] = [rule |-> Head(todo), place |-> m[k]]
    BY ONLY <1>1, Zenon
  <2> QED
    BY ONLY <2>1
<1>5. \A j, k \in DOMAIN todo' : j < k => InOrder(todo'[j], todo'[k])
  <2> SUFFICES ASSUME NEW j \in DOMAIN todo', NEW k \in DOMAIN todo', j < k PROVE InOrder(todo'[j], todo'[k])
    OBVIOUS
  <2>1. j + 1 \in DOMAIN todo /\ k + 1 \in DOMAIN todo /\ j + 1 < k + 1
    BY <1>2
  <2>2. InOrder(todo[j + 1], todo[k + 1])
    BY <2>1 DEF RulesInOrder
  <2> QED
    BY <1>2, <2>2
<1>6. \A k \in DOMAIN todo' : InOrder(Head(todo), todo'[k])
  BY <1>2 DEF RulesInOrder
<1>7. \A j \in DOMAIN emissions : InOrder(emissions[j].rule, Head(todo))
  BY <1>2 DEF RulesInOrder
<1> QED
  BY <1>1, <1>2, <1>3, <1>4, <1>5, <1>6, <1>7 DEF RulesInOrder, Selected

LEMMA EmittedInOrder == ASSUME RulesInOrder, EmitMatch PROVE RulesInOrder'
<1>1. /\ matches # <<>> /\ matches' = Tail(matches) /\ matches \in Seq(Matched)
      /\ UNCHANGED <<phases, todo>> /\ emissions \in Seq(Emissions)
  BY DEF EmitMatch, RulesInOrder
<1>2. /\ matches' \in Seq(Matched)
      /\ Head(matches) = matches[1] /\ 1 \in DOMAIN matches /\ Head(matches) \in Matched
      /\ \A k \in DOMAIN matches' : k + 1 \in DOMAIN matches /\ matches'[k] = matches[k + 1]
  BY <1>1, TailOf
<1>3. \A k \in DOMAIN matches' : matches'[k].rule = Head(matches).rule
  BY <1>2 DEF RulesInOrder
<1>4. CASE emissions' = emissions
  BY <1>1, <1>2, <1>4 DEF RulesInOrder, Selected
<1>5. CASE Head(matches).place # Refused /\ emissions' = Append(emissions, Head(matches))
  <2>1. Head(matches) \in Emissions
    BY <1>2, <1>5 DEF Matched, Emissions
  <2>2. /\ emissions' \in Seq(Emissions)
        /\ \A k \in DOMAIN emissions' :
              \/ k \in DOMAIN emissions
              \/ k = Len(emissions) + 1 /\ emissions'[k] = Head(matches)
        /\ \A k \in DOMAIN emissions : emissions'[k] = emissions[k]
        /\ \A k \in DOMAIN emissions : k \in Nat /\ k < Len(emissions) + 1
    BY <1>1, <1>5, <2>1, OneMore
  <2>3. InOrder(Head(matches).rule, Head(matches).rule)
    BY <1>2, OrderIsIrreflexive DEF Matched
  <2>4. ASSUME NEW j \in DOMAIN emissions', NEW k \in DOMAIN emissions', j < k
        PROVE  InOrder(emissions'[j].rule, emissions'[k].rule)
    <3>1. Len(emissions) \in Nat /\ DOMAIN emissions = 1..Len(emissions)
      BY <1>1
    <3>2. j \in DOMAIN emissions
      <4>1. k \in DOMAIN emissions \/ k = Len(emissions) + 1
        BY <2>2
      <4>2. j \in DOMAIN emissions \/ j = Len(emissions) + 1
        BY <2>2
      <4> QED
        BY ONLY <2>4, <3>1, <4>1, <4>2
    <3>3. CASE k \in DOMAIN emissions
      BY <2>2, <2>4, <3>2, <3>3 DEF RulesInOrder
    <3>4. CASE k = Len(emissions) + 1 /\ emissions'[k] = Head(matches)
      BY <1>2, <2>2, <3>2, <3>4 DEF RulesInOrder
    <3> QED
      BY <2>2, <3>3, <3>4
  <2>5. \A j \in DOMAIN emissions', k \in DOMAIN todo : InOrder(emissions'[j].rule, todo[k])
    BY <1>2, <2>2 DEF RulesInOrder
  <2>6. \A j \in DOMAIN emissions', k \in DOMAIN matches' : InOrder(emissions'[j].rule, matches'[k].rule)
    BY <1>2, <1>3, <2>2, <2>3 DEF RulesInOrder
  <2>7. \A j \in DOMAIN matches', k \in DOMAIN todo : InOrder(matches'[j].rule, todo[k])
    BY <1>2 DEF RulesInOrder
  <2>8. \A k \in DOMAIN emissions' : Selected(emissions'[k].rule)
    BY <1>2, <2>2 DEF RulesInOrder
  <2>9. \A k \in DOMAIN matches' : Selected(matches'[k].rule)
    BY <1>2 DEF RulesInOrder
  <2> QED
    BY <1>1, <1>2, <1>3, <2>2, <2>4, <2>5, <2>6, <2>7, <2>8, <2>9 DEF RulesInOrder, Selected
<1>6. emissions \o <<>> = emissions /\ emissions \o <<Head(matches)>> = Append(emissions, Head(matches))
  BY <1>1
<1> QED
  BY <1>4, <1>5, <1>6 DEF EmitMatch, Built

LEMMA EngineInitHolds == EngineInit => EngineInv
<1> SUFFICES ASSUME EngineInit PROVE EngineInv
  OBVIOUS
<1>1. PICK s \in RuleSets : todo \in Orderings(s)
  BY DEF EngineInit
<1>2. s \subseteq RuleRecords /\ Cardinality(s) \in Nat
  BY RuleEngineAssumption, FS_CardinalityType
<1>3. todo \in Seq(RuleRecords) /\ \A j, k \in DOMAIN todo : j < k => InOrder(todo[j], todo[k])
  BY <1>1, <1>2 DEF Orderings, InOrder
<1>4. /\ matches = <<>> /\ emissions = <<>> /\ resolving = FALSE
      /\ pending = {} /\ chosen = <<>> /\ verdicts = <<>>
  BY DEF EngineInit
<1>5. RulesInOrder
  BY <1>3, <1>4 DEF RulesInOrder
<1>6. Phases
  BY <1>4 DEF Phases
<1>7. Shapes
  <2>1. DOMAIN verdicts = {} /\ DOMAIN chosen = {} /\ chosen \in Seq(DOMAIN emissions)
    BY <1>4
  <2> QED
    BY <1>4, <2>1 DEF Shapes
<1>8. GroupsAreWhole /\ AllAccounted
  BY <1>4 DEF GroupsAreWhole, AllAccounted
<1>9. StrongestFirst /\ WinnersDoNotCompete
  BY <1>4 DEF StrongestFirst, WinnersDoNotCompete
<1> QED
  BY <1>5, <1>6, <1>7, <1>8, <1>9 DEF EngineInv

-----------------------------------------------------------------------------
(* While conflicts are resolved the emissions stay what they are.           *)
LEMMA EmissionsStay ==
    ASSUME UNCHANGED emissions
    PROVE  /\ DOMAIN emissions' = DOMAIN emissions
           /\ Texts' = Texts
           /\ \A i : (Repeats(i))' <=> Repeats(i)
           /\ \A i : Kind(i)' = Kind(i)
           /\ \A i, j : (SameTarget(i, j))' <=> SameTarget(i, j)
           /\ \A i, j : (Compete(i, j))' <=> Compete(i, j)
           /\ \A i : (Rivals(i))' = Rivals(i)
           /\ \A i, j, R : (Precedes(i, j, R))' <=> Precedes(i, j, R)
           /\ \A i, j, R : (LosesTo(i, j, R))' <=> LosesTo(i, j, R)
<1>1. DOMAIN emissions' = DOMAIN emissions /\ Texts' = Texts
  BY DEF Texts, OfKind, Kind
<1>2. \A i : (Repeats(i))' <=> Repeats(i)
  BY DEF Repeats, Kind, Place
<1>3. \A i, j : (SameTarget(i, j))' <=> SameTarget(i, j)
  BY DEF SameTarget, Kind, Place
<1>4. \A i, j : (Compete(i, j))' <=> Compete(i, j)
  BY <1>1, <1>3 DEF Compete, Overlap, Kind, Place
<1>5. \A i : (Rivals(i))' = Rivals(i)
  BY <1>1, <1>2, <1>3 DEF Rivals
<1>6. \A i, j, R : (Precedes(i, j, R))' <=> Precedes(i, j, R)
  BY DEF Precedes, EmissionRank, Overrides
<1>7. \A i, j, R : (LosesTo(i, j, R))' <=> LosesTo(i, j, R)
  BY DEF LosesTo, Overrides
<1>8. \A i : Kind(i)' = Kind(i)
  BY DEF Kind
<1> QED
  BY <1>1, <1>2, <1>3, <1>4, <1>5, <1>6, <1>7, <1>8

(* What was lost stays lost when its entry and its winner stay.             *)
LEMMA LostStaysLost ==
    ASSUME UNCHANGED emissions, NEW i, NEW w, LostTo(i, w), verdicts'[i] = verdicts[i]
    PROVE  LostTo(i, w)'
  BY EmissionsStay DEF LostTo

(* The ranks compare overrides, then priority, then confidence, as the      *)
(* policy does.                                                             *)
LEMMA RankDecides ==
    ASSUME emissions \in Seq(Emissions), NEW w \in DOMAIN emissions, NEW i \in DOMAIN emissions,
           NEW R, Precedes(w, i, R)
    PROVE  LosesTo(i, w, R)
<1> DEFINE won == emissions[w].rule
           lost == emissions[i].rule
           bonus(j) == IF Overrides(j, R) THEN 1 ELSE 0
<1>1. /\ won.priority \in Int /\ lost.priority \in Int
      /\ won.confidence \in Int /\ lost.confidence \in Int
      /\ bonus(w) \in Int /\ bonus(i) \in Int
  <2>1. emissions[w] \in Emissions /\ emissions[i] \in Emissions
    OBVIOUS
  <2>2. won \in RuleRecords /\ lost \in RuleRecords
    BY <2>1 DEF Emissions
  <2>3. \A r \in RuleRecords : r.priority \in Int /\ r.confidence \in Int
    BY DEF RuleRecords
  <2> QED
    BY <2>2, <2>3
<1>2. \/ bonus(w) > bonus(i)
      \/ bonus(w) = bonus(i) /\ won.priority > lost.priority
      \/ bonus(w) = bonus(i) /\ won.priority = lost.priority /\ won.confidence >= lost.confidence
  <2>1. CASE EmissionRank(w, R) = EmissionRank(i, R)
    BY <1>1, <2>1 DEF EmissionRank
  <2>2. CASE Exceeds(EmissionRank(w, R), EmissionRank(i, R))
    <3> DEFINE a == EmissionRank(w, R)
               b == EmissionRank(i, R)
    <3>1. /\ a[1] = bonus(w) /\ a[2] = won.priority /\ a[3] = won.confidence
          /\ b[1] = bonus(i) /\ b[2] = lost.priority /\ b[3] = lost.confidence
          /\ DOMAIN a = 1..5
      BY DEF EmissionRank
    <3>2. PICK k \in 1..5 : a[k] > b[k] /\ \A j \in 1..(k - 1) : a[j] = b[j]
      BY <2>2, <3>1 DEF Exceeds
    <3> HIDE DEF a, b, bonus, won, lost
    <3>3. CASE k = 1
      BY <3>1, <3>2, <3>3
    <3>4. CASE k = 2
      BY <3>1, <3>2, <3>4
    <3>5. CASE k = 3
      <4>1. a[1] = b[1] /\ a[2] = b[2] /\ a[3] > b[3]
        BY <3>2, <3>5
      <4> QED
        BY <1>1, <3>1, <4>1
    <3>6. CASE k > 3
      <4>1. a[1] = b[1] /\ a[2] = b[2] /\ a[3] = b[3]
        BY <3>2, <3>6
      <4> QED
        BY <1>1, <3>1, <4>1
    <3> QED
      BY <3>3, <3>4, <3>5, <3>6
  <2> QED
    BY <2>1, <2>2 DEF Precedes
<1>3. bonus(w) = bonus(i) <=> (Overrides(w, R) <=> Overrides(i, R))
  OBVIOUS
<1>4. bonus(w) > bonus(i) => Overrides(w, R) /\ ~Overrides(i, R)
  OBVIOUS
<1>5. Overrides(w, R) \in BOOLEAN /\ Overrides(i, R) \in BOOLEAN
  BY DEF Overrides
<1> HIDE DEF bonus
<1>6. CASE bonus(w) > bonus(i)
  BY <1>4, <1>6 DEF LosesTo
<1>7. CASE bonus(w) = bonus(i)
  <2>1. Overrides(w, R) = Overrides(i, R)
    BY <1>3, <1>5, <1>7
  <2>2. \/ won.priority > lost.priority
        \/ won.priority = lost.priority /\ won.confidence >= lost.confidence
    BY <1>1, <1>2, <1>7
  <2> QED
    BY <2>1, <2>2 DEF LosesTo
<1> QED
  BY <1>2, <1>6, <1>7

(* The kinds that compete by what they are about are not those that compete *)
(* by their span, and comments do not compete.                              *)
LEMMA KindsDiffer ==
    /\ \A i : Kind(i) \in Grouped => i \notin Texts
    /\ \A i, j : i \in Texts /\ j \in Texts => Kind(i) \notin Grouped
    /\ \A i, j : SameTarget(i, j) => Kind(i) = Kind(j)
    /\ \A i, j : Kind(i) = "semantic_comment" => ~Compete(i, j) /\ ~Compete(j, i)
  BY DEF Grouped, Texts, OfKind, SameTarget, Compete

LEMMA SameTargetIsEquivalence ==
    /\ \A i : SameTarget(i, i)
    /\ \A i, j : SameTarget(i, j) => SameTarget(j, i)
    /\ \A i, j, k : SameTarget(i, j) /\ SameTarget(j, k) => SameTarget(i, k)
  BY DEF SameTarget

LEMMA CompeteIsSymmetric == \A i, j : Compete(i, j) => Compete(j, i)
  BY DEF Compete, SameTarget, Overlap

(* A group that is pending consists of those who are rivals of each other.  *)
LEMMA GroupIsRivals ==
    ASSUME Shapes, GroupsAreWhole, resolving, NEW i \in pending, NEW j \in pending, SameTarget(i, j),
           Kind(i) \in Grouped
    PROVE  {k \in pending : SameTarget(i, k)} = Rivals(j)
<1>1. Kind(j) \in Grouped /\ j \notin Texts
  BY KindsDiffer
<1>2. Rivals(j) = {k \in DOMAIN emissions : SameTarget(j, k) /\ ~Repeats(k)}
  BY <1>1 DEF Rivals
<1>3. \A k \in pending : k \in DOMAIN emissions /\ ~Repeats(k)
  BY DEF Shapes
<1>4. \A k \in DOMAIN emissions : SameTarget(j, k) /\ ~Repeats(k) => k \in pending
  BY <1>1, <1>3 DEF GroupsAreWhole
<1> QED
  BY <1>2, <1>3, <1>4, SameTargetIsEquivalence

LEMMA ChosenGrows ==
    ASSUME chosen \in Seq(DOMAIN emissions), NEW w \in DOMAIN emissions, chosen' = Append(chosen, w)
    PROVE  /\ chosen' \in Seq(DOMAIN emissions)
           /\ \A k \in DOMAIN chosen : k \in DOMAIN chosen' /\ chosen'[k] = chosen[k]
           /\ \A k \in DOMAIN chosen' : k \in DOMAIN chosen \/ (k = Len(chosen) + 1 /\ chosen'[k] = w)
           /\ Len(chosen) + 1 \in DOMAIN chosen' /\ chosen'[Len(chosen) + 1] = w
<1>1. ASSUME NEW S, chosen \in Seq(S), w \in S
      PROVE  /\ chosen' \in Seq(S)
             /\ \A k \in DOMAIN chosen : k \in DOMAIN chosen' /\ chosen'[k] = chosen[k]
             /\ \A k \in DOMAIN chosen' : k \in DOMAIN chosen \/ (k = Len(chosen) + 1 /\ chosen'[k] = w)
             /\ Len(chosen) + 1 \in DOMAIN chosen' /\ chosen'[Len(chosen) + 1] = w
  BY <1>1, OneMore
<1> QED
  BY <1>1

LEMMA OneEntry ==
    ASSUME NEW status, NEW w
    PROVE  Len(Append(<<>>, Entry(status, w))) = 1 /\ Append(<<>>, Entry(status, w))[1].winner = w
<1>1. Len(Append(<<>>, Entry(status, w))) = 1 /\ Append(<<>>, Entry(status, w))[1] = Entry(status, w)
  OBVIOUS
<1> QED
  BY <1>1 DEF Entry

(* A group leaves as a whole: its winner is chosen and the others lose.     *)
LEMMA GroupsResolve ==
    ASSUME EngineInv, NEW i \in pending, ResolveGroup(i) PROVE EngineInv'
<1> DEFINE group == {j \in pending : SameTarget(i, j)}
<1>1. /\ i \in OfKind(Grouped)
      /\ UNCHANGED <<todo, phases, matches, emissions, resolving>>
      /\ pending' = pending \ group
  BY DEF ResolveGroup, IsNext
<1>2. PICK w \in pending :
        /\ Strongest(w, group, group)
        /\ chosen' = Append(chosen, w)
        /\ DOMAIN verdicts' = DOMAIN verdicts
        /\ \A j \in DOMAIN verdicts :
              /\ j \in group /\ j # w => \E status : verdicts'[j] = Append(verdicts[j], Entry(status, w))
              /\ j \notin group /\ j # w => verdicts'[j] = verdicts[j]
  BY DEF ResolveGroup, Recorded
<1>3. /\ resolving /\ todo = <<>> /\ matches = <<>>
      /\ DOMAIN verdicts = DOMAIN emissions /\ emissions \in Seq(Emissions)
      /\ pending \subseteq DOMAIN emissions /\ chosen \in Seq(DOMAIN emissions)
      /\ \A j \in pending : verdicts[j] = <<>> /\ ~Repeats(j)
  BY DEF EngineInv, Phases, Shapes, RulesInOrder
<1>4. Kind(i) \in Grouped /\ \A j \in group : j \in pending /\ Kind(j) \in Grouped
  BY <1>1, KindsDiffer DEF OfKind
<1>5. w \in group /\ \A j \in group : Precedes(w, j, group)
  BY <1>2 DEF Strongest
<1>6. /\ chosen' \in Seq(DOMAIN emissions)
      /\ \A k \in DOMAIN chosen : k \in DOMAIN chosen' /\ chosen'[k] = chosen[k]
      /\ \A k \in DOMAIN chosen' : k \in DOMAIN chosen \/ (k = Len(chosen) + 1 /\ chosen'[k] = w)
      /\ Len(chosen) + 1 \in DOMAIN chosen' /\ chosen'[Len(chosen) + 1] = w
  BY <1>2, <1>3, ChosenGrows
<1>7. ToSet(chosen) \subseteq ToSet(chosen') /\ w \in ToSet(chosen')
  BY <1>6 DEF ToSet
<1> HIDE DEF group
<1>8. RulesInOrder'
  BY <1>1 DEF EngineInv, RulesInOrder, Selected
<1>9. Phases'
  BY <1>1, <1>3 DEF Phases
<1>10. Shapes'
  <2>1. \A j \in pending' : verdicts'[j] = <<>> /\ ~Repeats(j)
    BY <1>1, <1>2, <1>3, <1>5
  <2>2. \A k \in DOMAIN chosen' : chosen'[k] \notin pending' /\ ~Repeats(chosen'[k])
    BY <1>1, <1>3, <1>5, <1>6 DEF EngineInv, Shapes
  <2> QED
    BY <1>1, <1>2, <1>3, <1>6, <2>1, <2>2, EmissionsStay DEF Shapes
<1>11. GroupsAreWhole'
  <2>1. ASSUME NEW j \in DOMAIN emissions, NEW k \in DOMAIN emissions,
               Kind(j) \in Grouped, SameTarget(j, k), ~Repeats(j), ~Repeats(k), j \in pending'
        PROVE  k \in pending'
    <3>1. j \in pending /\ j \notin group /\ k \in pending
      BY <1>1, <1>3, <2>1 DEF EngineInv, GroupsAreWhole
    <3>2. k \notin group
      BY <2>1, <3>1, SameTargetIsEquivalence DEF group
    <3> QED
      BY <1>1, <3>1, <3>2
  <2> QED
    BY <1>1, <2>1, EmissionsStay DEF GroupsAreWhole
<1>12. StrongestFirst'
  <2>1. w \notin Texts
    BY <1>4, <1>5, KindsDiffer
  <2>2. \A k \in DOMAIN chosen' : \A j \in pending' :
          chosen'[k] \in Texts /\ j \in Texts => Precedes(chosen'[k], j, Texts)
    BY <1>1, <1>6, <2>1 DEF EngineInv, StrongestFirst
  <2> QED
    BY <1>1, <2>2, EmissionsStay DEF StrongestFirst
<1>13. AllAccounted'
  <2>1. ASSUME NEW j \in group, j # w PROVE LostTo(j, w)'
    <3>1. group = Rivals(j) /\ j \in pending /\ j \in DOMAIN emissions /\ w \in DOMAIN emissions
      BY <1>3, <1>4, GroupIsRivals DEF EngineInv, group
    <3>2. Precedes(w, j, group) /\ LosesTo(j, w, Rivals(j))
      BY <1>3, <1>5, <3>1, RankDecides
    <3>3. SameTarget(j, w) /\ Compete(j, w)
      BY <1>4, <1>5, SameTargetIsEquivalence DEF group, Compete
    <3>4. Len(verdicts'[j]) = 1 /\ verdicts'[j][1].winner = w
      <4>1. PICK status : verdicts'[j] = Append(verdicts[j], Entry(status, w))
        BY <1>2, <1>3, <2>1, <3>1
      <4> QED
        BY <1>3, <3>1, <4>1, OneEntry
    <3> QED
      BY <1>1, <2>1, <3>2, <3>3, <3>4, EmissionsStay DEF LostTo
  <2>2. ASSUME NEW j \in DOMAIN emissions
        PROVE  j \in pending' \/ j \in ToSet(chosen') \/ Repeats(j) \/ \E v \in ToSet(chosen') : LostTo(j, v)'
    <3>1. CASE j \in group
      BY <1>7, <2>1, <3>1
    <3>2. CASE j \notin group /\ j \in pending
      BY <1>1, <3>2
    <3>3. CASE j \notin pending
      <4>1. j # w /\ j \notin group
        BY <1>4, <1>5, <3>3
      <4>2. verdicts'[j] = verdicts[j]
        BY <1>2, <1>3, <4>1
      <4>3. \A v : LostTo(j, v) => LostTo(j, v)'
        BY <1>1, <4>2, LostStaysLost
      <4> QED
        BY <1>3, <1>7, <3>3, <4>3 DEF EngineInv, AllAccounted
    <3> QED
      BY <3>1, <3>2, <3>3
  <2> QED
    BY <1>1, <2>2, EmissionsStay DEF AllAccounted
<1>14. WinnersDoNotCompete'
  <2>1. ASSUME NEW k \in DOMAIN chosen PROVE chosen[k] # w /\ ~Compete(chosen[k], w) /\ ~Compete(w, chosen[k])
    <3>1. chosen[k] \in DOMAIN emissions /\ chosen[k] \notin pending /\ ~Repeats(chosen[k])
      BY <1>3 DEF EngineInv, Shapes
    <3>2. w \in pending /\ w \in DOMAIN emissions /\ ~Repeats(w) /\ Kind(w) \in Grouped /\ w \notin Texts
      BY <1>3, <1>4, <1>5, KindsDiffer
    <3>3. ~SameTarget(w, chosen[k])
      BY <1>3, <3>1, <3>2 DEF EngineInv, GroupsAreWhole
    <3> QED
      BY <3>1, <3>2, <3>3, CompeteIsSymmetric DEF Compete
  <2>2. \A h, k \in DOMAIN chosen' : h # k => chosen'[h] # chosen'[k] /\ ~Compete(chosen'[h], chosen'[k])
    BY <1>6, <2>1 DEF EngineInv, WinnersDoNotCompete
  <2> QED
    BY <1>1, <2>2, EmissionsStay DEF WinnersDoNotCompete
<1> QED
  BY <1>8, <1>9, <1>10, <1>11, <1>12, <1>13, <1>14 DEF EngineInv

(* A text that overlaps none of the stronger ones is chosen, another loses  *)
(* to one that it overlaps.                                                 *)
LEMMA TextsResolve ==
    ASSUME EngineInv, NEW i \in pending, ResolveText(i) PROVE EngineInv'
<1>1. /\ resolving /\ pending \cap OfKind(Grouped) = {}
      /\ UNCHANGED <<todo, phases, matches, emissions, resolving>>
      /\ pending' = pending \ {i}
      /\ i \in Texts /\ \A j \in pending \cap Texts : Precedes(i, j, Texts)
  BY DEF ResolveText, Strongest
<1>2. /\ todo = <<>> /\ matches = <<>>
      /\ DOMAIN verdicts = DOMAIN emissions /\ emissions \in Seq(Emissions)
      /\ pending \subseteq DOMAIN emissions /\ chosen \in Seq(DOMAIN emissions)
      /\ \A j \in pending : verdicts[j] = <<>> /\ ~Repeats(j)
      /\ \A k \in DOMAIN chosen : chosen[k] \notin pending /\ ~Repeats(chosen[k])
  BY <1>1 DEF EngineInv, Phases, Shapes, RulesInOrder
<1>3. /\ DOMAIN verdicts' = DOMAIN verdicts
      /\ \A j \in DOMAIN verdicts : j # i => verdicts'[j] = verdicts[j]
  BY DEF ResolveText
<1>4. RulesInOrder'
  BY <1>1 DEF EngineInv, RulesInOrder, Selected
<1>5. Phases'
  BY <1>1, <1>2 DEF Phases
<1>6. GroupsAreWhole'
  <2>1. \A j \in pending : Kind(j) \notin Grouped
    BY <1>1, <1>2 DEF OfKind
  <2> QED
    BY <1>1, <2>1, EmissionsStay DEF GroupsAreWhole
<1>7. \A j \in pending' : verdicts'[j] = <<>> /\ ~Repeats(j)
  BY <1>1, <1>2, <1>3
<1>8. ASSUME NEW j \in DOMAIN emissions, j # i
      PROVE  \/ j \in pending' \/ j \in ToSet(chosen) \/ Repeats(j)
             \/ \E v \in ToSet(chosen) : LostTo(j, v)'
  <2>1. \A v : LostTo(j, v) => LostTo(j, v)'
    BY <1>1, <1>2, <1>3, <1>8, LostStaysLost
  <2> QED
    BY <1>1, <1>8, <2>1 DEF EngineInv, AllAccounted
<1>9. CASE Overlapped(i) = {} /\ chosen' = Append(chosen, i)
  <2>1. /\ chosen' \in Seq(DOMAIN emissions)
        /\ \A k \in DOMAIN chosen : k \in DOMAIN chosen' /\ chosen'[k] = chosen[k]
        /\ \A k \in DOMAIN chosen' : k \in DOMAIN chosen \/ (k = Len(chosen) + 1 /\ chosen'[k] = i)
        /\ Len(chosen) + 1 \in DOMAIN chosen' /\ chosen'[Len(chosen) + 1] = i
    BY <1>2, <1>9, ChosenGrows
  <2>2. Shapes'
    <3>1. \A k \in DOMAIN chosen' : chosen'[k] \notin pending' /\ ~Repeats(chosen'[k])
      BY <1>1, <1>2, <2>1
    <3> QED
      BY <1>1, <1>2, <1>3, <1>7, <2>1, <3>1, EmissionsStay DEF Shapes
  <2>3. StrongestFirst'
    <3>1. \A k \in DOMAIN chosen' : \A j \in pending' :
            chosen'[k] \in Texts /\ j \in Texts => Precedes(chosen'[k], j, Texts)
      BY <1>1, <2>1 DEF EngineInv, StrongestFirst
    <3> QED
      BY <1>1, <3>1, EmissionsStay DEF StrongestFirst
  <2>4. AllAccounted'
    <3>1. ToSet(chosen) \subseteq ToSet(chosen') /\ i \in ToSet(chosen')
      BY <2>1 DEF ToSet
    <3>2. \A j \in DOMAIN emissions :
            \/ j \in pending' \/ j \in ToSet(chosen') \/ Repeats(j)
            \/ \E v \in ToSet(chosen') : LostTo(j, v)'
      BY <1>8, <3>1
    <3> QED
      BY <1>1, <3>2, EmissionsStay DEF AllAccounted
  <2>5. WinnersDoNotCompete'
    <3>1. ASSUME NEW k \in DOMAIN chosen PROVE chosen[k] # i /\ ~Compete(chosen[k], i) /\ ~Compete(i, chosen[k])
      <4>1. chosen[k] # i
        BY <1>2
      <4>2. ~(chosen[k] \in Texts /\ Overlap(i, chosen[k]))
        BY <1>9 DEF Overlapped
      <4>3. Kind(i) \notin Grouped
        BY <1>1, KindsDiffer
      <4> QED
        BY <1>1, <4>1, <4>2, <4>3, CompeteIsSymmetric DEF Compete
    <3>2. \A h, k \in DOMAIN chosen' : h # k => chosen'[h] # chosen'[k] /\ ~Compete(chosen'[h], chosen'[k])
      BY <2>1, <3>1 DEF EngineInv, WinnersDoNotCompete
    <3> QED
      BY <1>1, <3>2, EmissionsStay DEF WinnersDoNotCompete
  <2> QED
    BY <1>4, <1>5, <1>6, <2>2, <2>3, <2>4, <2>5 DEF EngineInv
<1>10. ASSUME NEW k \in Overlapped(i), UNCHANGED chosen,
              verdicts' = [verdicts EXCEPT ![i] = Recorded(i, Entry("shadowed", chosen[k]))]
       PROVE  EngineInv'
  <2> PICK w : w = chosen[k]
    OBVIOUS
  <2>1. /\ k \in DOMAIN chosen /\ w \in Texts /\ Overlap(i, w)
        /\ w \in DOMAIN emissions /\ i \in DOMAIN emissions /\ w \in ToSet(chosen)
    BY <1>2, <1>10 DEF Overlapped, ToSet
  <2>2. Shapes'
    BY <1>1, <1>2, <1>3, <1>7, <1>10, EmissionsStay DEF Shapes
  <2>3. StrongestFirst'
    BY <1>1, <1>10, EmissionsStay DEF EngineInv, StrongestFirst
  <2>4. WinnersDoNotCompete'
    BY <1>1, <1>10, EmissionsStay DEF EngineInv, WinnersDoNotCompete
  <2>5. LostTo(i, w)'
    <3>1. Precedes(w, i, Texts)
      BY <1>1, <2>1 DEF EngineInv, StrongestFirst
    <3>2. LosesTo(i, w, Texts) /\ Rivals(i) = Texts
      BY <1>1, <1>2, <2>1, <3>1, RankDecides DEF Rivals
    <3>3. w # i /\ Compete(i, w)
      BY <1>1, <1>2, <2>1 DEF Compete
    <3>4. verdicts'[i] = Append(<<>>, Entry("shadowed", w))
      BY <1>2, <1>10, <2>1 DEF Recorded
    <3>5. Len(verdicts'[i]) = 1 /\ verdicts'[i][1].winner = w
      BY <3>4, OneEntry
    <3> QED
      BY <1>1, <3>2, <3>3, <3>5, EmissionsStay DEF LostTo
  <2>6. AllAccounted'
    <3>1. \A j \in DOMAIN emissions :
            \/ j \in pending' \/ j \in ToSet(chosen) \/ Repeats(j)
            \/ \E v \in ToSet(chosen) : LostTo(j, v)'
      BY <1>8, <2>1, <2>5
    <3> QED
      BY <1>1, <1>10, <3>1, EmissionsStay DEF AllAccounted
  <2> QED
    BY <1>4, <1>5, <1>6, <2>2, <2>3, <2>4, <2>6 DEF EngineInv
<1> QED
  BY <1>9, <1>10 DEF ResolveText

(* Comments compete with nothing.                                           *)
LEMMA CommentsPass ==
    ASSUME EngineInv, NEW i \in pending, PassThrough(i) PROVE EngineInv'
<1>1. /\ UNCHANGED <<todo, phases, matches, emissions, resolving, verdicts>>
      /\ pending' = pending \ {i} /\ chosen' = Append(chosen, i)
      /\ \A j \in pending : j \in DOMAIN emissions /\ Kind(j) = "semantic_comment"
  BY DEF PassThrough, OfKind
<1>2. /\ resolving /\ todo = <<>> /\ matches = <<>>
      /\ DOMAIN verdicts = DOMAIN emissions
      /\ pending \subseteq DOMAIN emissions /\ chosen \in Seq(DOMAIN emissions)
      /\ \A j \in pending : verdicts[j] = <<>> /\ ~Repeats(j)
      /\ \A k \in DOMAIN chosen : chosen[k] \notin pending /\ ~Repeats(chosen[k])
  BY DEF EngineInv, Phases, Shapes
<1>3. /\ chosen' \in Seq(DOMAIN emissions)
      /\ \A k \in DOMAIN chosen : k \in DOMAIN chosen' /\ chosen'[k] = chosen[k]
      /\ \A k \in DOMAIN chosen' : k \in DOMAIN chosen \/ (k = Len(chosen) + 1 /\ chosen'[k] = i)
      /\ Len(chosen) + 1 \in DOMAIN chosen' /\ chosen'[Len(chosen) + 1] = i
  BY <1>1, <1>2, ChosenGrows
<1>4. \A j \in pending : Kind(j) \notin Grouped /\ j \notin Texts
  BY <1>1 DEF Grouped, Texts, OfKind
<1>5. RulesInOrder' /\ Phases'
  BY <1>1, <1>2 DEF EngineInv, RulesInOrder, Selected, Phases
<1>6. Shapes'
  <2>1. \A k \in DOMAIN chosen' : chosen'[k] \notin pending' /\ ~Repeats(chosen'[k])
    BY <1>1, <1>2, <1>3
  <2> QED
    BY <1>1, <1>2, <1>3, <2>1, EmissionsStay DEF Shapes
<1>7. GroupsAreWhole'
  BY <1>1, <1>4, EmissionsStay DEF GroupsAreWhole
<1>8. StrongestFirst'
  BY <1>1, <1>4, EmissionsStay DEF StrongestFirst
<1>9. AllAccounted'
  <2>1. ToSet(chosen) \subseteq ToSet(chosen') /\ i \in ToSet(chosen')
    BY <1>3 DEF ToSet
  <2>2. \A j, v : LostTo(j, v) => LostTo(j, v)'
    BY <1>1, LostStaysLost
  <2>3. \A j \in DOMAIN emissions :
          j \in pending \/ j \in ToSet(chosen) \/ Repeats(j) \/ \E v \in ToSet(chosen) : LostTo(j, v)
    BY <1>2 DEF EngineInv, AllAccounted
  <2>4. \A j \in DOMAIN emissions :
          \/ j \in pending' \/ j \in ToSet(chosen') \/ Repeats(j)
          \/ \E v \in ToSet(chosen') : LostTo(j, v)'
    BY <1>1, <2>1, <2>2, <2>3
  <2> QED
    BY <1>1, <2>4, EmissionsStay DEF AllAccounted
<1>10. WinnersDoNotCompete'
  <2>1. \A k \in DOMAIN chosen : chosen[k] # i /\ ~Compete(chosen[k], i) /\ ~Compete(i, chosen[k])
    BY <1>1, <1>2, KindsDiffer
  <2>2. \A h, k \in DOMAIN chosen' : h # k => chosen'[h] # chosen'[k] /\ ~Compete(chosen'[h], chosen'[k])
    BY <1>3, <2>1 DEF EngineInv, WinnersDoNotCompete
  <2> QED
    BY <1>1, <2>2, EmissionsStay DEF WinnersDoNotCompete
<1> QED
  BY <1>5, <1>6, <1>7, <1>8, <1>9, <1>10 DEF EngineInv

(* Resolving starts with every emission pending but the repetitions.        *)
LEMMA ResolvingStarts == ASSUME EngineInv, StartResolving PROVE EngineInv'
<1>1. /\ UNCHANGED <<todo, phases, matches, emissions, chosen>>
      /\ todo = <<>> /\ matches = <<>> /\ resolving' = TRUE
      /\ pending' = {i \in DOMAIN emissions : ~Repeats(i)}
      /\ DOMAIN verdicts' = DOMAIN emissions /\ \A i \in DOMAIN emissions : verdicts'[i] = <<>>
  BY DEF StartResolving
<1>2. chosen = <<>>
  BY DEF StartResolving, EngineInv, Phases
<1>3. DOMAIN chosen = {} /\ chosen \in Seq(DOMAIN emissions)
  BY <1>2
<1>4. RulesInOrder' /\ Phases'
  BY <1>1 DEF EngineInv, RulesInOrder, Selected, Phases
<1>5. Shapes'
  BY <1>1, <1>3, EmissionsStay DEF Shapes
<1>6. GroupsAreWhole' /\ AllAccounted'
  BY <1>1, EmissionsStay DEF GroupsAreWhole, AllAccounted
<1>7. StrongestFirst' /\ WinnersDoNotCompete'
  BY <1>1, <1>3, EmissionsStay DEF StrongestFirst, WinnersDoNotCompete
<1> QED
  BY <1>4, <1>5, <1>6, <1>7 DEF EngineInv

(* While rules are matched nothing is decided.                              *)
LEMMA MatchingDecidesNothing ==
    ASSUME EngineInv, RulesInOrder', UNCHANGED <<resolving, decisions>>, ~resolving
    PROVE  EngineInv'
<1>1. /\ pending' = {} /\ chosen' = <<>> /\ verdicts' = <<>> /\ resolving' = FALSE
  BY DEF EngineInv, Phases, decisions
<1>2. Shapes'
  <2>1. DOMAIN verdicts' = {} /\ DOMAIN chosen' = {} /\ chosen' \in Seq(DOMAIN emissions')
    BY <1>1
  <2> QED
    BY <1>1, <2>1 DEF Shapes
<1>3. Phases' /\ GroupsAreWhole' /\ AllAccounted' /\ StrongestFirst'
  BY <1>1 DEF Phases, GroupsAreWhole, AllAccounted, StrongestFirst
<1>4. WinnersDoNotCompete'
  BY <1>1 DEF WinnersDoNotCompete
<1> QED
  BY <1>2, <1>3, <1>4 DEF EngineInv

LEMMA EngineSteps == EngineInv /\ [EngineNext]_engineVars => EngineInv'
<1> SUFFICES ASSUME EngineInv, [EngineNext]_engineVars PROVE EngineInv'
  OBVIOUS
<1>1. RulesInOrder /\ (resolving => todo = <<>> /\ matches = <<>>)
  BY DEF EngineInv, Phases
<1>2. CASE PassOver
  <2>1. ~resolving /\ UNCHANGED <<resolving, decisions>>
    BY <1>1, <1>2 DEF PassOver
  <2> QED
    BY <1>1, <1>2, <2>1, PassedInOrder, MatchingDecidesNothing
<1>3. ASSUME NEW m \in MatchLists, MatchRule(m) PROVE EngineInv'
  <2>1. ~resolving /\ UNCHANGED <<resolving, decisions>>
    BY <1>1, <1>3 DEF MatchRule
  <2> QED
    BY <1>1, <1>3, <2>1, MatchedInOrder, MatchingDecidesNothing
<1>4. CASE EmitMatch
  <2>1. ~resolving /\ UNCHANGED <<resolving, decisions>>
    BY <1>1, <1>4 DEF EmitMatch
  <2> QED
    BY <1>1, <1>4, <2>1, EmittedInOrder, MatchingDecidesNothing
<1>5. CASE UNCHANGED engineVars
  <2>1. UNCHANGED <<todo, phases, matches, emissions, resolving, pending, chosen, verdicts>>
    BY <1>5 DEF engineVars
  <2>2. RulesInOrder' /\ Phases' /\ Shapes'
    BY <2>1, EmissionsStay DEF EngineInv, RulesInOrder, Selected, Phases, Shapes
  <2>3. GroupsAreWhole' /\ StrongestFirst' /\ WinnersDoNotCompete'
    BY <2>1, EmissionsStay DEF EngineInv, GroupsAreWhole, StrongestFirst, WinnersDoNotCompete
  <2>4. AllAccounted'
    <3>1. \A j, v : LostTo(j, v) => LostTo(j, v)'
      BY <2>1, LostStaysLost
    <3> QED
      BY <2>1, <3>1, EmissionsStay DEF EngineInv, AllAccounted
  <2> QED
    BY <2>2, <2>3, <2>4 DEF EngineInv
<1> QED
  BY <1>2, <1>3, <1>4, <1>5, ResolvingStarts, GroupsResolve, TextsResolve, CommentsPass DEF EngineNext

-----------------------------------------------------------------------------
(* Emissions keep the order of their rules and the phases asked for, and    *)
(* what is pending is neither chosen nor in the report.                     *)
THEOREM EmissionsInOrder == EngineSpec => []EngineTypeOK
<1>1. EngineInv => EngineTypeOK
  <2> SUFFICES ASSUME EngineInv PROVE EngineTypeOK
    OBVIOUS
  <2>1. \A k \in DOMAIN emissions : Selected(emissions[k].rule) /\ Place(k) \in Places
    <3>1. emissions \in Seq(Emissions) /\ \A k \in DOMAIN emissions : Selected(emissions[k].rule)
      BY DEF EngineInv, RulesInOrder
    <3>2. \A k \in DOMAIN emissions : emissions[k] \in Emissions
      BY <3>1
    <3> QED
      BY <3>1, <3>2 DEF Emissions, Place
  <2>2. \A j, k \in DOMAIN emissions :
          j < k => ~Exceeds(SortKey(emissions[j].rule), SortKey(emissions[k].rule))
    BY DEF EngineInv, RulesInOrder, InOrder
  <2>3. pending \cap ToSet(chosen) = {}
    BY DEF EngineInv, Shapes, ToSet
  <2> QED
    BY <2>1, <2>2, <2>3 DEF EngineTypeOK, EngineInv, Shapes, Phases
<1> QED
  BY <1>1, EngineInitHolds, EngineSteps, PTL DEF EngineSpec

(* A variable gets one name, an argument one rewrite, a dispatcher and kind *)
(* of flow one, and no span is rewritten twice, whatever rules match and in *)
(* whatever order (_resolve_conflicts).                                     *)
THEOREM ResultsDoNotCompete == EngineSpec => []WinnersDoNotCompete
<1>1. EngineInv => WinnersDoNotCompete
  BY DEF EngineInv
<1> QED
  BY <1>1, EngineInitHolds, EngineSteps, PTL DEF EngineSpec

(* An emission that is not in the result lost, by the stated policy, to one *)
(* of the result, and its one entry says so (_record_rewrite_emission).     *)
THEOREM LosersAreAccounted == EngineSpec => []LosersNameTheirWinner
<1>1. EngineInv => LosersNameTheirWinner
  BY DEF EngineInv, AllAccounted, LosersNameTheirWinner
<1> QED
  BY <1>1, EngineInitHolds, EngineSteps, PTL DEF EngineSpec
=============================================================================
