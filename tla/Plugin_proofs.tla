---------------------------- MODULE Plugin_proofs ----------------------------
(***************************************************************************)
(* What is proved of the plug-in beside its registry of tasks: the renames  *)
(* of a plan, for every function and every suggestions; the session and the *)
(* renames applied from it, for any functions, variables and names; the     *)
(* profile caches, for any directories; the rule packs, for any threads,    *)
(* files and changes.  At the end these and the modules of the helpers and  *)
(* the rules are put together.                                              *)
(***************************************************************************)
EXTENDS MCPlugin, HelperCapture_proofs, RuleEngine_proofs

-----------------------------------------------------------------------------
(* The renames of a plan: the targets applied are new to the function and   *)
(* distinct, and "status" goes to a variable it was suggested for.          *)

(* One suggestion per variable, and the decisions are about the suggestions *)
(* in their order; what is appended afterwards is applied.                  *)
Aligned ==
    /\ \A j, k \in DOMAIN best : best[j].old = best[k].old => j = k
    /\ phase = "collect" => accepted = <<>>
    /\ phase = "validate" => Len(accepted) <= Len(best)
    /\ phase \in {"append", "done"} => Len(best) <= Len(accepted)
    /\ \A k \in DOMAIN accepted \cap DOMAIN best : accepted[k].old = best[k].old
    /\ phase = "append" => carriers \cap AppliedOlds = {}

(* used_new_names holds just the names that are applied.                    *)
UsedIsTargets ==
    /\ \A n \in used : \E k \in Applied : accepted[k].new = n
    /\ \A k \in Applied : accepted[k].new \in used

(* A sound claim on "status" that was decided left it in use, and who uses  *)
(* it claimed it or was the only one to claim anything.                     *)
StatusTaken ==
    /\ \A k \in DOMAIN accepted \cap DOMAIN best :
        best[k].new = Status /\ best[k].apply /\ Sound(best[k]) => Status \in used
    /\ \A k \in Applied : accepted[k].new = Status =>
        /\ k \in DOMAIN best
        /\ best[k].new = Status \/ StatusClaims \subseteq {best[k].old}

IInv == /\ TypeOK /\ Aligned /\ UsedIsTargets /\ StatusTaken
        /\ TargetsDistinct /\ TargetsFresh /\ AppliedNotShadowed

LEMMA NamesFacts ==
    /\ Known \subseteq Names /\ Carriers \subseteq Known /\ NoName \notin Names
    /\ Status \in Names /\ "kernel-status" \in Sources /\ Suggested \subseteq Suggestions
    /\ MaxSuggestions \in Nat
BY NamesAssumption

(* The name a list of names yields is free, and not "status".               *)
LEMMA FirstFreeIsFree ==
    ASSUME NEW names \in Seq(Names \ {Status}), NEW n \in FirstFree(names), n # NoName
    PROVE  n \in Names \ {Status} /\ Free(n)
BY NamesFacts DEF FirstFree

(* Deciding the current suggestion keeps the invariant when the name that   *)
(* is applied is free and "status" is treated as it should.                 *)
LEMMA KeepKeeps ==
    ASSUME IInv, Validating, NEW s \in Suggestions, Keep(s),
           s.old = Current.old,
           s.apply => Free(s.new) /\ s.old \in Known,
           s.apply /\ s.new = Status =>
                Current.new = Status \/ StatusClaims \subseteq {Current.old},
           Current.new = Status /\ Current.apply /\ Sound(Current) => Status \in used'
    PROVE  IInv'
<1> USE DEF IInv, Validating, Keep
<1> DEFINE n == Len(accepted) + 1
<1>1. /\ accepted \in Seq(Suggestions) /\ best \in Seq(Suggestions)
      /\ n \in DOMAIN best /\ n \in Nat /\ n \notin DOMAIN accepted
      /\ DOMAIN accepted' = DOMAIN accepted \cup {n}
      /\ accepted'[n] = s
      /\ \A k \in DOMAIN accepted : accepted'[k] = accepted[k] /\ k < n
      /\ Len(accepted') = n
      /\ Current = best[n]
  BY DEF TypeOK, Current
<1>2. TypeOK'
  BY <1>1 DEF TypeOK, Suggestions
<1>3. Applied' = IF s.apply THEN Applied \cup {n} ELSE Applied
  BY <1>1 DEF Applied
<1>4. Aligned'
  BY <1>1 DEF Aligned
<1>5. UsedIsTargets'
  BY <1>1, <1>3 DEF UsedIsTargets, Applied
<1>6. StatusTaken'
  <2>1. \A k \in DOMAIN accepted' \cap DOMAIN best' :
            best'[k].new = Status /\ best'[k].apply /\ Sound(best'[k]) => Status \in used'
    BY <1>1 DEF StatusTaken
  <2>2. StatusClaims' = StatusClaims
    BY DEF StatusClaims
  <2> QED
    BY <1>1, <1>3, <2>1, <2>2 DEF StatusTaken, Applied
<1>7. TargetsDistinct'
  BY <1>1, <1>3 DEF TargetsDistinct, UsedIsTargets, Applied, Free
<1>8. TargetsFresh'
  BY <1>1, <1>3 DEF TargetsFresh, Applied, Free
<1>9. AppliedNotShadowed'
  BY <1>1, <1>3 DEF AppliedNotShadowed, Aligned, Applied
<1> QED
  BY <1>2, <1>4, <1>5, <1>6, <1>7, <1>8, <1>9

(* Rejecting keeps it.                                                      *)
LEMMA RejectKeeps ==
    ASSUME IInv, Validating, Reject,
           Current.new = Status /\ Current.apply /\ Sound(Current) => Status \in used'
    PROVE  IInv'
<1>1. Current \in Suggestions
  BY DEF IInv, TypeOK, Validating, Current
<1> DEFINE s == [Current EXCEPT !.apply = FALSE]
<1>2. s \in Suggestions /\ s.old = Current.old /\ s.apply = FALSE
  BY <1>1 DEF Suggestions
<1> QED
  BY <1>2, KeepKeeps DEF Reject

(* So does giving the current suggestion another name.                      *)
LEMMA RetargetKeeps ==
    ASSUME IInv, Validating, NEW n, Retarget(n), Current.old \in Known,
           n # NoName => n \in Names /\ Free(n),
           n = Status => Current.new = Status \/ StatusClaims \subseteq {Current.old},
           Current.new = Status /\ Current.apply /\ Sound(Current) => Status \in used'
    PROVE  IInv'
<1>1. Current \in Suggestions
  BY DEF IInv, TypeOK, Validating, Current
<1>2. CASE n = NoName
  BY <1>2, RejectKeeps DEF Retarget
<1>3. CASE n # NoName
  <2> DEFINE s == [Current EXCEPT !.new = n]
  <2>1. s \in Suggestions /\ s.old = Current.old /\ s.new = n
    BY <1>1, <1>3 DEF Suggestions
  <2> QED
    BY <1>3, <2>1, KeepKeeps DEF Retarget
<1> QED
  BY <1>2, <1>3

(* Steps that leave the suggestions and the renames alone keep the facts    *)
(* about them.                                                              *)
LEMMA StableFacts ==
    ASSUME IInv, UNCHANGED <<best, accepted, used>>
    PROVE  /\ UsedIsTargets' /\ StatusTaken' /\ TargetsDistinct' /\ TargetsFresh'
           /\ AppliedNotShadowed' /\ Applied' = Applied /\ AppliedOlds' = AppliedOlds
<1>1. Applied' = Applied /\ AppliedOlds' = AppliedOlds /\ StatusClaims' = StatusClaims
  BY DEF Applied, AppliedOlds, StatusClaims
<1>2. \A k \in DOMAIN accepted' \cap DOMAIN best' :
            best'[k].new = Status /\ best'[k].apply /\ Sound(best'[k]) => Status \in used'
  BY DEF IInv, StatusTaken
<1>3. StatusTaken'
  BY <1>1, <1>2 DEF IInv, StatusTaken
<1> QED
  BY <1>1, <1>3 DEF IInv, UsedIsTargets, TargetsDistinct, TargetsFresh, AppliedNotShadowed

(* The strengthened invariant holds.                                        *)
LEMMA Inductive == Spec => []IInv
<1>1. Init => IInv
  BY NamesFacts DEF Init, IInv, TypeOK, Aligned, UsedIsTargets, StatusTaken, TargetsDistinct,
         TargetsFresh, AppliedNotShadowed, Applied
<1>2. IInv /\ [Next]_vars => IInv'
  <2> SUFFICES ASSUME IInv, [Next]_vars PROVE IInv'
    OBVIOUS
  <2> Validating => Current \in Suggestions
    BY DEF IInv, TypeOK, Validating, Current
  <2>1. ASSUME NEW s \in Suggested, Collect(s) PROVE IInv'
    <3>1. accepted = <<>> /\ Applied = {} /\ used = {} /\ s \in Suggestions
      BY <2>1, NamesFacts DEF Collect, IInv, Aligned, Applied, UsedIsTargets
    <3>2. accepted' = <<>> /\ Applied' = {} /\ used' = {}
      BY <3>1, <2>1 DEF Collect, Applied
    <3>3. ASSUME \A k \in DOMAIN best : best[k].old # s.old PROVE TypeOK' /\ Aligned'
      <4>1. best' = Append(best, s)
        BY <2>1, <3>3 DEF Collect
      <4> QED
        BY <2>1, <3>1, <3>2, <3>3, <4>1, NamesFacts DEF Collect, IInv, TypeOK, Aligned
    <3>4. ASSUME ~ \A k \in DOMAIN best : best[k].old # s.old PROVE TypeOK' /\ Aligned'
      <4>1. PICK k \in DOMAIN best :
                /\ best[k].old = s.old
                /\ best' = IF Rank(s.source) > Rank(best[k].source)
                           THEN [best EXCEPT ![k] = s] ELSE best
        BY <2>1, <3>4 DEF Collect
      <4>2. best \in Seq(Suggestions) /\ best' \in Seq(Suggestions) /\ DOMAIN best' = DOMAIN best
        BY <3>1, <4>1 DEF IInv, TypeOK
      <4>3. \A j \in DOMAIN best : best'[j].old = best[j].old
        BY <3>1, <4>1, <4>2
      <4> QED
        BY <2>1, <3>1, <3>2, <4>2, <4>3, NamesFacts DEF Collect, IInv, TypeOK, Aligned
    <3>5. TypeOK' /\ Aligned'
      BY <3>3, <3>4
    <3> QED
      BY <3>2, <3>5 DEF IInv, UsedIsTargets, StatusTaken, TargetsDistinct, TargetsFresh, AppliedNotShadowed
  <2>2. CASE StartValidation
    <3>1. TypeOK' /\ Aligned'
      BY <2>2, StableFacts DEF StartValidation, IInv, TypeOK, Aligned
    <3> QED
      BY <2>2, <3>1, StableFacts DEF StartValidation, IInv
  <2>3. CASE RejectUnusable
    BY <2>3, RejectKeeps DEF RejectUnusable, Sound
  <2>4. CASE DowngradeStatusConflict
    <3>1. PICK n \in StatusReplacement(Current) : Retarget(n)
      BY <2>4 DEF DowngradeStatusConflict
    <3>2. Current.old \in Known /\ Current.new \in Names /\ ~Sound(Current) /\ Validating
      BY <2>4, NamesFacts DEF DowngradeStatusConflict, Unusable, Sound, Suggestions
    <3>3. CASE Free(Status) /\ StatusClaims \subseteq {Current.old}
      BY <3>1, <3>2, <3>3, RetargetKeeps, NamesFacts DEF StatusReplacement
    <3>4. CASE ~(Free(Status) /\ StatusClaims \subseteq {Current.old})
      <4>1. Fallbacks(Current.old, Current.new) \in Seq(Names \ {Status})
        BY <3>2, NamesAssumption
      <4>2. n \in FirstFree(Fallbacks(Current.old, Current.new))
        BY <3>1, <3>4 DEF StatusReplacement
      <4> QED
        BY <3>1, <3>2, <4>1, <4>2, FirstFreeIsFree, RetargetKeeps, NamesFacts
    <3> QED
      BY <3>3, <3>4
  <2>5. CASE RejectUntrusted
    BY <2>5, RejectKeeps DEF RejectUntrusted, Sound
  <2>6. CASE Disambiguate
    <3>1. PICK n \in DuplicateReplacement(Current) : Retarget(n)
      BY <2>6 DEF Disambiguate
    <3>2. Current.old \in Known /\ Current.new \in Names /\ Current.new \in used /\ Validating
      BY <2>6 DEF Disambiguate, Unusable, Sound, Suggestions
    <3>3. n # NoName => n \in Names \ {Status} /\ Free(n)
      <4>1. Suffixed(Current.new) \in Seq(Names \ {Status})
        BY <3>2, NamesAssumption
      <4> QED
        BY <3>1, <4>1, FirstFreeIsFree DEF DuplicateReplacement
    <3>4. Current.new = Status => Status \in used'
      BY <3>1, <3>2 DEF Retarget, Keep, Reject
    <3> QED
      BY <3>1, <3>2, <3>3, <3>4, RetargetKeeps, NamesFacts
  <2>7. CASE Accept
    <3>1. Validating /\ Free(Current.new) /\ Current.old \in Known /\ Keep(Current)
      BY <2>7 DEF Accept, Sound, Unusable, Free
    <3>2. Current.apply => Current.new \in used'
      BY <3>1 DEF Keep
    <3> QED
      BY <3>1, <3>2, KeepKeeps
  <2>8. CASE StartAppend
    <3>1. TypeOK' /\ Aligned'
      BY <2>8, StableFacts DEF StartAppend, IInv, TypeOK, Aligned
    <3> QED
      BY <2>8, <3>1, StableFacts DEF StartAppend, IInv
  <2>9. ASSUME NEW o \in Carriers, AppendCarrier(o) PROVE IInv'
    <3>1. PICK n \in FirstFree(ObjectStatus(o)) :
            IF n = NoName THEN UNCHANGED <<accepted, used>>
            ELSE /\ accepted' = Append(accepted,
                        [old |-> o, new |-> n, source |-> "kernel-status", apply |-> TRUE])
                 /\ used' = used \cup {n}
      BY <2>9 DEF AppendCarrier
    <3>2. o \in Known /\ o \in carriers /\ o \notin AppliedOlds /\ phase = "append"
          /\ carriers' = carriers \ {o} /\ UNCHANGED <<phase, best, raw>>
      BY <2>9, NamesFacts DEF AppendCarrier, IInv, Aligned
    <3>3. CASE n = NoName
      <4>1. TypeOK' /\ Aligned'
        BY <3>1, <3>2, <3>3, StableFacts DEF IInv, TypeOK, Aligned
      <4> QED
        BY <3>1, <3>2, <3>3, <4>1, StableFacts DEF IInv
    <3>4. CASE n # NoName
      <4> DEFINE s == [old |-> o, new |-> n, source |-> "kernel-status", apply |-> TRUE]
                 m == Len(accepted) + 1
      <4>1. n \in Names \ {Status} /\ Free(n)
        <5>1. ObjectStatus(o) \in Seq(Names \ {Status})
          BY <3>2, NamesAssumption
        <5> QED
          BY <3>1, <3>4, <5>1, FirstFreeIsFree
      <4>2. s \in Suggestions
        BY <4>1, <3>2, NamesFacts DEF Suggestions
      <4>3. /\ accepted \in Seq(Suggestions) /\ best \in Seq(Suggestions) /\ m \in Nat
            /\ m \notin DOMAIN accepted /\ m \notin DOMAIN best
            /\ DOMAIN accepted' = DOMAIN accepted \cup {m}
            /\ accepted'[m] = s
            /\ \A k \in DOMAIN accepted : accepted'[k] = accepted[k] /\ k < m
            /\ Len(accepted') = m
        <5>1. /\ accepted \in Seq(Suggestions) /\ best \in Seq(Suggestions) /\ Len(best) <= Len(accepted)
              /\ accepted' = Append(accepted, s)
          BY <3>1, <3>2, <3>4 DEF IInv, TypeOK, Aligned
        <5>2. m \notin DOMAIN best /\ m \in Nat
          BY ONLY <5>1
        <5> QED
          BY ONLY <4>2, <5>1, <5>2
      <4>4. Applied' = Applied \cup {m}
        BY <4>3 DEF Applied
      <4>5. TypeOK'
        <5>1. accepted' \in Seq(Suggestions)
          <6>1. accepted' = Append(accepted, s)
            BY <3>1, <3>4
          <6> HIDE DEF s
          <6> QED
            BY ONLY <4>2, <4>3, <6>1
        <5>2. used' \subseteq Names
          BY <3>1, <3>4, <4>1 DEF IInv, TypeOK
        <5> QED
          BY <3>2, <5>1, <5>2, NamesFacts DEF IInv, TypeOK
      <4>6. AppliedOlds' = AppliedOlds \cup {o}
        BY <4>3 DEF AppliedOlds
      <4>7. Aligned'
        BY <3>2, <4>3, <4>6 DEF IInv, Aligned
      <4>8. UsedIsTargets'
        <5>1. \A k \in Applied : k # m /\ accepted'[k] = accepted[k]
          BY <4>3 DEF Applied
        <5>2. used' = used \cup {n} /\ accepted'[m].new = n
          BY <3>1, <3>4, <4>3
        <5> QED
          BY <4>4, <5>1, <5>2 DEF IInv, UsedIsTargets
      <4>9. StatusTaken'
        <5>1. \A k \in DOMAIN accepted' \cap DOMAIN best' :
                best'[k].new = Status /\ best'[k].apply /\ Sound(best'[k]) => Status \in used'
          BY <3>1, <3>2, <3>4, <4>3 DEF IInv, StatusTaken
        <5>2. StatusClaims' = StatusClaims
          BY <3>2 DEF StatusClaims
        <5> QED
          BY <3>2, <4>1, <4>3, <4>4, <5>1, <5>2 DEF IInv, StatusTaken, Applied
      <4>10. TargetsDistinct' /\ TargetsFresh'
        BY <3>2, <4>1, <4>3, <4>4 DEF IInv, TargetsDistinct, TargetsFresh, UsedIsTargets, Applied, Free
      <4>11. AppliedNotShadowed'
        BY <3>2, <4>3, <4>4 DEF IInv, AppliedNotShadowed, Applied, AppliedOlds, Sound, Unusable, StatusConflict, Untrusted
      <4> QED
        BY <4>5, <4>7, <4>8, <4>9, <4>10, <4>11 DEF IInv
    <3> QED
      BY <3>3, <3>4
  <2>10. CASE Finish
    <3>1. TypeOK' /\ Aligned'
      BY <2>10, StableFacts DEF Finish, IInv, TypeOK, Aligned
    <3> QED
      BY <2>10, <3>1, StableFacts DEF Finish, IInv
  <2>11. CASE UNCHANGED vars
    <3>1. TypeOK' /\ Aligned'
      BY <2>11, StableFacts DEF vars, IInv, TypeOK, Aligned
    <3> QED
      BY <2>11, <3>1, StableFacts DEF vars, IInv
  <2> QED
    BY <2>1, <2>2, <2>3, <2>4, <2>5, <2>6, <2>7, <2>8, <2>9, <2>10, <2>11 DEF Next
<1> QED
  BY <1>1, <1>2, PTL DEF Spec

(* The tables of the validation keep their types.                           *)
THEOREM TypeCorrect == Spec => []TypeOK
BY Inductive, PTL DEF IInv

(* For every function and all suggestions, no two renames a plan applies    *)
(* give the same name.                                                      *)
THEOREM AppliedTargetsDistinct == Spec => []TargetsDistinct
BY Inductive, PTL DEF IInv

(* No rename a plan applies takes a name the function uses already.         *)
THEOREM AppliedTargetsFresh == Spec => []TargetsFresh
BY Inductive, PTL DEF IInv

(* The entry that is applied to a variable is the last one for it.          *)
THEOREM AppliedEntryWins == Spec => []AppliedNotShadowed
BY Inductive, PTL DEF IInv

(* "status" goes to a variable it was suggested for when such a suggestion  *)
(* is sound.                                                                *)
THEOREM StatusGoesToItsClaimant == Spec => []ClaimOnStatusHonoured
<1>1. IInv => ClaimOnStatusHonoured
  <2> SUFFICES ASSUME IInv, phase \in {"append", "done"}, NEW k \in DOMAIN best,
                      best[k].new = Status, best[k].apply, Sound(best[k])
               PROVE  \E j \in Applied \cap DOMAIN best :
                          accepted[j].new = Status /\ best[j].new = Status
    BY DEF ClaimOnStatusHonoured
  <2>1. k \in DOMAIN accepted
    BY DEF IInv, TypeOK, Aligned
  <2>2. Status \in used
    BY <2>1 DEF IInv, StatusTaken
  <2>3. PICK j \in Applied : accepted[j].new = Status
    BY <2>2 DEF IInv, UsedIsTargets
  <2>4. best[k].old \in StatusClaims
    BY DEF StatusClaims, Sound, Unusable
  <2> QED
    BY <2>3, <2>4 DEF IInv, StatusTaken, Aligned
<1> QED
  BY <1>1, Inductive, PTL

-----------------------------------------------------------------------------
(* The session and its renames.                                             *)

(* A name that was captured and that two variables carry now, was theirs    *)
(* when it was captured.  (Renames that were not checked can give one name  *)
(* to two variables, but no name that was captured.)                        *)
SharedWasCaptured(m, names) ==
    \A v, w \in Vars : v # w /\ m[v] = m[w] /\ m[v] \in Named(names) => names[v] = m[v]

(* The task holds a capture from the capture until the session is stored.   *)
CaptureOfTask ==
    /\ task = "none" <=> stage = "idle"
    /\ stage = "captured" => capture \in [func : Funcs, names : Maps]
    /\ stage # "captured" => capture = NoSession

Usable == session # NoSession \/ stage = "stored"

SessionInv ==
    /\ SessionTypeOK /\ CaptureOfTask
    /\ Usable => /\ session.func \in Funcs /\ session.names \in Maps
                 /\ session.plan \in Plans(session.names)
    /\ stage = "captured" => SharedWasCaptured(lvars[capture.func], capture.names)
    /\ Usable => SharedWasCaptured(lvars[session.func], session.names)

LEMMA PlanOfNames ==
    ASSUME NEW m, NEW p \in Plans(m)
    PROVE  /\ DOMAIN p \subseteq Named(m)
           /\ \A o \in DOMAIN p : p[o] \in LvarNames /\ p[o] \notin Named(m)
           /\ \A o, q \in DOMAIN p : p[o] = p[q] => o = q
BY DEF Plans

LEMMA RenamedIsAMap ==
    ASSUME NEW m \in Maps, NEW n \in Maps, NEW plan \in Plans(n), NEW picked \in SUBSET DOMAIN plan
    PROVE  Renamed(m, plan, picked) \in Maps
<1>1. \A o \in picked : plan[o] \in LvarNames
  BY PlanOfNames
<1> QED
  BY <1>1 DEF Renamed, Maps

(* Selected renames that passed the preflight keep the names distinct.      *)
LEMMA CheckedKeepsDistinct ==
    ASSUME NEW m \in Maps, Distinct(m), NEW n \in Maps, NEW plan \in Plans(n),
           NEW taken \in SUBSET DOMAIN plan, \A o \in taken : plan[o] \notin Named(m)
    PROVE  Distinct(Renamed(m, plan, taken))
<1> DEFINE r == Renamed(m, plan, taken)
<1> SUFFICES ASSUME NEW v \in Vars, NEW w \in Vars, v # w, r[v] = r[w] PROVE r[v] = Absent
  BY DEF Distinct
<1>1. /\ r[v] = IF m[v] \in taken THEN plan[m[v]] ELSE m[v]
      /\ r[w] = IF m[w] \in taken THEN plan[m[w]] ELSE m[w]
  BY DEF Renamed
<1>2. /\ taken \subseteq Named(n) /\ Absent \notin taken
      /\ \A o \in taken : plan[o] \in LvarNames /\ plan[o] # Absent
      /\ \A o, q \in taken : plan[o] = plan[q] => o = q
  BY PlanOfNames, ApplyAssumption DEF Named
<1>3. \A u \in Vars : m[u] \in Named(m) \cup {Absent}
  BY DEF Named
<1>4. m[v] = m[w] => m[v] = Absent
  BY DEF Distinct
<1>5. CASE m[v] \in taken /\ m[w] \in taken
  BY <1>1, <1>2, <1>4, <1>5
<1>6. CASE m[v] \in taken /\ m[w] \notin taken
  BY <1>1, <1>2, <1>3, <1>6
<1>7. CASE m[v] \notin taken /\ m[w] \in taken
  BY <1>1, <1>2, <1>3, <1>7
<1>8. CASE m[v] \notin taken /\ m[w] \notin taken
  BY <1>1, <1>4, <1>8
<1> QED
  BY <1>5, <1>6, <1>7, <1>8

(* What an apply does, checked or not.                                      *)
LEMMA ApplyIsRenamed ==
    ASSUME SessionInv, Usable, ApplyFromSession
    PROVE  /\ session.func = cur /\ checked' \in BOOLEAN
           /\ \E picked \in SUBSET DOMAIN session.plan :
                /\ lvars' = [lvars EXCEPT ![session.func] = Renamed(@, session.plan, picked)]
                /\ checked' => picked \subseteq Preflight(picked, lvars[cur])
                /\ ~checked' => \A o \in picked : VarOf(session.names, o) \notin Located
<1>1. session.func = cur
  BY DEF ApplyFromSession, SessionMatches
<1>2. PICK selected \in SUBSET DOMAIN session.plan, verified \in BOOLEAN :
        /\ IF verified THEN ApplyVerified(selected) ELSE ApplyUnverified(selected)
        /\ checked' = verified
  BY DEF ApplyFromSession
<1>3. CASE verified
  <2>1. PICK taken \in SUBSET Preflight(selected, lvars[cur]) :
          lvars' = [lvars EXCEPT ![session.func] = Renamed(@, session.plan, taken)]
    BY <1>2, <1>3 DEF ApplyVerified
  <2>2. taken \subseteq selected /\ taken \subseteq Preflight(taken, lvars[cur])
    BY DEF Preflight
  <2> QED
    BY <1>1, <1>2, <1>3, <2>1, <2>2
<1>4. CASE ~verified
  <2>1. /\ \A o \in selected : VarOf(session.names, o) \notin Located
        /\ \E taken \in SUBSET selected :
              lvars' = [lvars EXCEPT ![session.func] = Renamed(@, session.plan, taken)]
    BY <1>2, <1>4 DEF ApplyUnverified
  <2> QED
    BY <1>1, <1>2, <1>4, <2>1
<1> QED
  BY <1>3, <1>4

LEMMA DistinctIsShared ==
    ASSUME NEW m, NEW names, Distinct(m)
    PROVE  SharedWasCaptured(m, names)
BY DEF Distinct, SharedWasCaptured, Named

LEMMA CapturedIsShared == ASSUME NEW m PROVE SharedWasCaptured(m, m)
BY DEF SharedWasCaptured

LEMMA RenamedIsShared ==
    ASSUME NEW m, NEW names, SharedWasCaptured(m, names),
           NEW plan \in Plans(names), NEW picked \in SUBSET DOMAIN plan
    PROVE  SharedWasCaptured(Renamed(m, plan, picked), names)
<1> DEFINE r == Renamed(m, plan, picked)
<1> SUFFICES ASSUME NEW v \in Vars, NEW w \in Vars, v # w, r[v] = r[w], r[v] \in Named(names)
             PROVE  names[v] = r[v]
  BY DEF SharedWasCaptured
<1>1. /\ r[v] = IF m[v] \in picked THEN plan[m[v]] ELSE m[v]
      /\ r[w] = IF m[w] \in picked THEN plan[m[w]] ELSE m[w]
  BY DEF Renamed
<1>2. r[v] = m[v] /\ r[w] = m[w]
  BY <1>1, PlanOfNames
<1> QED
  BY <1>2 DEF SharedWasCaptured

LEMMA SessionInit == ApplyInit => SessionInv
<1> SUFFICES ASSUME ApplyInit PROVE SessionInv
  OBVIOUS
<1>1. lvars \in [Funcs -> Maps]
  BY DEF ApplyInit, Maps
<1>2. /\ cur \in Funcs /\ edits \in 0..MaxEdits
      /\ task = "none" /\ stage = "idle" /\ capture = NoSession /\ session = NoSession /\ checked = FALSE
  BY ApplyAssumption DEF ApplyInit
<1> QED
  BY <1>1, <1>2 DEF SessionInv, SessionTypeOK, CaptureOfTask, Usable

LEMMA ApplyKeeps ==
    ASSUME SessionInv, Usable, ApplyFromSession, UNCHANGED <<cur, session>>
    PROVE  /\ lvars' \in [Funcs -> Maps] /\ checked' \in BOOLEAN
           /\ SharedWasCaptured(lvars'[session.func], session.names)
<1>1. PICK picked \in SUBSET DOMAIN session.plan :
         lvars' = [lvars EXCEPT ![session.func] = Renamed(@, session.plan, picked)]
  BY ApplyIsRenamed
<1>2. /\ session.func \in Funcs /\ session.names \in Maps /\ session.plan \in Plans(session.names)
      /\ lvars \in [Funcs -> Maps]
  BY DEF SessionInv, SessionTypeOK, Usable
<1>3. Renamed(lvars[session.func], session.plan, picked) \in Maps
  BY <1>2, RenamedIsAMap
<1>4. SharedWasCaptured(Renamed(lvars[session.func], session.plan, picked), session.names)
  BY <1>2, RenamedIsShared DEF SessionInv
<1>5. lvars'[session.func] = Renamed(lvars[session.func], session.plan, picked)
  BY <1>1, <1>2
<1> QED
  BY <1>1, <1>2, <1>3, <1>4, <1>5, ApplyIsRenamed

LEMMA SessionSteps == SessionInv /\ [ApplyNext]_sessionVars => SessionInv'
<1> SUFFICES ASSUME SessionInv, [ApplyNext]_sessionVars PROVE SessionInv'
  OBVIOUS
<1> USE ApplyAssumption DEF SessionInv, CaptureOfTask, Usable
<1>1. ASSUME NEW f \in Funcs, Navigate(f) PROVE SessionInv'
  BY <1>1 DEF Navigate, SessionTypeOK
<1>2. ASSUME NEW v \in Vars, NEW n \in LvarNames \cup {Absent}, EditVariable(v, n) PROVE SessionInv'
  <2> USE <1>2 DEF EditVariable
  <2>1. lvars \in [Funcs -> Maps] /\ cur \in Funcs
    BY DEF SessionTypeOK
  <2>2. lvars' \in [Funcs -> Maps]
    BY <2>1 DEF Maps
  <2>3. SessionTypeOK'
    BY <2>2 DEF SessionTypeOK
  <2>4. \A f \in Funcs : lvars'[f] = IF f = cur THEN [lvars[cur] EXCEPT ![v] = n] ELSE lvars[f]
    BY <2>1
  <2>5. ASSUME NEW f \in Funcs, NEW names, SharedWasCaptured(lvars[f], names)
        PROVE  SharedWasCaptured(lvars'[f], names)
    <3>1. CASE f = cur
      BY <2>4, <3>1, DistinctIsShared
    <3>2. CASE f # cur
      BY <2>4, <2>5, <3>2
    <3> QED
      BY <3>1, <3>2
  <2>6. stage = "captured" => capture.func \in Funcs
    OBVIOUS
  <2>7. Usable => session.func \in Funcs
    OBVIOUS
  <2> QED
    BY <2>3, <2>5, <2>6, <2>7
<1>3. CASE Analyze
  BY <1>3 DEF Analyze, SessionTypeOK
<1>4. CASE CaptureCurrent
  <2> USE <1>4 DEF CaptureCurrent
  <2>1. capture' \in [func : Funcs, names : Maps]
    BY DEF SessionTypeOK
  <2>2. SharedWasCaptured(lvars[cur], lvars[cur])
    BY CapturedIsShared
  <2> QED
    BY <2>1, <2>2 DEF SessionTypeOK
<1>5. CASE StoreSession
  <2> USE <1>5 DEF StoreSession
  <2>1. PICK p \in Plans(capture.names) :
           session' = [func |-> capture.func, names |-> capture.names, plan |-> p]
    OBVIOUS
  <2>2. capture.func \in Funcs /\ capture.names \in Maps
    OBVIOUS
  <2>3. SessionTypeOK'
    BY <2>1, <2>2 DEF SessionTypeOK
  <2> QED
    BY <2>1, <2>3
<1>6. CASE TaskStops
  BY <1>6 DEF TaskStops, SessionTypeOK
<1>7. CASE ShowPreview
  BY <1>7 DEF ShowPreview, SessionTypeOK
<1>8. CASE ApplyPrepares
  BY <1>8 DEF ApplyPrepares, SessionTypeOK
<1>9. CASE ApplyDirectly
  BY <1>9, ApplyKeeps DEF ApplyDirectly, SessionTypeOK
<1>10. CASE ApplyPrepared
  <2>1. CASE ApplyFromSession
    BY <1>10, <2>1, ApplyKeeps DEF ApplyPrepared, SessionTypeOK
  <2>2. CASE UNCHANGED <<lvars, checked>>
    BY <1>10, <2>2 DEF ApplyPrepared, SessionTypeOK
  <2> QED
    BY <1>10, <2>1, <2>2 DEF ApplyPrepared
<1>11. CASE UNCHANGED sessionVars
  BY <1>11 DEF sessionVars, SessionTypeOK
<1> QED
  BY <1>1, <1>2, <1>3, <1>4, <1>5, <1>6, <1>7, <1>8, <1>9, <1>10, <1>11 DEF ApplyNext

(* Only an apply changes names without being an edit.                       *)
LEMMA AppliesIsApply ==
    ASSUME SessionInv, ApplyNext, Applies
    PROVE  Usable /\ ApplyFromSession
<1>1. ASSUME NEW v \in Vars, NEW n \in LvarNames \cup {Absent}, EditVariable(v, n) PROVE FALSE
  <2>1. edits \in Nat /\ edits' = edits + 1
    BY <1>1, ApplyAssumption DEF EditVariable, SessionInv, SessionTypeOK
  <2> QED
    BY <2>1 DEF Applies
<1>2. lvars' # lvars
  BY DEF Applies
<1>3. CASE ApplyDirectly
  BY <1>3 DEF ApplyDirectly, Usable
<1>4. CASE ApplyPrepared
  BY <1>2, <1>4 DEF ApplyPrepared, Usable
<1> QED
  BY <1>1, <1>2, <1>3, <1>4
     DEF ApplyNext, Navigate, Analyze, CaptureCurrent, StoreSession, TaskStops, ShowPreview, ApplyPrepares

(* What an apply changes, and in which way.                                 *)
LEMMA AppliesIsRenamed ==
    ASSUME SessionInv, ApplyNext, Applies
    PROVE  /\ Usable /\ session.func = cur /\ cur \in Funcs
           /\ lvars[cur] \in Maps /\ session.names \in Maps /\ session.plan \in Plans(session.names)
           /\ SharedWasCaptured(lvars[cur], session.names)
           /\ \E picked \in SUBSET DOMAIN session.plan :
                /\ \A f \in Funcs : lvars'[f] =
                      IF f = cur THEN Renamed(lvars[cur], session.plan, picked) ELSE lvars[f]
                /\ checked' => picked \subseteq Preflight(picked, lvars[cur])
                /\ ~checked' => \A o \in picked : VarOf(session.names, o) \notin Located
<1>1. Usable /\ ApplyFromSession
  BY AppliesIsApply
<1>2. cur \in Funcs /\ lvars \in [Funcs -> Maps]
  BY DEF SessionInv, SessionTypeOK
<1>3. session.func = cur
  BY <1>1, ApplyIsRenamed
<1>4. PICK picked \in SUBSET DOMAIN session.plan :
        /\ lvars' = [lvars EXCEPT ![session.func] = Renamed(@, session.plan, picked)]
        /\ checked' => picked \subseteq Preflight(picked, lvars[cur])
        /\ ~checked' => \A o \in picked : VarOf(session.names, o) \notin Located
  BY <1>1, ApplyIsRenamed
<1>5. \A f \in Funcs : lvars'[f] =
          IF f = cur THEN Renamed(lvars[cur], session.plan, picked) ELSE lvars[f]
  BY <1>2, <1>3, <1>4
<1> QED
  BY <1>1, <1>2, <1>3, <1>4, <1>5 DEF SessionInv

(* Apply writes only to the function that was analysed and is in the view,  *)
(* however the user navigated between the analysis and the apply.           *)
THEOREM AppliesToOneFunction == ApplySpec => AppliesToTheAnalysedFunction
<1>1. SessionInv /\ [ApplyNext]_sessionVars =>
        [Applies => \A f \in Funcs : lvars'[f] # lvars[f] => f = session.func /\ f = cur]_sessionVars
  BY AppliesIsRenamed
<1> QED
  BY <1>1, SessionInit, SessionSteps, PTL DEF ApplySpec, AppliesToTheAnalysedFunction

(* A renamed variable whose location is known is the one that had the name  *)
(* when the function was analysed, if that one's location was known too.    *)
THEOREM RenamesAreOfTheirVariable == ApplySpec => RenamesHitTheirVariable
<1> DEFINE Hit(f, v) ==
      /\ lvars'[f][v] # lvars[f][v]
      /\ v \in Located
      /\ VarOf(session.names, lvars[f][v]) \in Located
      => session.names[v] = lvars[f][v]
<1>1. ASSUME SessionInv, ApplyNext, Applies, NEW f \in Funcs, NEW v \in Vars PROVE Hit(f, v)
  <2> SUFFICES ASSUME lvars'[f][v] # lvars[f][v], v \in Located,
                      VarOf(session.names, lvars[f][v]) \in Located
               PROVE  session.names[v] = lvars[f][v]
    OBVIOUS
  <2>1. PICK picked \in SUBSET DOMAIN session.plan :
          /\ \A g \in Funcs : lvars'[g] =
                IF g = cur THEN Renamed(lvars[cur], session.plan, picked) ELSE lvars[g]
          /\ checked' => picked \subseteq Preflight(picked, lvars[cur])
          /\ ~checked' => \A o \in picked : VarOf(session.names, o) \notin Located
    BY <1>1, AppliesIsRenamed
  <2> DEFINE m == lvars[cur]
             old == m[v]
             w == VarOf(session.names, old)
             u == VarOf(m, old)
  <2>2. f = cur
    BY <2>1
  <2>3. old \in picked
    BY <2>1, <2>2 DEF Renamed
  <2>4. checked' /\ old \in Preflight(picked, m)
    BY <2>1, <2>2, <2>3
  <2>5. ~IdentityMismatch(old, m)
    BY <2>4 DEF Preflight
  <2>6. old \in Named(session.names)
    BY <1>1, <2>3, AppliesIsRenamed, PlanOfNames
  <2>7. w \in Vars /\ session.names[w] = old
    BY <2>6 DEF Named, VarOf
  <2>8. u \in Vars /\ m[u] = old
    BY DEF VarOf
  <2>9. CASE u = v
    <3>1. w = v
      BY <2>2, <2>5, <2>9 DEF IdentityMismatch
    <3> QED
      BY <2>2, <2>7, <3>1
  <2>10. CASE u # v
    BY <1>1, <2>2, <2>6, <2>8, <2>10, AppliesIsRenamed DEF SharedWasCaptured
  <2> QED
    BY <2>9, <2>10
<1>2. SessionInv /\ [ApplyNext]_sessionVars =>
        [Applies => \A f \in Funcs, v \in Vars : Hit(f, v)]_sessionVars
  BY <1>1
<1> QED
  BY <1>2, SessionInit, SessionSteps, PTL DEF ApplySpec, RenamesHitTheirVariable

(* An apply that could read the current variables keeps distinct names      *)
(* distinct, whatever became of the names since the analysis.               *)
THEOREM CheckedAppliesKeepNamesDistinct == ApplySpec => NamesStayDistinct
<1> DEFINE SameNames == \A f \in Funcs : Distinct(lvars[f]) => Distinct(lvars'[f])
<1>1. ASSUME SessionInv, ApplyNext, Applies, checked' PROVE SameNames
  <2>1. PICK picked \in SUBSET DOMAIN session.plan :
          /\ \A f \in Funcs : lvars'[f] =
                IF f = cur THEN Renamed(lvars[cur], session.plan, picked) ELSE lvars[f]
          /\ checked' => picked \subseteq Preflight(picked, lvars[cur])
    BY <1>1, AppliesIsRenamed
  <2>2. \A o \in picked : session.plan[o] \notin Named(lvars[cur])
    BY <1>1, <2>1 DEF Preflight
  <2>3. Distinct(lvars[cur]) => Distinct(Renamed(lvars[cur], session.plan, picked))
    BY <1>1, <2>2, AppliesIsRenamed, CheckedKeepsDistinct
  <2> QED
    BY <2>1, <2>3
<1>2. SessionInv /\ [ApplyNext]_sessionVars => [Applies /\ checked' => SameNames]_sessionVars
  BY <1>1
<1> QED
  BY <1>2, SessionInit, SessionSteps, PTL DEF ApplySpec, NamesStayDistinct

-----------------------------------------------------------------------------
(* The profile caches.  What makes the invariant inductive: as long as menu *)
(* and analyses keep apart, data on its way into a cache is of the active   *)
(* directory.                                                               *)

TypeInv == CacheTypeOK /\ (menu # "idle" => wanted \in Roots)

Apart == ~overlapped => menu = "idle" \/ worker = "idle"
FillsFollow == ~overlapped /\ worker \in {"read", "store"} => value = profileDir

CacheInv == TypeInv /\ Apart /\ FillsFollow /\ ClearedCachesFollow

LEMMA TypeInvInit == CacheInit => TypeInv
<1> SUFFICES ASSUME CacheInit PROVE TypeInv
  OBVIOUS
<1>1. cached \in [Caches -> Roots \cup {Nothing}]
  BY DEF CacheInit
<1>2. switches \in 0..MaxSwitches /\ analyses \in 0..MaxAnalyses
  BY CacheAssumption DEF CacheInit
<1> QED
  BY <1>1, <1>2 DEF CacheInit, TypeInv, CacheTypeOK

LEMMA TypeInvStep == TypeInv /\ [CacheNext]_cacheVars => TypeInv'
<1> SUFFICES ASSUME TypeInv, [CacheNext]_cacheVars PROVE TypeInv'
  OBVIOUS
<1> USE CacheAssumption DEF TypeInv, CacheTypeOK
<1>1. ASSUME NEW r \in Roots, MenuSwitch(r) PROVE TypeInv'
  BY <1>1 DEF MenuSwitch
<1>2. CASE MenuClears
  BY <1>2 DEF MenuClears, Cleared
<1>3. CASE MenuSaves
  BY <1>3 DEF MenuSaves
<1>4. CASE OthersSave
  BY <1>4 DEF OthersSave
<1>5. CASE StartAnalysis
  BY <1>5 DEF StartAnalysis
<1>6. CASE FollowConfiguration
  BY <1>6 DEF FollowConfiguration
<1>7. CASE AnalysisClears
  BY <1>7 DEF AnalysisClears, Cleared
<1>8. ASSUME NEW c \in Derived, DerivedMisses(c) PROVE TypeInv'
  BY <1>8 DEF DerivedMisses
<1>9. CASE LoaderHits
  BY <1>9 DEF LoaderHits, Caches
<1>10. CASE LoaderMisses
  BY <1>10 DEF LoaderMisses
<1>11. CASE LoaderStores
  BY <1>11 DEF LoaderStores
<1>12. CASE DerivedStores
  BY <1>12 DEF DerivedStores
<1>13. CASE AnalysisEnds
  BY <1>13 DEF AnalysisEnds
<1>14. CASE UNCHANGED cacheVars
  BY <1>14 DEF cacheVars
<1> QED
  BY <1>1, <1>2, <1>3, <1>4, <1>5, <1>6, <1>7, <1>8, <1>9, <1>10, <1>11, <1>12, <1>13, <1>14
     DEF CacheNext

LEMMA CacheInvStep == CacheInv /\ [CacheNext]_cacheVars => CacheInv'
<1> SUFFICES ASSUME CacheInv, [CacheNext]_cacheVars PROVE CacheInv'
  OBVIOUS
<1>0. TypeInv'
  BY TypeInvStep DEF CacheInv
<1> DEFINE Rest == Apart /\ FillsFollow /\ ClearedCachesFollow
<1> USE DEF CacheInv, Apart, FillsFollow, ClearedCachesFollow, AtRest, TypeInv, CacheTypeOK, Caches, Derived
<1>1. ASSUME NEW r \in Roots, MenuSwitch(r) PROVE Rest'
  BY <1>1 DEF MenuSwitch
<1>2. CASE MenuClears
  BY <1>0, <1>2 DEF MenuClears, Cleared
<1>3. CASE MenuSaves
  BY <1>0, <1>3 DEF MenuSaves
<1>4. CASE OthersSave
  BY <1>0, <1>4 DEF OthersSave
<1>5. CASE StartAnalysis
  BY <1>0, <1>5 DEF StartAnalysis
<1>6. CASE FollowConfiguration
  BY <1>0, <1>6 DEF FollowConfiguration
<1>7. CASE AnalysisClears
  BY <1>0, <1>7 DEF AnalysisClears, Cleared
<1>8. ASSUME NEW c \in Derived, DerivedMisses(c) PROVE Rest'
  BY <1>0, <1>8 DEF DerivedMisses
<1>9. CASE LoaderHits
  BY <1>0, <1>9 DEF LoaderHits
<1>10. CASE LoaderMisses
  BY <1>0, <1>10 DEF LoaderMisses
<1>11. CASE LoaderStores
  BY <1>0, <1>11 DEF LoaderStores
<1>12. CASE DerivedStores
  BY <1>0, <1>12 DEF DerivedStores
<1>13. CASE AnalysisEnds
  BY <1>0, <1>13 DEF AnalysisEnds
<1>14. CASE UNCHANGED cacheVars
  BY <1>0, <1>14 DEF cacheVars
<1> QED
  BY <1>0, <1>1, <1>2, <1>3, <1>4, <1>5, <1>6, <1>7, <1>8, <1>9, <1>10, <1>11, <1>12, <1>13, <1>14
     DEF CacheNext

(* After a switch the caches that clear_profile_caches knows hold data of   *)
(* the active directory only, unless the menu met an analysis.              *)
THEOREM CachesFollowTheDirectory == CacheSpec => []ClearedCachesFollow
<1>1. CacheInit => CacheInv
  BY TypeInvInit DEF CacheInit, CacheInv, Apart, FillsFollow, ClearedCachesFollow, Caches
<1>2. CacheInv => ClearedCachesFollow
  BY DEF CacheInv
<1> QED
  BY <1>1, <1>2, CacheInvStep, PTL DEF CacheSpec

(* What finding 7 amounts to: the audit of helper edges reads its profiles  *)
(* once, and answers from the directory that was active then until the      *)
(* process ends.                                                            *)
AuditIsReadOnce == [][cached["audit"] # Nothing => cached'["audit"] = cached["audit"]]_cacheVars

Filling ==
    /\ filling # Nothing => worker \in {"derive", "read", "store"} /\ cached[filling] = Nothing
    /\ worker \in {"derive", "store"} => filling # Nothing

LEMMA FillingStep ==
    CacheTypeOK /\ Filling /\ [CacheNext]_cacheVars
        => Filling' /\ (cached["audit"] # Nothing => cached'["audit"] = cached["audit"])
<1> SUFFICES ASSUME CacheTypeOK, Filling, [CacheNext]_cacheVars
             PROVE  Filling' /\ (cached["audit"] # Nothing => cached'["audit"] = cached["audit"])
  OBVIOUS
<1> USE CacheAssumption DEF CacheTypeOK, Filling, Caches, Derived
<1>1. ASSUME NEW r \in Roots, MenuSwitch(r)
      PROVE  Filling' /\ (cached["audit"] # Nothing => cached'["audit"] = cached["audit"])
  BY <1>1 DEF MenuSwitch
<1>2. CASE MenuClears \/ AnalysisClears
  BY <1>2 DEF MenuClears, AnalysisClears, Cleared
<1>3. CASE MenuSaves \/ OthersSave \/ StartAnalysis \/ FollowConfiguration \/ AnalysisEnds
  BY <1>3 DEF MenuSaves, OthersSave, StartAnalysis, FollowConfiguration, AnalysisEnds
<1>4. ASSUME NEW c \in Derived, DerivedMisses(c)
      PROVE  Filling' /\ (cached["audit"] # Nothing => cached'["audit"] = cached["audit"])
  BY <1>4 DEF DerivedMisses
<1>5. CASE LoaderHits \/ LoaderMisses
  BY <1>5 DEF LoaderHits, LoaderMisses
<1>6. CASE LoaderStores
  BY <1>6 DEF LoaderStores
<1>7. CASE DerivedStores
  BY <1>7 DEF DerivedStores
<1>8. CASE UNCHANGED cacheVars
  BY <1>8 DEF cacheVars
<1> QED
  BY <1>1, <1>2, <1>3, <1>4, <1>5, <1>6, <1>7, <1>8 DEF CacheNext

(* The cache of helper_edge_audit, which clear_profile_caches does not      *)
(* know, keeps what it was filled with first through every switch of the    *)
(* directory and every analysis.                                            *)
THEOREM AuditReadsOnce == CacheSpec => AuditIsReadOnce
<1>1. CacheInit => TypeInv /\ Filling
  BY TypeInvInit DEF CacheInit, Filling
<1>2. TypeInv /\ Filling /\ [CacheNext]_cacheVars
         => /\ TypeInv' /\ Filling'
            /\ [cached["audit"] # Nothing => cached'["audit"] = cached["audit"]]_cacheVars
  BY TypeInvStep, FillingStep DEF TypeInv
<1> QED
  BY <1>1, <1>2, PTL DEF CacheSpec, AuditIsReadOnce

-----------------------------------------------------------------------------
(* The rule packs.                                                          *)

Signed == Nat \cup {NotListed, Vanished}

(* The types a step relies on; the bounds of the instance play no part.     *)
PacksTyped ==
    /\ changes \in [RuleFiles -> Nat]
    /\ packCache \subseteq [signature : [RuleFiles -> Signed], read : [RuleFiles -> Nat]]
    /\ call \in [Callers -> {"idle", "signing", "signed", "loading", "returned"}]
    /\ signature \in [Callers -> [RuleFiles -> Signed]]
    /\ read \in [Callers -> [RuleFiles -> Nat]]
    /\ asked \in [Callers -> [RuleFiles -> Nat]]

(* What was read under a signature is no older than the signature.          *)
NoOlder(s, contents) == \A f \in RuleFiles : s[f] \in Nat => contents[f] >= s[f]

KeptIsNoOlder == \A p \in packCache : NoOlder(p.signature, p.read)
ReadIsNoOlder == \A t \in Callers : call[t] \in {"loading", "returned"} => NoOlder(signature[t], read[t])

(* A file is signed after the question and before now.                      *)
SignedInBetween ==
    \A t \in Callers, f \in RuleFiles :
        /\ asked[t][f] <= changes[f]
        /\ signature[t][f] \in Nat => asked[t][f] <= signature[t][f] /\ signature[t][f] <= changes[f]

PacksInv == PacksTyped /\ KeptIsNoOlder /\ ReadIsNoOlder /\ SignedInBetween

-----------------------------------------------------------------------------
LEMMA InitHolds == PacksInit => PacksInv
<1> SUFFICES ASSUME PacksInit PROVE PacksInv
  OBVIOUS
<1> USE RulePacksAssumption DEF PacksInit
<1>1. PacksTyped
  <2>1. Nowhere \in [RuleFiles -> Nat] /\ Unsigned \in [RuleFiles -> Signed]
    BY DEF Nowhere, Unsigned, Signed
  <2> QED
    BY <2>1 DEF PacksTyped
<1>2. KeptIsNoOlder /\ ReadIsNoOlder
  BY DEF KeptIsNoOlder, ReadIsNoOlder
<1>3. SignedInBetween
  BY DEF SignedInBetween, Nowhere, Unsigned
<1> QED
  BY <1>1, <1>2, <1>3 DEF PacksInv

(* The user's step: every file is as it was or newer.                       *)
LEMMA ChangesKeepIt == ASSUME NEW f \in RuleFiles, PacksInv, ChangeFile(f) PROVE PacksInv'
<1> USE DEF PacksInv, ChangeFile
<1>1. PacksTyped'
  BY DEF PacksTyped
<1>2. KeptIsNoOlder'
  BY DEF KeptIsNoOlder
<1>3. ReadIsNoOlder'
  BY DEF ReadIsNoOlder
<1>4. SignedInBetween'
  <2>1. \A g \in RuleFiles : changes'[g] >= changes[g]
    BY DEF PacksTyped
  <2> QED
    BY <2>1 DEF SignedInBetween, PacksTyped, Signed
<1> QED
  BY <1>1, <1>2, <1>3, <1>4

(* What is looked up was kept under the signature of the caller; what is    *)
(* kept was read under it.                                                  *)
LEMMA CallersKeepIt == ASSUME NEW t \in Callers, PacksInv, CallerStep(t) PROVE PacksInv'
<1> USE RulePacksAssumption
<1>1. CASE AskForPacks(t)
  <2> USE <1>1 DEF PacksInv, AskForPacks
  <2>1. PacksTyped'
    <3>1. Unsigned \in [RuleFiles -> Signed]
      BY DEF Unsigned, Signed
    <3> QED
      BY <3>1 DEF PacksTyped
  <2>2. KeptIsNoOlder' /\ ReadIsNoOlder'
    BY DEF PacksTyped, KeptIsNoOlder, ReadIsNoOlder
  <2>3. SignedInBetween'
    BY DEF PacksTyped, SignedInBetween, Unsigned
  <2> QED
    BY <2>1, <2>2, <2>3
<1>2. CASE SignFile(t)
  <2> USE <1>2 DEF PacksInv, SignFile
  <2>1. PacksTyped'
    BY DEF PacksTyped, Signed
  <2>2. KeptIsNoOlder' /\ ReadIsNoOlder'
    BY DEF PacksTyped, KeptIsNoOlder, ReadIsNoOlder
  <2>3. SignedInBetween'
    BY DEF PacksTyped, SignedInBetween
  <2> QED
    BY <2>1, <2>2, <2>3
<1>3. CASE LookUpPacks(t)
  <2> USE <1>3 DEF PacksInv, LookUpPacks
  <2>1. PacksTyped'
    BY DEF PacksTyped
  <2>2. KeptIsNoOlder' /\ ReadIsNoOlder'
    BY DEF PacksTyped, KeptIsNoOlder, ReadIsNoOlder
  <2>3. SignedInBetween'
    BY DEF SignedInBetween
  <2> QED
    BY <2>1, <2>2, <2>3
<1>4. CASE ListFiles(t)
  <2> USE <1>4 DEF PacksInv, ListFiles
  <2>1. PacksTyped'
    BY DEF PacksTyped
  <2>2. KeptIsNoOlder'
    BY DEF KeptIsNoOlder
  <2>3. ReadIsNoOlder'
    BY DEF PacksTyped, Signed, ReadIsNoOlder, NoOlder, SignedInBetween
  <2>4. SignedInBetween'
    BY DEF SignedInBetween
  <2> QED
    BY <2>1, <2>2, <2>3, <2>4
<1>5. CASE LoadFile(t)
  <2> USE <1>5 DEF PacksInv, LoadFile
  <2>1. PacksTyped'
    BY DEF PacksTyped
  <2>2. KeptIsNoOlder'
    BY DEF KeptIsNoOlder
  <2>3. ReadIsNoOlder'
    BY DEF PacksTyped, Signed, ReadIsNoOlder, NoOlder, SignedInBetween
  <2>4. SignedInBetween'
    BY DEF SignedInBetween
  <2> QED
    BY <2>1, <2>2, <2>3, <2>4
<1>6. CASE KeepPacks(t)
  <2> USE <1>6 DEF PacksInv, KeepPacks
  <2>1. PacksTyped'
    BY DEF PacksTyped, Kept
  <2>2. KeptIsNoOlder'
    BY DEF KeptIsNoOlder, ReadIsNoOlder, Kept
  <2>3. ReadIsNoOlder'
    BY DEF PacksTyped, ReadIsNoOlder
  <2>4. SignedInBetween'
    BY DEF SignedInBetween
  <2> QED
    BY <2>1, <2>2, <2>3, <2>4
<1> QED
  BY <1>1, <1>2, <1>3, <1>4, <1>5, <1>6 DEF CallerStep

LEMMA StepsKeepIt == PacksInv /\ [PacksNext]_packsVars => PacksInv'
<1> SUFFICES ASSUME PacksInv, [PacksNext]_packsVars PROVE PacksInv'
  OBVIOUS
<1>1. CASE PacksNext
  BY <1>1, ChangesKeepIt, CallersKeepIt DEF PacksNext
<1>2. CASE UNCHANGED packsVars
  BY <1>2 DEF PacksInv, PacksTyped, KeptIsNoOlder, ReadIsNoOlder, SignedInBetween, packsVars
<1> QED
  BY <1>1, <1>2

LEMMA InvariantGivesCurrent == PacksInv => PacksAreCurrent
<1> SUFFICES ASSUME PacksInv, NEW t \in Callers, call[t] = "returned", NEW f \in RuleFiles
             PROVE  read[t][f] >= asked[t][f] \/ signature[t][f] \in {NotListed, Vanished}
  BY DEF PacksAreCurrent
<1>1. CASE signature[t][f] \in Nat
  <2>1. read[t][f] >= signature[t][f] /\ signature[t][f] >= asked[t][f]
    BY <1>1 DEF PacksInv, PacksTyped, ReadIsNoOlder, NoOlder, SignedInBetween
  <2> QED
    BY <2>1, <1>1 DEF PacksInv, PacksTyped
<1>2. CASE signature[t][f] \notin Nat
  BY <1>2 DEF PacksInv, PacksTyped, Signed
<1> QED
  BY <1>1, <1>2

(* The rules an analysis gets are never older than the files were when it   *)
(* asked, for any number of threads, files, edits and calls                 *)
(* (load_rule_packs_from_dirs).                                             *)
THEOREM RulesAreCurrent == PacksSpec => []PacksAreCurrent
<1>1. PacksSpec => []PacksInv
  BY InitHolds, StepsKeepIt, PTL DEF PacksSpec
<1> QED
  BY <1>1, InvariantGivesCurrent, PTL

(* The tables of the callers keep to the files and the changes there are,   *)
(* and packs are kept once for a signature.                                 *)
Listings ==
    /\ there \subseteq RuleFiles /\ listed \in [Callers -> SUBSET RuleFiles]
    /\ file \in [Callers -> 1..(NFiles + 1)]
    /\ asks \in 0..MaxAsks

Changed == edited \in 0..MaxChanges /\ changes \in Contents /\ \A f \in RuleFiles : changes[f] <= edited

OfChanges ==
    /\ packCache \subseteq [signature : Signatures, read : Contents]
    /\ signature \in [Callers -> Signatures]
    /\ read \in [Callers -> Contents] /\ asked \in [Callers -> Contents]

KeptOnce == \A p, q \in packCache : p.signature = q.signature => p = q

LEMMA PacksTypedInitially == PacksInit => Listings /\ Changed /\ OfChanges /\ KeptOnce
<1> SUFFICES ASSUME PacksInit PROVE Listings /\ Changed /\ OfChanges /\ KeptOnce
  OBVIOUS
<1>1. 0 \in 0..MaxAsks /\ 0 \in 0..MaxChanges /\ 1 \in 1..(NFiles + 1)
  BY RulePacksAssumption
<1>2. Nowhere \in Contents /\ Unsigned \in Signatures
  BY <1>1 DEF Nowhere, Unsigned, Contents, Signatures
<1>3. Listings
  BY <1>1 DEF PacksInit, Listings
<1>4. Changed
  BY <1>1, <1>2 DEF PacksInit, Changed, Nowhere
<1>5. OfChanges /\ KeptOnce
  BY <1>2 DEF PacksInit, OfChanges, KeptOnce
<1> QED
  BY <1>3, <1>4, <1>5

LEMMA ListingsStep == Listings /\ [PacksNext]_packsVars => Listings'
<1> SUFFICES ASSUME Listings, [PacksNext]_packsVars PROVE Listings'
  OBVIOUS
<1> USE DEF Listings
<1>1. ASSUME NEW t \in Callers, file[t] \in RuleFiles, file' = [file EXCEPT ![t] = @ + 1]
      PROVE  file' \in [Callers -> 1..(NFiles + 1)]
  <2>1. file[t] + 1 \in 1..(NFiles + 1)
    BY <1>1, RulePacksAssumption DEF RuleFiles
  <2> QED
    BY <1>1, <2>1
<1>2. 1 \in 1..(NFiles + 1)
  BY RulePacksAssumption
<1>3. ASSUME NEW f \in RuleFiles, ChangeFile(f) PROVE Listings'
  BY <1>3 DEF ChangeFile
<1>4. ASSUME NEW t \in Callers, AskForPacks(t) PROVE Listings'
  <2>1. asks + 1 \in 0..MaxAsks
    BY <1>4, RulePacksAssumption DEF AskForPacks
  <2> QED
    BY <1>4, <2>1, <1>2 DEF AskForPacks
<1>5. ASSUME NEW t \in Callers, SignFile(t) \/ LoadFile(t) PROVE Listings'
  BY <1>5, <1>1 DEF SignFile, LoadFile
<1>6. ASSUME NEW t \in Callers, ListFiles(t) PROVE Listings'
  BY <1>6, <1>2 DEF ListFiles
<1>7. ASSUME NEW t \in Callers, LookUpPacks(t) \/ KeepPacks(t) PROVE Listings'
  BY <1>7 DEF LookUpPacks, KeepPacks
<1>8. CASE UNCHANGED packsVars
  BY <1>8 DEF packsVars
<1> QED
  BY <1>3, <1>4, <1>5, <1>6, <1>7, <1>8 DEF PacksNext, CallerStep

LEMMA ChangedStep == Changed /\ [PacksNext]_packsVars => Changed'
<1> SUFFICES ASSUME Changed, [PacksNext]_packsVars PROVE Changed'
  OBVIOUS
<1>1. ASSUME NEW f \in RuleFiles, ChangeFile(f) PROVE Changed'
  <2>1. edited' \in 0..MaxChanges /\ edited' = edited + 1 /\ edited \in Nat
    BY <1>1, RulePacksAssumption DEF Changed, ChangeFile
  <2>2. ASSUME NEW g \in RuleFiles PROVE changes'[g] \in 0..MaxChanges /\ changes'[g] <= edited'
    <3>1. changes[g] \in Nat /\ changes[g] <= edited /\ changes'[g] \in {changes[g], changes[g] + 1}
      BY <1>1 DEF Changed, ChangeFile, Contents
    <3> QED
      BY <2>1, <3>1, RulePacksAssumption
  <2>3. changes' = [g \in RuleFiles |-> changes'[g]]
    BY <1>1 DEF Changed, ChangeFile, Contents
  <2>4. changes' \in Contents
    BY <2>2, <2>3 DEF Contents
  <2> QED
    BY <2>1, <2>2, <2>4 DEF Changed
<1>2. ASSUME UNCHANGED <<edited, changes>> PROVE Changed'
  BY <1>2 DEF Changed
<1> QED
  BY <1>1, <1>2 DEF PacksNext, CallerStep, AskForPacks, SignFile, LookUpPacks, ListFiles, LoadFile,
                    KeepPacks, packsVars

LEMMA OfChangesStep == Changed /\ OfChanges /\ [PacksNext]_packsVars => OfChanges'
<1> SUFFICES ASSUME Changed, OfChanges, [PacksNext]_packsVars PROVE OfChanges'
  OBVIOUS
<1>1. changes \in Contents /\ \A f \in RuleFiles : changes[f] \in 0..MaxChanges
  BY DEF Changed, Contents
<1>2. Unsigned \in Signatures
  BY DEF Unsigned, Signatures
<1>3. ASSUME NEW t \in Callers, AskForPacks(t) PROVE OfChanges'
  BY <1>3, <1>1, <1>2 DEF OfChanges, AskForPacks
<1>4. ASSUME NEW t \in Callers, SignFile(t) PROVE OfChanges'
  <2>1. PICK s \in (0..MaxChanges) \cup {NotListed, Vanished} :
            signature' = [signature EXCEPT ![t][file[t]] = s]
    BY <1>4, <1>1 DEF SignFile
  <2>2. signature[t] \in Signatures
    BY DEF OfChanges
  <2>3. [signature[t] EXCEPT ![file[t]] = s] \in Signatures
    BY <2>2 DEF Signatures
  <2>4. signature' \in [Callers -> Signatures]
    BY <2>1, <2>3 DEF OfChanges
  <2> QED
    BY <1>4, <2>4 DEF OfChanges, SignFile
<1>5. ASSUME NEW t \in Callers, LookUpPacks(t) PROVE OfChanges'
  BY <1>5 DEF OfChanges, LookUpPacks
<1>6. ASSUME NEW t \in Callers, ListFiles(t) PROVE OfChanges'
  BY <1>6, <1>1 DEF OfChanges, ListFiles
<1>7. ASSUME NEW t \in Callers, LoadFile(t) PROVE OfChanges'
  <2>1. read[t] \in Contents
    BY DEF OfChanges
  <2>2. [read[t] EXCEPT ![file[t]] = changes[file[t]]] \in Contents
    BY <2>1, <1>1, <1>7 DEF Contents, LoadFile
  <2>3. read' \in [Callers -> Contents]
    BY <1>7, <2>2 DEF OfChanges, LoadFile
  <2> QED
    BY <1>7, <2>3 DEF OfChanges, LoadFile
<1>8. ASSUME NEW t \in Callers, KeepPacks(t) PROVE OfChanges'
  BY <1>8 DEF OfChanges, KeepPacks, Kept
<1>9. ASSUME UNCHANGED <<packCache, signature, read, asked>> PROVE OfChanges'
  BY <1>9 DEF OfChanges
<1> QED
  BY <1>3, <1>4, <1>5, <1>6, <1>7, <1>8, <1>9 DEF PacksNext, CallerStep, ChangeFile, packsVars

LEMMA KeptOnceStep == KeptOnce /\ [PacksNext]_packsVars => KeptOnce'
<1>1. ASSUME KeptOnce, NEW t \in Callers, KeepPacks(t) PROVE KeptOnce'
  BY <1>1 DEF KeptOnce, KeepPacks, Kept
<1>2. ASSUME KeptOnce, UNCHANGED packCache PROVE KeptOnce'
  BY <1>2 DEF KeptOnce
<1> QED
  BY <1>1, <1>2 DEF PacksNext, CallerStep, ChangeFile, AskForPacks, SignFile, LookUpPacks, ListFiles,
                    LoadFile, packsVars

-----------------------------------------------------------------------------
(* The parts of the plug-in together: what MCPlugin explores of each is a   *)
(* behaviour of it, so what is proved above of each part, and of helpers    *)
(* and rules in their modules, is what the run checks.                      *)
THEOREM PluginComposes ==
    MCSpec => ApplySpec /\ Spec /\ HelperSpec /\ CacheSpec /\ EngineSpec /\ PacksSpec
<1>1. MCInit => ApplyInit /\ Init /\ HelperInit /\ CacheInit /\ EngineInit /\ PacksInit
  BY DEF MCInit
<1>2. [MCNext]_<<part, sessionVars, vars, helperVars, cacheVars, ruleVars>>
         => /\ [ApplyNext]_sessionVars /\ [Next]_vars /\ [HelperNext]_helperVars
            /\ [CacheNext]_cacheVars /\ [EngineNext]_engineVars /\ [PacksNext]_packsVars
  BY DEF MCNext, ruleVars
<1> QED
  BY <1>1, <1>2, PTL DEF MCSpec, ApplySpec, Spec, HelperSpec, CacheSpec, EngineSpec, PacksSpec

(* The session, the tables of the validation, the queues and the ledger of  *)
(* the helpers, the caches, the emissions and the rule packs keep to their  *)
(* types, for any functions, names, helpers, directories, rules and files.  *)
THEOREM PluginKeepsTypes == MCSpec => []PluginTypeOK
<1>1. ApplySpec => []SessionTypeOK
  <2>1. SessionInv => SessionTypeOK
    BY DEF SessionInv
  <2> QED
    BY <2>1, SessionInit, SessionSteps, PTL DEF ApplySpec
<1>2. HelperSpec => []HelperTypeOK
  <2>1. HelperInv => HelperTypeOK
    BY DEF HelperInv
  <2> QED
    BY <2>1, HelperStarts, HelperSteps, PTL DEF HelperSpec
<1>3. CacheSpec => []CacheTypeOK
  <2>1. TypeInv => CacheTypeOK
    BY DEF TypeInv
  <2> QED
    BY <2>1, TypeInvInit, TypeInvStep, PTL DEF CacheSpec
<1>4. PacksSpec => []PacksTypeOK
  <2>1. PacksInv /\ Listings /\ Changed /\ OfChanges /\ KeptOnce => PacksTypeOK
    BY DEF PacksTypeOK, PacksInv, PacksTyped, Listings, Changed, OfChanges, KeptOnce
  <2> QED
    BY <2>1, InitHolds, StepsKeepIt, PacksTypedInitially, ListingsStep, ChangedStep, OfChangesStep,
       KeptOnceStep, PTL DEF PacksSpec
<1>5. SessionTypeOK /\ TypeOK /\ HelperTypeOK /\ CacheTypeOK /\ EngineTypeOK /\ PacksTypeOK
         => PluginTypeOK
  BY DEF PluginTypeOK
<1> QED
  BY <1>1, <1>2, <1>3, <1>4, <1>5, PluginComposes, TypeCorrect, EmissionsInOrder, PTL
=============================================================================
