-------------------------- MODULE RenameValidation --------------------------
(***************************************************************************)
(* From suggested renames to the renames of a plan: build_clean_plan in     *)
(* core/lvar_analysis.py keeps one suggestion per variable, and             *)
(* validate_renames in core/validation.py decides each in turn: reject it,  *)
(* give it another name, or let it through to be applied.  Names are        *)
(* values; what the code reads off the pseudocode is a set of names or of   *)
(* suggestions.                                                             *)
(***************************************************************************)
EXTENDS Naturals, Sequences

CONSTANTS Names,          \* identifiers
          Known,          \* identifiers and variables of the function
          Reserved,       \* not valid as C identifiers
          Status,         \* STATUS_RENAME_TARGET
          ObjectStyle,    \* names that read like an object pointer
          Carriers,       \* variables with evidence of holding an NTSTATUS
          Fallbacks(_, _),\* names tried, in order, when a carrier of an
                          \*   object-style name has to get another one
          ObjectStatus(_),\* names tried for a carrier that already has one
          Suffixed(_),    \* name2, name3, ..., tried for a repeated target
          NoName,
          Sources,        \* who suggests
          Rank(_),        \* their priority
          Repeatable,     \* sources whose repeated targets get a suffix
          Filtered,       \* <<old, new>> an LLM suggestion is not trusted with
          Suggested,      \* the suggestions that can be made
          MaxSuggestions

Suggestions == [old : Names, new : Names, source : Sources, apply : BOOLEAN]

ASSUME NamesAssumption ==
    /\ Known \subseteq Names /\ Carriers \subseteq Known
    /\ NoName \notin Names /\ Status \in Names \ ObjectStyle
    /\ \A n \in Names :
        /\ \A m \in Names : Fallbacks(n, m) \in Seq(Names \ {Status})
        /\ ObjectStatus(n) \in Seq(Names \ {Status})
        /\ Suffixed(n) \in Seq(Names \ {Status})
    /\ Suggested \subseteq Suggestions /\ "kernel-status" \in Sources
    /\ MaxSuggestions \in Nat

VARIABLES
    phase,      \* "collect", "validate", "append" or "done"
    best,       \* _dedupe_suggestions: one suggestion per variable, in the
                \*   order in which the variables were first mentioned
    raw,        \* suggestions collected
    accepted,   \* the renames of the plan, those not applied included
    used,       \* used_new_names
    carriers    \* evidence still to be looked at by the last pass

vars == <<phase, best, raw, accepted, used, carriers>>

TypeOK ==
    /\ phase \in {"collect", "validate", "append", "done"}
    /\ best \in Seq(Suggestions) /\ accepted \in Seq(Suggestions)
    /\ raw \in 0..MaxSuggestions
    /\ used \subseteq Names /\ carriers \subseteq Carriers

Init ==
    /\ phase = "collect"
    /\ best = <<>> /\ accepted = <<>>
    /\ raw = 0 /\ used = {} /\ carriers = {}

-----------------------------------------------------------------------------
(* What could be wrong: a better suggestion for a variable is added beside  *)
(* the one it should replace.                                               *)
CollectBeside(s) ==
    /\ phase = "collect" /\ raw < MaxSuggestions
    /\ raw' = raw + 1
    /\ \/ /\ \A k \in DOMAIN best : best[k].old = s.old => Rank(s.source) > Rank(best[k].source)
          /\ best' = Append(best, s)
       \/ /\ \E k \in DOMAIN best : best[k].old = s.old /\ ~(Rank(s.source) > Rank(best[k].source))
          /\ UNCHANGED best
    /\ UNCHANGED <<phase, accepted, used, carriers>>

(* A suggestion of a rule, a profile or the provider: kept if it is the     *)
(* first for its variable, or takes the place of one of lower rank.         *)
Collect(s) ==
    /\ phase = "collect" /\ raw < MaxSuggestions
    /\ raw' = raw + 1
    /\ \/ /\ \A k \in DOMAIN best : best[k].old # s.old
          /\ best' = Append(best, s)
       \/ \E k \in DOMAIN best :
            /\ best[k].old = s.old
            /\ best' = IF Rank(s.source) > Rank(best[k].source)
                       THEN [best EXCEPT ![k] = s] ELSE best
    /\ UNCHANGED <<phase, accepted, used, carriers>>

StartValidation ==
    /\ phase = "collect"
    /\ phase' = "validate"
    /\ UNCHANGED <<best, raw, accepted, used, carriers>>

-----------------------------------------------------------------------------
(* The loop of validate_renames.                                            *)

Current == best[Len(accepted) + 1]
Validating == phase = "validate" /\ Len(accepted) < Len(best)

Keep(s) ==
    /\ accepted' = Append(accepted, s)
    /\ used' = IF s.apply THEN used \cup {s.new} ELSE used
    /\ UNCHANGED <<phase, best, raw, carriers>>

Reject == Keep([Current EXCEPT !.apply = FALSE])

(* What could be wrong: the rename is kept when no name is left for it.     *)
RetargetAnyway(n) == Keep([Current EXCEPT !.new = n])

Retarget(n) == IF n = NoName THEN Reject ELSE Keep([Current EXCEPT !.new = n])

Free(n) == n \notin Known /\ n \notin used

(* The first free name of a list, NoName when all are taken: one name.      *)
FirstFree(names) ==
    {names[k] : k \in {j \in DOMAIN names : Free(names[j]) /\ \A h \in 1..(j - 1) : ~Free(names[h])}}
    \cup {n \in {NoName} : \A k \in DOMAIN names : ~Free(names[k])}

(* What could be wrong: only the variables are looked at, not the names the *)
(* function uses otherwise.                                                 *)
UnusableOfVariables(s) ==
    \/ s.old = s.new \/ s.old \notin Known \/ s.new \in Reserved
    \/ s.new \in {best[k].old : k \in DOMAIN best}

(* Noop, missing, invalid, or colliding.                                    *)
Unusable(s) == s.old = s.new \/ s.old \notin Known \/ s.new \in Reserved \/ s.new \in Known

StatusConflict(s) == s.apply /\ s.old \in Carriers /\ s.new \in ObjectStyle

Untrusted(s) == s.source = "llm" /\ <<s.old, s.new>> \in Filtered

(* Variables somebody wants to call "status".                               *)
StatusClaims == {best[k].old : k \in {j \in DOMAIN best : best[j].old \in Known /\ best[j].new = Status}}

(* What could be wrong: a downgraded rename takes "status" away from those  *)
(* that ask for it.                                                         *)
StatusReplacementGreedy(s) == IF Free(Status) THEN {Status} ELSE FirstFree(Fallbacks(s.old, s.new))

StatusReplacement(s) ==
    IF Free(Status) /\ StatusClaims \subseteq {s.old} THEN {Status} ELSE FirstFree(Fallbacks(s.old, s.new))

DuplicateReplacement(s) ==
    IF s.apply /\ s.source \in Repeatable THEN FirstFree(Suffixed(s.new)) ELSE {NoName}

RejectUnusable == Validating /\ Unusable(Current) /\ Reject

DowngradeStatusConflict ==
    /\ Validating /\ ~Unusable(Current) /\ StatusConflict(Current)
    /\ \E n \in StatusReplacement(Current) : Retarget(n)

RejectUntrusted ==
    /\ Validating /\ ~Unusable(Current) /\ ~StatusConflict(Current) /\ Untrusted(Current)
    /\ Reject

Sound(s) == ~Unusable(s) /\ ~StatusConflict(s) /\ ~Untrusted(s)

(* What could be wrong: a repeated target is let through.                   *)
DisambiguateNothing ==
    /\ Validating /\ Sound(Current) /\ Current.new \in used
    /\ Keep(Current)

Disambiguate ==
    /\ Validating /\ Sound(Current) /\ Current.new \in used
    /\ \E n \in DuplicateReplacement(Current) : Retarget(n)

Accept ==
    /\ Validating /\ Sound(Current) /\ Current.new \notin used
    /\ Keep(Current)

-----------------------------------------------------------------------------
(* _append_existing_object_status_carrier_renames: variables that hold a    *)
(* status but are called like an object, unless they are renamed already.   *)

AppliedOlds == {accepted[k].old : k \in {j \in DOMAIN accepted : accepted[j].apply}}

(* What could be wrong: variables that are renamed already are not left out.*)
StartAppendAll ==
    /\ phase = "validate" /\ Len(accepted) = Len(best)
    /\ phase' = "append"
    /\ carriers' = Carriers
    /\ UNCHANGED <<best, raw, accepted, used>>

StartAppend ==
    /\ phase = "validate" /\ Len(accepted) = Len(best)
    /\ phase' = "append"
    /\ carriers' = Carriers \ AppliedOlds
    /\ UNCHANGED <<best, raw, accepted, used>>

AppendCarrier(o) ==
    /\ phase = "append" /\ o \in carriers
    /\ \E n \in FirstFree(ObjectStatus(o)) :
        IF n = NoName THEN UNCHANGED <<accepted, used>>
        ELSE /\ accepted' = Append(accepted,
                    [old |-> o, new |-> n, source |-> "kernel-status", apply |-> TRUE])
             /\ used' = used \cup {n}
    /\ carriers' = carriers \ {o}
    /\ UNCHANGED <<phase, best, raw>>

Finish ==
    /\ phase = "append" /\ carriers = {}
    /\ phase' = "done"
    /\ UNCHANGED <<best, raw, accepted, used, carriers>>

Next ==
    \/ \E s \in Suggested : Collect(s)
    \/ StartValidation
    \/ RejectUnusable \/ DowngradeStatusConflict \/ RejectUntrusted
    \/ Disambiguate \/ Accept
    \/ StartAppend \/ (\E o \in Carriers : AppendCarrier(o)) \/ Finish

Spec == Init /\ [][Next]_vars

-----------------------------------------------------------------------------
(* Properties.                                                              *)

Applied == {k \in DOMAIN accepted : accepted[k].apply}

(* No two renames that are applied give the same name, whether it was       *)
(* suggested, downgraded, made by a suffix or appended.                     *)
TargetsDistinct ==
    \A j, k \in Applied : j # k => accepted[j].new # accepted[k].new

(* No rename that is applied takes a name the function uses.                *)
TargetsFresh ==
    \A k \in Applied : accepted[k].new \notin Known /\ accepted[k].old \in Known

(* The rename that is applied to a variable is the last entry for it: the   *)
(* map of the plan, in which later entries win, shows it.                   *)
AppliedNotShadowed ==
    \A k \in Applied : \A j \in DOMAIN accepted :
        j > k => accepted[j].old # accepted[k].old

(* "status" goes to a variable it was suggested for whenever one of these   *)
(* suggestions is sound; a downgraded rename never takes it away.           *)
ClaimOnStatusHonoured ==
    phase \in {"append", "done"} =>
        \A k \in DOMAIN best :
            best[k].new = Status /\ best[k].apply /\ Sound(best[k]) =>
                \E j \in Applied \cap DOMAIN best :
                    accepted[j].new = Status /\ best[j].new = Status
=============================================================================
