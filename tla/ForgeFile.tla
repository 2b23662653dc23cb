------------------------------ MODULE ForgeFile ------------------------------
(***************************************************************************)
(* The text of an aggregate .forge file (core/forge_store.py): what readers *)
(* find in it and what an upsert makes of it.  ForgeStore and IdaBatch say  *)
(* who writes one.                                                          *)
(*                                                                          *)
(* A file is the sequence of its lines: the BEGIN and END marker of an EA   *)
(* and, for all that is between, one text line.  The header, which readers  *)
(* and the section patterns skip, and the call-arity comments, which every  *)
(* upsert removes and computes anew, are left out.  EAs have the same       *)
(* number of digits, so an END marker is never the start of another one.    *)
(***************************************************************************)
EXTENDS Naturals, Sequences, SequencesExt

CONSTANTS Eas,         \* functions
          Texts,       \* rendered texts
          Escaped,     \* texts with an escape re.sub expands: "\n" in a literal
          Mangled,     \* what an escaped text becomes
          NoSection

ASSUME FileAssumption ==
    Escaped \subseteq Texts /\ Eas \cap Escaped = {}      \* an EA has no backslash

Begin(e) == [kind |-> "begin", of |-> e]
End(e) == [kind |-> "end", of |-> e]
Text(t) == [kind |-> "text", of |-> t]
Lines == {Begin(e) : e \in Eas} \cup {End(e) : e \in Eas} \cup {Text(t) : t \in Texts \cup {Mangled}}

(* render_forge_function_section *)
Section(e, t) == <<Begin(e), Text(t), End(e)>>

-----------------------------------------------------------------------------
(* Reading.                                                                 *)

(* The END markers a BEGIN at line i can match: the nearest one is taken,   *)
(* whatever is between.                                                     *)
Ends(f, i) == {j \in (i + 1)..Len(f) : f[j] = End(f[i].of)}

(* parse_forge_function_sections: the BEGIN lines at which a match starts.  *)
(* Matches are searched from the left and do not overlap, so a BEGIN that   *)
(* lost its END takes all that comes before the next END of that EA.        *)
Starts(f) ==
    LET from[i \in 1..(Len(f) + 1)] ==
            IF i > Len(f) THEN {}
            ELSE IF f[i].kind = "begin" /\ Ends(f, i) # {} THEN {i} \cup from[Min(Ends(f, i)) + 1]
            ELSE from[i + 1]
    IN  from[1]

(* find_forge_function_section: the first section of the EA; what is shown  *)
(* is its text.                                                             *)
Found(f, e) ==
    LET of_e == {i \in Starts(f) : f[i].of = e}
        i == Min(of_e)
    IN  IF of_e = {} THEN NoSection
        ELSE IF Min(Ends(f, i)) = i + 2 THEN f[i + 1].of ELSE SubSeq(f, i + 1, Min(Ends(f, i)) - 1)

(* _existing_forge_eas *)
Listed(f) == {f[i].of : i \in Starts(f)}

-----------------------------------------------------------------------------
(* Writing.                                                                 *)

(* re.sub takes the replacement for a template and expands its escapes.     *)
Expand(line) == IF line.of \in Escaped THEN [line EXCEPT !.of = Mangled] ELSE line

(* Where the pattern of e matches: at a BEGIN of e with an END after it,    *)
(* unless an earlier match has taken that BEGIN.                            *)
Matches(f, e) ==
    {i \in 1..Len(f) :
        /\ f[i] = Begin(e) /\ Ends(f, i) # {}
        /\ \A h \in 1..(i - 1) : f[h] = Begin(e) => Min(Ends(f, h)) < i}

(* What could be wrong: the section is added beside the one there is.       *)
UpsertAppends(f, e, t) == f \o Section(e, t)

(* upsert_forge_section: every match is replaced, and without a match the   *)
(* section goes to the end.                                                 *)
Upsert(f, e, t) ==
    IF Matches(f, e) = {} THEN f \o Section(e, t)
    ELSE FlattenSeq([k \in 1..Len(f) |->
            IF k \in Matches(f, e) THEN [n \in 1..3 |-> Expand(Section(e, t)[n])]
            ELSE IF \E i \in Matches(f, e) : i < k /\ k <= Min(Ends(f, i)) THEN <<>>
            ELSE <<f[k]>>])

(* A whole section starts at line k.                                        *)
Whole(f, k) ==
    k + 2 <= Len(f) /\ f[k].kind = "begin" /\ f[k + 1].kind = "text" /\ f[k + 2] = End(f[k].of)

(* As long as no writer died a file is made of whole sections.              *)
Intact(f) ==
    \A k \in 1..Len(f) :
        \/ f[k].kind = "begin" /\ Whole(f, k)
        \/ f[k].kind = "text" /\ k > 1 /\ Whole(f, k - 1)
        \/ f[k].kind = "end" /\ k > 2 /\ Whole(f, k - 2)
=============================================================================
