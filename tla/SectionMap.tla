----------------------------- MODULE SectionMap -----------------------------
(***************************************************************************)
(* What a .forge file promises its readers: for each function the section  *)
(* written last, whoever wrote it.  Writing one function leaves the others *)
(* alone; only a batch that starts a fresh file drops them.  A writer that *)
(* dies can lose sections, never change one or invent one, and may leave a *)
(* damaged file, about which nothing is promised until it is whole again.  *)
(***************************************************************************)
EXTENDS Naturals

CONSTANTS Eas, Texts, NoSection

VARIABLES sections,   \* [Eas -> Texts or NoSection]
          damaged,
          deaths      \* writers that died so far

svars == <<sections, damaged, deaths>>

Init == sections \in [Eas -> {NoSection}] /\ damaged = FALSE /\ deaths = 0

Put(e, t) ==
    /\ ~damaged
    /\ sections' = [sections EXCEPT ![e] = t]
    /\ UNCHANGED <<damaged, deaths>>

StartAfresh ==
    /\ sections' = [e \in Eas |-> NoSection]
    /\ damaged' = FALSE
    /\ UNCHANGED deaths

(* The writer of e dies.                                                    *)
Lose(e, t) ==
    /\ ~damaged
    /\ \A x \in Eas : sections'[x] \in {sections[x], NoSection} \cup (IF x = e THEN {t} ELSE {})
    /\ damaged' \in BOOLEAN
    /\ deaths' = deaths + 1

Unspecified == damaged /\ damaged' \in BOOLEAN /\ deaths' \in {deaths, deaths + 1}

Next ==
    \/ StartAfresh \/ Unspecified
    \/ \E e \in Eas, t \in Texts : Put(e, t) \/ Lose(e, t)

Spec == Init /\ [][Next]_svars
=============================================================================
