-------------------------- MODULE MCHelperCapture --------------------------
(* Four helpers that may call one another in every way, each with at most   *)
(* one call on the focus path and one beside it, themselves included.       *)
EXTENDS HelperCapture

MCHelpers == {"dispatch", "copy", "probe", "log"}
MCRootLists == {<<"dispatch">>, <<"dispatch", "copy">>}
MCCallLists == {<<>>} \cup {<<h>> : h \in MCHelpers}
=============================================================================
