---------------------------- MODULE MCFreeStudio ----------------------------
(* The window of Free Studio with two profile directories.                  *)
EXTENDS FreeStudio

CONSTANTS builtin, custom

MCProfiles == {builtin, custom}
=============================================================================
