--------------------------- MODULE MCKernelPack ---------------------------
(* Directories named as in docs/kernel-corpus-install-usage.md: the path of *)
(* the pack that is published is a prefix of the one it is extracted to.    *)
(* The third one is not ASCII, and a user may spell the first in capitals.  *)
EXTENDS KernelPack

CONSTANTS nt, NT, amd64, user

MCNested == {<<nt>>, <<nt, amd64>>, <<user>>}
MCSpellings == {<<nt>>, <<NT>>}
MCNowhere == {}
MCFold == [s \in {nt, NT, amd64, user} |-> IF s = NT THEN nt ELSE s]
MCNonAscii == {user}
===========================================================================
