---------------------------- MODULE MCForgeStore ----------------------------
(* Two or three functions, and texts that are safe in a replacement         *)
(* template, expanded or refused by it.                                     *)
EXTENDS ForgeStore

CONSTANTS e1, e2, e3, t1, newline, digit

MCEas == {e1, e2, e3}
MCTwoEas == {e1, e2}
MCEscaped == {newline}
MCTexts == {t1, newline, digit}
NoEscapes == {t1, digit}
NoText == {}
MCRejected == {digit}
AllModes == {"overwrite", "resume", "upsert"}
=============================================================================
