----------------------------- MODULE ForgeStore -----------------------------
(***************************************************************************)
(* The aggregate .forge file (ForgeFile) and its two writers: the plug-in,  *)
(* which replaces or appends the section of one function, and the batch     *)
(* script (tools/pseudoforge_ida_batch.py), which appends sections to a     *)
(* fresh file or after those a resumed run finds, or replaces them too.     *)
(* One process writes at a time; a process can die while it writes.         *)
(***************************************************************************)
EXTENDS ForgeFile

CONSTANTS Rejected,    \* texts with an escape re.sub refuses: "\d"
          Modes,       \* of the batch: subset of "overwrite", "resume", "upsert"
          MaxWrites, MaxCrashes

ASSUME ForgeAssumption ==
    /\ Modes \subseteq {"overwrite", "resume", "upsert"}
    /\ Rejected \subseteq Texts
    /\ MaxWrites \in Nat /\ MaxCrashes \in Nat

VARIABLES
    file,      \* the lines of the .forge file
    batch,     \* the functions the batch has still to do; NoSection: no batch
    mode,      \* how the batch writes
    writes,    \* writes so far
    crashes

forgeVars == <<file, batch, mode, writes, crashes>>

ForgeTypeOK ==
    /\ file \in Seq(Lines)
    /\ crashes = 0 => Intact(file)
    /\ batch = NoSection \/ batch \subseteq Eas
    /\ mode \in Modes \cup {NoSection}
    /\ writes \in 0..MaxWrites /\ crashes \in 0..MaxCrashes

ForgeInit ==
    /\ file = <<>>
    /\ batch = NoSection /\ mode = NoSection
    /\ writes = 0 /\ crashes = 0

(* Who writes a section of e now: the plug-in, or a batch that has yet to   *)
(* do e and upserts.                                                        *)
Upserting(e) ==
    /\ writes < MaxWrites
    /\ batch = NoSection \/ (mode = "upsert" /\ e \in batch)

Done(e) == IF batch = NoSection THEN NoSection ELSE batch \ {e}

(* write_forge_function, _write_forge_section: read, upsert, write.         *)
UpsertSection(e, t) ==
    /\ Upserting(e)
    /\ Matches(file, e) = {} \/ t \notin Rejected
    /\ file' = Upsert(file, e, t)
    /\ batch' = Done(e)
    /\ writes' = writes + 1
    /\ UNCHANGED <<mode, crashes>>

(* re.sub raises: the plug-in adds a warning to the plan, the batch reports *)
(* the function as failed; the file stays.                                  *)
UpsertRaises(e, t) ==
    /\ Upserting(e)
    /\ Matches(file, e) # {} /\ t \in Rejected
    /\ batch' = Done(e)
    /\ writes' = writes + 1
    /\ UNCHANGED <<file, mode, crashes>>

(* The process dies in write_text: the file was truncated and holds a part  *)
(* of the text.                                                             *)
UpsertCrashes(e, t) ==
    /\ crashes < MaxCrashes
    /\ Upserting(e)
    /\ Matches(file, e) = {} \/ t \notin Rejected
    /\ \E n \in 0..Len(Upsert(file, e, t)) : file' = SubSeq(Upsert(file, e, t), 1, n)
    /\ batch' = NoSection /\ mode' = NoSection
    /\ writes' = writes + 1 /\ crashes' = crashes + 1

(* What could be wrong: a resumed batch does not look what there is.        *)
BatchStartsBlindly(m, todo) ==
    /\ batch = NoSection
    /\ mode' = m
    /\ batch' = todo
    /\ file' = IF m = "overwrite" THEN <<>> ELSE file
    /\ UNCHANGED <<writes, crashes>>

(* main: a resumed batch skips what parses, one that overwrites starts a    *)
(* fresh file.  The functions to do depend on filters and requested EAs.    *)
BatchStarts(m, todo) ==
    /\ batch = NoSection
    /\ mode' = m
    /\ batch' = (IF m = "resume" THEN todo \ Listed(file) ELSE todo)
    /\ file' = IF m = "overwrite" THEN <<>> ELSE file
    /\ UNCHANGED <<writes, crashes>>

(* _BatchForgeWriter.write_section *)
Appending(e) == batch # NoSection /\ e \in batch /\ mode # "upsert" /\ writes < MaxWrites

BatchAppends(e, t) ==
    /\ Appending(e)
    /\ file' = file \o Section(e, t)
    /\ batch' = batch \ {e}
    /\ writes' = writes + 1
    /\ UNCHANGED <<mode, crashes>>

(* Killed while the section is flushed.                                     *)
BatchCrashes(e, t) ==
    /\ Appending(e) /\ crashes < MaxCrashes
    /\ \E n \in 0..2 : file' = file \o SubSeq(Section(e, t), 1, n)
    /\ batch' = NoSection /\ mode' = NoSection
    /\ writes' = writes + 1 /\ crashes' = crashes + 1

(* A function that cannot be decompiled or fails is reported and skipped.   *)
BatchSkips(e) ==
    /\ batch # NoSection /\ e \in batch
    /\ batch' = batch \ {e}
    /\ UNCHANGED <<file, mode, writes, crashes>>

(* Done, out of time, or told to stop by the cancel file.                   *)
BatchEnds ==
    /\ batch # NoSection
    /\ batch' = NoSection /\ mode' = NoSection
    /\ UNCHANGED <<file, writes, crashes>>

ForgeNext ==
    \/ \E e \in Eas, t \in Texts :
        \/ UpsertSection(e, t) \/ UpsertRaises(e, t) \/ UpsertCrashes(e, t)
        \/ BatchAppends(e, t) \/ BatchCrashes(e, t)
    \/ \E m \in Modes, todo \in (SUBSET Eas) \ {{}} : BatchStarts(m, todo)
    \/ \E e \in Eas : BatchSkips(e)
    \/ BatchEnds

ForgeSpec == ForgeInit /\ [][ForgeNext]_forgeVars

-----------------------------------------------------------------------------
(* Properties.                                                              *)

(* The chooser of analysed functions lists each function at most once, even *)
(* after a writer died, so that the section shown is the section written.   *)
(* (A second death can leave two torn sections in the file; a function can  *)
(* then be listed twice.)                                                   *)
ListedOnce ==
    crashes <= 1 => \A i, j \in Starts(file) : file[i].of = file[j].of => i = j

(* Re-analysing a function leaves the sections of the others as they were.  *)
OthersPreserved ==
    [][\A e \in Eas, t \in Texts : UpsertSection(e, t) =>
            \A o \in Eas \ {e} : Found(file', o) = Found(file, o)]_forgeVars

(* A section that was written is found with the text that was rendered.     *)
StoresWhatWasRendered ==
    [][\A e \in Eas, t \in Texts : UpsertSection(e, t) => Found(file', e) = t]_forgeVars

Map == INSTANCE SectionMap WITH
    sections <- [e \in Eas |-> Found(file, e)], damaged <- ~Intact(file),
    deaths <- crashes

(* For readers the file is the map from functions to their latest section;  *)
(* a writer that dies loses sections and changes none, and no promise is    *)
(* made only while it leaves a torn section behind.  A write that returns   *)
(* to a file of whole sections has put its own text into the map: it is not *)
(* lost, and not hidden by a section that was there.                        *)
ImplementsSectionMap ==
    /\ Map!Spec
    /\ [][\A e \in Eas, t \in Texts :
            Intact(file) /\ (UpsertSection(e, t) \/ BatchAppends(e, t)) => Map!Put(e, t)]_forgeVars
=============================================================================
