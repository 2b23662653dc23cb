----------------------------- MODULE KernelPack -----------------------------
(***************************************************************************)
(* A kernel corpus pack (tools/kernel_corpus): a directory with a database, *)
(* its manifest, and the evidence packs and atlas pages derived of them.    *)
(* The builder makes the first two from the index of a corpus, readers make *)
(* the others, the directory is copied and extracted elsewhere, and         *)
(* relocate_pack rewrites the path of the directory in every file.          *)
(* validate_pack says whether the pack can be used.  Any tool may be        *)
(* killed.  A file stands for the files of its kind; a path is the sequence *)
(* of its pieces, and contains another one as the text does: when that one  *)
(* is a prefix.  Paths are those of Windows, where case does not tell them  *)
(* apart, and a JSON file escapes the pieces that are not ASCII.            *)
(***************************************************************************)
EXTENDS Naturals, Sequences, SequencesExt

CONSTANTS Paths,        \* directories a pack may be in
          Given,        \* those a user may name with --from-pack-root
          Fold,         \* a piece without its case
          NonAscii,     \* pieces with characters that are not ASCII
          Missing, Broken,   \* a file that is missing, that was cut short
          MaxIndexes,   \* bound on the versions of the corpus index
          MaxBuilds,    \* bound on the builds
          MaxDerived,   \* bound on the evidence packs and atlas pages made
          MaxMoves,     \* bound on the copies of the pack, and on the relocations
                        \* with a path of the user's or for another place
          MaxKills,     \* bound on the tools killed
          MaxClock      \* bound on the seconds that pass

Segments == UNION {ToSet(p) : p \in Paths \cup Given}     \* what paths are made of

Escape(s) == <<"u", s>>     \* a piece as JSON in ASCII has it

ASSUME KernelPackAssumption ==
    /\ MaxIndexes \in Nat \ {0} /\ MaxBuilds \in Nat /\ MaxDerived \in Nat
    /\ MaxMoves \in Nat /\ MaxKills \in Nat /\ MaxClock \in Nat
    /\ Paths \cup Given \subseteq Seq(Segments)
    /\ \A s \in NonAscii : Escape(s) \notin Segments

Derived == {"evidence", "atlas"}
TextFiles == {"manifest"} \cup Derived
Files == TextFiles \cup {"sqlite"}

VARIABLES
    corpus,      \* version of the corpus index
    clock,       \* seconds
    at,          \* where the pack is
    pack,        \* the files: index version of the contents, version that was
                 \* hashed, second of the making, text of the path inside
    build,       \* where build_pack is
    draft,       \* what it holds in memory
    making,      \* the derived file in the making, what was read for it
    rel,         \* where relocate_pack is
    target,      \* the path it writes
    olds,        \* the paths it replaces, in order
    unvisited,   \* text files it has not visited
    builds, derivedSoFar, moves, kills,   \* counted for the bounds
    raced,       \* history: the index changed between its reading and its hash
    overlapped   \* history: a build met the making of the evidence

buildVars == <<build, draft>>
relVars == <<rel, target, olds, unvisited>>
counters == <<builds, derivedSoFar, moves, kills>>
history == <<raced, overlapped>>
packVars == <<corpus, clock, at, pack, buildVars, making, relVars, counters, history>>

Loads(f) == pack[f] \notin {Missing, Broken}
Quiet == build = "off" /\ making = Missing /\ rel = "off"

PackTypeOK ==
    /\ corpus \in 1..MaxIndexes /\ clock \in 0..MaxClock /\ at \in Paths
    /\ \A f \in Files : Loads(f) =>
          /\ pack[f].of \in 1..MaxIndexes /\ pack[f].hash \in 1..MaxIndexes
          /\ pack[f].stamp \in 0..clock
    /\ build \in {"off", "prepare", "unlink", "hash", "import", "rows", "manifest"}
    /\ rel \in {"off", "rewrite", "done"} /\ unvisited \subseteq TextFiles
    /\ rel # "off" => build = "off" /\ making = Missing
    /\ build \in {"hash", "import"} => pack["sqlite"] = Missing /\ pack["manifest"] = Missing
    /\ build \in {"rows", "manifest"} => pack["manifest"] = Missing
    /\ {raced, overlapped} \subseteq BOOLEAN

PackInit ==
    /\ corpus = 1 /\ clock = 0 /\ at \in Paths
    /\ pack = [f \in Files |-> Missing]
    /\ build = "off" /\ draft = Missing /\ making = Missing
    /\ rel = "off" /\ target = at /\ olds = <<>> /\ unvisited = {}
    /\ builds = 0 /\ derivedSoFar = 0 /\ moves = 0 /\ kills = 0
    /\ raced = FALSE /\ overlapped = FALSE

-----------------------------------------------------------------------------
(* Paths and how they stand in files.                                       *)

(* Windows' sense of one path.                                              *)
SamePlace(p, q) == Len(p) = Len(q) /\ \A i \in DOMAIN p : Fold[p[i]] = Fold[q[i]]

(* The manifest and the evidence are JSON in ASCII; an atlas page and a row *)
(* of the database have the path as it is.                                  *)
TextIn(f, p) ==
    IF f \in {"manifest", "evidence"}
    THEN [i \in DOMAIN p |-> IF p[i] \in NonAscii THEN Escape(p[i]) ELSE p[i]]
    ELSE p

(* What a reader of JSON makes of it, escaped or not.                       *)
Read(text) == [i \in DOMAIN text |-> IF text[i] \in Segments THEN text[i] ELSE text[i][2]]

Names(f, p) == SamePlace(Read(pack[f].root), p)
StandsEscaped(f) == Loads(f) /\ Read(pack[f].root) # pack[f].root

-----------------------------------------------------------------------------
(* build_pack.                                                              *)

(* The index is read first and hashed later.                                *)
StartBuild ==
    /\ build = "off" /\ rel = "off" /\ builds < MaxBuilds
    /\ builds' = builds + 1
    /\ build' = "prepare" /\ draft' = [of |-> corpus, hash |-> corpus, stamp |-> clock, root |-> at]
    /\ UNCHANGED <<corpus, clock, at, pack, making, relVars, derivedSoFar, moves, kills, history>>

(* What could be wrong: the old manifest is only written over at the end.   *)
PrepareKeepsManifest ==
    /\ build \in {"prepare", "unlink"}
    /\ build' = "hash" /\ pack' = [pack EXCEPT !.sqlite = Missing]
    /\ UNCHANGED <<corpus, clock, at, draft, making, relVars, counters, history>>

(* What exists is removed with --overwrite, the database first; without it  *)
(* the build is refused.                                                    *)
Prepare ==
    /\ \/ build = "prepare" /\ build' = "unlink" /\ pack' = [pack EXCEPT !.sqlite = Missing]
       \/ /\ build = "prepare" /\ build' = "off" /\ UNCHANGED pack
          /\ pack["sqlite"] # Missing \/ pack["manifest"] # Missing
       \/ build = "unlink" /\ build' = "hash" /\ pack' = [pack EXCEPT !.manifest = Missing]
    /\ UNCHANGED <<corpus, clock, at, draft, making, relVars, counters, history>>

HashIndex ==
    /\ build = "hash" /\ build' = "import"
    /\ draft' = [draft EXCEPT !.hash = corpus, !.stamp = clock]
    /\ raced' = (corpus # draft.of)
    /\ UNCHANGED <<corpus, clock, at, pack, making, relVars, counters, overlapped>>

(* The tables, then their rows in one transaction, the manifest's rows in   *)
(* another; without these the database counts as torn.                      *)
WriteDatabase ==
    /\ \/ build = "import" /\ build' = "rows" /\ pack' = [pack EXCEPT !.sqlite = Broken]
       \/ build = "rows" /\ build' = "manifest" /\ pack' = [pack EXCEPT !.sqlite = draft]
    /\ UNCHANGED <<corpus, clock, at, draft, making, relVars, counters, history>>

WritePackManifest ==
    /\ build = "manifest" /\ build' = "off"
    /\ pack' = [pack EXCEPT !.manifest = [draft EXCEPT !.root = TextIn("manifest", @)]]
    /\ UNCHANGED <<corpus, clock, at, draft, making, relVars, counters, history>>

BuildStep == Prepare \/ HashIndex \/ WriteDatabase \/ WritePackManifest

-----------------------------------------------------------------------------
(* trace_lifecycle and generate_atlas.  Both read the status and then query *)
(* the database; an atlas page bears the time of the status, an evidence    *)
(* pack that of its end.                                                    *)
StartDerive(f) ==
    /\ making = Missing /\ rel = "off" /\ derivedSoFar < MaxDerived
    /\ Loads("manifest") /\ Loads("sqlite")
    /\ derivedSoFar' = derivedSoFar + 1
    /\ making' = [name |-> f, of |-> pack["sqlite"].of, stamp |-> clock]
    /\ UNCHANGED <<corpus, clock, at, pack, buildVars, relVars, builds, moves, kills, history>>

(* A query of a pack with a file missing fails.                             *)
EndDerive ==
    /\ making # Missing /\ making' = Missing
    /\ IF pack["sqlite"] = Missing \/ pack["manifest"] = Missing
       THEN UNCHANGED <<pack, overlapped>>
       ELSE /\ pack' = [pack EXCEPT ![making.name] =
                 [of |-> making.of, hash |-> making.of, root |-> TextIn(making.name, at),
                  stamp |-> IF making.name = "atlas" THEN making.stamp ELSE clock]]
            /\ overlapped' = IF making.name = "evidence"
                             THEN pack["sqlite"] = Broken \/ pack["sqlite"].of # making.of
                             ELSE overlapped
    /\ UNCHANGED <<corpus, clock, at, buildVars, relVars, counters, raced>>

-----------------------------------------------------------------------------
(* relocate_kernel_pack, alone or on the staged copy of package_release.    *)

(* What could be wrong: the evidence packs are not looked at.               *)
InferredWithoutEvidence == <<"manifest", "sqlite", "atlas">>

(* Where _infer_pack_roots looks for older paths.                           *)
Inferred == <<"manifest", "sqlite", "evidence", "atlas">>

(* The paths of earlier places: those given, then those inferred.  A file   *)
(* that names none counts as naming the new place, which is not replaced.   *)
SourceRoots(given, new) ==
    given \o [i \in DOMAIN Inferred |-> 
              IF Loads(Inferred[i]) THEN Read(pack[Inferred[i]].root) ELSE new]

StartRelocate(new, given) ==
    /\ Quiet /\ pack["manifest"] # Missing /\ pack["sqlite"] # Missing
    /\ rel' = "rewrite" /\ target' = new /\ unvisited' = TextFiles
    /\ olds' = SourceRoots(given, new)
    /\ UNCHANGED <<corpus, clock, at, pack, buildVars, making, builds, derivedSoFar, kills, history>>

(* The step after a copy: the older paths are inferred.                     *)
Repair == StartRelocate(at, <<>>) /\ UNCHANGED moves

(* A path is given too; or the staged copy of a release is relocated for    *)
(* the place where it will be.                                              *)
RelocateOnRequest ==
    /\ moves < MaxMoves /\ moves' = moves + 1
    /\ \/ \E p \in Given : StartRelocate(at, <<p>>)
       \/ \E new \in Paths : StartRelocate(new, <<at>>)

(* Which of them are replaced: each path once, in its first spelling, and   *)
(* not the new place.                                                       *)
Replaced == {i \in DOMAIN olds : /\ ~SamePlace(olds[i], target)
                                /\ \A j \in 1..(i - 1) : ~SamePlace(olds[j], olds[i])}

(* One replacement after the other in the text, case and escapes included,  *)
(* the results of earlier ones too.                                         *)
Rewritten(text) ==
    LET todo == Replaced
        after[i \in 0..Len(olds)] ==
            IF i = 0 THEN text
            ELSE IF i \in todo /\ IsPrefix(olds[i], after[i - 1])
                 THEN target \o SubSeq(after[i - 1], Len(olds[i]) + 1, Len(after[i - 1]))
                 ELSE after[i - 1]
    IN  after[Len(olds)]

Rewrite(f) ==
    /\ rel = "rewrite" /\ f \in unvisited /\ unvisited' = unvisited \ {f}
    /\ pack' = IF Loads(f) THEN [pack EXCEPT ![f].root = Rewritten(@)] ELSE pack
    /\ UNCHANGED <<corpus, clock, at, buildVars, making, rel, target, olds, counters, history>>

(* The rows of the database are rewritten last, in one transaction, and its *)
(* path is set whatever it was.                                             *)
CommitRows ==
    /\ rel = "rewrite" /\ unvisited = {} /\ rel' = "done"
    /\ pack' = IF Loads("sqlite") THEN [pack EXCEPT !.sqlite.root = target] ELSE pack
    /\ UNCHANGED <<corpus, clock, at, buildVars, making, target, olds, unvisited, counters, history>>

EndRelocate ==
    /\ rel = "done" /\ rel' = "off"
    /\ UNCHANGED <<corpus, clock, at, pack, buildVars, making, target, olds, unvisited, counters, history>>

RelocateStep == (\E f \in TextFiles : Rewrite(f)) \/ CommitRows \/ EndRelocate

-----------------------------------------------------------------------------
(* The world around the pack.                                               *)

(* The corpus is indexed anew.                                              *)
Reindex ==
    /\ corpus < MaxIndexes /\ corpus' = corpus + 1
    /\ UNCHANGED <<clock, at, pack, buildVars, making, relVars, counters, history>>

Tick ==
    /\ clock < MaxClock /\ clock' = clock + 1
    /\ UNCHANGED <<corpus, at, pack, buildVars, making, relVars, counters, history>>

(* The directory is copied, or extracted from its archive, elsewhere.       *)
Move(new) ==
    /\ Quiet /\ new # at /\ moves < MaxMoves
    /\ at' = new /\ moves' = moves + 1
    /\ UNCHANGED <<corpus, clock, pack, buildVars, making, relVars, builds, derivedSoFar, kills,
                   history>>

(* A text file may be half written by the tool that is killed.              *)
HalfWritten(f) ==
    \/ f = "manifest" /\ build = "manifest" /\ build' = "off"
    \/ f \in Derived /\ making # Missing /\ making.name = f /\ making' = Missing
    \/ rel = "rewrite" /\ f \in unvisited /\ Loads(f) /\ Rewritten(pack[f].root) # pack[f].root

(* Tools under way are killed.                                              *)
Kill ==
    /\ kills < MaxKills /\ kills' = kills + 1
    /\ \/ build # "off" /\ build' = "off" /\ UNCHANGED <<making, rel>>
       \/ making # Missing /\ making' = Missing /\ UNCHANGED <<build, rel>>
       \/ rel # "off" /\ rel' = "off" /\ UNCHANGED <<build, making>>
    /\ \/ UNCHANGED pack
       \/ \E f \in TextFiles : HalfWritten(f) /\ pack' = [pack EXCEPT ![f] = Broken]
    /\ UNCHANGED <<corpus, clock, at, draft, target, olds, unvisited, builds, derivedSoFar, moves, history>>

PackNext ==
    \/ StartBuild \/ BuildStep \/ EndDerive \/ Repair \/ RelocateOnRequest \/ RelocateStep
    \/ Reindex \/ Tick \/ Kill
    \/ \E f \in Derived : StartDerive(f)
    \/ \E new \in Paths : Move(new)

PackSpec == PackInit /\ [][PackNext]_packVars

-----------------------------------------------------------------------------
(* validate_pack --include-derived, without its warnings.                   *)

RowsAgree ==
    /\ pack["sqlite"].hash = pack["manifest"].hash /\ pack["sqlite"].stamp = pack["manifest"].stamp
    /\ Read(pack["manifest"].root) = pack["sqlite"].root

HashAgrees == pack["manifest"].hash = corpus

(* What could be wrong: the times are not compared.                         *)
AlwaysRecent(f) == TRUE

Recent(f) == pack[f].stamp >= pack["manifest"].stamp

(* An atlas page that was cut short has no metadata to disagree.            *)
DerivedAgrees(f) ==
    \/ pack[f] = Missing \/ (f = "atlas" /\ pack[f] = Broken)
    \/ Loads(f) /\ Names(f, at) /\ Recent(f)

Valid ==
    /\ Loads("manifest") /\ Loads("sqlite")
    /\ RowsAgree /\ HashAgrees /\ \A f \in Derived : DerivedAgrees(f)

-----------------------------------------------------------------------------
(* Properties.                                                              *)

(* Whenever database and manifest are whole they are of one build, wherever *)
(* a build was killed.                                                      *)
WholePackIsOneBuild ==
    Loads("manifest") /\ Loads("sqlite") =>
        /\ pack["sqlite"].of = pack["manifest"].of /\ pack["sqlite"].hash = pack["manifest"].hash
        /\ pack["sqlite"].stamp = pack["manifest"].stamp

(* A pack that passes is of the index there is now, unless this changed     *)
(* between being read and being hashed; and its derived files were made     *)
(* from its database, unless in the very second of the build or, evidence,  *)
(* across a build.                                                          *)
ValidPackIsCurrent ==
    Valid => /\ pack["sqlite"].of = corpus \/ raced
             /\ \A f \in Derived : Loads(f) =>
                   \/ pack[f].of = pack["sqlite"].of
                   \/ pack[f].stamp = pack["manifest"].stamp
                   \/ f = "evidence" /\ overlapped

(* No path that is replaced is, case aside, a prefix of another one or of   *)
(* the new one.                                                             *)
Begins(p, q) == Len(p) <= Len(q) /\ SamePlace(p, SubSeq(q, 1, Len(p)))
Independent ==
    \A i \in Replaced : /\ ~Begins(olds[i], target)
                        /\ \A j \in Replaced : i # j => ~Begins(olds[i], olds[j])

(* A file that has a replaced path in other characters than those replaced: *)
(* escaped, or in another case.                                             *)
SpeltApart(f) == \E i \in Replaced : pack[f].root # olds[i] /\ Names(f, olds[i])

Named == {f \in Files : Loads(f) => Names(f, target)}

(* One relocation of independent paths repairs every file, whatever was     *)
(* killed before, but for those that have such a path in characters that    *)
(* the replacement does not find.                                           *)
IndependentAreRepaired ==
    rel = "done" /\ Independent => \A f \in Files \ Named : SpeltApart(f)

(* docs/kernel-corpus-install-usage.md: relocate_pack.py is safe to run     *)
(* after every release extraction and repairs the four kinds of files.      *)
RelocationRepairs == rel = "done" => Named = Files

(* Whoever relocates until the files name the directory gets there.         *)
Misplaced == \E f \in Files : Loads(f) /\ ~Names(f, at)

FairPackSpec ==
    /\ PackSpec
    /\ WF_packVars(BuildStep) /\ WF_packVars(EndDerive) /\ WF_packVars(RelocateStep)
    /\ SF_packVars(Repair /\ Misplaced)

(* IndependentAreRepaired, and repeated relocations, of any paths, come to  *)
(* an end with every file repaired, unless one has its path escaped.        *)
RelocationSettles ==
    /\ [](rel = "done" /\ Independent => \A f \in Files \ Named : SpeltApart(f))
    /\ <>[](/\ pack["manifest"] # Missing /\ pack["sqlite"] # Missing
            /\ \A f \in Files : ~StandsEscaped(f)
            => ~Misplaced)
=============================================================================
