------------------------- MODULE KernelPack_proofs -------------------------
(***************************************************************************)
(* Safety of kernel corpus packs, for all paths and any number of builds,   *)
(* derived files, moves and kills.  An invariant follows the pack through   *)
(* the steps of a build: what is missing while it is written (Cleared),     *)
(* what the hash vouches for (Hashed), and how the times of derived files   *)
(* compare with that of the database (Dated).                               *)
(***************************************************************************)
EXTENDS KernelPack, WellFoundedInduction, TLAPS

IsPart(r, now) ==
    /\ r = [of |-> r.of, hash |-> r.hash, stamp |-> r.stamp, root |-> r.root]
    /\ r.stamp \in Nat /\ r.stamp <= now

Shapes ==
    /\ clock \in Nat
    /\ pack = [f \in Files |-> pack[f]]
    /\ \A f \in Files : Loads(f) => IsPart(pack[f], clock)
    /\ build # "off" => IsPart(draft, clock)
    /\ making # Missing => /\ making.name \in Derived
                        /\ making.stamp \in Nat /\ making.stamp <= clock

Alone == rel # "off" => build = "off" /\ making = Missing

Cleared ==
    /\ build \in {"unlink", "hash", "import"} => pack["sqlite"] = Missing
    /\ build = "rows" => pack["sqlite"] = Broken
    /\ build \in {"hash", "import", "rows", "manifest"} => pack["manifest"] = Missing
    /\ build = "manifest" => pack["sqlite"] = draft

Hashed ==
    /\ build \in {"import", "rows", "manifest"} => draft.of = draft.hash \/ raced
    /\ Loads("sqlite") => pack["sqlite"].of = pack["sqlite"].hash \/ raced

(* What a derived file or one in the making has to do with a database made  *)
(* from version of in the second stamp.                                     *)
Follows(x, of, stamp) == x.of = of \/ x.stamp <= stamp

Dated ==
    /\ build \in {"import", "rows"} =>
          /\ \A f \in Derived : Loads(f) => pack[f].stamp <= draft.stamp
          /\ making # Missing => making.stamp <= draft.stamp
    /\ Loads("sqlite") =>
          /\ \A f \in Derived : Loads(f) =>
                \/ Follows(pack[f], pack["sqlite"].of, pack["sqlite"].stamp)
                \/ f = "evidence" /\ overlapped
          /\ making # Missing => Follows(making, pack["sqlite"].of, pack["sqlite"].stamp)

IInv == Shapes /\ Alone /\ Cleared /\ Hashed /\ Dated /\ WholePackIsOneBuild

-----------------------------------------------------------------------------
(* Replacing the path in a file leaves the rest of it as it is.             *)
LEMMA RootOnly ==
    ASSUME NEW r, NEW path, NEW now, IsPart(r, now)
    PROVE  /\ IsPart([r EXCEPT !.root = path], now)
           /\ [r EXCEPT !.root = path].of = r.of
           /\ [r EXCEPT !.root = path].hash = r.hash
           /\ [r EXCEPT !.root = path].stamp = r.stamp
  BY DEF IsPart

LEMMA InitHolds == PackInit => IInv
  BY DEF PackInit, IInv, Shapes, Alone, Cleared, Hashed, Dated, WholePackIsOneBuild,
         Files, TextFiles, Derived, Loads, IsPart

(* Steps that leave the files as they are.                                  *)
LEMMA SameFiles ==
    ASSUME IInv,
           \/ StartBuild \/ HashIndex \/ (\E f \in Derived : StartDerive(f))
           \/ Repair \/ RelocateOnRequest \/ EndRelocate
           \/ Reindex \/ Tick \/ (\E new \in Paths : Move(new)) \/ UNCHANGED packVars
    PROVE  IInv'
<1> USE DEF IInv, Shapes, Alone, Cleared, Hashed, Dated, WholePackIsOneBuild, Loads, IsPart,
            Follows, Files, TextFiles, Derived, history, relVars, buildVars, counters
<1>1. CASE StartBuild  BY <1>1 DEF StartBuild
<1>2. CASE HashIndex
  <2>1. /\ IsPart(draft', clock) /\ draft'.of = draft.of /\ draft'.hash = corpus /\ draft'.stamp = clock
    <3>1. draft = [of |-> draft.of, hash |-> draft.hash, stamp |-> draft.stamp, root |-> draft.root]
      BY <1>2 DEF HashIndex
    <3>2. draft' = [of |-> draft.of, hash |-> corpus, stamp |-> clock, root |-> draft.root]
      <4>1. draft' = [[draft EXCEPT !.hash = corpus] EXCEPT !.stamp = clock]
        BY <1>2 DEF HashIndex
      <4>2. [draft EXCEPT !.hash = corpus]
              = [of |-> draft.of, hash |-> corpus, stamp |-> draft.stamp, root |-> draft.root]
        BY ONLY <3>1
      <4> QED  BY ONLY <4>1, <4>2
    <3> QED  BY ONLY <3>2, clock \in Nat DEF IsPart
  <2>2. UNCHANGED <<clock, pack, making, rel, overlapped>> /\ build = "hash" /\ build' = "import"
    BY <1>2 DEF HashIndex
  <2>3. raced' = (corpus # draft.of)
    BY <1>2 DEF HashIndex
  <2>4. Shapes' /\ Alone' /\ Cleared' /\ WholePackIsOneBuild'
    BY <2>1, <2>2
  <2>5. Hashed'
    BY <2>1, <2>2, <2>3
  <2>6. Dated'
    BY <2>1, <2>2
  <2> QED  BY <2>4, <2>5, <2>6
<1>3. CASE \E f \in Derived : StartDerive(f)  BY <1>3 DEF StartDerive
<1>4. CASE Repair  BY <1>4 DEF Repair, StartRelocate, Quiet
<1>5. CASE RelocateOnRequest
  <2>1. PICK new, given : StartRelocate(new, given)  BY <1>5 DEF RelocateOnRequest
  <2> QED  BY <2>1 DEF StartRelocate, Quiet
<1>6. CASE EndRelocate  BY <1>6 DEF EndRelocate
<1>7. CASE Reindex  BY <1>7 DEF Reindex
<1>8. CASE Tick  BY <1>8 DEF Tick
<1>9. CASE \E new \in Paths : Move(new)  BY <1>9 DEF Move, Quiet
<1>10. CASE UNCHANGED packVars  BY <1>10 DEF packVars
<1> QED  BY <1>1, <1>2, <1>3, <1>4, <1>5, <1>6, <1>7, <1>8, <1>9, <1>10

(* Steps of a build that write.                                             *)
LEMMA BuildWrites == ASSUME IInv, Prepare \/ WriteDatabase \/ WritePackManifest PROVE IInv'
<1> USE DEF IInv, Shapes, Alone, Cleared, Hashed, Dated, WholePackIsOneBuild, Loads, IsPart,
            Follows, Files, TextFiles, Derived, history, relVars, counters
<1>1. CASE Prepare
  <2>1. UNCHANGED <<clock, draft, making, rel, raced, overlapped>>  BY <1>1 DEF Prepare
  <2>2. CASE build = "prepare" /\ build' = "unlink" /\ pack' = [pack EXCEPT !.sqlite = Missing]
    BY <2>1, <2>2
  <2>3. CASE build = "prepare" /\ build' = "off" /\ UNCHANGED pack
    BY <2>1, <2>3
  <2>4. CASE build = "unlink" /\ build' = "hash" /\ pack' = [pack EXCEPT !.manifest = Missing]
    BY <2>1, <2>4
  <2> QED  BY <1>1, <2>2, <2>3, <2>4 DEF Prepare
<1>2. CASE WriteDatabase  BY <1>2 DEF WriteDatabase
<1>3. CASE WritePackManifest
  <2> DEFINE new == [draft EXCEPT !.root = TextIn("manifest", @)]
  <2>1. /\ UNCHANGED <<clock, draft, making, rel, raced, overlapped>> /\ build = "manifest"
        /\ build' = "off" /\ pack' = [pack EXCEPT !.manifest = new]
    BY <1>3 DEF WritePackManifest
  <2>2. /\ IsPart(new, clock) /\ new.of = draft.of /\ new.hash = draft.hash
        /\ new.stamp = draft.stamp
    BY <2>1, RootOnly
  <2> HIDE DEF new
  <2>3. pack'["manifest"] = new /\ \A f \in Files : f # "manifest" => pack'[f] = pack[f]
    BY <2>1
  <2>4. pack' = [f \in Files |-> pack'[f]]
    BY <2>1
  <2>5. Shapes' /\ Alone' /\ Cleared' /\ WholePackIsOneBuild'
    BY <2>1, <2>2, <2>3, <2>4
  <2> QED  BY <2>1, <2>2, <2>3, <2>5
<1> QED  BY <1>1, <1>2, <1>3

LEMMA DeriveWrites == ASSUME IInv, EndDerive PROVE IInv'
<1> USE DEF IInv, Shapes, Alone, Cleared, Hashed, Dated, WholePackIsOneBuild, Loads, IsPart,
            Follows, Files, TextFiles, Derived
<1>1. /\ UNCHANGED <<clock, build, draft, rel, raced>> /\ making # Missing /\ making' = Missing
      /\ rel = "off"
  BY DEF EndDerive, relVars, buildVars
<1>2. CASE pack["sqlite"] = Missing \/ pack["manifest"] = Missing
  BY <1>1, <1>2 DEF EndDerive
<1>3. CASE pack["sqlite"] # Missing /\ pack["manifest"] # Missing
  <2> DEFINE new == [of |-> making.of, hash |-> making.of, root |-> TextIn(making.name, at),
                     stamp |-> IF making.name = "atlas" THEN making.stamp ELSE clock]
  <2>1. /\ pack' = [pack EXCEPT ![making.name] = new]
        /\ overlapped' = IF making.name = "evidence"
                         THEN pack["sqlite"] = Broken \/ pack["sqlite"].of # making.of
                         ELSE overlapped
    BY <1>3 DEF EndDerive
  <2>2. IsPart(new, clock) /\ new.of = making.of /\ (making.name = "atlas" => new.stamp = making.stamp)
    <3> DEFINE second == IF making.name = "atlas" THEN making.stamp ELSE clock
    <3>1. second \in Nat /\ second <= clock /\ (making.name = "atlas" => second = making.stamp)
      BY <1>1
    <3>2. new = [of |-> making.of, hash |-> making.of, root |-> TextIn(making.name, at),
                 stamp |-> second]
      OBVIOUS
    <3> HIDE DEF second, new
    <3> QED  BY ONLY <3>1, <3>2 DEF IsPart
  <2> HIDE DEF new
  <2>3. making.name \in Derived /\ pack'[making.name] = new
        /\ \A f \in Files : f # making.name => pack'[f] = pack[f]
    BY <1>1, <2>1
  <2>4. pack' = [f \in Files |-> pack'[f]]
    BY <2>1
  <2>5. Shapes' /\ Alone' /\ Cleared' /\ WholePackIsOneBuild' /\ Hashed'
    BY <1>1, <1>3, <2>2, <2>3, <2>4
  <2>6. Dated'
    BY <1>1, <1>3, <2>1, <2>2, <2>3
  <2> QED  BY <2>5, <2>6
<1> QED  BY <1>2, <1>3

(* A relocation changes the path in files that are whole, and nothing else. *)
LEMMA RelocationWrites == ASSUME IInv, (\E f \in TextFiles : Rewrite(f)) \/ CommitRows PROVE IInv'
<1> DEFINE Kept(f) == /\ IsPart(pack'[f], clock) /\ pack'[f].of = pack[f].of
                      /\ pack'[f].hash = pack[f].hash /\ pack'[f].stamp = pack[f].stamp
           OnlyPaths == /\ pack' = [f \in Files |-> pack'[f]]
                        /\ \A f \in Files : Loads(f)' => Loads(f) /\ Kept(f)
<1>1. UNCHANGED <<clock, build, draft, making, raced, overlapped>> /\ rel = "rewrite"
  BY DEF Rewrite, CommitRows, buildVars, history
<1>2. ASSUME NEW f \in Files, NEW path, Loads(f), pack' = [pack EXCEPT ![f].root = path]
      PROVE  OnlyPaths
  <2>1. pack' = [g \in Files |-> pack'[g]]
    BY <1>2 DEF IInv, Shapes
  <2>2. pack'[f] = [pack[f] EXCEPT !.root = path] /\ \A g \in Files : g # f => pack'[g] = pack[g]
    BY <1>2 DEF IInv, Shapes
  <2>3. Kept(f)
    BY <1>2, <2>2, RootOnly DEF IInv, Shapes
  <2>4. \A g \in Files : g # f => (Loads(g)' => Loads(g) /\ Kept(g))
    BY <2>2 DEF IInv, Shapes, Loads
  <2> QED  BY <1>2, <2>1, <2>3, <2>4
<1>3. ASSUME UNCHANGED pack PROVE OnlyPaths
  BY <1>3 DEF IInv, Shapes, Loads
<1>4. OnlyPaths
  <2> HIDE DEF OnlyPaths
  <2>1. ASSUME NEW f \in TextFiles, Rewrite(f) PROVE OnlyPaths
    BY <1>2, <1>3, <2>1 DEF Rewrite, Files
  <2>2. CASE CommitRows
    BY <1>2, <1>3, <2>2 DEF CommitRows, Files
  <2> QED  BY <2>1, <2>2
<1>5. build = "off" /\ making = Missing /\ build' = "off" /\ making' = Missing
  BY <1>1 DEF IInv, Alone
<1>6. Shapes' /\ Alone' /\ Cleared'
  BY <1>1, <1>4, <1>5 DEF IInv, Shapes, Alone, Cleared, Derived
<1>7. Hashed' /\ WholePackIsOneBuild'
  BY <1>1, <1>4, <1>5 DEF IInv, Hashed, WholePackIsOneBuild, Files, TextFiles
<1>8. Dated'
  BY <1>1, <1>4, <1>5 DEF IInv, Dated, Follows, Files, TextFiles, Derived
<1> QED  BY <1>6, <1>7, <1>8 DEF IInv

LEMMA KillTears == ASSUME IInv, Kill PROVE IInv'
  BY DEF IInv, Shapes, Alone, Cleared, Hashed, Dated, WholePackIsOneBuild, Loads, IsPart,
         Follows, Files, TextFiles, Derived, history, relVars, buildVars, counters, Kill, HalfWritten

(* What is missing, hashed and dated at each step of builds, relocations and*)
(* readers (IInv) holds after every step, kills included.                   *)
THEOREM Invariance == PackSpec => []IInv
<1>1. IInv /\ [PackNext]_packVars => IInv'
  BY SameFiles, BuildWrites, DeriveWrites, RelocationWrites, KillTears
     DEF PackNext, BuildStep, RelocateStep
<1> QED  BY InitHolds, <1>1, PTL DEF PackSpec

-----------------------------------------------------------------------------
(* Wherever builds, relocations and readers are killed, a whole database    *)
(* and a whole manifest are of one build.                                   *)
THEOREM PacksAreOfOneBuild == PackSpec => []WholePackIsOneBuild
  BY Invariance, PTL DEF IInv

(* What passes validate_pack was made from the index there is, unless this  *)
(* changed between being read and being hashed, and its derived files from  *)
(* its database, unless in the second of the build or, evidence, across one.*)
THEOREM ValidMeansCurrent == PackSpec => []ValidPackIsCurrent
<1>1. IInv => ValidPackIsCurrent
  <2> SUFFICES ASSUME IInv, Valid PROVE ValidPackIsCurrent
    BY DEF ValidPackIsCurrent
  <2>1. pack["sqlite"].of = corpus \/ raced
    BY DEF IInv, Hashed, Valid, RowsAgree, HashAgrees
  <2>2. ASSUME NEW f \in Derived, Loads(f)
        PROVE  \/ pack[f].of = pack["sqlite"].of
               \/ pack[f].stamp = pack["manifest"].stamp
               \/ f = "evidence" /\ overlapped
    <3>1. pack[f].stamp >= pack["manifest"].stamp /\ pack["manifest"].stamp = pack["sqlite"].stamp
      BY <2>2 DEF Valid, RowsAgree, DerivedAgrees, Recent, Loads
    <3>2. \/ Follows(pack[f], pack["sqlite"].of, pack["sqlite"].stamp)
          \/ f = "evidence" /\ overlapped
      BY <2>2 DEF IInv, Dated, Valid
    <3>3. pack[f].stamp \in Nat /\ pack["sqlite"].stamp \in Nat
      BY <2>2 DEF IInv, Shapes, IsPart, Files, TextFiles, Valid
    <3> QED  BY <3>1, <3>2, <3>3 DEF Follows
  <2> QED  BY <2>1, <2>2 DEF ValidPackIsCurrent
<1> QED  BY Invariance, <1>1, PTL

-----------------------------------------------------------------------------
(* What a relocation does to the paths.                                     *)

LEMMA HasLeast ==
    ASSUME NEW S, S \subseteq Nat, S # {}
    PROVE  \E m \in S : \A y \in S : m <= y
<1>1. PICK m \in S : \A g \in S : ~(<<g, m>> \in OpToRel(<, Nat))
  BY NatLessThanWellFounded, WFMin
<1>2. ASSUME NEW g \in S PROVE m <= g
  <2>1. m \in Nat /\ g \in Nat
    OBVIOUS
  <2>2. ~(g < m)
    BY <1>1, <2>1 DEF OpToRel
  <2> QED  BY <2>1, <2>2
<1> QED  BY <1>2

(* A set that has 0, and with each number below n the next one, has all the *)
(* numbers up to n.                                                         *)
LEMMA Upwards ==
    ASSUME NEW n \in Nat, NEW S, 0 \in S, \A i \in S : i \in 0..n /\ i < n => i + 1 \in S
    PROVE  0..n \subseteq S
<1> PICK T : T = (0..n) \ S
  OBVIOUS
<1> SUFFICES ASSUME T # {} PROVE FALSE
  OBVIOUS
<1>1. PICK i \in T : \A g \in T : i <= g
  <2>1. T \subseteq Nat
    OBVIOUS
  <2> QED  BY <2>1, HasLeast
<1>2. i \in 0..n /\ i \notin S /\ i # 0
  OBVIOUS
<1>3. i - 1 \in 0..n /\ i - 1 < n /\ (i - 1) + 1 = i /\ i - 1 < i
  BY <1>2
<1>4. i - 1 \in T
  BY <1>2, <1>3
<1> QED
  BY <1>1, <1>2, <1>3, <1>4

(* The pieces of texts.                                                     *)
TextPieces == Segments \cup {Escape(s) : s \in NonAscii \cap Segments}
IsText(t) == t \in Seq(TextPieces)
IsPath(p) == p \in Seq(Segments)

LEMMA PathsAreTexts == \A p : IsPath(p) => IsText(p)
  BY DEF IsPath, IsText, TextPieces

(* What is written can be read: a reader of JSON gets a path, of a path     *)
(* itself.                                                                  *)
LEMMA ReadIsPath ==
    ASSUME NEW t, IsText(t)
    PROVE  /\ IsPath(Read(t)) /\ Len(Read(t)) = Len(t)
           /\ \A i \in DOMAIN t : t[i] \in Segments => Read(t)[i] = t[i]
           /\ IsPath(t) => Read(t) = t
<1>1. t \in [1..Len(t) -> TextPieces] /\ Len(t) \in Nat /\ DOMAIN t = 1..Len(t)
  BY DEF IsText
<1>2. ASSUME NEW i \in DOMAIN t PROVE (IF t[i] \in Segments THEN t[i] ELSE t[i][2]) \in Segments
  <2>1. CASE t[i] \in Segments
    BY <2>1
  <2>2. CASE t[i] \notin Segments
    <3>1. t[i] \in TextPieces
      BY <1>1
    <3>2. PICK s \in NonAscii \cap Segments : t[i] = Escape(s)
      BY <2>2, <3>1 DEF TextPieces
    <3>3. t[i][2] = s
      BY <3>2 DEF Escape
    <3> QED  BY <2>2, <3>2, <3>3
  <2> QED  BY <2>1, <2>2
<1>3. Read(t) \in [1..Len(t) -> Segments]
  BY <1>1, <1>2 DEF Read
<1>4. IsPath(Read(t)) /\ Len(Read(t)) = Len(t)
  BY <1>1, <1>3 DEF IsPath
<1>5. \A i \in DOMAIN t : t[i] \in Segments => Read(t)[i] = t[i]
  BY DEF Read
<1>6. ASSUME IsPath(t) PROVE Read(t) = t
  <2>1. \A i \in 1..Len(t) : t[i] \in Segments
    BY <1>1, <1>6 DEF IsPath
  <2>2. \A i \in 1..Len(t) : Read(t)[i] = t[i]
    BY <1>1, <1>5, <2>1
  <2>3. t = [i \in 1..Len(t) |-> t[i]] /\ Read(t) = [i \in 1..Len(t) |-> Read(t)[i]]
    BY <1>1, <1>3
  <2> QED  BY <2>2, <2>3
<1> QED  BY <1>4, <1>5, <1>6

LEMMA WrittenIsText == ASSUME NEW f, NEW p, IsPath(p) PROVE IsText(TextIn(f, p))
<1>1. p \in [1..Len(p) -> Segments] /\ Len(p) \in Nat
  BY DEF IsPath
<1>2. CASE f \in {"manifest", "evidence"}
  <2>1. \A i \in 1..Len(p) : (IF p[i] \in NonAscii THEN Escape(p[i]) ELSE p[i]) \in TextPieces
    BY <1>1 DEF TextPieces
  <2>2. TextIn(f, p) = [i \in 1..Len(p) |-> IF p[i] \in NonAscii THEN Escape(p[i]) ELSE p[i]]
    BY <1>1, <1>2 DEF TextIn
  <2> QED  BY <1>1, <2>1, <2>2 DEF IsText
<1>3. CASE f \notin {"manifest", "evidence"}
  BY <1>3, PathsAreTexts DEF TextIn
<1> QED  BY <1>2, <1>3

(* Being one place is an equivalence.                                       *)
LEMMA SamePlaces ==
    ASSUME NEW p \in Seq(Segments), NEW q \in Seq(Segments), NEW r \in Seq(Segments)
    PROVE  /\ SamePlace(p, p) /\ (SamePlace(p, q) => SamePlace(q, p))
           /\ SamePlace(p, q) /\ SamePlace(q, r) => SamePlace(p, r)
<1>1. DOMAIN p = 1..Len(p) /\ DOMAIN q = 1..Len(q) /\ DOMAIN r = 1..Len(r)
  OBVIOUS
<1> QED  BY <1>1 DEF SamePlace

(* A path that a text begins with begins every path the text names.         *)
LEMMA PrefixBegins ==
    ASSUME NEW p \in Seq(Segments), NEW t \in Seq(TextPieces), IsPrefix(p, t),
           NEW q \in Seq(Segments), SamePlace(Read(t), q)
    PROVE  Begins(p, q) /\ (Len(p) = Len(q) => t = p)
<1>1. /\ Read(t) \in Seq(Segments) /\ Len(Read(t)) = Len(t)
      /\ \A i \in DOMAIN t : t[i] \in Segments => Read(t)[i] = t[i]
  BY ReadIsPath DEF IsText, IsPath
<1>2. Len(p) <= Len(t) /\ p = SubSeq(t, 1, Len(p))
  BY DEF IsPrefix
<1>3. Len(t) = Len(q)
  BY <1>1 DEF SamePlace
<1>4. \A i \in 1..Len(p) : t[i] = p[i]
  BY <1>2
<1>5. \A i \in 1..Len(p) : Fold[p[i]] = Fold[q[i]]
  <2> SUFFICES ASSUME NEW i \in 1..Len(p) PROVE Fold[p[i]] = Fold[q[i]]
    OBVIOUS
  <2>1. i \in DOMAIN t /\ t[i] = p[i] /\ p[i] \in Segments
    BY <1>2, <1>4
  <2>2. Read(t)[i] = p[i] /\ i \in DOMAIN Read(t)
    BY <1>1, <2>1
  <2> QED  BY <2>2 DEF SamePlace
<1>6. Begins(p, q)
  <2>1. /\ SubSeq(q, 1, Len(p)) \in Seq(Segments) /\ Len(SubSeq(q, 1, Len(p))) = Len(p)
        /\ \A i \in 1..Len(p) : SubSeq(q, 1, Len(p))[i] = q[i]
    BY <1>2, <1>3
  <2>2. SamePlace(p, SubSeq(q, 1, Len(p)))
    BY <1>5, <2>1 DEF SamePlace
  <2> QED  BY <1>2, <1>3, <2>2 DEF Begins
<1>7. ASSUME Len(p) = Len(q) PROVE t = p
  BY <1>2, <1>3, <1>7
<1> QED  BY <1>6, <1>7

(* One step of Rewritten: what the path becomes by the i-th replacement.    *)
Replacing(g, path, i) ==
    IF i = 0 THEN path
    ELSE IF i \in Replaced /\ IsPrefix(olds[i], g[i - 1])
         THEN target \o SubSeq(g[i - 1], Len(olds[i]) + 1, Len(g[i - 1]))
         ELSE g[i - 1]

(* The recursive function of Rewritten exists: from paths it makes paths.   *)
LEMMA RewritingExists ==
    ASSUME NEW path \in Seq(TextPieces), target \in Seq(Segments), olds \in Seq(Seq(Segments))
    PROVE  \E g \in [0..Len(olds) -> Seq(TextPieces)] :
              /\ \A i \in 0..Len(olds) : g[i] = Replacing(g, path, i)
              /\ Rewritten(path) = g[Len(olds)]
<1> PICK n : n = Len(olds)
  OBVIOUS
<1>0. n \in Nat /\ target \in Seq(TextPieces)
  BY PathsAreTexts DEF IsPath, IsText
<1> DEFINE Body(g, i) == IF i = 0 THEN path
                         ELSE IF i \in Replaced /\ IsPrefix(olds[i], g[i - 1])
                              THEN target \o SubSeq(g[i - 1], Len(olds[i]) + 1, Len(g[i - 1]))
                              ELSE g[i - 1]
           From(g) == [i \in 0..n |-> Body(g, i)]
<1>1. ASSUME NEW g, NEW i \in 0..n, i > 0 => g[i - 1] \in Seq(TextPieces)
      PROVE  Body(g, i) \in Seq(TextPieces)
  <2>1. CASE i = 0  BY <2>1
  <2>2. CASE i > 0
    <3> PICK p \in Seq(TextPieces) : p = g[i - 1]
      BY <1>1, <2>2
    <3>1. Len(olds[i]) \in Nat
      BY <1>0, <2>2
    <3>2. SubSeq(p, Len(olds[i]) + 1, Len(p)) \in Seq(TextPieces)
      BY <3>1
    <3>3. target \o SubSeq(p, Len(olds[i]) + 1, Len(p)) \in Seq(TextPieces)
      BY <1>0, <3>2
    <3> QED  BY <2>2, <3>3
  <2> QED  BY <2>1, <2>2, <1>0
<1>2. \E g : g = From(g)
  <2> DEFINE B(m) == \E g \in [0..n -> Seq(TextPieces)] : \A i \in 0..m : g[i] = Body(g, i)
             A == {m \in 0..n : B(m)}
  <2>1. 0 \in A
    <3>1. PICK g \in [0..n -> Seq(TextPieces)] : g = [i \in 0..n |-> path]
      OBVIOUS
    <3>2. \A i \in 0..0 : g[i] = Body(g, i)
      BY <3>1, <1>0
    <3> QED  BY <1>0, <3>2
  <2>2. ASSUME NEW m \in A, m \in 0..n, m < n PROVE m + 1 \in A
    <3>1. PICK g \in [0..n -> Seq(TextPieces)] : \A i \in 0..m : g[i] = Body(g, i)
      OBVIOUS
    <3>2. m + 1 \in 0..n /\ (m + 1) - 1 = m
      BY <1>0, <2>2
    <3>3. PICK p \in Seq(TextPieces) : p = Body(g, m + 1)
      BY <1>1, <3>2
    <3>4. PICK h \in [0..n -> Seq(TextPieces)] : h = [g EXCEPT ![m + 1] = p]
      BY <3>2
    <3>5. h[m + 1] = p /\ \A i \in 0..m : h[i] = g[i]
      BY <3>2, <3>4, <1>0
    <3>6. ASSUME NEW i \in 0..(m + 1) PROVE h[i] = Body(h, i)
      <4>1. CASE i = m + 1
        <5>1. h[i - 1] = g[i - 1]
          BY <4>1, <3>2, <3>5, <1>0
        <5>2. Body(h, i) = Body(g, i)
          BY ONLY <5>1, Zenon
        <5> HIDE DEF Body
        <5> QED  BY <4>1, <3>3, <3>5, <5>2
      <4>2. CASE i \in 0..m
        <5>1. h[i] = g[i] /\ (i # 0 => h[i - 1] = g[i - 1])
          <6>1. i # 0 => i - 1 \in 0..m
            BY <4>2
          <6> QED  BY <4>2, <3>5, <6>1
        <5>2. Body(h, i) = Body(g, i)
          BY ONLY <5>1, Zenon
        <5> HIDE DEF Body
        <5> QED  BY <4>2, <3>1, <5>1, <5>2
      <4> QED  BY <3>6, <4>1, <4>2, <3>2, <1>0
    <3> HIDE DEF Body
    <3>7. B(m + 1)
      BY <3>6
    <3> QED  BY <3>2, <3>7
  <2>3. 0..n \subseteq A
    <3> HIDE DEF A
    <3> QED  BY <1>0, <2>1, <2>2, Upwards
  <2>4. PICK g \in [0..n -> Seq(TextPieces)] : \A i \in 0..n : g[i] = Body(g, i)
    <3>1. n \in A
      <4> HIDE DEF A
      <4> QED  BY <2>3, <1>0
    <3> HIDE DEF Body
    <3> QED  BY <3>1
  <2> HIDE DEF Body
  <2>5. g = From(g)
    BY <2>4
  <2> QED  BY <2>5
<1>3. Rewritten(path) = (CHOOSE g : g = From(g))[n]
  BY Zenon DEF Rewritten
<1>4. PICK g : g = (CHOOSE h : h = From(h))
  OBVIOUS
<1>5. g = From(g) /\ Rewritten(path) = g[n]
  <2> HIDE DEF From
  <2> QED  BY <1>2, <1>3, <1>4, Zenon
<1> PICK dom : dom = 0..n
  OBVIOUS
<1>6. g = [i \in dom |-> g[i]] /\ \A i \in dom : g[i] = Body(g, i)
  <2>1. g = [i \in dom |-> Body(g, i)]
    BY <1>5, Zenon
  <2> HIDE DEF Body
  <2> QED  BY <2>1
<1>7. 0..n \subseteq {i \in 0..n : g[i] \in Seq(TextPieces)}
  <2> PICK S : S = {i \in 0..n : g[i] \in Seq(TextPieces)}
    OBVIOUS
  <2>1. 0 \in S
    <3>1. Body(g, 0) = path
      OBVIOUS
    <3> HIDE DEF Body
    <3>2. 0 \in dom
      BY <1>0
    <3>3. g[0] = path
      BY ONLY <1>6, <3>1, <3>2
    <3> QED  BY <1>0, <3>3
  <2>2. ASSUME NEW i \in S, i \in 0..n, i < n PROVE i + 1 \in S
    <3>1. i + 1 \in 0..n /\ (i + 1) - 1 = i /\ i + 1 > 0
      BY <1>0, <2>2
    <3>2. g[i] \in Seq(TextPieces)
      BY <2>2
    <3>3. PICK k : k = i + 1
      OBVIOUS
    <3>4. Body(g, k) \in Seq(TextPieces)
      <4>1. k \in 0..n /\ g[k - 1] \in Seq(TextPieces)
        BY <3>1, <3>2, <3>3
      <4> HIDE DEF Body
      <4> QED  BY <1>1, <4>1
    <3> HIDE DEF Body
    <3> QED  BY <1>6, <3>1, <3>3, <3>4
  <2> QED  BY <1>0, <2>1, <2>2, Upwards
<1>8. g \in [0..n -> Seq(TextPieces)]
  <2> HIDE DEF Body
  <2> QED  BY <1>6, <1>7
<1>9. \A i \in 0..n : g[i] = Replacing(g, path, i)
  BY <1>6, Zenon DEF Replacing
<1> QED  BY <1>5, <1>8, <1>9

(* The first of the paths that are one place is the one to replace.         *)
LEMMA FirstIsReplaced ==
    ASSUME target \in Seq(Segments), olds \in Seq(Seq(Segments)), NEW i \in DOMAIN olds,
           ~SamePlace(olds[i], target)
    PROVE  \E k \in Replaced : SamePlace(olds[i], olds[k])
<1> PICK T : T = {j \in DOMAIN olds : SamePlace(olds[i], olds[j])}
  OBVIOUS
<1>0. \A j \in DOMAIN olds : olds[j] \in Seq(Segments)
  OBVIOUS
<1>1. T \subseteq Nat /\ i \in T
  BY <1>0, SamePlaces
<1>2. PICK k \in T : \A g \in T : k <= g
  BY <1>1, HasLeast
<1>3. k \in DOMAIN olds /\ SamePlace(olds[i], olds[k])
  OBVIOUS
<1>4. ASSUME NEW j \in 1..(k - 1) PROVE ~SamePlace(olds[j], olds[k])
  <2>1. j \in DOMAIN olds /\ ~(k <= j)
    <3>1. k \in 1..Len(olds) /\ DOMAIN olds = 1..Len(olds)
      BY <1>3
    <3> QED  BY <3>1
  <2>2. SamePlace(olds[j], olds[k]) => SamePlace(olds[i], olds[j])
    BY <1>0, <1>3, <2>1, SamePlaces
  <2> QED  BY <1>2, <2>1, <2>2
<1>5. ~SamePlace(olds[k], target)
  BY <1>0, <1>3, SamePlaces
<1> QED  BY <1>3, <1>4, <1>5 DEF Replaced

(* A set that has m, and with each number from m on the next one, has n.   *)
LEMMA UpwardsFrom ==
    ASSUME NEW n \in Nat, NEW m \in 0..n, NEW S, m \in S,
           \A i \in S : i \in m..n /\ i < n => i + 1 \in S
    PROVE  n \in S
<1> PICK T : T = {i \in 0..n : i >= m => i \in S}
  OBVIOUS
<1>1. 0 \in T
  OBVIOUS
<1>2. ASSUME NEW i \in T, i \in 0..n, i < n PROVE i + 1 \in T
  <2>1. CASE i + 1 <= m
    BY <1>2, <2>1
  <2>2. CASE i >= m
    <3>1. i \in S /\ i \in m..n
      BY <1>2, <2>2
    <3>2. i + 1 \in S /\ i + 1 \in 0..n
      BY <1>2, <3>1
    <3> QED  BY <3>2
  <2> QED  BY <1>2, <2>1, <2>2
<1>3. 0..n \subseteq T
  BY <1>1, <1>2, Upwards
<1> QED  BY <1>3

(* A text that begins with no path to replace stays as it is.               *)
LEMMA UntouchedStay ==
    ASSUME target \in Seq(Segments), olds \in Seq(Seq(Segments)), NEW text \in Seq(TextPieces),
           \A i \in Replaced : ~IsPrefix(olds[i], text)
    PROVE  Rewritten(text) = text
<1>1. PICK g \in [0..Len(olds) -> Seq(TextPieces)] :
         /\ \A i \in 0..Len(olds) : g[i] = Replacing(g, text, i)
         /\ Rewritten(text) = g[Len(olds)]
  BY RewritingExists
<1> PICK n \in Nat : n = Len(olds)
  OBVIOUS
<1> PICK to, rs : to = 0..n /\ rs = 1..n
  OBVIOUS
<1>2. (\A i \in rs : i \in to /\ i # 0) /\ 0 \in to
  OBVIOUS
<1>3. \A i \in to : g[i] = Replacing(g, text, i)
  BY <1>1
<1>4. g[0] = text /\ \A i \in rs : g[i - 1] = text => g[i] = text
  BY ONLY <1>2, <1>3, \A i \in Replaced : ~IsPrefix(olds[i], text), Zenon DEF Replacing
<1>5. g[n] = text
  <2> PICK S : S = {i \in 0..n : g[i] = text}
    OBVIOUS
  <2>1. 0 \in S /\ 0 \in 0..n
    BY <1>4
  <2>2. ASSUME NEW i \in S, i \in 0..n, i < n PROVE i + 1 \in S
    <3>1. i + 1 \in 1..n /\ i + 1 \in 0..n /\ (i + 1) - 1 = i
      BY <2>2
    <3>2. g[i + 1] = text
      BY <1>4, <3>1
    <3> QED  BY <3>1, <3>2
  <2>3. n \in S
    BY <2>1, <2>2, UpwardsFrom
  <2> QED  BY <2>3
<1> QED  BY <1>1, <1>5

(* A path to replace becomes the new one, if no other begins it and none    *)
(* the new one.                                                             *)
LEMMA OneIsReplaced ==
    ASSUME target \in Seq(Segments), olds \in Seq(Seq(Segments)), NEW k \in Replaced,
           \A i \in Replaced : /\ ~IsPrefix(olds[i], target)
                               /\ i # k => ~IsPrefix(olds[i], olds[k])
    PROVE  Rewritten(olds[k]) = target
<1>0. DOMAIN olds = 1..Len(olds) /\ k \in DOMAIN olds /\ olds[k] \in Seq(Segments)
  BY DEF Replaced
<1> PICK path \in Seq(Segments) : path = olds[k]
  BY <1>0
<1>1. PICK g \in [0..Len(olds) -> Seq(TextPieces)] :
         /\ \A i \in 0..Len(olds) : g[i] = Replacing(g, path, i)
         /\ Rewritten(path) = g[Len(olds)]
  <2>1. path \in Seq(TextPieces)
    BY PathsAreTexts DEF IsPath, IsText
  <2> QED  BY <2>1, RewritingExists
<1> PICK n \in Nat : n = Len(olds)
  OBVIOUS
<1> PICK to, rs : to = 0..n /\ rs = 1..n
  OBVIOUS
<1>2. (\A i \in rs : i \in to /\ i # 0) /\ 0 \in to
  OBVIOUS
<1>3. \A i \in to : g[i] = Replacing(g, path, i)
  BY <1>1
<1>4. /\ \A i \in Replaced : ~IsPrefix(olds[i], target)
      /\ \A i \in Replaced : i # k => ~IsPrefix(olds[i], path)
  OBVIOUS
<1>5. g[0] = path /\ \A i \in rs : i # k /\ g[i - 1] = path => g[i] = path
  BY ONLY <1>2, <1>3, <1>4, Zenon DEF Replacing
<1>6. g[k - 1] = path
  <2>1. k - 1 \in Nat /\ k - 1 <= n
    BY <1>0
  <2> PICK m \in Nat : m = k - 1 /\ m <= n
    BY <2>1
  <2> PICK S : S = {i \in 0..m : g[i] = path}
    OBVIOUS
  <2>2. 0 \in S /\ 0 \in 0..m
    BY <1>5
  <2>3. ASSUME NEW i \in S, i \in 0..m, i < m PROVE i + 1 \in S
    <3>1. i + 1 \in rs /\ i + 1 \in 0..m /\ (i + 1) - 1 = i /\ i + 1 # k
      BY <1>0, <2>3
    <3>2. g[i + 1] = path
      BY <1>5, <3>1
    <3> QED  BY <3>1, <3>2
  <2>4. m \in S
    BY <2>2, <2>3, UpwardsFrom
  <2> QED  BY <2>4
<1>7. g[k] = target
  <2>1. IsPrefix(path, path)
    BY DEF IsPrefix
  <2>2. target \o SubSeq(path, Len(path) + 1, Len(path)) = target
    <3>1. SubSeq(path, Len(path) + 1, Len(path)) = <<>>
      OBVIOUS
    <3> QED  BY <3>1
  <2>3. k \in to /\ k # 0 /\ g[k] = Replacing(g, path, k)
    BY <1>0, <1>3
  <2>4. g[k] = IF k = 0 THEN path
               ELSE IF k \in Replaced /\ IsPrefix(path, path)
                    THEN target \o SubSeq(path, Len(path) + 1, Len(path))
                    ELSE path
    BY ONLY <1>6, <2>3, path = olds[k], Zenon DEF Replacing
  <2> QED  BY <2>1, <2>2, <2>3, <2>4
<1>8. \A i \in rs : g[i - 1] = target => g[i] = target
  BY ONLY <1>2, <1>3, <1>4, Zenon DEF Replacing
<1>9. g[n] = target
  <2> PICK S : S = {i \in 0..n : g[i] = target}
    OBVIOUS
  <2>1. k \in S /\ k \in 0..n
    BY <1>0, <1>7
  <2>2. ASSUME NEW i \in S, i \in k..n, i < n PROVE i + 1 \in S
    <3>1. i + 1 \in rs /\ i + 1 \in 0..n /\ (i + 1) - 1 = i
      BY <1>0, <2>2
    <3>2. g[i + 1] = target
      BY <1>8, <3>1
    <3> QED  BY <3>1, <3>2
  <2>3. n \in S
    BY <2>1, <2>2, UpwardsFrom
  <2> QED  BY <2>3
<1> QED  BY <1>1, <1>9

(* What relocate_pack can make of a text: it names the new path, or an old  *)
(* one in characters that were not replaced.                                *)
Settled(t) ==
    \/ SamePlace(Read(t), target)
    \/ \E i \in Replaced : t # olds[i] /\ SamePlace(Read(t), olds[i])

ToReplace(t) == \E i \in DOMAIN olds : olds[i] = Read(t)

(* Over independent paths it does.                                          *)
LEMMA IndependentSettle ==
    ASSUME target \in Seq(Segments), olds \in Seq(Seq(Segments)), Independent,
           NEW t \in Seq(TextPieces), ToReplace(t)
    PROVE  Settled(Rewritten(t))
<1>1. Read(t) \in Seq(Segments) /\ \A i \in DOMAIN olds : olds[i] \in Seq(Segments)
  BY ReadIsPath DEF IsText, IsPath
<1>2. Replaced \subseteq DOMAIN olds
  BY DEF Replaced
<1>3. CASE SamePlace(Read(t), target)
  <2>1. \A i \in Replaced : ~IsPrefix(olds[i], t)
    BY <1>1, <1>2, <1>3, PrefixBegins DEF Independent
  <2> QED  BY <1>3, <2>1, UntouchedStay DEF Settled
<1>4. CASE ~SamePlace(Read(t), target)
  <2>1. PICK m \in DOMAIN olds : olds[m] = Read(t)
    BY DEF ToReplace
  <2>2. PICK k \in Replaced : SamePlace(Read(t), olds[k])
    BY <1>4, <2>1, FirstIsReplaced
  <2>3. \A i \in Replaced : i # k => ~IsPrefix(olds[i], t)
    BY <1>1, <1>2, <2>2, PrefixBegins DEF Independent
  <2>4. CASE t = olds[k]
    <3>1. \A i \in Replaced : ~IsPrefix(olds[i], target)
      <4>1. Read(target) = target /\ target \in Seq(TextPieces) /\ SamePlace(target, target)
        BY ReadIsPath, PathsAreTexts, SamePlaces DEF IsText, IsPath
      <4> QED  BY <1>1, <1>2, <4>1, PrefixBegins DEF Independent
    <3>2. Rewritten(t) = target
      BY <2>3, <2>4, <3>1, OneIsReplaced
    <3>3. SamePlace(Read(target), target)
      BY ReadIsPath, PathsAreTexts, SamePlaces DEF IsText, IsPath
    <3> QED  BY <3>2, <3>3 DEF Settled
  <2>5. CASE t # olds[k]
    <3>1. ~IsPrefix(olds[k], t)
      <4> SUFFICES ASSUME IsPrefix(olds[k], t) PROVE FALSE
        OBVIOUS
      <4>1. Len(olds[k]) = Len(olds[k]) => t = olds[k]
        BY <1>1, <1>2, <2>2, PrefixBegins
      <4> QED  BY <2>5, <4>1
    <3>2. Rewritten(t) = t
      BY <2>3, <3>1, UntouchedStay
    <3> QED  BY <2>2, <2>5, <3>2 DEF Settled
  <2> QED  BY <2>4, <2>5
<1> QED  BY <1>3, <1>4

-----------------------------------------------------------------------------
(* The paths in the files during a relocation.                              *)

Rooted ==
    /\ at \in Paths /\ IsPath(target) /\ olds \in Seq(Seq(Segments))
    /\ build # "off" => IsPath(draft.root)
    /\ \A f \in Files : Loads(f) => IsText(pack[f].root)

(* What relocate_pack has not visited names a path it looks for, what it    *)
(* has visited is settled.                                                  *)
Repairing ==
    /\ unvisited \subseteq TextFiles
    /\ rel = "rewrite" => \A f \in unvisited \cup {"sqlite"} : Loads(f) => ToReplace(pack[f].root)
    /\ rel = "rewrite" /\ Independent =>
          \A f \in TextFiles \ unvisited : Loads(f) => Settled(pack[f].root)
    /\ IndependentAreRepaired

RInv == Rooted /\ Repairing

(* Its paths stay while a relocation goes on.                               *)
LEMMA PathsFixed ==
    ASSUME UNCHANGED <<target, olds>> PROVE Replaced' = Replaced /\ Independent' = Independent
<1>1. Replaced' = Replaced
  BY DEF Replaced, SamePlace
<1> QED  BY <1>1 DEF Independent, Begins, SamePlace

LEMMA RepairingKept ==
    ASSUME Repairing, UNCHANGED <<pack, target, olds, unvisited, rel>> PROVE Repairing'
<1>1. Replaced' = Replaced /\ Independent' = Independent
  BY PathsFixed
<1>2. pack' = pack /\ target' = target /\ olds' = olds /\ unvisited' = unvisited /\ rel' = rel
  OBVIOUS
<1>3. ASSUME rel = "rewrite", NEW f \in unvisited \cup {"sqlite"}, Loads(f)'
      PROVE  ToReplace(pack[f].root)'
  <2>1. ToReplace(pack[f].root)
    BY <1>2, <1>3 DEF Repairing, Loads
  <2> QED  BY ONLY <1>2, <2>1, Zenon DEF ToReplace, Read
<1>4. ASSUME rel = "rewrite", Independent, NEW f \in TextFiles \ unvisited, Loads(f)'
      PROVE  Settled(pack[f].root)'
  <2>1. Settled(pack[f].root)
    BY <1>2, <1>4 DEF Repairing, Loads
  <2>2. CASE SamePlace(Read(pack[f].root), target)
    BY ONLY <1>2, <2>2, Zenon DEF Settled, SamePlace, Read
  <2>3. ASSUME NEW i \in Replaced, pack[f].root # olds[i], SamePlace(Read(pack[f].root), olds[i])
        PROVE  Settled(pack[f].root)'
    <3>1. i \in Replaced' /\ pack'[f].root # olds'[i]
      BY <1>1, <1>2, <2>3
    <3>2. SamePlace(Read(pack[f].root), olds[i])'
      BY ONLY <1>2, <2>3, Zenon DEF SamePlace, Read
    <3> QED  BY ONLY <3>1, <3>2, Zenon DEF Settled
  <2> QED  BY <2>1, <2>2, <2>3 DEF Settled
<1>5. ASSUME rel = "done", Independent, NEW f \in Files \ Named' PROVE SpeltApart(f)'
  <2>1. f \notin Named
    BY ONLY <1>2, <1>5, Zenon DEF Named, Names, Loads, SamePlace, Read
  <2>2. SpeltApart(f)
    BY <1>5, <2>1 DEF Repairing, IndependentAreRepaired
  <2>3. PICK i \in Replaced : pack[f].root # olds[i] /\ Names(f, olds[i])
    BY <2>2 DEF SpeltApart
  <2>4. i \in Replaced' /\ pack'[f].root # olds'[i]
    BY <1>1, <1>2, <2>3
  <2>5. Names(f, olds[i])'
    BY ONLY <1>2, <2>3, Zenon DEF Names, SamePlace, Read
  <2> QED  BY <2>4, <2>5 DEF SpeltApart
<1>6. unvisited \subseteq TextFiles
  BY DEF Repairing
<1>7. IndependentAreRepaired'
  BY <1>1, <1>2, <1>5 DEF IndependentAreRepaired
<1> HIDE DEF ToReplace, Settled, Independent, Loads, IndependentAreRepaired
<1>8. rel' = "rewrite" => \A f \in unvisited' \cup {"sqlite"} : Loads(f)' => ToReplace(pack[f].root)'
  BY ONLY <1>2, <1>3
<1>9. rel' = "rewrite" /\ Independent' =>
        \A f \in TextFiles \ unvisited' : Loads(f)' => Settled(pack[f].root)'
  BY ONLY <1>1, <1>2, <1>4
<1> QED  BY ONLY <1>2, <1>6, <1>7, <1>8, <1>9 DEF Repairing

LEMMA PathsAre == \A p \in Paths \cup Given : IsPath(p)
  BY KernelPackAssumption DEF IsPath

LEMMA RInvInit == PackInit => RInv
<1> SUFFICES ASSUME PackInit PROVE RInv
  OBVIOUS
<1>1. IsPath(at) /\ at \in Paths
  BY PathsAre DEF PackInit
<1>2. \A f \in Files : ~Loads(f)
  BY DEF PackInit, Loads
<1>3. olds \in Seq(Seq(Segments))
  BY DEF PackInit
<1> QED  BY <1>1, <1>2, <1>3 DEF PackInit, RInv, Rooted, Repairing, IndependentAreRepaired

(* A relocation looks for what the files name, and starts with all to do.   *)
LEMMA RelocationStarts ==
    ASSUME RInv, NEW new, IsPath(new), NEW given \in Seq(Seq(Segments)), StartRelocate(new, given)
    PROVE  RInv'
<1> PICK roots : roots = [i \in 1..4 |-> IF Loads(Inferred[i]) THEN Read(pack[Inferred[i]].root) ELSE new]
  OBVIOUS
<1>1. /\ rel' = "rewrite" /\ target' = new /\ unvisited' = TextFiles
      /\ UNCHANGED <<at, pack, build, draft>>
  BY DEF StartRelocate, buildVars
<1>2. olds' = given \o roots
  BY DEF StartRelocate, SourceRoots, Inferred
<1>3. \A i \in 1..4 : Inferred[i] \in Files
  BY DEF Inferred, Files, TextFiles, Derived
<1>4. roots \in Seq(Seq(Segments)) /\ Len(roots) = 4
  <2>1. \A i \in 1..4 : roots[i] \in Seq(Segments)
    BY <1>3, ReadIsPath DEF RInv, Rooted, IsPath
  <2>2. roots \in [1..4 -> Seq(Segments)]
    BY <2>1
  <2> QED  BY <2>2
<1>5. \A f \in Files : \E i \in 1..4 : Inferred[i] = f
  BY DEF Inferred, Files, TextFiles, Derived
<1>6. ASSUME NEW f \in Files, Loads(f) PROVE \E i \in DOMAIN olds' : olds'[i] = Read(pack[f].root)
  <2>1. PICK i \in 1..4 : Inferred[i] = f
    BY <1>5
  <2>2. roots[i] = Read(pack[f].root)
    BY <1>6, <2>1
  <2>3. Len(given) + i \in DOMAIN olds' /\ olds'[Len(given) + i] = roots[i]
    BY <1>2, <1>4
  <2> QED  BY <2>2, <2>3
<1>7. olds' \in Seq(Seq(Segments))
  BY <1>2, <1>4
<1>8. Rooted'
  BY <1>1, <1>7 DEF RInv, Rooted, IsPath, Loads
<1>9. \A f \in Files : Loads(f)' => ToReplace(pack[f].root)'
  BY <1>1, <1>6 DEF Loads, ToReplace, Read
<1>10. Repairing'
  <2>1. /\ unvisited' = TextFiles /\ unvisited' \cup {"sqlite"} = Files /\ TextFiles \ unvisited' = {}
        /\ rel' # "done"
    BY <1>1 DEF Files
  <2>2. \A f \in unvisited' \cup {"sqlite"} : Loads(f)' => ToReplace(pack[f].root)'
    BY <1>9, <2>1
  <2> HIDE DEF ToReplace, Independent, Loads
  <2> QED  BY ONLY <2>1, <2>2 DEF Repairing, IndependentAreRepaired
<1> QED  BY <1>8, <1>10 DEF RInv

LEMMA RelocationRewrites == ASSUME IInv, RInv, NEW f \in TextFiles, Rewrite(f) PROVE RInv'
<1>1. /\ rel = "rewrite" /\ rel' = "rewrite" /\ f \in unvisited /\ unvisited' = unvisited \ {f}
      /\ UNCHANGED <<at, build, draft, target, olds>>
      /\ pack' = IF Loads(f) THEN [pack EXCEPT ![f].root = Rewritten(@)] ELSE pack
  BY DEF Rewrite, buildVars
<1>2. f \in Files /\ "sqlite" \notin TextFiles /\ "sqlite" \in Files
  BY DEF Files, TextFiles, Derived
<1>3. \A g \in Files : g # f => pack'[g] = pack[g]
  BY <1>1, <1>2 DEF IInv, Shapes
<1>4. ASSUME Loads(f) PROVE pack'[f].root = Rewritten(pack[f].root)
  <2>1. IsPart(pack[f], clock) /\ pack = [g \in Files |-> pack[g]]
    BY <1>2, <1>4 DEF IInv, Shapes
  <2>2. pack'[f] = [pack[f] EXCEPT !.root = Rewritten(pack[f].root)]
    BY <1>1, <1>2, <1>4, <2>1
  <2>3. \A r : IsPart(pack[f], clock) => [pack[f] EXCEPT !.root = r].root = r
    BY DEF IsPart
  <2> QED  BY <2>1, <2>2, <2>3
<1>5. ASSUME ~Loads(f) PROVE pack' = pack
  BY <1>1, <1>5
<1>6. Loads(f)' => Loads(f)
  BY <1>5 DEF Loads
<1>7. Loads(f) => IsText(Rewritten(pack[f].root))
  <2> SUFFICES ASSUME Loads(f) PROVE IsText(Rewritten(pack[f].root))
    OBVIOUS
  <2>1. pack[f].root \in Seq(TextPieces) /\ target \in Seq(Segments) /\ olds \in Seq(Seq(Segments))
    BY <1>2 DEF RInv, Rooted, IsPath, IsText
  <2>2. PICK g \in [0..Len(olds) -> Seq(TextPieces)] : Rewritten(pack[f].root) = g[Len(olds)]
    BY <2>1, RewritingExists
  <2>3. Len(olds) \in 0..Len(olds)
    BY <2>1
  <2> QED  BY <2>2, <2>3 DEF IsText
<1>8. Rooted'
  <2>1. \A g \in Files : Loads(g)' => IsText(pack'[g].root)
    BY <1>3, <1>4, <1>6, <1>7 DEF RInv, Rooted, Loads
  <2> QED  BY <1>1, <2>1 DEF RInv, Rooted
<1>9. Independent => (Loads(f)' => Settled(pack'[f].root))
  <2> SUFFICES ASSUME Independent, Loads(f) PROVE Settled(pack'[f].root)
    BY <1>6
  <2>1. ToReplace(pack[f].root)
    BY <1>1 DEF RInv, Repairing
  <2>2. target \in Seq(Segments) /\ olds \in Seq(Seq(Segments)) /\ pack[f].root \in Seq(TextPieces)
    BY <1>2 DEF RInv, Rooted, IsPath, IsText
  <2> QED  BY <1>4, <2>1, <2>2, IndependentSettle
<1>10. Replaced' = Replaced /\ Independent' = Independent /\ target' = target /\ olds' = olds
  BY <1>1, PathsFixed
<1>11. Repairing'
  <2>1. \A g \in Files : g # f => (Loads(g)' <=> Loads(g))
    BY <1>3 DEF Loads
  <2>2. ASSUME NEW g \in unvisited' \cup {"sqlite"}, Loads(g)'
        PROVE  ToReplace(pack[g].root)'
    <3>1. g \in unvisited \cup {"sqlite"} /\ g \in Files /\ g # f
      BY <1>1, <1>2, <2>2 DEF Files, RInv, Repairing
    <3>2. Loads(g) /\ ToReplace(pack[g].root)
      BY <1>1, <2>1, <2>2, <3>1 DEF RInv, Repairing
    <3>3. pack'[g].root = pack[g].root
      BY <1>3, <3>1
    <3> QED  BY ONLY <1>10, <3>2, <3>3 DEF ToReplace, Read
  <2>3. ASSUME Independent, NEW g \in TextFiles \ unvisited', Loads(g)' PROVE Settled(pack'[g].root)
    <3>1. CASE g = f
      BY <1>1, <1>9, <2>3, <3>1
    <3>2. CASE g # f
      <4>1. g \in TextFiles \ unvisited /\ g \in Files
        BY <1>1, <3>2 DEF Files
      <4> QED  BY <1>1, <1>3, <2>1, <2>3, <3>2, <4>1 DEF RInv, Repairing
    <3> QED  BY <3>1, <3>2
  <2> HIDE DEF ToReplace, Settled, Independent, Loads
  <2>4. unvisited \subseteq TextFiles
    BY DEF RInv, Repairing
  <2>5. \A g \in unvisited' \cup {"sqlite"} : Loads(g)' => ToReplace(pack[g].root)'
    BY ONLY <2>2, <2>4
  <2>6. Independent => \A g \in TextFiles \ unvisited' : Loads(g)' => Settled(pack[g].root)'
    <3> SUFFICES ASSUME Independent, NEW g \in TextFiles \ unvisited', Loads(g)'
                 PROVE  Settled(pack[g].root)'
      OBVIOUS
    <3>1. Settled(pack'[g].root) /\ g \in Files
      BY <2>3 DEF Files
    <3> QED  BY ONLY <1>10, <3>1, Zenon DEF Settled, SamePlace, Read
  <2>7. IndependentAreRepaired'
    BY <1>1 DEF IndependentAreRepaired
  <2>8. unvisited' \subseteq TextFiles
    BY <1>1, <2>4
  <2> QED  BY ONLY <1>10, <2>5, <2>6, <2>7, <2>8 DEF Repairing
<1> QED  BY <1>8, <1>11 DEF RInv

LEMMA RelocationEnds == ASSUME IInv, RInv, CommitRows PROVE RInv'
<1>1. /\ rel = "rewrite" /\ unvisited = {} /\ rel' = "done"
      /\ UNCHANGED <<at, build, draft, target, olds, unvisited>>
      /\ pack' = IF Loads("sqlite") THEN [pack EXCEPT !.sqlite.root = target] ELSE pack
  BY DEF CommitRows, buildVars
<1>2. "sqlite" \in Files /\ Files \ {"sqlite"} = TextFiles
  BY DEF Files, TextFiles, Derived
<1>3. \A g \in Files : g # "sqlite" => pack'[g] = pack[g]
  BY <1>1, <1>2 DEF IInv, Shapes
<1>4. Loads("sqlite")' => Loads("sqlite") /\ pack'["sqlite"].root = target
  <2>1. CASE Loads("sqlite")
    <3>1. IsPart(pack["sqlite"], clock) /\ pack = [g \in Files |-> pack[g]]
      BY <1>2, <2>1 DEF IInv, Shapes
    <3>2. pack'["sqlite"] = [pack["sqlite"] EXCEPT !.root = target]
      BY <1>1, <1>2, <2>1, <3>1
    <3>3. \A r : IsPart(pack["sqlite"], clock) => [pack["sqlite"] EXCEPT !.root = r].root = r
      BY DEF IsPart
    <3> QED  BY <2>1, <3>1, <3>2, <3>3
  <2>2. CASE ~Loads("sqlite")
    BY <1>1, <2>2 DEF Loads
  <2> QED  BY <2>1, <2>2
<1>5. Rooted'
  <2>1. \A g \in Files : Loads(g)' => IsText(pack'[g].root)
    BY <1>3, <1>4, PathsAreTexts DEF RInv, Rooted, Loads
  <2> QED  BY <1>1, <2>1 DEF RInv, Rooted
<1>6. IndependentAreRepaired'
  <2> SUFFICES ASSUME Independent', NEW f \in Files \ Named' PROVE SpeltApart(f)'
    BY DEF IndependentAreRepaired
  <2>1. Independent /\ Loads(f)' /\ ~SamePlace(Read(pack'[f].root), target)
    <3>1. Independent
      BY <1>1, PathsFixed
    <3>2. Loads(f)' /\ f \in Files /\ ~Names(f, target)'
      BY DEF Named
    <3>3. target' = target
      BY <1>1
    <3>4. ~SamePlace(Read(pack'[f].root), target)
      BY ONLY <3>2, <3>3, Zenon DEF Names, SamePlace, Read
    <3> QED  BY <3>1, <3>2, <3>4
  <2>2. f # "sqlite"
    <3>1. SamePlace(Read(target), target)
      <4>1. target \in Seq(Segments) /\ target \in Seq(TextPieces)
        BY PathsAreTexts DEF RInv, Rooted, IsPath, IsText
      <4> QED  BY <4>1, ReadIsPath, SamePlaces DEF IsText, IsPath
    <3> QED  BY <1>4, <2>1, <3>1
  <2>3. f \in TextFiles \ unvisited /\ pack'[f] = pack[f]
    BY <1>1, <1>2, <1>3, <2>2
  <2>4. Loads(f)
    BY <2>1, <2>3 DEF Loads
  <2>5. Settled(pack[f].root)
    BY <1>1, <2>1, <2>3, <2>4 DEF RInv, Repairing
  <2>6. PICK i \in Replaced : pack[f].root # olds[i] /\ SamePlace(Read(pack[f].root), olds[i])
    BY <2>1, <2>3, <2>5 DEF Settled
  <2>7. i \in Replaced' /\ pack'[f].root # olds'[i]
    BY <1>1, <2>3, <2>6, PathsFixed
  <2>8. Names(f, olds[i])'
    <3>1. pack'[f] = pack[f] /\ olds' = olds
      BY <1>1, <2>3
    <3> QED  BY ONLY <2>6, <3>1, Zenon DEF SamePlace, Names, Read
  <2> QED  BY <2>7, <2>8 DEF SpeltApart
<1> QED  BY <1>1, <1>5, <1>6 DEF RInv, Repairing

(* While no relocation is under way only the paths have to be followed.     *)
LEMMA PathsKept ==
    ASSUME rel' = "off", Rooted', unvisited' \subseteq TextFiles
    PROVE  RInv'
  BY DEF RInv, Repairing, IndependentAreRepaired

LEMMA BuildWritesPaths == ASSUME IInv, RInv, Prepare \/ WriteDatabase \/ WritePackManifest PROVE RInv'
<1>1. rel' = "off" /\ UNCHANGED <<at, target, olds, unvisited, draft>> /\ build # "off"
  BY DEF Prepare, WriteDatabase, WritePackManifest, relVars, IInv, Alone
<1>2. \A f \in Files : Loads(f)' => \/ Loads(f) /\ pack'[f] = pack[f]
                                    \/ pack'[f] = draft
                                    \/ pack'[f].root = TextIn("manifest", draft.root)
  <2> USE DEF IInv, Shapes, Loads, Files, TextFiles, Derived
  <2>1. CASE Prepare  BY <2>1 DEF Prepare
  <2>2. CASE WriteDatabase  BY <2>2 DEF WriteDatabase
  <2>3. CASE WritePackManifest
    <3> PICK path : path = TextIn("manifest", draft.root)
      OBVIOUS
    <3>1. pack' = [pack EXCEPT !.manifest = [draft EXCEPT !.root = path]] /\ IsPart(draft, clock)
      BY <2>3 DEF WritePackManifest
    <3>2. [draft EXCEPT !.root = path].root = path
      BY ONLY <3>1 DEF IsPart
    <3> QED  BY <3>1, <3>2
  <2> QED  BY <2>1, <2>2, <2>3
<1>3. Rooted'
  <2>1. IsPath(draft.root) /\ IsText(draft.root) /\ IsText(TextIn("manifest", draft.root))
    BY <1>1, PathsAreTexts, WrittenIsText DEF RInv, Rooted
  <2> QED  BY <1>1, <1>2, <2>1 DEF RInv, Rooted
<1> QED  BY <1>1, <1>3, PathsKept DEF RInv, Repairing

LEMMA OtherPaths ==
    ASSUME IInv, RInv,
           \/ StartBuild \/ HashIndex \/ (\E f \in Derived : StartDerive(f)) \/ EndRelocate
           \/ Reindex \/ Tick \/ (\E new \in Paths : Move(new)) \/ UNCHANGED packVars
    PROVE  RInv'
<1>1. UNCHANGED <<pack, target, olds, unvisited>> /\ at' \in Paths
  BY DEF StartBuild, HashIndex, StartDerive, EndRelocate, Reindex, Tick, Move, packVars,
         relVars, RInv, Rooted
<1>2. build' # "off" => IsPath(draft'.root)
  <2>1. CASE StartBuild
    <3>1. draft' = [of |-> corpus, hash |-> corpus, stamp |-> clock, root |-> at]
      BY <2>1 DEF StartBuild
    <3>2. draft'.root = at
      BY ONLY <3>1
    <3> QED  BY <3>2, PathsAre DEF RInv, Rooted
  <2>2. CASE HashIndex
    <3>1. build # "off" /\ draft' = [[draft EXCEPT !.hash = corpus] EXCEPT !.stamp = clock]
      BY <2>2 DEF HashIndex
    <3>2. IsPart(draft, clock)
      BY <3>1 DEF IInv, Shapes
    <3>3. draft'.root = draft.root
      BY ONLY <3>1, <3>2 DEF IsPart
    <3> QED  BY <3>1, <3>3 DEF RInv, Rooted
  <2>3. CASE UNCHANGED <<build, draft>>
    BY <2>3 DEF RInv, Rooted
  <2> QED
    BY <2>1, <2>2, <2>3 DEF StartDerive, EndRelocate, Reindex, Tick, Move, packVars, buildVars
<1>3. Rooted'
  BY <1>1, <1>2 DEF RInv, Rooted, Loads
<1>4. CASE UNCHANGED rel
  <2>1. UNCHANGED <<pack, target, olds, unvisited, rel>>
    BY <1>1, <1>4
  <2> QED  BY <1>3, <2>1, RepairingKept DEF RInv
<1>5. CASE rel' = "off"
  BY <1>1, <1>3, <1>5, PathsKept DEF RInv, Repairing
<1> QED
  BY <1>4, <1>5 DEF StartBuild, HashIndex, StartDerive, EndRelocate, Reindex, Tick, Move,
                    packVars, relVars

LEMMA DerivePaths == ASSUME IInv, RInv, EndDerive PROVE RInv'
<1>1. /\ UNCHANGED <<at, build, draft, rel, target, olds, unvisited>> /\ rel = "off"
      /\ making.name \in Derived
  BY DEF EndDerive, relVars, buildVars, IInv, Alone, Shapes
<1>2. IsText(TextIn(making.name, at))
  BY PathsAre, WrittenIsText DEF RInv, Rooted
<1>3. \A f \in Files : Loads(f)' => IsText(pack'[f].root)
  <2>1. CASE pack' = pack
    BY <2>1 DEF RInv, Rooted, Loads
  <2>2. CASE pack' # pack
    <3> PICK new : new = [of |-> making.of, hash |-> making.of, root |-> TextIn(making.name, at),
                          stamp |-> IF making.name = "atlas" THEN making.stamp ELSE clock]
      OBVIOUS
    <3>1. pack' = [pack EXCEPT ![making.name] = new] /\ new.root = TextIn(making.name, at)
      BY <2>2 DEF EndDerive
    <3>2. \A f \in Files : pack'[f] = IF f = making.name THEN new ELSE pack[f]
      BY <3>1, <1>1 DEF IInv, Shapes
    <3> QED  BY <1>2, <3>1, <3>2 DEF RInv, Rooted, Loads
  <2> QED  BY <2>1, <2>2
<1>4. Rooted'
  BY <1>1, <1>3 DEF RInv, Rooted
<1> QED  BY <1>1, <1>4, PathsKept DEF RInv, Repairing

LEMMA KillPaths == ASSUME IInv, RInv, Kill PROVE RInv'
<1>1. /\ UNCHANGED <<at, draft, target, olds, unvisited>>
      /\ build' = build \/ build' = "off"
      /\ rel' = rel \/ rel' = "off"
      /\ build # "off" \/ making # Missing \/ rel # "off"
      /\ rel' # "off" => build # "off" \/ making # Missing
  BY DEF Kill
<1>2. rel' = "off"
  BY <1>1 DEF IInv, Alone
<1>3. \A f \in Files : Loads(f)' => Loads(f) /\ pack'[f] = pack[f]
  <2>1. CASE pack' = pack
    BY <2>1 DEF Loads
  <2>2. ASSUME NEW f \in TextFiles, pack' = [pack EXCEPT ![f] = Broken]
        PROVE  \A g \in Files : Loads(g)' => Loads(g) /\ pack'[g] = pack[g]
    BY <2>2 DEF Loads, IInv, Shapes
  <2> QED  BY <2>1, <2>2 DEF Kill
<1>4. Rooted'
  BY <1>1, <1>3 DEF RInv, Rooted
<1> QED  BY <1>1, <1>2, <1>4, PathsKept DEF RInv, Repairing

LEMMA PathsStayKnown == PackSpec => []RInv
<1>1. ASSUME IInv, RInv, [PackNext]_packVars PROVE RInv'
  <2>1. ASSUME NEW new \in Paths, NEW given \in Seq(Seq(Segments)), StartRelocate(new, given)
        PROVE  RInv'
    BY <1>1, <2>1, RelocationStarts, PathsAre
  <2>2. CASE Repair
    <3>1. <<>> \in Seq(Seq(Segments)) /\ at \in Paths
      BY <1>1 DEF RInv, Rooted
    <3> QED  BY <2>1, <2>2, <3>1 DEF Repair
  <2>3. CASE RelocateOnRequest
    <3>1. at \in Paths /\ \A p \in Paths \cup Given : <<p>> \in Seq(Seq(Segments))
      BY <1>1, PathsAre DEF RInv, Rooted, IsPath
    <3> QED  BY <2>1, <2>3, <3>1 DEF RelocateOnRequest
  <2> QED
    BY <1>1, <2>2, <2>3, RelocationRewrites, RelocationEnds, BuildWritesPaths, OtherPaths,
       DerivePaths, KillPaths
       DEF PackNext, BuildStep, RelocateStep
<1> QED  BY RInvInit, Invariance, <1>1, PTL DEF PackSpec

(* A path that begins another one, and a path in characters that are not    *)
(* looked for, are the only causes of a relocation that does not repair:    *)
(* whatever was built, copied, killed or half repaired before, and whatever *)
(* paths the user gives, relocate_pack run to its end over independent paths*)
(* leaves every whole file with the new path, but for those that have a     *)
(* replaced one escaped or in another case.                                 *)
THEOREM IndependentRelocationRepairs == PackSpec => []IndependentAreRepaired
  BY PathsStayKnown, PTL DEF RInv, Repairing

-----------------------------------------------------------------------------
(* The types.                                                               *)

Versions == 1..MaxIndexes

Versioned ==
    /\ corpus \in Versions
    /\ \A f \in Files : Loads(f) => pack[f].of \in Versions /\ pack[f].hash \in Versions
    /\ build # "off" => draft.of \in Versions /\ draft.hash \in Versions
    /\ making # Missing => making.of \in Versions

Places ==
    /\ clock \in 0..MaxClock
    /\ build \in {"off", "prepare", "unlink", "hash", "import", "rows", "manifest"}
    /\ rel \in {"off", "rewrite", "done"}

Histories == raced \in BOOLEAN /\ overlapped \in BOOLEAN

LEMMA TypesInitially == PackInit => Versioned /\ Places /\ Histories
<1> SUFFICES ASSUME PackInit PROVE Versioned /\ Places /\ Histories
  OBVIOUS
<1>1. 1 \in Versions /\ 0 \in 0..MaxClock
  BY KernelPackAssumption DEF Versions
<1>2. Versioned
  BY <1>1 DEF PackInit, Versioned, Loads
<1>3. Places
  BY <1>1 DEF PackInit, Places
<1> QED  BY <1>2, <1>3 DEF PackInit, Histories

(* A file that a step writes has the version of what was there, of what the *)
(* build read or of what the reader read.                                   *)
LEMMA FilesVersioned ==
    ASSUME IInv, Versioned, [PackNext]_packVars, NEW f \in Files, Loads(f)'
    PROVE  pack'[f].of \in Versions /\ pack'[f].hash \in Versions
<1> DEFINE Ok(r) == r.of \in Versions /\ r.hash \in Versions
<1>1. Loads(f) => Ok(pack[f])
  BY DEF Versioned
<1>2. pack = [g \in Files |-> pack[g]]
  BY DEF IInv, Shapes
<1>3. CASE UNCHANGED pack
  BY <1>1, <1>3 DEF Loads
<1>4. CASE Prepare
  <2>1. pack' \in {pack, [pack EXCEPT !.sqlite = Missing], [pack EXCEPT !.manifest = Missing]}
    BY <1>4 DEF Prepare
  <2> QED  BY <1>1, <1>2, <2>1 DEF Loads
<1>5. CASE WriteDatabase \/ WritePackManifest
  <2> PICK manifest : manifest = [draft EXCEPT !.root = TextIn("manifest", @)]
    OBVIOUS
  <2>1. /\ pack' \in {[pack EXCEPT !.sqlite = Broken], [pack EXCEPT !.sqlite = draft],
                      [pack EXCEPT !.manifest = manifest]}
        /\ build # "off"
    BY <1>5 DEF WriteDatabase, WritePackManifest
  <2>2. Ok(draft) /\ Ok(manifest)
    <3>1. IsPart(draft, clock) /\ Ok(draft)
      BY <2>1 DEF Versioned, IInv, Shapes
    <3>2. manifest.of = draft.of /\ manifest.hash = draft.hash
      BY <3>1, RootOnly
    <3> QED  BY <3>1, <3>2
  <2> QED  BY <1>1, <1>2, <2>1, <2>2 DEF Loads
<1>6. CASE EndDerive
  <2>1. CASE pack' # pack
    <3> PICK new : new = [of |-> making.of, hash |-> making.of, root |-> TextIn(making.name, at),
                          stamp |-> IF making.name = "atlas" THEN making.stamp ELSE clock]
      OBVIOUS
    <3>1. pack' = [pack EXCEPT ![making.name] = new] /\ making # Missing
          /\ new.of = making.of /\ new.hash = making.of
      BY <1>6, <2>1 DEF EndDerive
    <3>2. Ok(new)
      BY <3>1 DEF Versioned
    <3>3. pack'[f] \in {pack[f], new}
      BY <1>2, <3>1
    <3> QED  BY <1>1, <3>2, <3>3 DEF Loads
  <2> QED  BY <1>1, <2>1 DEF Loads
<1>7. ASSUME NEW g \in Files, NEW path, Loads(g), pack' = [pack EXCEPT ![g].root = path]
      PROVE  Ok(pack'[f])
  <2>1. IsPart(pack[g], clock)
    BY <1>7 DEF IInv, Shapes
  <2>2. pack'[f] = IF f = g THEN [pack[g] EXCEPT !.root = path] ELSE pack[f]
    BY <1>2, <1>7
  <2>3. [pack[g] EXCEPT !.root = path].of = pack[g].of /\ [pack[g] EXCEPT !.root = path].hash = pack[g].hash
    BY <2>1, RootOnly
  <2>4. Loads(f)
    BY <1>7, <2>2 DEF Loads
  <2>5. CASE f = g
    BY <1>1, <2>2, <2>3, <2>4, <2>5
  <2>6. CASE f # g
    BY <1>1, <2>2, <2>4, <2>6
  <2> QED  BY <2>5, <2>6
<1>8. ASSUME NEW g \in TextFiles, Rewrite(g) PROVE Ok(pack'[f])
  BY <1>3, <1>7, <1>8 DEF Rewrite, Files
<1>9. CASE CommitRows
  BY <1>3, <1>7, <1>9 DEF CommitRows, Files
<1>10. CASE Kill
  <2>1. pack' = pack \/ \E g \in TextFiles : pack' = [pack EXCEPT ![g] = Broken]
    BY <1>10 DEF Kill
  <2> QED  BY <1>1, <1>2, <2>1 DEF Loads
<1>11. CASE \/ StartBuild \/ HashIndex \/ Repair \/ RelocateOnRequest \/ EndRelocate \/ Reindex \/ Tick
            \/ (\E g \in Derived : StartDerive(g)) \/ (\E new \in Paths : Move(new))
            \/ UNCHANGED packVars
  BY <1>3, <1>11
     DEF StartBuild, HashIndex, Repair, RelocateOnRequest, StartRelocate, EndRelocate, Reindex,
         Tick, StartDerive, Move, packVars
<1> QED
  BY <1>4, <1>5, <1>6, <1>8, <1>9, <1>10, <1>11 DEF PackNext, BuildStep, RelocateStep

LEMMA VersionsStep == IInv /\ Versioned /\ [PackNext]_packVars => Versioned'
<1> SUFFICES ASSUME IInv, Versioned, [PackNext]_packVars PROVE Versioned'
  OBVIOUS
<1>1. corpus' \in Versions
  <2>1. corpus' = corpus \/ (corpus < MaxIndexes /\ corpus' = corpus + 1)
    <3>1. corpus' = corpus \/ Reindex
      BY DEF PackNext, StartBuild, BuildStep, Prepare, HashIndex, WriteDatabase, EndDerive, Repair,
             WritePackManifest, RelocateOnRequest, StartRelocate, RelocateStep, Rewrite, CommitRows,
             EndRelocate, Tick, StartDerive, Move, Kill, packVars
    <3> QED  BY <3>1 DEF Reindex
  <2>2. corpus \in 1..MaxIndexes /\ MaxIndexes \in Nat
    BY KernelPackAssumption DEF Versioned, Versions
  <2> QED  BY ONLY <2>1, <2>2 DEF Versions
<1>2. build' # "off" => draft'.of \in Versions /\ draft'.hash \in Versions
  <2>1. CASE StartBuild
    <3>1. draft' = [of |-> corpus, hash |-> corpus, stamp |-> clock, root |-> at]
      BY <2>1 DEF StartBuild
    <3>2. draft'.of = corpus /\ draft'.hash = corpus
      BY ONLY <3>1
    <3> QED  BY <3>2 DEF Versioned
  <2>2. CASE HashIndex
    <3>1. build # "off" /\ draft' = [[draft EXCEPT !.hash = corpus] EXCEPT !.stamp = clock]
      BY <2>2 DEF HashIndex
    <3>2. IsPart(draft, clock)
      BY <3>1 DEF IInv, Shapes
    <3>3. draft'.of = draft.of /\ draft'.hash = corpus
      BY ONLY <3>1, <3>2 DEF IsPart
    <3> QED  BY <3>1, <3>3 DEF Versioned
  <2>3. CASE draft' = draft /\ (build' # "off" => build # "off")
    BY <2>3 DEF Versioned
  <2> QED
    BY <2>1, <2>2, <2>3
       DEF PackNext, BuildStep, Prepare, WriteDatabase, WritePackManifest, EndDerive, Repair,
           RelocateOnRequest, StartRelocate, RelocateStep, Rewrite, CommitRows, EndRelocate,
           Reindex, Tick, StartDerive, Move, Kill, packVars, buildVars
<1>3. making' # Missing => making'.of \in Versions
  <2>1. ASSUME NEW g \in Derived, StartDerive(g) PROVE making'.of \in Versions
    <3>1. making' = [name |-> g, of |-> pack["sqlite"].of, stamp |-> clock] /\ Loads("sqlite")
      BY <2>1 DEF StartDerive
    <3>2. making'.of = pack["sqlite"].of
      BY ONLY <3>1
    <3> QED  BY <3>1, <3>2 DEF Versioned, Files
  <2>2. CASE making' \in {making, Missing}
    BY <2>2 DEF Versioned
  <2> QED
    BY <2>1, <2>2
       DEF PackNext, StartBuild, BuildStep, Prepare, HashIndex, WriteDatabase, WritePackManifest,
           EndDerive, Repair, RelocateOnRequest, StartRelocate, RelocateStep, Rewrite, CommitRows,
           EndRelocate, Reindex, Tick, Move, Kill, packVars
<1> QED  BY <1>1, <1>2, <1>3, FilesVersioned DEF Versioned

LEMMA PlacesStep == Places /\ [PackNext]_packVars => Places'
<1> SUFFICES ASSUME Places, [PackNext]_packVars PROVE Places'
  OBVIOUS
<1>1. clock' \in 0..MaxClock
  <2>1. clock' = clock \/ (clock < MaxClock /\ clock' = clock + 1)
    <3>1. clock' = clock \/ Tick
      BY DEF PackNext, StartBuild, BuildStep, Prepare, HashIndex, WriteDatabase, EndDerive, Repair,
             WritePackManifest, RelocateOnRequest, StartRelocate, RelocateStep, Rewrite, CommitRows,
             EndRelocate, Reindex, StartDerive, Move, Kill, packVars
    <3> QED  BY <3>1 DEF Tick
  <2>2. clock \in 0..MaxClock /\ MaxClock \in Nat
    BY KernelPackAssumption DEF Places
  <2> QED  BY ONLY <2>1, <2>2
<1>2. /\ build' \in {build, "off", "prepare", "unlink", "hash", "import", "rows", "manifest"}
      /\ rel' \in {rel, "off", "rewrite", "done"}
  BY DEF PackNext, StartBuild, BuildStep, Prepare, HashIndex, WriteDatabase, WritePackManifest,
         EndDerive, Repair, RelocateOnRequest, StartRelocate, RelocateStep, Rewrite, CommitRows,
         EndRelocate, Reindex, Tick, StartDerive, Move, Kill, packVars, buildVars, relVars
<1> QED  BY <1>1, <1>2 DEF Places

LEMMA HistoriesStep == Histories /\ [PackNext]_packVars => Histories'
<1> SUFFICES ASSUME Histories, [PackNext]_packVars PROVE Histories'
  OBVIOUS
<1>1. raced' \in {raced, TRUE, FALSE} /\ overlapped' \in {overlapped, TRUE, FALSE}
  BY Zenon
     DEF Histories, PackNext, StartBuild, BuildStep, Prepare, HashIndex, WriteDatabase,
         WritePackManifest, EndDerive, Repair, RelocateOnRequest, StartRelocate, RelocateStep,
         Rewrite, CommitRows, EndRelocate, Reindex, Tick, StartDerive, Move, Kill, packVars, history
<1> QED  BY <1>1 DEF Histories

(* Files are of versions and seconds there were, a build leaves missing what*)
(* it has removed until it is written, and a relocation is alone.           *)
THEOREM PackTypeCorrect == PackSpec => []PackTypeOK
<1>1. IInv /\ RInv /\ Versioned /\ Places /\ Histories => PackTypeOK
  <2> SUFFICES ASSUME IInv, RInv, Versioned, Places, Histories PROVE PackTypeOK
    OBVIOUS
  <2>1. \A f \in Files : Loads(f) => pack[f].stamp \in 0..clock
    <3> SUFFICES ASSUME NEW f \in Files, Loads(f) PROVE pack[f].stamp \in 0..clock
      OBVIOUS
    <3>1. pack[f].stamp \in Nat /\ pack[f].stamp <= clock /\ clock \in Nat
      BY DEF IInv, Shapes, IsPart
    <3> QED  BY ONLY <3>1
  <2>2. {raced, overlapped} \subseteq BOOLEAN
    BY DEF Histories
  <2> QED
    BY <2>1, <2>2
       DEF PackTypeOK, IInv, Alone, Cleared, RInv, Rooted, Repairing, Versioned, Versions, Places
<1>2. PackInit => Versioned /\ Places /\ Histories
  BY TypesInitially
<1>3. IInv /\ Versioned /\ Places /\ Histories /\ [PackNext]_packVars
         => Versioned' /\ Places' /\ Histories'
  BY VersionsStep, PlacesStep, HistoriesStep
<1>4. PackSpec => []RInv
  BY PathsStayKnown
<1> QED  BY Invariance, <1>1, <1>2, <1>3, <1>4, PTL DEF PackSpec
=============================================================================
