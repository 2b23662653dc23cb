--------------------------- MODULE ForgeFile_proofs ---------------------------
(***************************************************************************)
(* What readers find in a .forge file and what a write makes of it, for any *)
(* functions and texts and any file: cited where its writers are proved     *)
(* about, the plug-in and the batch script over one file (AsyncRunner_      *)
(* proofs) and the runs of the command line (IdaBatch_proofs).              *)
(*                                                                          *)
(* The argument goes over the shapes a file can have: whole sections        *)
(* (Intact), a prefix of such a file (TornForGood: what a dead writer       *)
(* leaves) and a file with one torn section, which later sections of its EA *)
(* close again (OneTorn).  Upsert builds its result with FlattenSeq, a      *)
(* recursive function: the first lemmas say what it returns.                *)
(***************************************************************************)
EXTENDS ForgeFile, WellFoundedInduction, TLAPS

LEMMA MinOf ==
    ASSUME NEW S, S \subseteq Nat, S # {}
    PROVE  Min(S) \in S /\ \A y \in S : Min(S) <= y
<1>1. PICK f \in S : \A g \in S : ~(<<g, f>> \in OpToRel(<, Nat))
  BY NatLessThanWellFounded, WFMin
<1>2. ASSUME NEW g \in S PROVE f <= g
  <2>1. f \in Nat /\ g \in Nat
    OBVIOUS
  <2>2. ~(g < f)
    BY <1>1, <2>1 DEF OpToRel
  <2> QED
    BY <2>1, <2>2
<1> QED
  BY <1>2 DEF Min

LEMMA MinIs ==
    ASSUME NEW S, S \subseteq Nat, NEW m \in S, \A y \in S : m <= y
    PROVE  Min(S) = m
<1>1. Min(S) \in S /\ \A y \in S : Min(S) <= y
  BY MinOf
<1>2. Min(S) \in Nat /\ m \in Nat /\ Min(S) <= m /\ m <= Min(S)
  BY <1>1
<1> QED
  BY <1>2

(* A set that has 1, and with each number below n the next one, has all the *)
(* numbers up to n.                                                         *)
LEMMA UpTo ==
    ASSUME NEW n \in Nat, NEW S, n > 0 => 1 \in S, \A i \in S : i \in 1..n /\ i < n => i + 1 \in S
    PROVE  1..n \subseteq S
<1> PICK T : T = (1..n) \ S
  OBVIOUS
<1> SUFFICES ASSUME T # {} PROVE FALSE
  OBVIOUS
<1>1. Min(T) \in T /\ \A j \in T : Min(T) <= j
  BY MinOf
<1>2. PICK i \in T : \A j \in T : i <= j
  BY <1>1
<1>3. i \in 1..n /\ i \notin S /\ i # 1
  BY <1>2
<1>4. i - 1 \in T
  <2>1. i - 1 \in 1..n /\ i - 1 < n /\ (i - 1) + 1 = i
    BY <1>3
  <2> QED
    BY <1>3, <2>1
<1> QED
  BY <1>2, <1>3, <1>4

-----------------------------------------------------------------------------
(* Where the matches start.                                                 *)

Closed(f) == {i \in 1..Len(f) : f[i].kind = "begin" /\ Ends(f, i) # {}}

(* A file with which every END goes with the two lines before it, and every *)
(* text with the BEGIN before it: all that writers leave, dead ones too.    *)
Tidy(f) ==
    \A k \in 1..Len(f) :
        \/ f[k].kind = "begin"
        \/ f[k].kind = "text" /\ k > 1 /\ f[k - 1].kind = "begin"
        \/ f[k].kind = "end" /\ k > 2 /\ Whole(f, k - 2)

Torn(f) == {k \in 1..Len(f) : f[k].kind = "begin" /\ ~Whole(f, k)}
Wholes(f) == {k \in 1..Len(f) : Whole(f, k)}

LEMMA EndsAre ==
    ASSUME NEW f \in Seq(Lines), NEW i \in 1..Len(f)
    PROVE  /\ Ends(f, i) \subseteq Nat
           /\ \A j \in Ends(f, i) : j \in 1..Len(f) /\ j > i /\ f[j].kind = "end" /\ f[j].of = f[i].of
           /\ \A j \in 1..Len(f) : j > i /\ f[j] = End(f[i].of) => j \in Ends(f, i)
BY DEF Ends, End

LEMMA ClosedAre ==
    ASSUME NEW f \in Seq(Lines)
    PROVE  /\ Closed(f) \subseteq 1..Len(f)
           /\ \A i \in 1..Len(f) : i \in Closed(f) <=> f[i].kind = "begin" /\ Ends(f, i) # {}
           /\ \A i \in Closed(f) : Min(Ends(f, i)) \in 1..Len(f) /\ Min(Ends(f, i)) > i
<1>1. ASSUME NEW i \in Closed(f) PROVE Min(Ends(f, i)) \in 1..Len(f) /\ Min(Ends(f, i)) > i
  <2>1. i \in 1..Len(f) /\ Ends(f, i) # {}
    BY DEF Closed
  <2>2. Ends(f, i) \subseteq Nat /\ \A j \in Ends(f, i) : j \in 1..Len(f) /\ j > i
    BY <2>1, EndsAre
  <2> QED
    BY <2>1, <2>2, MinOf
<1> QED
  BY <1>1 DEF Closed

(* What Starts finds from line i on, when g is what it finds further down.  *)
Taken(f, g, i) ==
    IF i > Len(f) THEN {}
    ELSE IF f[i].kind = "begin" /\ Ends(f, i) # {} THEN {i} \cup g[Min(Ends(f, i)) + 1]
    ELSE g[i + 1]

(* The recursive function in Starts exists.                                 *)
LEMMA StartsFrom ==
    ASSUME NEW f \in Seq(Lines)
    PROVE  \E g : Starts(f) = g[1] /\ \A i \in 1..(Len(f) + 1) : g[i] = Taken(f, g, i)
<1> PICK n \in Nat : n = Len(f)
  OBVIOUS
<1> DEFINE From(g) == [i \in 1..(Len(f) + 1) |-> Taken(f, g, i)]
<1>1. /\ Closed(f) \subseteq 1..n
      /\ \A i \in 1..n : i \in Closed(f) <=> f[i].kind = "begin" /\ Ends(f, i) # {}
      /\ \A i \in Closed(f) : Min(Ends(f, i)) \in 1..n /\ Min(Ends(f, i)) > i
  BY ClosedAre
<1>2. \E g : g = From(g)
  <2> DEFINE B(m) == \E g \in [1..(n + 1) -> SUBSET Nat] : \A i \in m..(n + 1) : g[i] = Taken(f, g, i)
             A == {j \in Nat : B(n + 2 - j)}
  <2>1. 1 \in A
    <3>1. PICK g : g = [i \in 1..(n + 1) |-> {}]
      OBVIOUS
    <3>2. g \in [1..(n + 1) -> SUBSET Nat] /\ \A i \in (n + 1)..(n + 1) : g[i] = Taken(f, g, i)
      BY <3>1 DEF Taken
    <3>3. B(n + 1)
      BY <3>2
    <3>4. n + 2 - 1 = n + 1
      OBVIOUS
    <3> HIDE DEF B
    <3> QED
      BY <3>3, <3>4
  <2>2. ASSUME NEW j \in A, j \in 1..(n + 1), j < n + 1 PROVE j + 1 \in A
    <3>1. PICK m \in 1..n : m = n + 1 - j
      <4> HIDE DEF A
      <4>1. n + 1 - j \in 1..n
        BY <2>2
      <4> QED
        BY <4>1
    <3>2. n + 2 - j = m + 1 /\ n + 2 - (j + 1) = m
      BY <3>1
    <3>3. B(m + 1)
      <4> HIDE DEF B
      <4> QED
        BY <3>2
    <3>4. PICK g \in [1..(n + 1) -> SUBSET Nat] : \A i \in (m + 1)..(n + 1) : g[i] = Taken(f, g, i)
      BY <3>3
    <3>5. PICK k : k = [g EXCEPT ![m] = Taken(f, g, m)]
      OBVIOUS
    <3>6. \A i \in (m + 1)..(n + 1) : i \in 1..(n + 1) /\ k[i] = g[i]
      BY <3>5
    <3>7. \A i \in m..n : i + 1 \in (m + 1)..(n + 1) /\ (i \in Closed(f) => Min(Ends(f, i)) + 1 \in (m + 1)..(n + 1))
      BY <1>1
    <3>8. ASSUME NEW i \in m..(n + 1) PROVE Taken(f, k, i) = Taken(f, g, i)
      <4>1. CASE i > Len(f)
        BY <4>1 DEF Taken
      <4>2. CASE ~(i > Len(f))
        <5>1. i \in m..n /\ i \in 1..n
          BY <4>2
        <5>2. k[i + 1] = g[i + 1] /\ (i \in Closed(f) => k[Min(Ends(f, i)) + 1] = g[Min(Ends(f, i)) + 1])
          BY <3>6, <3>7, <5>1
        <5> QED
          BY <1>1, <4>2, <5>1, <5>2 DEF Taken
      <4> QED
        BY <4>1, <4>2
    <3>9. k \in [1..(n + 1) -> SUBSET Nat] /\ k[m] = Taken(f, g, m)
      <4>1. Taken(f, g, m) \in SUBSET Nat
        <5>1. m + 1 \in 1..(n + 1) /\ (m \in Closed(f) => Min(Ends(f, m)) + 1 \in 1..(n + 1)) /\ m <= n
          BY <1>1, <3>7
        <5>2. g[m + 1] \in SUBSET Nat /\ {m} \subseteq Nat
          BY <5>1
        <5>3. m \in Closed(f) => g[Min(Ends(f, m)) + 1] \in SUBSET Nat
          BY <5>1
        <5>4. f[m].kind = "begin" /\ Ends(f, m) # {} => m \in Closed(f)
          BY <1>1
        <5> QED
          BY ONLY <5>2, <5>3, <5>4 DEF Taken
      <4>2. m \in 1..(n + 1)
        OBVIOUS
      <4> QED
        BY <3>5, <4>1, <4>2
    <3>10. \A i \in m..(n + 1) : k[i] = Taken(f, k, i)
      <4>1. \A i \in m..(n + 1) : i = m \/ i \in (m + 1)..(n + 1)
        OBVIOUS
      <4> QED
        BY <3>4, <3>6, <3>8, <3>9, <4>1
    <3>11. B(m)
      <4> QED
        BY <3>9, <3>10
    <3> HIDE DEF B
    <3> QED
      BY <3>2, <3>11
  <2>3. n + 1 \in A
    <3> HIDE DEF A
    <3> QED
      BY <2>1, <2>2, UpTo
  <2>4. B(1)
    <3>1. n + 2 - (n + 1) = 1
      OBVIOUS
    <3> HIDE DEF B
    <3> QED
      BY <2>3, <3>1
  <2>5. PICK g \in [1..(n + 1) -> SUBSET Nat] : \A i \in 1..(n + 1) : g[i] = Taken(f, g, i)
    BY <2>4
  <2>6. g = From(g)
    <3> QED
      BY <2>5
  <2> QED
    BY <2>6
<1>3. Starts(f) = (CHOOSE g : g = From(g))[1]
  BY DEF Starts, Taken
<1>4. PICK g : g = From(g) /\ Starts(f) = g[1]
  <2> HIDE DEF From
  <2> QED
    BY <1>2, <1>3
<1>5. \A i \in 1..(n + 1) : g[i] = Taken(f, g, i)
  <2>1. g = [i \in 1..(n + 1) |-> Taken(f, g, i)]
    BY <1>4
  <2> QED
    BY <2>1, Zenon
<1> QED
  BY <1>4, <1>5

(* What it finds from the left: the matches of S.                           *)
LEMMA StartsAre ==
    ASSUME NEW f \in Seq(Lines), NEW S \in SUBSET Closed(f),
           \A i \in Closed(f) : i \in S <=> \A h \in S : h < i => Min(Ends(f, h)) < i
    PROVE  Starts(f) = S
<1> PICK n \in Nat : n = Len(f)
  OBVIOUS
<1> DEFINE Free(i) == \A h \in S : h < i => Min(Ends(f, h)) < i
<1>1. /\ Closed(f) \subseteq 1..n /\ S \subseteq Closed(f)
      /\ \A i \in 1..n : i \in Closed(f) <=> f[i].kind = "begin" /\ Ends(f, i) # {}
      /\ \A i \in Closed(f) : Min(Ends(f, i)) \in 1..n /\ Min(Ends(f, i)) > i
  BY ClosedAre
<1>4. PICK g : Starts(f) = g[1] /\ \A i \in 1..(n + 1) : g[i] = Taken(f, g, i)
  BY StartsFrom
<1>5. \A i \in 1..(n + 1) : g[i] = IF i > Len(f) THEN {}
                         ELSE IF f[i].kind = "begin" /\ Ends(f, i) # {} THEN {i} \cup g[Min(Ends(f, i)) + 1]
                         ELSE g[i + 1]
  BY <1>4, Zenon DEF Taken
<1>6. ASSUME NEW i \in 1..n, Free(i),
             \A k \in (i + 1)..(n + 1) : Free(k) => g[k] = {s \in S : s >= k}
      PROVE  g[i] = {s \in S : s >= i}
  <2>1. i \in 1..(n + 1) /\ ~(i > Len(f))
    OBVIOUS
  <2>2. CASE i \in Closed(f)
    <3>1. i \in S
      BY <1>6, <2>2
    <3>2. PICK m \in 1..n : m = Min(Ends(f, i)) /\ m > i
      BY <1>1, <2>2
    <3>3. \A s \in S : s > i => s > m
      BY <1>1, <3>1, <3>2
    <3>4. Free(m + 1)
      <4> SUFFICES ASSUME NEW h \in S, h < m + 1 PROVE Min(Ends(f, h)) < m + 1
        OBVIOUS
      <4>1. h \in 1..n /\ Min(Ends(f, h)) \in 1..n
        BY <1>1
      <4>2. h <= i
        BY <3>3, <4>1
      <4>3. h < i => Min(Ends(f, h)) < i
        BY <1>6
      <4>4. CASE h = i
        BY <3>2, <4>4
      <4>5. CASE h < i
        BY <3>2, <4>1, <4>3, <4>5
      <4> QED
        BY <4>1, <4>2, <4>4, <4>5
    <3>5. g[m + 1] = {s \in S : s >= m + 1}
      BY <1>6, <3>2, <3>4
    <3>6. g[i] = {i} \cup g[m + 1]
      BY <1>1, <1>5, <2>1, <2>2, <3>2
    <3>7. \A s \in S : s >= i <=> s = i \/ s >= m + 1
      <4>1. \A s \in S : s \in 1..n
        BY <1>1
      <4> QED
        BY <3>2, <3>3, <4>1
    <3>8. {s \in S : s >= i} = {i} \cup {s \in S : s >= m + 1}
      BY <3>1, <3>7
    <3> QED
      BY <3>5, <3>6, <3>8, Zenon
  <2>3. CASE i \notin Closed(f)
    <3>1. i \notin S /\ \A s \in S : s \in 1..n /\ Min(Ends(f, s)) \in 1..n
      BY <1>1, <2>3
    <3>2. Free(i + 1)
      BY <1>6, <3>1
    <3>3. g[i + 1] = {s \in S : s >= i + 1}
      BY <1>6, <3>2
    <3>4. g[i] = g[i + 1]
      BY <1>1, <1>5, <2>1, <2>3
    <3> QED
      BY <3>1, <3>3, <3>4
  <2> QED
    BY <2>2, <2>3
<1>7. g[n + 1] = {s \in S : s >= n + 1}
  <2>1. n + 1 \in 1..(n + 1) /\ n + 1 > Len(f) /\ \A s \in S : s \in 1..n
    BY <1>1
  <2>2. g[n + 1] = {}
    BY <1>5, <2>1
  <2> QED
    BY <2>1, <2>2
<1>8. 1..(n + 1) \subseteq {j \in Nat : \A k \in (n + 2 - j)..(n + 1) : Free(k) => g[k] = {s \in S : s >= k}}
  <2> DEFINE A == {j \in Nat : \A k \in (n + 2 - j)..(n + 1) : Free(k) => g[k] = {s \in S : s >= k}}
  <2>1. 1 \in A
    <3>1. \A k \in (n + 2 - 1)..(n + 1) : k = n + 1
      OBVIOUS
    <3> HIDE DEF Free
    <3> QED
      BY <1>7, <3>1
  <2>2. ASSUME NEW j \in A, j \in 1..(n + 1), j < n + 1 PROVE j + 1 \in A
    <3>1. PICK i \in 1..n : i = n + 1 - j
      <4> HIDE DEF A
      <4>1. n + 1 - j \in 1..n
        BY <2>2
      <4> QED
        BY <4>1
    <3>2. n + 2 - j = i + 1 /\ n + 2 - (j + 1) = i /\ j + 1 \in Nat
      BY <3>1
    <3>3. \A k \in (i + 1)..(n + 1) : Free(k) => g[k] = {s \in S : s >= k}
      BY <3>2
    <3>4. \A k \in i..(n + 1) : k = i \/ k \in (i + 1)..(n + 1)
      OBVIOUS
    <3> HIDE DEF Free
    <3>5. \A k \in i..(n + 1) : Free(k) => g[k] = {s \in S : s >= k}
      BY <1>6, <3>3, <3>4
    <3> QED
      BY <3>2, <3>5
  <2> HIDE DEF A
  <2>3. 1..(n + 1) \subseteq A
    BY <2>1, <2>2, UpTo
  <2> QED
    BY <2>3 DEF A
<1>9. g[1] = S
  <2>1. n + 1 \in 1..(n + 1) /\ 1 \in (n + 2 - (n + 1))..(n + 1)
    OBVIOUS
  <2>2. Free(1) /\ \A s \in S : s >= 1
    BY <1>1
  <2> HIDE DEF Free
  <2>3. g[1] = {s \in S : s >= 1}
    BY <1>8, <2>1, <2>2
  <2> QED
    BY <2>2, <2>3
<1> QED
  BY <1>4, <1>9

(* A section that is found starts at a BEGIN.                               *)
LEMMA StartsBegin == ASSUME NEW f \in Seq(Lines) PROVE Starts(f) \subseteq Closed(f)
<1> PICK n \in Nat : n = Len(f)
  OBVIOUS
<1>1. /\ Closed(f) \subseteq 1..n
      /\ \A i \in 1..n : i \in Closed(f) <=> f[i].kind = "begin" /\ Ends(f, i) # {}
      /\ \A i \in Closed(f) : Min(Ends(f, i)) \in 1..n /\ Min(Ends(f, i)) > i
  BY ClosedAre
<1>2. PICK g : Starts(f) = g[1] /\ \A i \in 1..(n + 1) : g[i] = Taken(f, g, i)
  BY StartsFrom
<1> PICK A : A = {j \in Nat : \A k \in (n + 2 - j)..(n + 1) : g[k] \subseteq Closed(f)}
  OBVIOUS
<1>3. 1 \in A
  <2>1. \A k \in (n + 2 - 1)..(n + 1) : k = n + 1 /\ k \in 1..(n + 1) /\ k > Len(f)
    OBVIOUS
  <2> QED
    BY <1>2, <2>1 DEF Taken
<1>4. ASSUME NEW j \in A, j \in 1..(n + 1), j < n + 1 PROVE j + 1 \in A
  <2>1. PICK i \in 1..n : i = n + 1 - j
    <3>1. n + 1 - j \in 1..n
      <4>1. j \in Int /\ n \in Int /\ 1 <= j /\ j < n + 1
        BY <1>4
      <4> QED
        BY <4>1
    <3> QED
      BY <3>1
  <2>2. n + 2 - j = i + 1 /\ n + 2 - (j + 1) = i /\ j + 1 \in Nat
    BY <2>1
  <2>3. \A k \in (i + 1)..(n + 1) : g[k] \subseteq Closed(f)
    BY <2>2
  <2>4. i \in 1..(n + 1) /\ ~(i > Len(f)) /\ i + 1 \in (i + 1)..(n + 1)
    OBVIOUS
  <2>5. i \in Closed(f) => Min(Ends(f, i)) + 1 \in (i + 1)..(n + 1)
    BY <1>1
  <2>6. g[i] \subseteq Closed(f)
    <3>1. g[i] = Taken(f, g, i) /\ g[i + 1] \subseteq Closed(f)
      BY <1>2, <2>3, <2>4
    <3>2. i \in Closed(f) => {i} \cup g[Min(Ends(f, i)) + 1] \subseteq Closed(f)
      BY <2>3, <2>5
    <3>3. i \in Closed(f) <=> f[i].kind = "begin" /\ Ends(f, i) # {}
      BY <1>1
    <3> QED
      BY <2>4, <3>1, <3>2, <3>3, Zenon DEF Taken
  <2>7. \A k \in i..(n + 1) : k = i \/ k \in (i + 1)..(n + 1)
    OBVIOUS
  <2> QED
    BY <2>2, <2>3, <2>6, <2>7
<1>5. n + 1 \in A
  <2>1. n + 1 \in Nat /\ n + 1 \in 1..(n + 1)
    OBVIOUS
  <2>2. 1..(n + 1) \subseteq A
    BY ONLY <1>3, <1>4, <2>1, UpTo
  <2> QED
    BY <2>1, <2>2
<1>6. 1 \in (n + 2 - (n + 1))..(n + 1)
  OBVIOUS
<1> QED
  BY <1>2, <1>5, <1>6

LEMMA EndOfWhole ==
    ASSUME NEW f \in Seq(Lines), NEW i \in 1..Len(f), Whole(f, i)
    PROVE  Ends(f, i) # {} /\ Min(Ends(f, i)) = i + 2
<1>1. i + 2 \in Ends(f, i)
  BY DEF Whole, Ends
<1>2. \A j \in Ends(f, i) : j > i /\ j # i + 1 /\ j \in Nat
  BY EndsAre DEF Whole
<1>3. \A j \in Ends(f, i) : i + 2 <= j
  BY <1>2
<1> QED
  BY <1>1, <1>3, EndsAre, MinIs

LEMMA WholesApart ==
    ASSUME NEW f \in Seq(Lines), NEW h \in 1..Len(f), NEW i \in 1..Len(f), Whole(f, h), h < i,
           f[i].kind = "begin"
    PROVE  h + 2 < i
BY DEF Whole, End

(* Where every torn section is torn for good, the whole ones are found.     *)
LEMMA StartsOfTidy ==
    ASSUME NEW f \in Seq(Lines), \A k \in Torn(f) : Ends(f, k) = {}
    PROVE  Starts(f) = Wholes(f)
<1>1. Wholes(f) = Closed(f)
  BY EndOfWhole DEF Wholes, Closed, Torn, Whole
<1>2. \A i \in Closed(f) : \A h \in Wholes(f) : h < i => Min(Ends(f, h)) < i
  BY EndOfWhole, WholesApart DEF Wholes, Closed
<1> QED
  BY <1>1, <1>2, StartsAre

(* What is found is the text of the first whole section.                    *)
LEMMA FoundIs ==
    ASSUME NEW f \in Seq(Lines), \A k \in Torn(f) : Ends(f, k) = {}, NEW e
    PROVE  /\ (\A k \in Wholes(f) : f[k].of # e) => Found(f, e) = NoSection
           /\ \A k \in Wholes(f) :
                 f[k].of = e /\ (\A h \in Wholes(f) : f[h].of = e => k <= h) => Found(f, e) = f[k + 1].of
<1> DEFINE S == {i \in Starts(f) : f[i].of = e}
<1>1. S = {i \in Wholes(f) : f[i].of = e} /\ S \subseteq Nat /\ Wholes(f) \subseteq 1..Len(f)
  BY StartsOfTidy DEF Wholes
<1>2. Found(f, e) = IF S = {} THEN NoSection
                    ELSE IF Min(Ends(f, Min(S))) = Min(S) + 2 THEN f[Min(S) + 1].of
                    ELSE SubSeq(f, Min(S) + 1, Min(Ends(f, Min(S))) - 1)
  BY DEF Found
<1>3. ASSUME NEW k \in Wholes(f), f[k].of = e, \A h \in Wholes(f) : f[h].of = e => k <= h
      PROVE  Found(f, e) = f[k + 1].of
  <2>1. k \in S /\ \A h \in S : k <= h
    BY <1>1, <1>3
  <2>2. Min(S) = k
    <3> HIDE DEF S
    <3> QED
      BY <1>1, <2>1, MinIs
  <2>3. Min(Ends(f, k)) = k + 2
    BY <1>1, EndOfWhole DEF Wholes
  <2> QED
    BY <1>2, <2>1, <2>2, <2>3
<1> QED
  BY <1>1, <1>2, <1>3

-----------------------------------------------------------------------------
(* What FlattenSeq returns: the parts one after the other.                  *)
Flattens(F, s) ==
    /\ F[1] = s[1] /\ FlattenSeq(s) = F[Len(s)]
    /\ \A i \in 1..Len(s) : i > 1 => F[i] = F[i - 1] \o s[i]

LEMMA Flattened ==
    ASSUME NEW S, NEW s \in Seq(Seq(S)), s # <<>>
    PROVE  \E F \in [1..Len(s) -> Seq(S)] : Flattens(F, s)
<1> DEFINE D(g) == [i \in 1..Len(s) |-> IF i = 1 THEN s[i] ELSE g[i - 1] \o s[i]]
<1>1. Len(s) \in Nat /\ Len(s) > 0 /\ \A i \in 1..Len(s) : s[i] \in Seq(S)
  OBVIOUS
<1>2. \E g : g = D(g)
  <2> DEFINE B(m) == \E F \in [1..m -> Seq(S)] :
                        \A i \in 1..m : F[i] = IF i = 1 THEN s[i] ELSE F[i - 1] \o s[i]
             A == {m \in Nat : B(m)}
  <2>1. 1 \in A
    <3>1. PICK F : F = [i \in 1..1 |-> s[1]]
      OBVIOUS
    <3>2. F \in [1..1 -> Seq(S)] /\ \A i \in 1..1 : i = 1 /\ F[i] = s[i]
      BY <1>1, <3>1
    <3>3. \E G \in [1..1 -> Seq(S)] : \A i \in 1..1 : G[i] = IF i = 1 THEN s[i] ELSE G[i - 1] \o s[i]
      BY <3>2
    <3> QED
      BY <3>3
  <2>2. ASSUME NEW m \in A, m \in 1..Len(s), m < Len(s) PROVE m + 1 \in A
    <3>1. PICK F \in [1..m -> Seq(S)] : \A i \in 1..m : F[i] = IF i = 1 THEN s[i] ELSE F[i - 1] \o s[i]
      BY <2>2
    <3>2. PICK G : G = [i \in 1..(m + 1) |-> IF i = m + 1 THEN F[m] \o s[m + 1] ELSE F[i]]
      OBVIOUS
    <3>3. m + 1 \in 1..Len(s) /\ m \in 1..m /\ m + 1 # 1 /\ (m + 1) - 1 = m
      BY <2>2
    <3>4. F[m] \in Seq(S) /\ s[m + 1] \in Seq(S)
      BY <1>1, <3>3
    <3>5. \A i \in 1..(m + 1) : i = m + 1 \/ i \in 1..m
      BY <2>2
    <3>6. G \in [1..(m + 1) -> Seq(S)]
      BY <3>2, <3>4, <3>5
    <3>7. ASSUME NEW i \in 1..(m + 1) PROVE G[i] = IF i = 1 THEN s[i] ELSE G[i - 1] \o s[i]
      <4>1. CASE i = m + 1
        <5>1. m \in 1..(m + 1) /\ m # m + 1
          BY <3>3
        <5>2. G[m] = F[m] /\ G[i] = F[m] \o s[m + 1]
          BY <3>2, <4>1, <5>1
        <5> QED
          BY <3>3, <4>1, <5>2
      <4>2. CASE i \in 1..m
        <5>1. G[i] = F[i] /\ (i # 1 => i - 1 \in 1..m /\ G[i - 1] = F[i - 1])
          BY <3>2, <3>3, <4>2
        <5> QED
          BY <3>1, <4>2, <5>1
      <4> QED
        BY <3>5, <4>1, <4>2
    <3>8. \E H \in [1..(m + 1) -> Seq(S)] :
             \A i \in 1..(m + 1) : H[i] = IF i = 1 THEN s[i] ELSE H[i - 1] \o s[i]
      BY <3>6, <3>7
    <3>9. B(m + 1)
      BY <3>8
    <3> HIDE DEF B
    <3> QED
      BY <3>3, <3>9
  <2>3. Len(s) \in A
    <3> HIDE DEF A
    <3> QED
      BY <1>1, <2>1, <2>2, UpTo
  <2>4. PICK F \in [1..Len(s) -> Seq(S)] : \A i \in 1..Len(s) : F[i] = IF i = 1 THEN s[i] ELSE F[i - 1] \o s[i]
    BY <2>3
  <2>5. F = D(F)
    BY <2>4
  <2> QED
    BY <2>5
<1>3. FlattenSeq(s) = (CHOOSE g : g = D(g))[Len(s)]
  BY <1>1 DEF FlattenSeq
<1>4. PICK g : g = D(g) /\ FlattenSeq(s) = g[Len(s)]
  <2> HIDE DEF D
  <2> QED
    BY <1>2, <1>3
<1>5. /\ g[1] = s[1] /\ \A i \in 1..Len(s) : i > 1 => g[i] = g[i - 1] \o s[i]
      /\ g = [i \in 1..Len(s) |-> g[i]]
  <2>1. g = [i \in 1..Len(s) |-> IF i = 1 THEN s[i] ELSE g[i - 1] \o s[i]]
    BY <1>4
  <2>2. \A i \in 1..Len(s) : g[i] = IF i = 1 THEN s[i] ELSE g[i - 1] \o s[i]
    BY <2>1, Zenon
  <2>3. 1 \in 1..Len(s) /\ \A i \in 1..Len(s) : i > 1 => i # 1
    BY <1>1
  <2>4. g = [i \in 1..Len(s) |-> g[i]]
    <3>1. \A i \in 1..Len(s) : (IF i = 1 THEN s[i] ELSE g[i - 1] \o s[i]) = g[i]
      BY <2>2
    <3> QED
      BY <2>1, <3>1, Zenon
  <2> QED
    BY <2>2, <2>3, <2>4
<1>6. 1..Len(s) \subseteq {i \in 1..Len(s) : g[i] \in Seq(S)}
  <2> DEFINE A == {i \in 1..Len(s) : g[i] \in Seq(S)}
  <2>1. 1 \in A
    BY <1>1, <1>5
  <2>2. ASSUME NEW i \in A, i < Len(s) PROVE i + 1 \in A
    <3>1. i + 1 \in 1..Len(s) /\ i + 1 > 1 /\ (i + 1) - 1 = i
      BY <1>1, <2>2
    <3>2. g[i + 1] = g[i] \o s[i + 1]
      BY <1>5, <3>1
    <3>3. g[i] \in Seq(S) /\ s[i + 1] \in Seq(S)
      BY <1>1, <3>1
    <3>4. \A a, b \in Seq(S) : a \o b \in Seq(S)
      OBVIOUS
    <3>5. g[i + 1] \in Seq(S)
      BY <3>2, <3>3, <3>4, Zenon
    <3> QED
      BY <3>1, <3>5
  <2> HIDE DEF A
  <2> QED
    BY <1>1, <2>1, <2>2, UpTo DEF A
<1>7. g \in [1..Len(s) -> Seq(S)]
  BY <1>5, <1>6
<1>8. Flattens(g, s)
  BY <1>4, <1>5 DEF Flattens
<1> QED
  BY <1>7, <1>8

(* Hence FlattenSeq is known as soon as its prefixes are.                   *)
LEMMA FlattenedTo ==
    ASSUME NEW S, NEW s \in Seq(Seq(S)), s # <<>>,
           NEW g \in [0..Len(s) -> Seq(S)], g[0] = <<>>, \A i \in 1..Len(s) : g[i] = g[i - 1] \o s[i]
    PROVE  FlattenSeq(s) = g[Len(s)]
<1>1. Len(s) \in Nat /\ Len(s) > 0 /\ \A i \in 1..Len(s) : s[i] \in Seq(S)
  OBVIOUS
<1>p. PICK F \in [1..Len(s) -> Seq(S)] : Flattens(F, s)
  BY Flattened
<1>2. /\ F[1] = s[1] /\ FlattenSeq(s) = F[Len(s)]
      /\ \A i \in 1..Len(s) : i > 1 => F[i] = F[i - 1] \o s[i]
  BY <1>p, Zenon DEF Flattens
<1>3. 1..Len(s) \subseteq {i \in 1..Len(s) : F[i] = g[i]}
  <2> DEFINE A == {i \in 1..Len(s) : F[i] = g[i]}
  <2>1. 1 \in A
    <3>1. 1 \in 1..Len(s) /\ 1 - 1 = 0
      BY <1>1
    <3>2. g[1] = <<>> \o s[1] /\ s[1] \in Seq(S)
      BY <1>1, <3>1
    <3>3. g[1] = s[1]
      BY <3>2
    <3> QED
      BY <1>2, <3>1, <3>3
  <2>2. ASSUME NEW i \in A, i < Len(s) PROVE i + 1 \in A
    <3>1. i + 1 \in 1..Len(s) /\ i + 1 > 1 /\ (i + 1) - 1 = i
      BY <1>1, <2>2
    <3>2. F[i + 1] = F[i] \o s[i + 1] /\ g[i + 1] = g[i] \o s[i + 1] /\ F[i] = g[i]
      BY <1>2, <2>2, <3>1
    <3> QED
      BY <3>1, <3>2
  <2> HIDE DEF A
  <2> QED
    BY <1>1, <2>1, <2>2, UpTo DEF A
<1>4. Len(s) \in 1..Len(s)
  BY <1>1
<1>5. F[Len(s)] = g[Len(s)]
  BY ONLY <1>3, <1>4
<1> QED
  BY ONLY <1>2, <1>5, Zenon

-----------------------------------------------------------------------------
(* What an upsert writes in the place of a match.                           *)
Shown(t) == IF t \in Escaped THEN Mangled ELSE t
Replacement(e, t) == [n \in 1..3 |-> Expand(Section(e, t)[n])]

LEMMA ReplacementIs ==
    ASSUME NEW e \in Eas, NEW t \in Texts
    PROVE  /\ Replacement(e, t) = <<Begin(e), Text(Shown(t)), End(e)>>
           /\ Section(e, t) = <<Begin(e), Text(t), End(e)>>
           /\ Begin(e) \in Lines /\ End(e) \in Lines /\ Text(t) \in Lines /\ Text(Shown(t)) \in Lines
           /\ Replacement(e, t) \in Seq(Lines) /\ Section(e, t) \in Seq(Lines)
<1>1. Begin(e) \in Lines /\ End(e) \in Lines /\ Text(t) \in Lines /\ Text(Shown(t)) \in Lines
  BY DEF Lines, Shown
<1>2. e \notin Escaped
  BY FileAssumption
<1>3. Expand(Begin(e)) = Begin(e) /\ Expand(End(e)) = End(e) /\ Expand(Text(t)) = Text(Shown(t))
  BY <1>2 DEF Expand, Begin, End, Text, Shown
<1>4. Section(e, t) = <<Begin(e), Text(t), End(e)>>
  BY DEF Section
<1>5. Replacement(e, t) = <<Begin(e), Text(Shown(t)), End(e)>>
  BY <1>3, <1>4 DEF Replacement
<1> QED
  BY <1>1, <1>4, <1>5

(* The lines of the result are lines of the file or of the section.         *)
LEMMA UpsertWithin ==
    ASSUME NEW f \in Seq(Lines), NEW e \in Eas, NEW t \in Texts, NEW L, f \in Seq(L),
           Begin(e) \in L, End(e) \in L, Text(t) \in L, Text(Shown(t)) \in L
    PROVE  Upsert(f, e, t) \in Seq(L)
<1>0. Replacement(e, t) \in Seq(L) /\ Section(e, t) \in Seq(L)
  <2>1. \A a, b, c \in L : <<a, b, c>> \in Seq(L)
    OBVIOUS
  <2>2. <<Begin(e), Text(Shown(t)), End(e)>> \in Seq(L) /\ <<Begin(e), Text(t), End(e)>> \in Seq(L)
    BY <2>1, Zenon
  <2>3. Replacement(e, t) = <<Begin(e), Text(Shown(t)), End(e)>> /\ Section(e, t) = <<Begin(e), Text(t), End(e)>>
    BY ReplacementIs, Zenon
  <2> QED
    BY <2>2, <2>3, Zenon
<1>1. \A a, b \in Seq(L) : a \o b \in Seq(L)
  OBVIOUS
<1>2. CASE Matches(f, e) = {}
  BY <1>0, <1>1, <1>2 DEF Upsert
<1>3. CASE Matches(f, e) # {}
  <2> PICK s : s = [k \in 1..Len(f) |->
            IF k \in Matches(f, e) THEN Replacement(e, t)
            ELSE IF \E i \in Matches(f, e) : i < k /\ k <= Min(Ends(f, i)) THEN <<>>
            ELSE <<f[k]>>]
    OBVIOUS
  <2>1. Upsert(f, e, t) = FlattenSeq(s)
    BY <1>3 DEF Upsert, Replacement
  <2>2. \A k \in 1..Len(f) : s[k] \in Seq(L)
    <3>1. \A k \in 1..Len(f) : <<f[k]>> \in Seq(L)
      OBVIOUS
    <3>2. <<>> \in Seq(L)
      OBVIOUS
    <3> QED
      BY <1>0, <3>1, <3>2
  <2>3. s \in Seq(Seq(L)) /\ Len(s) = Len(f) /\ Len(f) > 0
    <3>1. s \in [1..Len(f) -> Seq(L)]
      BY <2>2
    <3>2. Len(f) \in Nat /\ Len(f) > 0
      BY <1>3 DEF Matches
    <3> QED
      BY <3>1, <3>2
  <2>4. PICK F \in [1..Len(s) -> Seq(L)] : FlattenSeq(s) = F[Len(s)]
    <3>1. s # <<>>
      BY <2>3
    <3>2. PICK F \in [1..Len(s) -> Seq(L)] : Flattens(F, s)
      BY ONLY <2>3, <3>1, Flattened
    <3>3. FlattenSeq(s) = F[Len(s)]
      BY ONLY <3>2, Zenon DEF Flattens
    <3> QED
      BY ONLY <3>2, <3>3, Zenon
  <2>5. Len(s) \in 1..Len(s)
    BY <2>3
  <2> QED
    BY <2>1, <2>4, <2>5
<1> QED
  BY <1>2, <1>3

LEMMA UpsertTyped ==
    ASSUME NEW f \in Seq(Lines), NEW e \in Eas, NEW t \in Texts
    PROVE  Upsert(f, e, t) \in Seq(Lines)
<1>1. /\ Begin(e) \in Lines /\ End(e) \in Lines /\ Text(t) \in Lines /\ Text(Shown(t)) \in Lines
  BY ReplacementIs
<1> QED
  BY <1>1, UpsertWithin

LEMMA FirstLines ==
    ASSUME NEW S, NEW b \in Seq(S), NEW m \in 0..Len(b)
    PROVE  SubSeq(b, 1, m) \in Seq(S) /\ Len(SubSeq(b, 1, m)) = m /\ \A k \in 1..m : SubSeq(b, 1, m)[k] = b[k]
OBVIOUS

LEMMA Joined ==
    ASSUME NEW S, NEW a \in Seq(S), NEW b \in Seq(S)
    PROVE  /\ a \o b \in Seq(S) /\ Len(a \o b) = Len(a) + Len(b)
           /\ \A k \in 1..Len(a) : (a \o b)[k] = a[k]
           /\ \A k \in 1..Len(b) : (a \o b)[Len(a) + k] = b[k]
OBVIOUS

LEMMA Longer ==
    ASSUME NEW S, NEW g \in Seq(S), NEW a \in 0..Len(g)
    PROVE  /\ a < Len(g) => SubSeq(g, 1, a) \o <<g[a + 1]>> = SubSeq(g, 1, a + 1)
           /\ a + 2 < Len(g) => SubSeq(g, 1, a) \o <<g[a + 1], g[a + 2], g[a + 3]>> = SubSeq(g, 1, a + 3)
           /\ SubSeq(g, 1, a) \o <<>> = SubSeq(g, 1, a)
OBVIOUS

(* How many lines of R the first parts of s are: all of them in the end.    *)
LEMMA FlattenedBy ==
    ASSUME NEW S, NEW R \in Seq(S), NEW s \in Seq(Seq(S)), s # <<>>,
           NEW len \in [0..Len(s) -> 0..Len(R)], len[0] = 0, len[Len(s)] = Len(R),
           \A i \in 1..Len(s) :
              \/ s[i] = <<>> /\ len[i] = len[i - 1]
              \/ s[i] = <<R[len[i - 1] + 1]>> /\ len[i] = len[i - 1] + 1
              \/ /\ s[i] = <<R[len[i - 1] + 1], R[len[i - 1] + 2], R[len[i - 1] + 3]>>
                 /\ len[i] = len[i - 1] + 3
    PROVE  FlattenSeq(s) = R
<1>1. PICK g : g = [i \in 0..Len(s) |-> SubSeq(R, 1, len[i])]
  OBVIOUS
<1>2. Len(s) \in Nat /\ Len(R) \in Nat
  OBVIOUS
<1>3. g \in [0..Len(s) -> Seq(S)]
  BY <1>1, FirstLines
<1>4. g[0] = <<>>
  <2>1. 0 \in 0..Len(s)
    BY <1>2
  <2>2. SubSeq(R, 1, 0) = <<>>
    OBVIOUS
  <2> QED
    BY <1>1, <2>1, <2>2
<1>5. ASSUME NEW i \in 1..Len(s) PROVE g[i] = g[i - 1] \o s[i]
  <2>1. i - 1 \in 0..Len(s) /\ i \in 0..Len(s)
    BY <1>2
  <2>2. PICK a \in 0..Len(R) : a = len[i - 1]
    BY <2>1
  <2>3. PICK b \in 0..Len(R) : b = len[i]
    BY <2>1
  <2>4. g[i - 1] = SubSeq(R, 1, a) /\ g[i] = SubSeq(R, 1, b)
    BY <1>1, <2>1, <2>2, <2>3
  <2>5. CASE s[i] = <<>> /\ b = a
    <3>1. SubSeq(R, 1, a) \o <<>> = SubSeq(R, 1, a)
      BY Longer
    <3> QED
      BY <2>4, <2>5, <3>1, Zenon
  <2>6. CASE s[i] = <<R[a + 1]>> /\ b = a + 1
    <3>1. SubSeq(R, 1, a) \o <<R[a + 1]>> = SubSeq(R, 1, a + 1)
      <4>1. a < Len(R)
        BY <1>2, <2>6
      <4> QED
        BY <4>1, Longer
    <3> QED
      BY <2>4, <2>6, <3>1, Zenon
  <2>7. CASE s[i] = <<R[a + 1], R[a + 2], R[a + 3]>> /\ b = a + 3
    <3>1. SubSeq(R, 1, a) \o <<R[a + 1], R[a + 2], R[a + 3]>> = SubSeq(R, 1, a + 3)
      <4>1. a + 2 < Len(R)
        BY <1>2, <2>7
      <4> QED
        BY <4>1, Longer
    <3> QED
      BY <2>4, <2>7, <3>1, Zenon
  <2> QED
    BY <2>2, <2>3, <2>5, <2>6, <2>7
<1>6. FlattenSeq(s) = g[Len(s)]
  BY <1>3, <1>4, <1>5, FlattenedTo
<1>7. g[Len(s)] = SubSeq(R, 1, Len(R)) /\ SubSeq(R, 1, Len(R)) = R
  <2>1. Len(s) \in 0..Len(s)
    BY <1>2
  <2>2. SubSeq(R, 1, Len(R)) = R
    OBVIOUS
  <2> QED
    BY <1>1, <2>1, <2>2
<1> QED
  BY <1>6, <1>7

(* Where each match is a whole section, an upsert exchanges the texts and   *)
(* leaves all other lines where they are.                                   *)
InPlace(f, e, t) ==
    [k \in 1..Len(f) |-> IF k > 1 /\ k - 1 \in Matches(f, e) THEN Text(Shown(t)) ELSE f[k]]

LEMMA UpsertInPlace ==
    ASSUME NEW f \in Seq(Lines), NEW e \in Eas, NEW t \in Texts,
           Matches(f, e) # {}, \A i \in Matches(f, e) : Whole(f, i)
    PROVE  Upsert(f, e, t) = InPlace(f, e, t) /\ InPlace(f, e, t) \in Seq(Lines)
<1> PICK M : M = Matches(f, e)
  OBVIOUS
<1> PICK n : n = Len(f)
  OBVIOUS
<1> PICK g : g = InPlace(f, e, t)
  OBVIOUS
<1>0. PICK s : s = [k \in 1..Len(f) |->
          IF k \in M THEN Replacement(e, t)
          ELSE IF \E i \in M : i < k /\ k <= Min(Ends(f, i)) THEN <<>>
          ELSE <<f[k]>>]
  OBVIOUS
<1>1. Upsert(f, e, t) = FlattenSeq(s)
  BY <1>0 DEF Upsert, Replacement
<1>2. /\ n \in Nat /\ M \subseteq 1..n /\ n > 0
      /\ \A i \in M : f[i] = Begin(e) /\ Whole(f, i) /\ i + 2 <= n /\ Min(Ends(f, i)) = i + 2
      /\ \A i \in M : i + 1 \notin M /\ i + 2 \notin M
  <2>1. M \subseteq 1..n /\ \A i \in M : f[i] = Begin(e) /\ Whole(f, i)
    BY DEF Matches
  <2>2. \A i \in M : i + 2 <= n /\ f[i + 1].kind = "text" /\ f[i + 2].kind = "end" /\ f[i].kind = "begin"
    <3> SUFFICES ASSUME NEW i \in M
                 PROVE  i + 2 <= n /\ f[i + 1].kind = "text" /\ f[i + 2].kind = "end" /\ f[i].kind = "begin"
      OBVIOUS
    <3>1. i + 2 <= Len(f) /\ f[i].kind = "begin" /\ f[i + 1].kind = "text" /\ f[i + 2] = End(f[i].of)
      BY <2>1 DEF Whole
    <3>2. f[i + 2].kind = "end"
      BY <3>1 DEF End
    <3> QED
      BY <3>1, <3>2
  <2>3. n \in Nat /\ n > 0
    BY <2>1
  <2> QED
    BY <2>1, <2>2, <2>3, EndOfWhole
<1>3. g \in Seq(Lines) /\ Len(g) = n /\ DOMAIN g = 1..n
      /\ \A k \in 1..n : g[k] = IF k > 1 /\ k - 1 \in M THEN Text(Shown(t)) ELSE f[k]
  <2>1. \A k \in 1..n : f[k] \in Lines
    OBVIOUS
  <2>2. \A k \in 1..n : g[k] = IF k > 1 /\ k - 1 \in M THEN Text(Shown(t)) ELSE f[k]
    BY DEF InPlace
  <2>3. g \in [1..n -> Lines]
    BY <2>1, ReplacementIs DEF InPlace
  <2>4. g \in Seq(Lines) /\ Len(g) = n /\ DOMAIN g = 1..n
    BY ONLY <1>2, <2>3
  <2> QED
    BY ONLY <2>2, <2>4, Zenon
<1>4. ASSUME NEW i \in 1..n
      PROVE  /\ i \in M => s[i] = <<g[i], g[i + 1], g[i + 2]>>
             /\ i - 1 \in M \/ i - 2 \in M => s[i] = <<>>
             /\ i \notin M /\ i - 1 \notin M /\ i - 2 \notin M => s[i] = <<g[i]>>
  <2>1. CASE i \in M
    <3>1. /\ i + 1 \in 1..n /\ i + 2 \in 1..n /\ i - 1 \notin M /\ i + 1 \notin M /\ i - 2 \notin M
          /\ i + 1 > 1 /\ (i + 1) - 1 = i /\ (i + 2) - 1 = i + 1
      <4>1. \A j \in M : j + 1 # i /\ j + 2 # i
        BY <1>2, <2>1
      <4> QED
        BY <1>2, <2>1, <4>1
    <3>2. g[i] = Begin(e) /\ g[i + 1] = Text(Shown(t)) /\ g[i + 2] = End(e)
      BY <1>2, <1>3, <2>1, <3>1 DEF Whole, Begin
    <3>3. s[i] = Replacement(e, t)
      BY <1>0, <2>1
    <3> QED
      BY <2>1, <3>1, <3>2, <3>3, ReplacementIs
  <2>2. CASE i - 1 \in M \/ i - 2 \in M
    <3>1. \E j \in M : j < i /\ i <= Min(Ends(f, j))
      <4>1. CASE i - 1 \in M
        BY <1>2, <4>1
      <4>2. CASE i - 2 \in M
        BY <1>2, <4>2
      <4> QED
        BY <2>2, <4>1, <4>2
    <3>2. i \notin M
      <4>1. \A j \in M : j + 1 \notin M /\ j + 2 \notin M
        BY <1>2
      <4>2. (i - 1) + 1 = i /\ (i - 2) + 2 = i
        BY <1>2
      <4> QED
        BY <2>2, <4>1, <4>2
    <3> QED
      BY <1>0, <2>2, <3>1, <3>2
  <2>3. CASE i \notin M /\ i - 1 \notin M /\ i - 2 \notin M
    <3>1. ~ \E j \in M : j < i /\ i <= Min(Ends(f, j))
      <4>1. \A j \in M : j \in Nat /\ Min(Ends(f, j)) = j + 2
        BY <1>2
      <4>2. \A j \in M : j # i - 1 /\ j # i - 2
        BY <2>3
      <4> QED
        BY <1>2, <4>1, <4>2
    <3>2. s[i] = <<f[i]>> /\ g[i] = f[i]
      BY <1>0, <1>3, <2>3, <3>1
    <3> QED
      BY <2>3, <3>2
  <2> QED
    BY <2>1, <2>2, <2>3
<1>5. PICK len : len = [i \in 0..n |-> IF i \in M THEN i + 2 ELSE IF i - 1 \in M THEN i + 1 ELSE i]
  OBVIOUS
<1>6. s \in Seq(Seq(Lines)) /\ Len(s) = n /\ s # <<>>
  <2>1. \A k \in 1..n : <<f[k]>> \in Seq(Lines)
    OBVIOUS
  <2>2. <<>> \in Seq(Lines)
    OBVIOUS
  <2>3. \A k \in 1..n : s[k] \in Seq(Lines)
    BY <1>0, <2>1, <2>2, ReplacementIs
  <2>4. s \in [1..n -> Seq(Lines)]
    BY <1>0, <2>3
  <2> QED
    BY <1>2, <2>4
<1>7. len \in [0..n -> 0..n] /\ len[0] = 0 /\ len[n] = n
  <2>1. \A i \in M : i + 1 # 0 /\ i # 0 /\ i # n /\ i + 1 # n
    BY <1>2
  <2> QED
    BY <1>2, <1>5, <2>1
<1>8. ASSUME NEW i \in 1..n
      PROVE  \/ s[i] = <<>> /\ len[i] = len[i - 1]
             \/ s[i] = <<g[len[i - 1] + 1]>> /\ len[i] = len[i - 1] + 1
             \/ /\ s[i] = <<g[len[i - 1] + 1], g[len[i - 1] + 2], g[len[i - 1] + 3]>>
                /\ len[i] = len[i - 1] + 3
  <2>1. /\ i - 1 \in 0..n /\ i \in 0..n /\ (i - 1) - 1 = i - 2
        /\ (i - 1) + 1 = i /\ (i - 2) + 1 = i - 1 /\ (i - 2) + 2 = i
    OBVIOUS
  <2>2. \A j \in M : j + 1 \notin M /\ j + 2 \notin M /\ j \in Nat
    BY <1>2
  <2>3. CASE i \in M
    <3>1. i - 1 \notin M /\ i - 2 \notin M
      BY <2>2, <2>3
    <3>2. len[i - 1] = i - 1 /\ len[i] = i + 2 /\ (i - 1) + 1 = i /\ (i - 1) + 2 = i + 1 /\ (i - 1) + 3 = i + 2
      BY <1>5, <2>1, <2>3, <3>1
    <3> QED
      BY <1>4, <2>3, <3>2
  <2>4. CASE i - 1 \in M
    <3>1. i \notin M
      BY <2>1, <2>2, <2>4
    <3>2. len[i - 1] = i + 1 /\ len[i] = i + 1
      BY <1>5, <2>1, <2>4, <3>1
    <3> QED
      BY <1>4, <2>4, <3>2
  <2>5. CASE i - 2 \in M
    <3>1. i \notin M /\ i - 1 \notin M
      BY <2>1, <2>2, <2>5
    <3>2. len[i - 1] = i /\ len[i] = i
      BY <1>5, <2>1, <2>5, <3>1
    <3> QED
      BY <1>4, <2>5, <3>2
  <2>6. CASE i \notin M /\ i - 1 \notin M /\ i - 2 \notin M
    <3>1. len[i - 1] = i - 1 /\ len[i] = i /\ (i - 1) + 1 = i
      BY <1>5, <2>1, <2>6
    <3> QED
      BY <1>4, <2>6, <3>1
  <2> QED
    BY <2>3, <2>4, <2>5, <2>6
<1>9. FlattenSeq(s) = g
  BY <1>3, <1>6, <1>7, <1>8, FlattenedBy
<1> QED
  BY <1>1, <1>3, <1>9

-----------------------------------------------------------------------------
(* Writes to a file of whole sections.                                      *)

TornForGood(f) == \A k \in Torn(f) : Ends(f, k) = {}
FirstOf(f, e, k) == k \in Wholes(f) /\ f[k].of = e /\ \A h \in Wholes(f) : f[h].of = e => k <= h

LEMMA LinesAre ==
    ASSUME NEW l \in Lines
    PROVE  /\ l.kind = "begin" => l.of \in Eas /\ l = Begin(l.of)
           /\ l.kind = "end" => l.of \in Eas /\ l = End(l.of)
           /\ l.kind \in {"begin", "text", "end"}
BY DEF Lines, Begin, End, Text

LEMMA FoundCases ==
    ASSUME NEW f \in Seq(Lines), TornForGood(f), NEW e
    PROVE  /\ (\A k \in Wholes(f) : f[k].of # e) => Found(f, e) = NoSection
           /\ \A k : FirstOf(f, e, k) => Found(f, e) = f[k + 1].of
           /\ (\A k \in Wholes(f) : f[k].of # e) \/ \E k : FirstOf(f, e, k)
<1>1. ASSUME ~(\A k \in Wholes(f) : f[k].of # e) PROVE \E k : FirstOf(f, e, k)
  <2> PICK S : S = {k \in Wholes(f) : f[k].of = e}
    OBVIOUS
  <2>1. S \subseteq Nat /\ S # {}
    BY <1>1 DEF Wholes
  <2>2. Min(S) \in S /\ \A y \in S : Min(S) <= y
    BY <2>1, MinOf
  <2> QED
    BY <2>2 DEF FirstOf
<1> QED
  BY <1>1, FoundIs DEF TornForGood, FirstOf

LEMMA IntactIs ==
    ASSUME NEW f \in Seq(Lines), Intact(f)
    PROVE  /\ \A k \in 1..Len(f) : f[k].kind = "begin" => k \in Wholes(f)
           /\ Torn(f) = {} /\ TornForGood(f)
           /\ \A e \in Eas : Matches(f, e) = {k \in Wholes(f) : f[k].of = e}
<1>1. \A k \in 1..Len(f) : f[k].kind = "begin" => Whole(f, k)
  BY DEF Intact
<1>2. ASSUME NEW e \in Eas PROVE Matches(f, e) = {k \in Wholes(f) : f[k].of = e}
  <2>1. \A k \in 1..Len(f) : f[k] = Begin(e) <=> Whole(f, k) /\ f[k].of = e
    <3> SUFFICES ASSUME NEW k \in 1..Len(f) PROVE f[k] = Begin(e) <=> Whole(f, k) /\ f[k].of = e
      OBVIOUS
    <3>1. f[k] \in Lines
      OBVIOUS
    <3>2. f[k] = Begin(e) <=> f[k].kind = "begin" /\ f[k].of = e
      BY <3>1, LinesAre DEF Begin
    <3> QED
      BY <1>1, <3>2 DEF Whole
  <2>2. \A k \in 1..Len(f) : f[k] = Begin(e) => Ends(f, k) # {} /\ Min(Ends(f, k)) = k + 2 /\ f[k].kind = "begin"
    BY <2>1, EndOfWhole DEF Begin
  <2>3. \A h, k \in 1..Len(f) : f[h] = Begin(e) /\ f[k] = Begin(e) /\ h < k => h + 2 < k
    BY <2>1, <2>2, WholesApart
  <2>4. Matches(f, e) = {k \in 1..Len(f) : f[k] = Begin(e)}
    <3>1. \A k \in 1..Len(f) : \A h \in 1..(k - 1) : h \in 1..Len(f) /\ h < k
      OBVIOUS
    <3> QED
      BY <2>2, <2>3, <3>1 DEF Matches
  <2> QED
    BY <2>1, <2>4 DEF Wholes
<1> QED
  BY <1>1, <1>2 DEF Torn, TornForGood, Wholes

LEMMA ExchangesText ==
    ASSUME NEW f \in Seq(Lines), Intact(f), NEW e \in Eas, NEW t \in Texts, Matches(f, e) # {}
    PROVE  /\ InPlace(f, e, t) \in Seq(Lines) /\ Upsert(f, e, t) = InPlace(f, e, t)
           /\ Intact(InPlace(f, e, t))
           /\ Found(InPlace(f, e, t), e) = Shown(t)
           /\ \A x \in Eas \ {e} : Found(InPlace(f, e, t), x) = Found(f, x)
<1> PICK g : g = InPlace(f, e, t)
  OBVIOUS
<1>1. Matches(f, e) = {k \in Wholes(f) : f[k].of = e}
  BY IntactIs
<1>2. g \in Seq(Lines) /\ Upsert(f, e, t) = g
  BY <1>1, UpsertInPlace DEF Wholes
<1>3. /\ Len(g) = Len(f) /\ Len(f) \in Nat
      /\ \A k \in 1..Len(f) : g[k] = IF k > 1 /\ k - 1 \in Matches(f, e) THEN Text(Shown(t)) ELSE f[k]
  <2>1. g = [k \in 1..Len(f) |-> IF k > 1 /\ k - 1 \in Matches(f, e) THEN Text(Shown(t)) ELSE f[k]]
    BY DEF InPlace
  <2> QED
    BY <1>2, <2>1
<1>4. \A k \in 1..Len(f) : g[k].kind = f[k].kind /\ (f[k].kind # "text" => g[k] = f[k])
  <2> SUFFICES ASSUME NEW k \in 1..Len(f) PROVE g[k].kind = f[k].kind /\ (f[k].kind # "text" => g[k] = f[k])
    OBVIOUS
  <2>1. CASE k > 1 /\ k - 1 \in Matches(f, e)
    <3>1. f[k].kind = "text"
      BY <1>1, <2>1 DEF Wholes, Whole
    <3> QED
      BY <1>3, <2>1, <3>1 DEF Text
  <2>2. CASE ~(k > 1 /\ k - 1 \in Matches(f, e))
    BY <1>3, <2>2
  <2> QED
    BY <2>1, <2>2
<1>5. \A k \in 1..Len(f) : Whole(f, k) <=> Whole(g, k)
  <2> SUFFICES ASSUME NEW k \in 1..Len(f), k + 2 <= Len(f) PROVE Whole(f, k) <=> Whole(g, k)
    BY <1>3 DEF Whole
  <2>1. k + 1 \in 1..Len(f) /\ k + 2 \in 1..Len(f)
    BY <1>3
  <2>2. \A x : End(x).kind = "end"
    BY DEF End
  <2> QED
    BY <1>3, <1>4, <2>1, <2>2 DEF Whole
<1>6. Wholes(g) = Wholes(f) /\ \A k \in Wholes(f) : g[k].of = f[k].of
  <2>1. Len(g) = Len(f) /\ \A k \in Wholes(f) : k \in 1..Len(f) /\ f[k].kind # "text"
    BY <1>3 DEF Wholes, Whole
  <2>2. Wholes(g) = Wholes(f)
    BY ONLY <1>5, <2>1, Zenon DEF Wholes
  <2> QED
    BY ONLY <1>4, <2>1, <2>2, Zenon
<1>7. Intact(g)
  <2> SUFFICES ASSUME NEW k \in 1..Len(f)
               PROVE  \/ g[k].kind = "begin" /\ Whole(g, k)
                      \/ g[k].kind = "text" /\ k > 1 /\ Whole(g, k - 1)
                      \/ g[k].kind = "end" /\ k > 2 /\ Whole(g, k - 2)
    BY <1>3 DEF Intact
  <2>1. \/ f[k].kind = "begin" /\ Whole(f, k)
        \/ f[k].kind = "text" /\ k > 1 /\ Whole(f, k - 1)
        \/ f[k].kind = "end" /\ k > 2 /\ Whole(f, k - 2)
    BY DEF Intact
  <2>2. (k > 1 => k - 1 \in 1..Len(f)) /\ (k > 2 => k - 2 \in 1..Len(f))
    OBVIOUS
  <2> QED
    BY <1>4, <1>5, <2>1, <2>2
<1>8. TornForGood(f) /\ TornForGood(g)
  BY <1>2, <1>7, IntactIs
<1>9. \A x, k : FirstOf(f, x, k) <=> FirstOf(g, x, k)
  BY <1>6 DEF FirstOf
<1>10. Found(g, e) = Shown(t)
  <2>0. PICK j \in Wholes(g) : g[j].of = e
    BY <1>1, <1>6
  <2>1. PICK k : FirstOf(g, e, k)
    BY <1>2, <1>8, <2>0, FoundCases
  <2>2. k \in Matches(f, e) /\ k + 1 \in 1..Len(f) /\ k + 1 > 1 /\ (k + 1) - 1 = k
    <3>1. k \in Wholes(f) /\ f[k].of = e
      BY <1>6, <2>1 DEF FirstOf
    <3>2. k \in 1..Len(f) /\ k + 2 <= Len(f)
      BY <3>1 DEF Wholes, Whole
    <3> QED
      BY <1>1, <1>3, <3>1, <3>2
  <2>3. g[k + 1] = Text(Shown(t))
    BY <1>3, <2>2
  <2> QED
    BY <1>2, <1>8, <2>1, <2>3, FoundCases DEF Text
<1>11. ASSUME NEW x \in Eas \ {e} PROVE Found(g, x) = Found(f, x)
  <2>1. CASE \A k \in Wholes(f) : f[k].of # x
    BY <1>2, <1>6, <1>8, <2>1, FoundCases
  <2>2. ASSUME NEW k, FirstOf(f, x, k) PROVE Found(g, x) = Found(f, x)
    <3>1. k \notin Matches(f, e) /\ k \in 1..Len(f) /\ k + 1 \in 1..Len(f) /\ (k + 1) - 1 = k
      BY <1>1, <1>3, <2>2 DEF FirstOf, Wholes, Whole
    <3>2. g[k + 1] = f[k + 1]
      BY <1>3, <3>1
    <3> QED
      BY <1>2, <1>8, <1>9, <2>2, <3>2, FoundCases
  <2> QED
    BY <1>8, <2>1, <2>2, FoundCases
<1> QED
  BY <1>2, <1>7, <1>10, <1>11

LEMMA ThreeMore ==
    ASSUME NEW S, NEW f \in Seq(S), NEW x \in S, NEW y \in S, NEW z \in S, NEW g, g = f \o <<x, y, z>>
    PROVE  /\ g \in Seq(S) /\ Len(g) = Len(f) + 3
           /\ \A k \in 1..Len(f) : g[k] = f[k]
           /\ g[Len(f) + 1] = x /\ g[Len(f) + 2] = y /\ g[Len(f) + 3] = z
OBVIOUS

LEMMA AppendsWhole ==
    ASSUME NEW f \in Seq(Lines), Intact(f), NEW e \in Eas, NEW t \in Texts
    PROVE  /\ f \o Section(e, t) \in Seq(Lines)
           /\ Intact(f \o Section(e, t))
           /\ (\A k \in Wholes(f) : f[k].of # e) => Found(f \o Section(e, t), e) = t
           /\ \A x \in Eas \ {e} : Found(f \o Section(e, t), x) = Found(f, x)
           /\ Listed(f \o Section(e, t)) = Listed(f) \cup {e}
<1>0. PICK g : g = f \o Section(e, t)
  OBVIOUS
<1> PICK n \in Nat : n = Len(f)
  OBVIOUS
<1>i. g = f \o <<Begin(e), Text(t), End(e)>> /\ Begin(e) \in Lines /\ End(e) \in Lines /\ Text(t) \in Lines
  BY <1>0, ReplacementIs, Zenon
<1>1. g \in Seq(Lines) /\ Len(g) = n + 3
  BY <1>i, ThreeMore
<1>2. /\ \A k \in 1..n : g[k] = f[k]
      /\ g[n + 1] = Begin(e) /\ g[n + 2] = Text(t) /\ g[n + 3] = End(e)
  BY <1>i, ThreeMore
<1>3. /\ g[n + 1].kind = "begin" /\ g[n + 1].of = e
      /\ g[n + 2].kind = "text" /\ g[n + 2].of = t
      /\ g[n + 3].kind = "end"
  BY <1>2 DEF Begin, Text, End
<1>4. \A k \in 1..n : Whole(f, k) => Whole(g, k)
  <2> SUFFICES ASSUME NEW k \in 1..n, Whole(f, k) PROVE Whole(g, k)
    OBVIOUS
  <2>1. k + 1 \in 1..n /\ k + 2 \in 1..n
    BY <1>1 DEF Whole
  <2> QED
    BY <1>1, <1>2, <2>1 DEF Whole
<1>5. Whole(g, n + 1)
  <2>1. (n + 1) + 1 = n + 2 /\ (n + 1) + 2 = n + 3
    BY <1>1
  <2> QED
    BY <1>1, <1>2, <1>3, <2>1 DEF Whole
<1>6. Wholes(g) = Wholes(f) \cup {n + 1} /\ Wholes(f) \subseteq 1..n
  <2>1. \A k \in 1..(n + 3) : k \in 1..n \/ k = n + 1 \/ k = n + 2 \/ k = n + 3
    BY <1>1
  <2>2. \A k \in 1..n : Whole(g, k) => Whole(f, k)
    BY <1>2, IntactIs DEF Whole, Wholes
  <2>3. ~Whole(g, n + 2) /\ ~Whole(g, n + 3)
    BY <1>3 DEF Whole
  <2> QED
    BY <1>1, <1>4, <1>5, <2>1, <2>2, <2>3 DEF Wholes
<1>7. Intact(g)
  <2> SUFFICES ASSUME NEW k \in 1..(n + 3)
               PROVE  \/ g[k].kind = "begin" /\ Whole(g, k)
                      \/ g[k].kind = "text" /\ k > 1 /\ Whole(g, k - 1)
                      \/ g[k].kind = "end" /\ k > 2 /\ Whole(g, k - 2)
    BY <1>1 DEF Intact
  <2>1. CASE k \in 1..n
    <3>1. \/ f[k].kind = "begin" /\ Whole(f, k)
          \/ f[k].kind = "text" /\ k > 1 /\ Whole(f, k - 1)
          \/ f[k].kind = "end" /\ k > 2 /\ Whole(f, k - 2)
      BY <2>1 DEF Intact
    <3>2. (k > 1 => k - 1 \in 1..n) /\ (k > 2 => k - 2 \in 1..n)
      BY <2>1
    <3> QED
      BY <1>2, <1>4, <2>1, <3>1, <3>2
  <2>2. CASE k = n + 1 \/ k = n + 2 \/ k = n + 3
    <3>1. (n + 2) - 1 = n + 1 /\ (n + 3) - 2 = n + 1 /\ n + 2 > 1 /\ n + 3 > 2
      BY <1>1
    <3> QED
      BY <1>3, <1>5, <2>2, <3>1
  <2> QED
    BY <1>1, <2>1, <2>2
<1>8. TornForGood(f) /\ TornForGood(g)
  BY <1>1, <1>7, IntactIs
<1>9. ASSUME \A k \in Wholes(f) : f[k].of # e PROVE Found(g, e) = t
  <2>1. FirstOf(g, e, n + 1)
    BY <1>1, <1>2, <1>3, <1>6, <1>9 DEF FirstOf
  <2>2. (n + 1) + 1 = n + 2
    BY <1>1
  <2> QED
    BY <1>1, <1>3, <1>8, <2>1, <2>2, FoundCases
<1>10. ASSUME NEW x \in Eas \ {e} PROVE Found(g, x) = Found(f, x)
  <2>1. CASE \A k \in Wholes(f) : f[k].of # x
    <3>1. \A k \in Wholes(g) : g[k].of # x
      BY <1>2, <1>3, <1>6, <2>1
    <3> QED
      BY <1>1, <1>8, <2>1, <3>1, FoundCases
  <2>2. ASSUME NEW k, FirstOf(f, x, k) PROVE Found(g, x) = Found(f, x)
    <3>1. k \in 1..n /\ k + 1 \in 1..n
      BY <1>1, <2>2 DEF FirstOf, Wholes, Whole
    <3>2. FirstOf(g, x, k)
      <4>1. k \in Wholes(g) /\ g[k].of = x
        BY <1>2, <1>6, <2>2, <3>1 DEF FirstOf
      <4>2. \A h \in Wholes(g) : g[h].of = x => h \in Wholes(f) /\ f[h].of = x
        BY <1>2, <1>3, <1>6
      <4> QED
        BY <2>2, <4>1, <4>2 DEF FirstOf
    <3>3. g[k + 1] = f[k + 1]
      BY <1>2, <3>1
    <3> QED
      BY <1>1, <1>8, <2>2, <3>2, <3>3, FoundCases
  <2> QED
    BY <1>8, <2>1, <2>2, FoundCases
<1>11. Listed(g) = Listed(f) \cup {e}
  <2>1. Starts(f) = Wholes(f) /\ Starts(g) = Wholes(g)
    BY <1>1, <1>8, StartsOfTidy DEF TornForGood
  <2> QED
    BY <1>2, <1>3, <1>6, <2>1 DEF Listed
<1> QED
  BY <1>0, <1>1, <1>7, <1>9, <1>10, <1>11

(* A file that is not whole does not become so by what is appended.         *)
LEMMA DamagedStays ==
    ASSUME NEW f \in Seq(Lines), NEW e \in Eas, NEW t \in Texts, Intact(f \o Section(e, t))
    PROVE  Intact(f)
<1>0. PICK g : g = f \o Section(e, t)
  OBVIOUS
<1> PICK n \in Nat : n = Len(f)
  OBVIOUS
<1>i. g = f \o <<Begin(e), Text(t), End(e)>> /\ Begin(e) \in Lines /\ End(e) \in Lines /\ Text(t) \in Lines
  BY <1>0, ReplacementIs, Zenon
<1>1. g \in Seq(Lines) /\ Len(g) = n + 3
  BY <1>i, ThreeMore
<1>2. /\ \A k \in 1..n : g[k] = f[k]
      /\ g[n + 1] = Begin(e) /\ g[n + 2] = Text(t) /\ g[n + 3] = End(e)
  BY <1>i, ThreeMore
<1>3. ASSUME NEW k \in 1..n, Whole(g, k) PROVE Whole(f, k)
  <2>1. k + 1 # n + 1 /\ k + 2 # n + 1
    BY <1>2, <1>3 DEF Whole, Begin, End
  <2>2. k + 1 \in 1..n /\ k + 2 \in 1..n
    BY <1>1, <2>1
  <2> QED
    BY <1>1, <1>2, <1>3, <2>2 DEF Whole
<1>4. ASSUME NEW k \in 1..n
      PROVE  \/ f[k].kind = "begin" /\ Whole(f, k)
             \/ f[k].kind = "text" /\ k > 1 /\ Whole(f, k - 1)
             \/ f[k].kind = "end" /\ k > 2 /\ Whole(f, k - 2)
  <2>1. \/ g[k].kind = "begin" /\ Whole(g, k)
        \/ g[k].kind = "text" /\ k > 1 /\ Whole(g, k - 1)
        \/ g[k].kind = "end" /\ k > 2 /\ Whole(g, k - 2)
    <3>1. k \in 1..Len(g)
      BY <1>1
    <3>2. Intact(g)
      BY <1>0
    <3> QED
      BY <3>1, <3>2 DEF Intact
  <2>2. (k > 1 => k - 1 \in 1..n) /\ (k > 2 => k - 2 \in 1..n)
    BY <1>1
  <2> QED
    BY <1>2, <1>3, <2>1, <2>2
<1> QED
  BY <1>4 DEF Intact

(* What is left of a whole file when its writer dies.                       *)
LEMMA PrefixOfWhole ==
    ASSUME NEW g \in Seq(Lines), Intact(g), NEW n \in 0..Len(g)
    PROVE  /\ SubSeq(g, 1, n) \in Seq(Lines)
           /\ \A x : Found(SubSeq(g, 1, n), x) \in {Found(g, x), NoSection}
<1>0. PICK h : h = SubSeq(g, 1, n)
  OBVIOUS
<1>1. h \in Seq(Lines) /\ Len(h) = n /\ n \in Nat /\ \A k \in 1..n : h[k] = g[k]
  BY <1>0
<1>2. \A k \in 1..n : Whole(h, k) <=> Whole(g, k) /\ k + 2 <= n
  <2> SUFFICES ASSUME NEW k \in 1..n PROVE Whole(h, k) <=> Whole(g, k) /\ k + 2 <= n
    OBVIOUS
  <2>1. CASE k + 2 <= n
    <3>1. k + 1 \in 1..n /\ k + 2 \in 1..n /\ k + 2 <= Len(g)
      BY <1>1, <2>1
    <3> QED
      BY <1>1, <2>1, <3>1 DEF Whole
  <2>2. CASE ~(k + 2 <= n)
    BY <1>1, <2>2 DEF Whole
  <2> QED
    BY <2>1, <2>2
<1>3. TornForGood(h)
  <2> SUFFICES ASSUME NEW k \in 1..n, h[k].kind = "begin", ~Whole(h, k), NEW j \in Ends(h, k) PROVE FALSE
    BY <1>1 DEF TornForGood, Torn
  <2>1. k \in 1..Len(g) /\ g[k].kind = "begin"
    BY <1>1
  <2>2. Whole(g, k) /\ ~(k + 2 <= n)
    BY <1>2, <2>1, IntactIs DEF Wholes
  <2>3. j \in 1..n /\ j > k /\ h[j].kind = "end"
    BY <1>1, EndsAre
  <2>4. j = k + 1 /\ g[j].kind = "end"
    BY <1>1, <2>2, <2>3
  <2> QED
    BY <2>2, <2>4 DEF Whole
<1>4. TornForGood(g)
  BY IntactIs
<1>5. ASSUME NEW x PROVE Found(h, x) \in {Found(g, x), NoSection}
  <2>1. ASSUME NEW k, FirstOf(h, x, k) PROVE Found(h, x) = Found(g, x)
    <3>1. k \in 1..n /\ k + 1 \in 1..n /\ k + 2 <= n /\ Whole(g, k) /\ g[k].of = x
      BY <1>1, <1>2, <2>1 DEF FirstOf, Wholes, Whole
    <3>2. FirstOf(g, x, k)
      <4>1. \A i \in Wholes(g) : g[i].of = x /\ i < k => i \in Wholes(h) /\ h[i].of = x
        BY <1>1, <1>2, <3>1 DEF Wholes
      <4>2. k \in Wholes(g) /\ \A i \in Wholes(g) : i \in Nat
        BY <3>1, <1>1 DEF Wholes
      <4>3. \A i \in Wholes(h) : h[i].of = x => k <= i
        BY <2>1 DEF FirstOf
      <4>4. \A i \in Wholes(g) : g[i].of = x => k <= i
        BY <3>1, <4>1, <4>2, <4>3
      <4> QED
        BY <3>1, <4>2, <4>4 DEF FirstOf
    <3>3. h[k + 1] = g[k + 1]
      BY <1>1, <3>1
    <3> QED
      BY <1>1, <1>3, <1>4, <2>1, <3>2, <3>3, FoundCases
  <2> QED
    BY <1>1, <1>3, <2>1, FoundCases
<1> QED
  BY <1>0, <1>1, <1>5

LEMMA UpsertKeepsWhole ==
    ASSUME NEW f \in Seq(Lines), Intact(f), NEW e \in Eas, NEW t \in Texts
    PROVE  /\ Upsert(f, e, t) \in Seq(Lines) /\ Intact(Upsert(f, e, t))
           /\ Matches(f, e) = {} => Found(Upsert(f, e, t), e) = t
           /\ Matches(f, e) # {} => Found(Upsert(f, e, t), e) = Shown(t)
           /\ Escaped = {} => Found(Upsert(f, e, t), e) = t
           /\ \A x \in Eas \ {e} : Found(Upsert(f, e, t), x) = Found(f, x)
<1>1. CASE Matches(f, e) = {}
  <2>1. \A k \in Wholes(f) : f[k].of # e
    BY <1>1, IntactIs
  <2>2. Upsert(f, e, t) = f \o Section(e, t)
    BY <1>1 DEF Upsert
  <2> QED
    BY <1>1, <2>1, <2>2, AppendsWhole
<1>2. CASE Matches(f, e) # {}
  <2>1. Escaped = {} => Shown(t) = t
    BY DEF Shown
  <2> QED
    BY <1>2, <2>1, ExchangesText
<1> QED
  BY <1>1, <1>2

LEMMA ListedWholes ==
    ASSUME NEW f \in Seq(Lines), Intact(f), NEW e, e \notin Listed(f)
    PROVE  \A k \in Wholes(f) : f[k].of # e
<1>1. Starts(f) = Wholes(f)
  BY IntactIs, StartsOfTidy DEF TornForGood
<1> QED
  BY <1>1 DEF Listed

-----------------------------------------------------------------------------
(* After one death a file has one torn section at most.  When its EA is     *)
(* written again, the torn section takes all that comes before that END.    *)
Covered(f, k) == \E p \in Torn(f) : p < k /\ Ends(f, p) # {} /\ \A j \in Ends(f, p) : k < j
Seen(f) == Torn(f) \cup {k \in Wholes(f) : ~Covered(f, k)}
OneTorn(f) ==
    /\ Tidy(f) /\ \A p, q \in Torn(f) : p = q
    /\ \A i, j \in Seen(f) : f[i].of = f[j].of => i = j

LEMMA StartsSeen ==
    ASSUME NEW f \in Seq(Lines), OneTorn(f)
    PROVE  Starts(f) = {k \in Seen(f) : Ends(f, k) # {}}
<1>0. PICK S : S = {k \in Seen(f) : Ends(f, k) # {}}
  OBVIOUS
<1>1. S \in SUBSET Closed(f)
  BY <1>0 DEF Seen, Torn, Wholes, Whole, Closed
<1>2. ASSUME NEW i \in S, NEW h \in S, h < i PROVE Min(Ends(f, h)) < i
  <2>1. h \in 1..Len(f) /\ i \in 1..Len(f) /\ f[i].kind = "begin" /\ f[h].kind = "begin" /\ Ends(f, h) # {}
    BY <1>1 DEF Closed
  <2>2. CASE Whole(f, h)
    BY <1>2, <2>1, <2>2, EndOfWhole, WholesApart
  <2>3. CASE ~Whole(f, h)
    <3>1. h \in Torn(f)
      BY <2>1, <2>3 DEF Torn
    <3>2. ~Covered(f, i)
      BY <1>0, <1>2, <2>1, <3>1 DEF Seen, OneTorn
    <3>3. PICK j \in Ends(f, h) : ~(i < j)
      BY <1>2, <2>1, <3>1, <3>2 DEF Covered
    <3>4. Ends(f, h) \subseteq Nat
      BY <2>1, EndsAre
    <3>5. Min(Ends(f, h)) \in Ends(f, h) /\ Min(Ends(f, h)) <= j
      BY <2>1, <3>4, MinOf
    <3>6. PICK m \in Ends(f, h) : m = Min(Ends(f, h)) /\ m <= j
      BY <3>5
    <3>7. f[m].kind = "end" /\ j \in Nat /\ m \in Nat
      BY <2>1, <3>4, EndsAre
    <3> QED
      BY <2>1, <3>3, <3>6, <3>7
  <2> QED
    BY <2>2, <2>3
<1>3. ASSUME NEW i \in Closed(f), i \notin S PROVE \E h \in S : h < i /\ ~(Min(Ends(f, h)) < i)
  <2>1. i \in 1..Len(f) /\ f[i].kind = "begin" /\ Ends(f, i) # {}
    BY DEF Closed
  <2>2. Covered(f, i)
    BY <1>0, <1>3, <2>1 DEF Seen, Torn, Wholes
  <2>3. PICK p \in Torn(f) : p < i /\ Ends(f, p) # {} /\ \A j \in Ends(f, p) : i < j
    BY <2>2 DEF Covered
  <2>4. p \in S /\ p \in 1..Len(f)
    BY <1>0, <2>3 DEF Seen, Torn
  <2>5. PICK m \in Ends(f, p) : m = Min(Ends(f, p)) /\ m \in Nat
    BY <2>3, <2>4, EndsAre, MinOf
  <2> QED
    BY <2>1, <2>3, <2>4, <2>5
<1>4. \A i \in Closed(f) : i \in S <=> \A h \in S : h < i => Min(Ends(f, h)) < i
  BY <1>2, <1>3
<1> QED
  BY <1>0, <1>1, <1>4, StartsAre

LEMMA OneTornListedOnce ==
    ASSUME NEW f \in Seq(Lines), OneTorn(f)
    PROVE  \A i, j \in Starts(f) : f[i].of = f[j].of => i = j
BY StartsSeen DEF OneTorn

(* Lines that differ in their texts only.                                   *)
LEMMA SameShape ==
    ASSUME NEW f \in Seq(Lines), NEW g \in Seq(Lines), Len(g) = Len(f),
           \A k \in 1..Len(f) : g[k].kind = f[k].kind /\ (f[k].kind # "text" => g[k] = f[k])
    PROVE  /\ Intact(f) => Intact(g)
           /\ OneTorn(f) => OneTorn(g) /\ Listed(g) = Listed(f)
<1>0. Len(f) \in Nat
  OBVIOUS
<1>1. \A k \in 1..Len(f) : Whole(f, k) <=> Whole(g, k)
  <2> SUFFICES ASSUME NEW k \in 1..Len(f), k + 2 <= Len(f) PROVE Whole(f, k) <=> Whole(g, k)
    BY DEF Whole
  <2>1. k + 1 \in 1..Len(f) /\ k + 2 \in 1..Len(f)
    BY <1>0
  <2>2. \A x : End(x).kind = "end"
    BY DEF End
  <2> QED
    BY <2>1, <2>2 DEF Whole
<1>2. \A k \in 1..Len(f) : f[k].kind = "begin" => Ends(g, k) = Ends(f, k) /\ g[k] = f[k]
  <2> SUFFICES ASSUME NEW k \in 1..Len(f), f[k].kind = "begin" PROVE Ends(g, k) = Ends(f, k) /\ g[k] = f[k]
    OBVIOUS
  <2>1. g[k] = f[k]
    OBVIOUS
  <2>2. \A x : End(x).kind = "end"
    BY DEF End
  <2>3. \A j \in (k + 1)..Len(f) : j \in 1..Len(f)
    BY <1>0
  <2>4. \A j \in (k + 1)..Len(f) : g[j] = End(f[k].of) <=> f[j] = End(f[k].of)
    BY <2>2, <2>3
  <2> QED
    BY <2>1, <2>4 DEF Ends
<1>3. Torn(g) = Torn(f) /\ Wholes(g) = Wholes(f)
  BY <1>1 DEF Torn, Wholes
<1>4. Intact(f) => Intact(g)
  <2> SUFFICES ASSUME Intact(f), NEW k \in 1..Len(f)
               PROVE  \/ g[k].kind = "begin" /\ Whole(g, k)
                      \/ g[k].kind = "text" /\ k > 1 /\ Whole(g, k - 1)
                      \/ g[k].kind = "end" /\ k > 2 /\ Whole(g, k - 2)
    BY DEF Intact
  <2>1. \/ f[k].kind = "begin" /\ Whole(f, k)
        \/ f[k].kind = "text" /\ k > 1 /\ Whole(f, k - 1)
        \/ f[k].kind = "end" /\ k > 2 /\ Whole(f, k - 2)
    BY DEF Intact
  <2>2. (k > 1 => k - 1 \in 1..Len(f)) /\ (k > 2 => k - 2 \in 1..Len(f))
    OBVIOUS
  <2> QED
    BY <1>1, <2>1, <2>2
<1>5. Tidy(f) => Tidy(g)
  <2> SUFFICES ASSUME Tidy(f), NEW k \in 1..Len(f)
               PROVE  \/ g[k].kind = "begin"
                      \/ g[k].kind = "text" /\ k > 1 /\ g[k - 1].kind = "begin"
                      \/ g[k].kind = "end" /\ k > 2 /\ Whole(g, k - 2)
    BY DEF Tidy
  <2>1. \/ f[k].kind = "begin"
        \/ f[k].kind = "text" /\ k > 1 /\ f[k - 1].kind = "begin"
        \/ f[k].kind = "end" /\ k > 2 /\ Whole(f, k - 2)
    BY DEF Tidy
  <2>2. (k > 1 => k - 1 \in 1..Len(f)) /\ (k > 2 => k - 2 \in 1..Len(f))
    OBVIOUS
  <2> QED
    BY <1>1, <2>1, <2>2
<1>6. \A k \in 1..Len(f) : Covered(f, k) <=> Covered(g, k)
  BY <1>2, <1>3 DEF Covered, Torn
<1>7. /\ Seen(g) = Seen(f)
      /\ \A k \in Seen(f) : k \in 1..Len(f) /\ f[k].kind = "begin"
  BY <1>3, <1>6 DEF Seen, Torn, Wholes, Whole
<1>8. OneTorn(f) => OneTorn(g)
  BY <1>2, <1>3, <1>5, <1>7 DEF OneTorn
<1>9. OneTorn(f) => Starts(g) = Starts(f)
  BY <1>2, <1>7, <1>8, StartsSeen
<1>10. OneTorn(f) => Listed(g) = Listed(f)
  <2>1. OneTorn(f) => \A k \in Starts(f) : g[k] = f[k]
    BY <1>2, <1>7, StartsSeen
  <2> QED
    BY <1>9, <2>1 DEF Listed
<1> QED
  BY <1>4, <1>8, <1>10

LEMMA InPlaceShape ==
    ASSUME NEW f \in Seq(Lines), NEW e \in Eas, NEW t \in Texts,
           Matches(f, e) # {}, \A i \in Matches(f, e) : Whole(f, i)
    PROVE  /\ Intact(f) => Intact(Upsert(f, e, t))
           /\ OneTorn(f) => OneTorn(Upsert(f, e, t))
<1>1. PICK g \in Seq(Lines) : g = InPlace(f, e, t) /\ g = Upsert(f, e, t)
  BY UpsertInPlace
<1>2. /\ Len(g) = Len(f)
      /\ \A k \in 1..Len(f) : g[k] = IF k > 1 /\ k - 1 \in Matches(f, e) THEN Text(Shown(t)) ELSE f[k]
  <2>1. g = [k \in 1..Len(f) |-> IF k > 1 /\ k - 1 \in Matches(f, e) THEN Text(Shown(t)) ELSE f[k]]
    BY <1>1 DEF InPlace
  <2> QED
    BY <1>1, <2>1
<1>3. \A k \in 1..Len(f) : g[k].kind = f[k].kind /\ (f[k].kind # "text" => g[k] = f[k])
  <2> SUFFICES ASSUME NEW k \in 1..Len(f) PROVE g[k].kind = f[k].kind /\ (f[k].kind # "text" => g[k] = f[k])
    OBVIOUS
  <2>1. CASE k > 1 /\ k - 1 \in Matches(f, e)
    <3>1. f[k].kind = "text"
      BY <2>1 DEF Whole
    <3> QED
      BY <1>2, <2>1, <3>1 DEF Text
  <2>2. CASE ~(k > 1 /\ k - 1 \in Matches(f, e))
    BY <1>2, <2>2
  <2> QED
    BY <2>1, <2>2
<1> QED
  BY <1>1, <1>2, <1>3, SameShape

LEMMA AppendsAfterTorn ==
    ASSUME NEW f \in Seq(Lines), OneTorn(f), NEW e \in Eas, NEW t \in Texts, e \notin Listed(f)
    PROVE  /\ OneTorn(f \o Section(e, t))
           /\ Listed(f \o Section(e, t)) \subseteq Listed(f) \cup {e}
<1>0. PICK g : g = f \o Section(e, t)
  OBVIOUS
<1> PICK n \in Nat : n = Len(f)
  OBVIOUS
<1>i. g = f \o <<Begin(e), Text(t), End(e)>> /\ Begin(e) \in Lines /\ End(e) \in Lines /\ Text(t) \in Lines
  BY <1>0, ReplacementIs, Zenon
<1>1. g \in Seq(Lines) /\ Len(g) = n + 3
  BY <1>i, ThreeMore
<1>2. /\ \A k \in 1..n : g[k] = f[k]
      /\ g[n + 1] = Begin(e) /\ g[n + 2] = Text(t) /\ g[n + 3] = End(e)
  BY <1>i, ThreeMore
<1>3. /\ g[n + 1].kind = "begin" /\ g[n + 1].of = e
      /\ g[n + 2].kind = "text"
      /\ g[n + 3].kind = "end"
  BY <1>2 DEF Begin, Text, End
<1>4. ASSUME NEW k \in 1..n PROVE Whole(f, k) <=> Whole(g, k)
  <2>1. ASSUME Whole(f, k) PROVE Whole(g, k)
    <3>1. k + 1 \in 1..n /\ k + 2 \in 1..n
      BY <2>1 DEF Whole
    <3> QED
      BY <1>1, <1>2, <2>1, <3>1 DEF Whole
  <2>2. ASSUME Whole(g, k) PROVE Whole(f, k)
    <3>1. k + 1 # n + 1 /\ k + 2 # n + 1
      BY <1>3, <2>2 DEF Whole, End
    <3>2. k + 1 \in 1..n /\ k + 2 \in 1..n
      BY <3>1
    <3> QED
      BY <1>1, <1>2, <2>2, <3>2 DEF Whole
  <2> QED
    BY <2>1, <2>2
<1>5. Whole(g, n + 1)
  <2>1. (n + 1) + 1 = n + 2 /\ (n + 1) + 2 = n + 3
    OBVIOUS
  <2> QED
    BY <1>1, <1>2, <1>3, <2>1 DEF Whole
<1>6. /\ Wholes(g) = Wholes(f) \cup {n + 1} /\ Wholes(f) \subseteq 1..n
      /\ Torn(g) = Torn(f) /\ Torn(f) \subseteq 1..n
  <2>1. \A k \in 1..(n + 3) : k \in 1..n \/ k = n + 1 \/ k = n + 2 \/ k = n + 3
    OBVIOUS
  <2>2. ~Whole(g, n + 2) /\ ~Whole(g, n + 3)
    BY <1>3 DEF Whole
  <2>3. /\ Len(g) = n + 3 /\ Len(f) = n /\ 1..n \subseteq 1..(n + 3) /\ n + 1 \in 1..(n + 3)
        /\ \A k \in 1..n : g[k].kind = f[k].kind
    BY <1>1, <1>2
  <2>4. Wholes(g) = Wholes(f) \cup {n + 1} /\ Wholes(f) \subseteq 1..n
    BY ONLY <1>4, <1>5, <2>1, <2>2, <2>3 DEF Wholes
  <2>5. \A k \in 1..(n + 3) : g[k].kind = "begin" => k \in 1..n \/ k = n + 1
    BY ONLY <1>3, <2>1
  <2>6. Torn(g) = Torn(f) /\ Torn(f) \subseteq 1..n
    BY ONLY <1>4, <1>5, <2>3, <2>5 DEF Torn
  <2> QED
    BY ONLY <2>4, <2>6
<1>7. ASSUME NEW k \in 1..n PROVE Ends(g, k) = Ends(f, k) \cup (IF f[k].of = e THEN {n + 3} ELSE {})
  <2>1. \A j \in (k + 1)..(n + 3) : j \in (k + 1)..n \/ j = n + 1 \/ j = n + 2 \/ j = n + 3
    OBVIOUS
  <2>2. \A x : End(x).kind = "end" /\ End(x).of = x
    BY DEF End
  <2>3. g[n + 1] # End(f[k].of) /\ g[n + 2] # End(f[k].of)
    BY <1>3, <2>2
  <2>4. g[n + 3] = End(f[k].of) <=> f[k].of = e
    BY <1>2, <2>2
  <2>5. g[k] = f[k] /\ \A j \in (k + 1)..n : g[j] = f[j]
    BY <1>2
  <2>6. \A j \in (k + 1)..n : j \in (k + 1)..(n + 3)
    OBVIOUS
  <2>7. n + 3 \in (k + 1)..(n + 3) /\ n + 3 \notin (k + 1)..n /\ Len(g) = n + 3 /\ Len(f) = n
    BY <1>1
  <2> QED
    BY ONLY <2>1, <2>3, <2>4, <2>5, <2>6, <2>7 DEF Ends
<1>8. Tidy(g)
  <2> SUFFICES ASSUME NEW k \in 1..(n + 3)
               PROVE  \/ g[k].kind = "begin"
                      \/ g[k].kind = "text" /\ k > 1 /\ g[k - 1].kind = "begin"
                      \/ g[k].kind = "end" /\ k > 2 /\ Whole(g, k - 2)
    BY <1>1 DEF Tidy
  <2>1. CASE k \in 1..n
    <3>1. \/ f[k].kind = "begin"
          \/ f[k].kind = "text" /\ k > 1 /\ f[k - 1].kind = "begin"
          \/ f[k].kind = "end" /\ k > 2 /\ Whole(f, k - 2)
      BY <2>1 DEF OneTorn, Tidy
    <3>2. (k > 1 => k - 1 \in 1..n) /\ (k > 2 => k - 2 \in 1..n)
      BY <2>1
    <3> QED
      BY <1>2, <1>4, <2>1, <3>1, <3>2
  <2>2. CASE k = n + 1 \/ k = n + 2 \/ k = n + 3
    <3>1. (n + 2) - 1 = n + 1 /\ (n + 3) - 2 = n + 1 /\ n + 2 > 1 /\ n + 3 > 2
      OBVIOUS
    <3> QED
      BY <1>3, <1>5, <2>2, <3>1
  <2> QED
    BY <2>1, <2>2
<1>9. \A k \in Seen(f) : f[k].of = e => Ends(f, k) = {}
  BY StartsSeen DEF Listed
<1>10. Seen(f) \subseteq 1..n /\ Seen(g) \subseteq Seen(f) \cup {n + 1}
  <2>1. ASSUME NEW k \in 1..n, Covered(f, k) PROVE Covered(g, k)
    <3>1. PICK p \in Torn(f) : p < k /\ Ends(f, p) # {} /\ \A j \in Ends(f, p) : k < j
      BY <2>1 DEF Covered
    <3>2. Ends(g, p) # {} /\ \A j \in Ends(g, p) : k < j
      BY <1>6, <1>7, <3>1
    <3> QED
      BY <1>6, <3>1, <3>2 DEF Covered
  <2> QED
    BY <1>6, <2>1 DEF Seen
<1>11. (\E p \in Torn(f) : f[p].of = e) => n + 1 \notin Seen(g)
  <2> SUFFICES ASSUME NEW p \in Torn(f), f[p].of = e PROVE n + 1 \notin Seen(g)
    OBVIOUS
  <2>1. Ends(f, p) = {} /\ p \in 1..n
    BY <1>6, <1>9 DEF Seen
  <2>2. Ends(g, p) = {n + 3}
    BY <1>7, <2>1
  <2>3. Covered(g, n + 1)
    BY <1>6, <2>1, <2>2 DEF Covered
  <2> QED
    BY <1>6, <2>3 DEF Seen
<1>12. (\A p \in Torn(f) : f[p].of # e) => \A k \in Seen(f) : f[k].of # e
  BY <1>9, EndOfWhole DEF Seen, Wholes
<1>13. \A i, j \in Seen(g) : g[i].of = g[j].of => i = j
  <2>1. \A i, j \in Seen(f) : g[i].of = g[j].of => i = j
    BY <1>2, <1>10 DEF OneTorn
  <2>2. n + 1 \in Seen(g) => \A k \in Seen(f) : g[k].of # e
    BY <1>2, <1>10, <1>11, <1>12
  <2> QED
    BY <1>3, <1>10, <2>1, <2>2
<1>14. OneTorn(g)
  BY <1>6, <1>8, <1>13 DEF OneTorn
<1>15. Listed(g) \subseteq Listed(f) \cup {e}
  <2>1. ASSUME NEW k \in Starts(g) PROVE g[k].of \in Listed(f) \cup {e}
    <3>1. k \in Seen(g) /\ Ends(g, k) # {}
      BY <1>1, <1>14, <2>1, StartsSeen
    <3>2. CASE k \in Seen(f) /\ f[k].of # e
      <4>1. Ends(f, k) # {} /\ g[k] = f[k]
        BY <1>2, <1>7, <1>10, <3>1, <3>2
      <4>2. k \in Starts(f)
        BY <3>2, <4>1, StartsSeen
      <4> QED
        BY <4>1, <4>2 DEF Listed
    <3> QED
      BY <1>2, <1>3, <1>10, <3>1, <3>2
  <2> QED
    BY <2>1 DEF Listed
<1> QED
  BY <1>0, <1>14, <1>15

(* The writer of a whole file dies.                                         *)
LEMMA OneTornLeft ==
    ASSUME NEW g \in Seq(Lines), Intact(g), OneTorn(g), NEW n \in 0..Len(g)
    PROVE  OneTorn(SubSeq(g, 1, n))
<1>0. PICK h : h = SubSeq(g, 1, n)
  OBVIOUS
<1>1. h \in Seq(Lines) /\ Len(h) = n /\ n \in Nat /\ \A k \in 1..n : h[k] = g[k]
  BY <1>0, FirstLines
<1>2. \A k \in 1..n : Whole(h, k) <=> Whole(g, k) /\ k + 2 <= n
  <2> SUFFICES ASSUME NEW k \in 1..n PROVE Whole(h, k) <=> Whole(g, k) /\ k + 2 <= n
    OBVIOUS
  <2>1. CASE k + 2 <= n
    <3>1. k + 1 \in 1..n /\ k + 2 \in 1..n /\ k + 2 <= Len(g)
      BY <1>1, <2>1
    <3> QED
      BY <1>1, <2>1, <3>1 DEF Whole
  <2>2. CASE ~(k + 2 <= n)
    BY <1>1, <2>2 DEF Whole
  <2> QED
    BY <2>1, <2>2
<1>3. \A k \in Torn(h) : k \in 1..n /\ Whole(g, k) /\ k + 2 > n
  <2> SUFFICES ASSUME NEW k \in Torn(h) PROVE k \in 1..n /\ Whole(g, k) /\ k + 2 > n
    OBVIOUS
  <2>1. k \in 1..n /\ h[k].kind = "begin" /\ ~Whole(h, k)
    BY <1>1 DEF Torn
  <2>2. Whole(g, k)
    <3>1. k \in 1..Len(g) /\ g[k].kind = "begin"
      BY <1>1, <2>1
    <3> QED
      BY <3>1, IntactIs DEF Wholes
  <2> QED
    BY <1>1, <1>2, <2>1, <2>2
<1>4. \A p, q \in Torn(h) : p = q
  <2> SUFFICES ASSUME NEW p \in Torn(h), NEW q \in Torn(h), p < q PROVE FALSE
    BY <1>1, <1>3
  <2>1. p \in 1..Len(g) /\ q \in 1..Len(g) /\ Whole(g, p) /\ g[q].kind = "begin"
    BY <1>1, <1>3 DEF Whole
  <2>2. p + 2 < q
    BY <2>1, WholesApart
  <2> QED
    BY <1>1, <1>3, <2>2
<1>5. Tidy(h)
  <2> SUFFICES ASSUME NEW k \in 1..n
               PROVE  \/ h[k].kind = "begin"
                      \/ h[k].kind = "text" /\ k > 1 /\ h[k - 1].kind = "begin"
                      \/ h[k].kind = "end" /\ k > 2 /\ Whole(h, k - 2)
    BY <1>1 DEF Tidy
  <2>1. \/ g[k].kind = "begin"
        \/ g[k].kind = "text" /\ k > 1 /\ g[k - 1].kind = "begin"
        \/ g[k].kind = "end" /\ k > 2 /\ Whole(g, k - 2)
    <3>1. k \in 1..Len(g) /\ Tidy(g)
      BY <1>1 DEF OneTorn
    <3> QED
      BY <3>1 DEF Tidy
  <2>2. (k > 1 => k - 1 \in 1..n) /\ (k > 2 => k - 2 \in 1..n /\ (k - 2) + 2 <= n)
    BY <1>1
  <2> QED
    BY <1>1, <1>2, <2>1, <2>2
<1>6. Seen(h) \subseteq Wholes(g) /\ Seen(h) \subseteq 1..n
  BY <1>1, <1>2, <1>3 DEF Seen, Wholes
<1>7. Wholes(g) \subseteq Seen(g)
  BY IntactIs DEF Seen, Covered
<1>8. \A i, j \in Seen(h) : h[i].of = h[j].of => i = j
  BY <1>1, <1>6, <1>7 DEF OneTorn
<1> QED
  BY <1>0, <1>4, <1>5, <1>8 DEF OneTorn

(* The torn section is what the pattern of e matches: it and all it has     *)
(* taken are replaced by the section of e, and the file is whole.           *)
LEMMA ReplacesTorn ==
    ASSUME NEW f \in Seq(Lines), OneTorn(f), NEW e \in Eas, NEW t \in Texts,
           NEW p \in Torn(f), p \in Matches(f, e)
    PROVE  OneTorn(Upsert(f, e, t)) /\ Intact(Upsert(f, e, t))
<1> PICK n \in Nat : n = Len(f)
  OBVIOUS
<1>1. /\ p \in 1..n /\ f[p] = Begin(e) /\ Ends(f, p) # {}
      /\ f[p].kind = "begin" /\ f[p].of = e /\ p \in Seen(f)
  BY DEF Torn, Matches, Begin, Seen
<1>2. PICK q \in 1..n : /\ q = Min(Ends(f, p)) /\ q \in Ends(f, p) /\ q > p
                        /\ f[q].kind = "end" /\ \A j \in Ends(f, p) : q <= j
  <2>1. Ends(f, p) \subseteq Nat /\ Ends(f, p) # {}
    BY <1>1, EndsAre
  <2>2. Min(Ends(f, p)) \in Ends(f, p) /\ \A j \in Ends(f, p) : Min(Ends(f, p)) <= j
    BY <2>1, MinOf
  <2> QED
    BY <1>1, <2>2, EndsAre
<1>3. Matches(f, e) = {p}
  <2> SUFFICES ASSUME NEW k \in Matches(f, e), k # p PROVE FALSE
    OBVIOUS
  <2>1. /\ k \in 1..n /\ f[k] = Begin(e) /\ f[k].of = e /\ f[k].kind = "begin"
        /\ p < k => q < k
    <3>1. p < k => p \in 1..(k - 1)
      BY <1>1 DEF Matches
    <3> QED
      BY <1>1, <1>2, <3>1 DEF Matches, Begin
  <2>2. ~Covered(f, k)
    <3>1. ASSUME NEW r \in Torn(f), r < k, \A j \in Ends(f, r) : k < j PROVE FALSE
      <4>1. r = p
        BY DEF OneTorn
      <4> QED
        BY <1>2, <2>1, <3>1, <4>1
    <3> QED
      BY <3>1 DEF Covered
  <2>3. k \in Seen(f)
    BY <2>1, <2>2 DEF Seen, Torn, Wholes
  <2> QED
    BY <1>1, <2>1, <2>3 DEF OneTorn
<1>4. p \in 1..n /\ q \in 1..n /\ p < q
  BY <1>1, <1>2
<1>5. PICK d \in Int : d = p + 2 - q
  BY <1>4
<1>6. PICK r : r = [k \in 1..(n + d) |-> IF k < p THEN f[k]
                                        ELSE IF k = p THEN Begin(e)
                                        ELSE IF k = p + 1 THEN Text(Shown(t))
                                        ELSE IF k = p + 2 THEN End(e)
                                        ELSE f[k - d]]
  OBVIOUS
<1>7. r \in Seq(Lines) /\ Len(r) = n + d
  <2>1. \A k \in 1..(n + d) : (k < p => k \in 1..n) /\ (k > p + 2 => k - d \in 1..n)
    BY <1>4, <1>5
  <2>2. \A k \in 1..n : f[k] \in Lines
    OBVIOUS
  <2>3. \A k \in 1..(n + d) : k < p \/ k = p \/ k = p + 1 \/ k = p + 2 \/ k > p + 2
    BY <1>4
  <2>4. Begin(e) \in Lines /\ Text(Shown(t)) \in Lines /\ End(e) \in Lines
    BY ReplacementIs
  <2>5. r \in [1..(n + d) -> Lines]
    BY <1>6, <2>1, <2>2, <2>3, <2>4
  <2>6. n + d \in Nat
    BY <1>4, <1>5
  <2> QED
    BY <2>5, <2>6
<1>8. /\ \A k \in 1..(p - 1) : r[k] = f[k]
      /\ r[p] = Begin(e) /\ r[p + 1] = Text(Shown(t)) /\ r[p + 2] = End(e)
      /\ \A k \in (q + 1)..n : k + d \in 1..Len(r) /\ r[k + d] = f[k]
  <2>1. /\ \A k \in 1..(p - 1) : k \in 1..(n + d) /\ k < p
        /\ p \in 1..(n + d) /\ p + 1 \in 1..(n + d) /\ p + 2 \in 1..(n + d)
        /\ \A k \in (q + 1)..n : k + d \in 1..(n + d) /\ k + d > p + 2 /\ (k + d) - d = k
    BY <1>4, <1>5
  <2>2. ASSUME NEW k \in (q + 1)..n PROVE r[k + d] = f[k]
    <3>1. PICK m \in 1..(n + d) : m = k + d /\ m > p + 2 /\ m - d = k
      BY <2>1
    <3>2. r[m] = f[m - d]
      BY <1>4, <1>6, <3>1
    <3> QED
      BY <3>1, <3>2
  <2>3. r[p] = Begin(e) /\ r[p + 1] = Text(Shown(t)) /\ r[p + 2] = End(e)
    BY <1>4, <1>6, <2>1
  <2>4. \A k \in 1..(p - 1) : r[k] = f[k]
    BY <1>6, <2>1
  <2> QED
    BY <1>7, <2>1, <2>2, <2>3, <2>4
<1>9. r = Upsert(f, e, t)
  <2>1. PICK s : s = [k \in 1..n |-> IF k \in {p} THEN Replacement(e, t)
                                     ELSE IF \E i \in {p} : i < k /\ k <= Min(Ends(f, i)) THEN <<>>
                                     ELSE <<f[k]>>]
    OBVIOUS
  <2>2. Upsert(f, e, t) = FlattenSeq(s)
    BY <1>3, <2>1 DEF Upsert, Replacement
  <2>3. \A k \in 1..n : /\ k < p \/ k > q => s[k] = <<f[k]>>
                        /\ k = p => s[k] = <<Begin(e), Text(Shown(t)), End(e)>>
                        /\ k > p /\ k <= q => s[k] = <<>>
    BY <1>2, <1>4, <2>1, ReplacementIs
  <2>4. s \in Seq(Seq(Lines)) /\ Len(s) = n /\ s # <<>>
    <3>1. \A k \in 1..n : <<f[k]>> \in Seq(Lines)
      OBVIOUS
    <3>2. <<>> \in Seq(Lines)
      OBVIOUS
    <3>3. \A k \in 1..n : s[k] \in Seq(Lines)
      BY <2>1, <3>1, <3>2, ReplacementIs
    <3>4. s \in [1..n -> Seq(Lines)]
      BY <2>1, <3>3
    <3> QED
      BY <1>4, <3>4
  <2>5. PICK len : len = [i \in 0..n |-> IF i < p THEN i ELSE IF i <= q THEN p + 2 ELSE i + d]
    OBVIOUS
  <2>6. len \in [0..n -> 0..(n + d)] /\ len[0] = 0 /\ len[n] = n + d
    BY <1>4, <1>5, <2>5
  <2>7. ASSUME NEW i \in 1..n
        PROVE  \/ s[i] = <<>> /\ len[i] = len[i - 1]
               \/ s[i] = <<r[len[i - 1] + 1]>> /\ len[i] = len[i - 1] + 1
               \/ /\ s[i] = <<r[len[i - 1] + 1], r[len[i - 1] + 2], r[len[i - 1] + 3]>>
                  /\ len[i] = len[i - 1] + 3
    <3>1. i - 1 \in 0..n /\ i \in 0..n
      OBVIOUS
    <3>2. CASE i < p
      <4>1. len[i] = i /\ len[i - 1] = i - 1 /\ (i - 1) + 1 = i /\ i \in 1..(p - 1)
        BY <1>4, <2>5, <3>1, <3>2
      <4> QED
        BY <1>8, <2>3, <3>2, <4>1
    <3>3. CASE i = p
      <4>1. len[i] = p + 2 /\ len[i - 1] = p - 1 /\ (p - 1) + 1 = p /\ (p - 1) + 2 = p + 1 /\ (p - 1) + 3 = p + 2
        BY <1>4, <2>5, <3>1, <3>3
      <4> QED
        BY <1>8, <2>3, <3>3, <4>1
    <3>4. CASE i > p /\ i <= q
      <4>1. len[i] = len[i - 1]
        BY <1>4, <2>5, <3>1, <3>4
      <4> QED
        BY <2>3, <3>4, <4>1
    <3>5. CASE i > q
      <4>1. len[i] = i + d /\ len[i - 1] + 1 = i + d /\ i \in (q + 1)..n
        BY <1>4, <1>5, <2>5, <3>1, <3>5
      <4> QED
        BY <1>8, <2>3, <3>5, <4>1
    <3> QED
      BY <1>4, <3>2, <3>3, <3>4, <3>5
  <2>8. FlattenSeq(s) = r
    BY <1>7, <2>4, <2>6, <2>7, FlattenedBy
  <2> QED
    BY <2>2, <2>8
<1>12. \A k \in 1..Len(r) : k \in 1..(p - 1) \/ k \in p..(p + 2) \/ k - d \in (q + 1)..n
  <2>1. Len(r) = n + d
    BY <1>7, <1>8
  <2> QED
    BY <1>4, <1>5, <2>1
<1>13. \A k \in 1..n : k # p /\ f[k].kind = "begin" => Whole(f, k)
  BY DEF OneTorn, Torn
<1>14. ASSUME NEW k \in 1..(p - 1), Whole(f, k) PROVE Whole(r, k) /\ k + 2 < p
  <2>1. k + 2 < p
    BY <1>1, <1>14, WholesApart
  <2>2. k + 1 \in 1..(p - 1) /\ k + 2 \in 1..(p - 1) /\ k + 2 <= Len(r)
    BY <1>4, <1>5, <1>7, <1>8, <2>1
  <2> QED
    BY <1>7, <1>8, <1>14, <2>1, <2>2 DEF Whole
<1>15. ASSUME NEW k \in (q + 1)..n, Whole(f, k) PROVE Whole(r, k + d)
  <2>1. k + 1 \in (q + 1)..n /\ k + 2 \in (q + 1)..n /\ (k + 1) + d = (k + d) + 1 /\ (k + 2) + d = (k + d) + 2
    BY <1>5, <1>15 DEF Whole
  <2>2. r[k + d] = f[k] /\ r[(k + d) + 1] = f[k + 1] /\ r[(k + d) + 2] = f[k + 2] /\ (k + d) + 2 <= Len(r)
    <3>1. k + 2 <= n /\ Len(r) = n + d /\ k \in Int
      BY <1>7, <1>8, <2>1, <1>4
    <3>2. (k + d) + 2 <= Len(r)
      BY <1>5, <3>1
    <3> QED
      BY <1>7, <1>8, <2>1, <3>2
  <2> QED
    BY <1>15, <2>2 DEF Whole
<1>16. Whole(r, p) /\ r[p].kind = "begin" /\ r[p + 1].kind = "text" /\ r[p + 2].kind = "end"
  <2>1. r[p].kind = "begin" /\ r[p].of = e /\ r[p + 1].kind = "text" /\ r[p + 2].kind = "end"
    BY <1>8 DEF Begin, Text, End
  <2>2. p + 2 <= Len(r)
    BY <1>4, <1>5, <1>7
  <2>3. r[p + 2] = End(r[p].of)
    BY <1>8, <2>1
  <2> QED
    BY <2>1, <2>2, <2>3 DEF Whole
<1>17. Intact(r)
  <2> SUFFICES ASSUME NEW k \in 1..Len(r)
               PROVE  \/ r[k].kind = "begin" /\ Whole(r, k)
                      \/ r[k].kind = "text" /\ k > 1 /\ Whole(r, k - 1)
                      \/ r[k].kind = "end" /\ k > 2 /\ Whole(r, k - 2)
    BY DEF Intact
  <2>t. Tidy(f)
    BY DEF OneTorn
  <2>1. CASE k \in 1..(p - 1)
    <3>1. k \in 1..n /\ r[k] = f[k] /\ k # p /\ k - 1 # p /\ k - 2 # p
      <4>1. n \in Nat
        OBVIOUS
      <4>2. k \in 1..n /\ k # p /\ k - 1 # p /\ k - 2 # p
        BY ONLY <1>4, <2>1, <4>1
      <4> QED
        BY ONLY <1>8, <2>1, <4>2
    <3>2. \/ f[k].kind = "begin"
          \/ f[k].kind = "text" /\ k > 1 /\ f[k - 1].kind = "begin"
          \/ f[k].kind = "end" /\ k > 2 /\ Whole(f, k - 2)
      BY <2>t, <3>1 DEF Tidy
    <3>3. (k > 1 => k - 1 \in 1..(p - 1) /\ k - 1 \in 1..n) /\ (k > 2 => k - 2 \in 1..(p - 1))
      BY <1>1, <2>1
    <3> QED
      BY <1>13, <1>14, <2>1, <3>1, <3>2, <3>3
  <2>2. CASE k \in p..(p + 2)
    <3>1. k = p \/ k = p + 1 \/ k = p + 2
      BY <1>1, <2>2
    <3>2. (p + 1) - 1 = p /\ (p + 2) - 2 = p /\ p + 1 > 1 /\ p + 2 > 2
      BY <1>1
    <3> QED
      BY <1>16, <3>1, <3>2
  <2>3. CASE k - d \in (q + 1)..n
    <3>0. ASSUME NEW i \in Int PROVE i = (i - d) + d /\ i - 1 = ((i - d) - 1) + d /\ i - 2 = ((i - d) - 2) + d
      OBVIOUS
    <3>1. PICK m \in (q + 1)..n : m = k - d /\ k = m + d /\ k - 1 = (m - 1) + d /\ k - 2 = (m - 2) + d
      <4>1. k \in Int
        OBVIOUS
      <4> QED
        BY ONLY <2>3, <3>0, <4>1
    <3>2. m \in 1..n /\ r[k] = f[m] /\ m > 2 /\ m - 1 \in 1..n /\ m - 2 \in 1..n
      BY <1>1, <1>2, <1>7, <1>8, <3>1
    <3>3. \/ f[m].kind = "begin"
          \/ f[m].kind = "text" /\ f[m - 1].kind = "begin"
          \/ f[m].kind = "end" /\ Whole(f, m - 2)
      BY <2>t, <3>2 DEF Tidy
    <3>4. k > 2
      BY <1>4, <1>5, <3>1
    <3>5. f[m].kind = "text" => m - 1 \in (q + 1)..n /\ Whole(f, m - 1)
      <4>1. f[m].kind = "text" => f[m - 1].kind = "begin" /\ m - 1 # q
        BY <1>2, <3>3
      <4>2. m - 1 # q => m - 1 \in (q + 1)..n /\ m - 1 # p
        BY <1>4, <3>1
      <4> QED
        BY <1>13, <3>2, <4>1, <4>2
    <3>6. f[m].kind = "end" => m - 2 \in (q + 1)..n /\ Whole(f, m - 2)
      <4>1. Whole(f, m - 2) => f[m - 2].kind = "begin" /\ f[m - 1].kind = "text"
        <5>1. (m - 2) + 1 = m - 1
          BY <3>1
        <5> QED
          BY <5>1 DEF Whole
      <4>2. f[m].kind = "end" => m - 2 # q /\ m - 1 # q
        BY <1>2, <3>3, <4>1
      <4>3. m - 2 # q /\ m - 1 # q => m - 2 \in (q + 1)..n
        BY <1>4, <3>1
      <4> QED
        BY <3>3, <4>2, <4>3
    <3>7. CASE f[m].kind = "begin"
      <4>1. m # p /\ m \in (q + 1)..n
        BY <1>4, <3>1
      <4>2. Whole(r, m + d)
        BY <1>13, <1>15, <3>2, <3>7, <4>1
      <4> QED
        BY <3>1, <3>2, <3>7, <4>2
    <3>8. CASE f[m].kind = "text"
      <4>1. Whole(r, (m - 1) + d)
        BY <1>15, <3>5, <3>8
      <4> QED
        BY <3>1, <3>2, <3>4, <3>8, <4>1
    <3>9. CASE f[m].kind = "end"
      <4>1. Whole(r, (m - 2) + d)
        BY <1>15, <3>6, <3>9
      <4> QED
        BY <3>1, <3>2, <3>4, <3>9, <4>1
    <3> QED
      BY <3>3, <3>7, <3>8, <3>9
  <2> QED
    BY <1>12, <2>1, <2>2, <2>3
<1>18. /\ Wholes(r) \subseteq 1..Len(r)
       /\ \A k \in Wholes(r) : /\ k \in 1..(p - 1) => k \in Seen(f) /\ k # p /\ r[k] = f[k]
                               /\ k - d \in (q + 1)..n => k - d \in Seen(f) /\ k - d # p /\ r[k] = f[k - d]
                               /\ k \in p..(p + 2) => k = p
  <2> SUFFICES ASSUME NEW k \in Wholes(r)
               PROVE  /\ k \in 1..(p - 1) => k \in Seen(f) /\ k # p /\ r[k] = f[k]
                      /\ k - d \in (q + 1)..n => k - d \in Seen(f) /\ k - d # p /\ r[k] = f[k - d]
                      /\ k \in p..(p + 2) => k = p
    BY DEF Wholes
  <2>0. k \in 1..Len(r) /\ r[k].kind = "begin"
    BY DEF Wholes, Whole
  <2>u. \A x \in Torn(f) : x = p
    BY DEF OneTorn
  <2>1. ASSUME k \in 1..(p - 1) PROVE k \in Seen(f) /\ k # p /\ r[k] = f[k]
    <3>1. k \in 1..n /\ k # p /\ ~(p < k)
      BY <1>4, <2>1
    <3>2. r[k] = f[k]
      BY <1>8, <2>1
    <3>3. Whole(f, k) /\ ~Covered(f, k)
      BY <1>13, <2>0, <2>u, <3>1, <3>2 DEF Covered
    <3> QED
      BY <3>1, <3>2, <3>3 DEF Seen, Wholes
  <2>2. ASSUME k - d \in (q + 1)..n PROVE k - d \in Seen(f) /\ k - d # p /\ r[k] = f[k - d]
    <3>1. PICK m \in (q + 1)..n : m = k - d /\ k = m + d
      BY <1>5, <2>0, <2>2
    <3>2. m \in 1..n /\ m # p /\ ~(m < q)
      BY <1>4, <3>1
    <3>3. r[k] = f[m]
      BY <1>8, <3>1
    <3>4. Whole(f, m) /\ ~Covered(f, m)
      BY <1>2, <1>13, <2>0, <2>u, <3>2, <3>3 DEF Covered
    <3> QED
      BY <3>1, <3>2, <3>3, <3>4 DEF Seen, Wholes
  <2>3. ASSUME k \in p..(p + 2) PROVE k = p
    <3>1. k = p \/ k = p + 1 \/ k = p + 2
      BY <1>4, <2>3
    <3>2. r[p + 1].kind = "text" /\ r[p + 2].kind = "end"
      BY <1>8 DEF Text, End
    <3> QED
      BY <2>0, <3>1, <3>2
  <2> QED
    BY <2>1, <2>2, <2>3
<1>19. \A i, j \in Wholes(r) : r[i].of = r[j].of => i = j
  <2>1. ASSUME NEW i \in Wholes(r), NEW j \in Wholes(r), i < j PROVE r[i].of # r[j].of
    <3>1. \A k \in Wholes(r) : k \in 1..(p - 1) \/ k = p \/ k - d \in (q + 1)..n
      BY <1>12, <1>18
    <3>2. r[p].of = e /\ \A k \in Seen(f) : k # p => f[k].of # e
      BY <1>1, <1>8 DEF OneTorn, Begin
    <3>3. \A x, y \in Seen(f) : f[x].of = f[y].of => x = y
      BY DEF OneTorn
    <3>4. i \in Int /\ j \in Int
      BY <1>18
    <3>5. CASE i = p \/ j = p
      <4>1. i # p => r[i].of # e
        BY <1>18, <3>1, <3>2
      <4>2. j # p => r[j].of # e
        BY <1>18, <3>1, <3>2
      <4>3. i # j
        BY <2>1, <3>4
      <4> QED
        BY <3>2, <3>5, <4>1, <4>2, <4>3
    <3>6. CASE i \in 1..(p - 1) /\ j \in 1..(p - 1)
      BY <1>18, <2>1, <3>3, <3>6
    <3>7. CASE i \in 1..(p - 1) /\ j - d \in (q + 1)..n
      <4>0. n \in Nat
        OBVIOUS
      <4>1. i # j - d
        BY ONLY <1>4, <3>7, <4>0
      <4>2. r[i] = f[i] /\ i \in Seen(f) /\ r[j] = f[j - d] /\ j - d \in Seen(f)
        BY <1>18, <3>7
      <4> QED
        BY <3>3, <4>1, <4>2
    <3>8. CASE i - d \in (q + 1)..n /\ j - d \in (q + 1)..n
      <4>1. i - d # j - d
        BY <1>5, <2>1, <3>4
      <4> QED
        BY <1>18, <3>3, <3>8, <4>1
    <3>9. ~(i - d \in (q + 1)..n /\ j \in 1..(p - 1))
      BY <1>4, <1>5, <2>1, <3>4
    <3> QED
      BY <3>1, <3>5, <3>6, <3>7, <3>8, <3>9
  <2>2. \A i, j \in Wholes(r) : i < j \/ j < i \/ i = j
    BY <1>18
  <2> QED
    BY <2>1, <2>2
<1>20. Torn(r) = {} /\ Seen(r) = Wholes(r)
  BY <1>7, <1>17, IntactIs DEF Seen, Covered
<1>21. Tidy(r)
  BY <1>17 DEF Tidy, Intact, Whole
<1> QED
  BY <1>9, <1>17, <1>19, <1>20, <1>21 DEF OneTorn

LEMMA UpsertAfterTorn ==
    ASSUME NEW f \in Seq(Lines), OneTorn(f), NEW e \in Eas, NEW t \in Texts
    PROVE  OneTorn(Upsert(f, e, t))
<1>1. CASE Matches(f, e) = {}
  <2>1. PICK S : S = {k \in 1..Len(f) : f[k] = Begin(e) /\ Ends(f, k) # {}}
    OBVIOUS
  <2>2. S = {}
    <3> SUFFICES ASSUME S # {} PROVE FALSE
      OBVIOUS
    <3>1. Min(S) \in S /\ \A y \in S : Min(S) <= y
      <4>1. S \subseteq Nat
        BY <2>1
      <4> QED
        BY <4>1, MinOf
    <3>2. PICK i \in S : \A y \in S : i <= y
      BY <3>1
    <3>3. i \in 1..Len(f) /\ f[i] = Begin(e) /\ Ends(f, i) # {}
      BY <2>1
    <3>4. ASSUME NEW h \in 1..(i - 1), f[h] = Begin(e) PROVE FALSE
      <4>1. h \in 1..Len(f) /\ h < i
        BY <3>3
      <4>2. Ends(f, i) \subseteq Ends(f, h)
        BY <3>3, <3>4, <4>1 DEF Ends
      <4> QED
        BY <2>1, <3>2, <3>3, <3>4, <4>1, <4>2
    <3>5. i \in Matches(f, e)
      BY <3>3, <3>4 DEF Matches
    <3> QED
      BY <1>1, <3>5
  <2>3. e \notin Listed(f)
    <3> SUFFICES ASSUME NEW k \in Starts(f), f[k].of = e PROVE FALSE
      BY DEF Listed
    <3>1. k \in Seen(f) /\ Ends(f, k) # {}
      BY StartsSeen
    <3>2. k \in 1..Len(f) /\ f[k].kind = "begin"
      BY <3>1 DEF Seen, Torn, Wholes, Whole
    <3>3. f[k] = Begin(e)
      BY <3>2, LinesAre
    <3> QED
      BY <2>1, <2>2, <3>1, <3>2, <3>3
  <2>4. Upsert(f, e, t) = f \o Section(e, t)
    BY <1>1 DEF Upsert
  <2> QED
    BY <2>3, <2>4, AppendsAfterTorn
<1>2. CASE Matches(f, e) \cap Torn(f) # {}
  BY <1>2, ReplacesTorn
<1>3. CASE Matches(f, e) # {} /\ Matches(f, e) \cap Torn(f) = {}
  <2>1. \A i \in Matches(f, e) : Whole(f, i)
    BY <1>3 DEF Matches, Torn, Begin
  <2> QED
    BY <1>3, <2>1, InPlaceShape
<1> QED
  BY <1>1, <1>2, <1>3

(* The empty file has no section.                                           *)
LEMMA EmptyFile ==
    /\ <<>> \in Seq(Lines) /\ Intact(<<>>) /\ Listed(<<>>) = {} /\ OneTorn(<<>>)
    /\ \A e : Found(<<>>, e) = NoSection
<1>1. PICK f \in Seq(Lines) : f = <<>> /\ Len(f) = 0
  <2>1. <<>> \in Seq(Lines) /\ Len(<<>>) = 0
    OBVIOUS
  <2> QED
    BY <2>1
<1>2. 1..Len(f) = {}
  BY <1>1
<1>3. Intact(f)
  BY <1>2 DEF Intact
<1>4. Wholes(f) = {} /\ TornForGood(f)
  BY <1>2 DEF Wholes, TornForGood, Torn
<1>5. Starts(f) = {}
  BY <1>4, StartsOfTidy DEF TornForGood
<1>6. Listed(f) = {} /\ \A e : Found(f, e) = NoSection
  BY <1>5 DEF Listed, Found
<1>7. OneTorn(f)
  BY <1>2 DEF OneTorn, Tidy, Torn, Wholes, Seen
<1> QED
  BY <1>1, <1>3, <1>6, <1>7

(* A part of what is appended leaves a part of the longer file.             *)
LEMMA PrefixOfBoth ==
    ASSUME NEW S, NEW a \in Seq(S), NEW b \in Seq(S), NEW m \in 0..Len(b)
    PROVE  Len(a) + m \in 0..Len(a \o b) /\ a \o SubSeq(b, 1, m) = SubSeq(a \o b, 1, Len(a) + m)
<1>1. PICK c : c = SubSeq(b, 1, m)
  OBVIOUS
<1>2. c \in Seq(S) /\ Len(c) = m /\ \A k \in 1..m : c[k] = b[k]
  BY <1>1, FirstLines
<1>3. PICK d : d = a \o b
  OBVIOUS
<1>4. /\ d \in Seq(S) /\ Len(d) = Len(a) + Len(b)
      /\ \A k \in 1..Len(a) : d[k] = a[k]
      /\ \A k \in 1..Len(b) : d[Len(a) + k] = b[k]
  BY <1>3, Joined
<1>5. PICK p : p = a \o c
  OBVIOUS
<1>6. /\ p \in Seq(S) /\ Len(p) = Len(a) + m
      /\ \A k \in 1..Len(a) : p[k] = a[k]
      /\ \A k \in 1..m : p[Len(a) + k] = c[k]
  BY <1>2, <1>5, Joined
<1>7. PICK n \in 0..Len(d) : n = Len(a) + m
  BY <1>4
<1>8. PICK q : q = SubSeq(d, 1, n)
  OBVIOUS
<1>9. q \in Seq(S) /\ Len(q) = n /\ \A k \in 1..n : q[k] = d[k]
  BY <1>4, <1>8, FirstLines
<1>10. \A k \in 1..n : p[k] = q[k]
  <2> SUFFICES ASSUME NEW k \in 1..n PROVE p[k] = q[k]
    OBVIOUS
  <2>1. CASE k <= Len(a)
    BY <1>4, <1>6, <1>9, <2>1
  <2>2. CASE k > Len(a)
    <3>1. k - Len(a) \in 1..m /\ k - Len(a) \in 1..Len(b) /\ Len(a) + (k - Len(a)) = k
      BY <1>7, <2>2
    <3> QED
      BY <1>2, <1>4, <1>6, <1>9, <3>1
  <2> QED
    BY <1>7, <2>1, <2>2
<1>11. p = q
  BY <1>6, <1>7, <1>9, <1>10
<1> QED
  BY <1>1, <1>3, <1>5, <1>7, <1>8, <1>11, Zenon

LEMMA ListedMatches ==
    ASSUME NEW f \in Seq(Lines), Intact(f), NEW e \in Eas
    PROVE  Matches(f, e) = {} <=> e \notin Listed(f)
<1>1. Starts(f) = Wholes(f) /\ Matches(f, e) = {k \in Wholes(f) : f[k].of = e}
  BY IntactIs, StartsOfTidy DEF TornForGood
<1> QED
  BY <1>1 DEF Listed
-----------------------------------------------------------------------------
(* The functions with a BEGIN line, whatever follows it: all that readers   *)
(* could ever find.                                                         *)
Begun(f) == {f[k].of : k \in {i \in 1..Len(f) : f[i].kind = "begin"}}

LEMMA ListedAreBegun == ASSUME NEW f \in Seq(Lines) PROVE Listed(f) \subseteq Begun(f) /\ Begun(f) \subseteq Eas
<1>1. Listed(f) \subseteq Begun(f)
  BY StartsBegin DEF Listed, Begun, Closed
<1>2. \A k \in 1..Len(f) : f[k].kind = "begin" => f[k].of \in Eas
  BY LinesAre
<1> QED
  BY <1>1, <1>2 DEF Begun

LEMMA IntactListed == ASSUME NEW f \in Seq(Lines), Intact(f) PROVE Listed(f) = Begun(f)
<1>1. Starts(f) = Wholes(f)
  BY IntactIs, StartsOfTidy DEF TornForGood
<1>2. Wholes(f) = {k \in 1..Len(f) : f[k].kind = "begin"}
  BY IntactIs DEF Wholes, Whole
<1> QED
  BY <1>1, <1>2 DEF Listed, Begun

LEMMA AppendBegins ==
    ASSUME NEW f \in Seq(Lines), NEW e \in Eas, NEW t \in Texts
    PROVE  f \o Section(e, t) \in Seq(Lines) /\ Begun(f \o Section(e, t)) = Begun(f) \cup {e}
<1> PICK g : g = f \o <<Begin(e), Text(t), End(e)>>
  OBVIOUS
<1> PICK n \in Nat : n = Len(f)
  OBVIOUS
<1>1. Begin(e) \in Lines /\ Text(t) \in Lines /\ End(e) \in Lines /\ g = f \o Section(e, t)
  BY ReplacementIs, Zenon
<1>2. /\ g \in Seq(Lines) /\ Len(g) = n + 3 /\ \A k \in 1..n : g[k] = f[k]
      /\ g[n + 1] = Begin(e) /\ g[n + 2] = Text(t) /\ g[n + 3] = End(e)
  BY <1>1, ThreeMore
<1>3. /\ g[n + 1].kind = "begin" /\ g[n + 1].of = e /\ g[n + 2].kind = "text" /\ g[n + 3].kind = "end"
  BY <1>2 DEF Begin, Text, End
<1> PICK B : B = {i \in 1..n : f[i].kind = "begin"}
  OBVIOUS
<1>4. {k \in 1..Len(g) : g[k].kind = "begin"} = B \cup {n + 1}
  <2>1. \A k : k \in 1..(n + 3) <=> k \in 1..n \/ k = n + 1 \/ k = n + 2 \/ k = n + 3
    OBVIOUS
  <2>2. \A k : k \in B <=> k \in 1..n /\ g[k].kind = "begin"
    BY <1>2
  <2>3. ASSUME NEW k PROVE k \in 1..Len(g) /\ g[k].kind = "begin" <=> k \in B \cup {n + 1}
    <3>1. k \in 1..Len(g) <=> k \in 1..n \/ k = n + 1 \/ k = n + 2 \/ k = n + 3
      BY <1>2, <2>1
    <3>2. k = n + 2 \/ k = n + 3 => g[k].kind # "begin"
      BY <1>3
    <3> QED
      BY <1>3, <2>2, <3>1, <3>2
  <2> QED
    BY <2>3
<1>5. Begun(g) = {g[k].of : k \in B \cup {n + 1}}
  BY <1>4 DEF Begun
<1>6. {g[k].of : k \in B \cup {n + 1}} = {f[k].of : k \in B} \cup {e}
  <2>1. \A k \in B : g[k].of = f[k].of
    BY <1>2
  <2>2. g[n + 1].of = e
    BY <1>3
  <2> QED
    BY ONLY <2>1, <2>2, Zenon
<1>7. Begun(f) = {f[k].of : k \in B}
  BY DEF Begun
<1>8. Begun(g) = Begun(f) \cup {e}
  BY ONLY <1>5, <1>6, <1>7
<1> QED
  BY <1>1, <1>2, <1>8, Zenon

LEMMA PartBegins ==
    ASSUME NEW f \in Seq(Lines), NEW n \in 0..Len(f)
    PROVE  SubSeq(f, 1, n) \in Seq(Lines) /\ Begun(SubSeq(f, 1, n)) \subseteq Begun(f)
<1> PICK g : g = SubSeq(f, 1, n)
  OBVIOUS
<1>1. g \in Seq(Lines) /\ Len(g) = n /\ \A k \in 1..n : k \in 1..Len(f) /\ g[k] = f[k]
  BY FirstLines
<1> QED
  BY <1>1 DEF Begun

LEMMA UpsertBegins ==
    ASSUME NEW f \in Seq(Lines), NEW e \in Eas, NEW t \in Texts
    PROVE  /\ Upsert(f, e, t) \in Seq(Lines) /\ Begun(Upsert(f, e, t)) \subseteq Begun(f) \cup {e}
           /\ Intact(f) => Begun(f) \cup {e} \subseteq Begun(Upsert(f, e, t))
<1> PICK g : g = Upsert(f, e, t)
  OBVIOUS
<1>1. g \in Seq(Lines)
  BY UpsertTyped
<1>2. Begun(g) \subseteq Begun(f) \cup {e}
  <2> PICK L : L = {f[k] : k \in 1..Len(f)} \cup {Begin(e), End(e), Text(t), Text(Shown(t))}
    OBVIOUS
  <2>1. f \in Seq(L)
    <3>1. f \in [1..Len(f) -> L] /\ Len(f) \in Nat
      OBVIOUS
    <3> QED
      BY <3>1
  <2>2. g \in Seq(L)
    <3>1. Begin(e) \in L /\ End(e) \in L /\ Text(t) \in L /\ Text(Shown(t)) \in L
      OBVIOUS
    <3>2. Upsert(f, e, t) \in Seq(L)
      BY <2>1, <3>1, UpsertWithin
    <3> QED
      BY <3>2
  <2>3. \A l \in L : l.kind = "begin" => l.of \in Begun(f) \cup {e}
    <3>1. /\ Begin(e).of = e /\ End(e).kind # "begin" /\ Text(t).kind # "begin"
          /\ Text(Shown(t)).kind # "begin"
      BY DEF Begin, End, Text
    <3>2. \A k \in 1..Len(f) : f[k].kind = "begin" => f[k].of \in Begun(f)
      BY DEF Begun
    <3> QED
      BY <3>1, <3>2
  <2>4. \A k \in 1..Len(g) : g[k] \in L
    BY <2>2
  <2> QED
    BY <2>3, <2>4 DEF Begun
<1>3. ASSUME Intact(f) PROVE Begun(f) \cup {e} \subseteq Begun(g)
  <2>1. CASE Matches(f, e) = {}
    <3>1. g = f \o Section(e, t)
      BY <2>1 DEF Upsert
    <3> QED
      BY <3>1, AppendBegins
  <2>2. CASE Matches(f, e) # {}
    <3>1. Matches(f, e) = {k \in Wholes(f) : f[k].of = e} /\ g = InPlace(f, e, t)
      BY <1>3, <2>2, ExchangesText, IntactIs
    <3>2. g = [k \in 1..Len(f) |-> IF k > 1 /\ k - 1 \in Matches(f, e) THEN Text(Shown(t)) ELSE f[k]]
      BY <3>1 DEF InPlace
    <3>3. Len(g) = Len(f) /\ \A k \in 1..Len(f) : g[k] = IF k > 1 /\ k - 1 \in Matches(f, e) THEN Text(Shown(t)) ELSE f[k]
      BY <1>1, <3>2
    <3>4. \A k \in 1..Len(f) : f[k].kind = "begin" => ~(k > 1 /\ k - 1 \in Matches(f, e))
      <4> SUFFICES ASSUME NEW k \in 1..Len(f), k > 1, k - 1 \in Matches(f, e) PROVE f[k].kind # "begin"
        OBVIOUS
      <4>1. Whole(f, k - 1) /\ (k - 1) + 1 = k
        BY <3>1 DEF Wholes
      <4> QED
        BY <4>1 DEF Whole
    <3>5. Begun(f) \subseteq Begun(g)
      BY <3>3, <3>4 DEF Begun
    <3>6. e \in Begun(f)
      BY <2>2, <3>1 DEF Begun, Wholes, Whole
    <3> QED
      BY <3>5, <3>6
  <2> QED
    BY <2>1, <2>2
<1> QED
  BY <1>1, <1>2, <1>3

(* In a file of whole sections a reader finds a text of what is listed.     *)
LEMMA ListedIsFound ==
    ASSUME NEW f \in Seq(Lines), Intact(f), NEW e \in Listed(f)
    PROVE  Found(f, e) \in Texts \cup {Mangled}
<1>1. TornForGood(f) /\ Starts(f) = Wholes(f)
  BY IntactIs, StartsOfTidy DEF TornForGood
<1>2. PICK k : FirstOf(f, e, k)
  BY <1>1, FoundCases DEF Listed
<1>3. k + 1 \in 1..Len(f) /\ f[k + 1].kind = "text" /\ f[k + 1] \in Lines
  BY <1>2 DEF FirstOf, Wholes, Whole
<1>4. f[k + 1].of \in Texts \cup {Mangled}
  BY <1>3 DEF Lines, Begin, End, Text
<1> QED
  BY <1>1, <1>2, <1>4, FoundCases
=============================================================================
