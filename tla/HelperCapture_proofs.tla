----------------------- MODULE HelperCapture_proofs -------------------------
(***************************************************************************)
(* For every case, whatever its helpers call and whichever of them IDA      *)
(* decompiles: the ledger accounts for every helper that was reached, the   *)
(* captures go to the focus path first, the helper depth is kept where the  *)
(* calls are of one kind, and the capture ends.                             *)
(***************************************************************************)
EXTENDS HelperCapture, FiniteSetTheorems, WellFoundedInduction, TLAPS

NamesOf(S) == {c.name : c \in S}

IsCaptured(e) == e.status = "captured"
Expanded(e) == IsCaptured(e) /\ e.depth < MaxDepth
FocusOf(e) == ToSet(calls[e.name].focus)
FocusQueued == {c \in ToSet(toQueue) : c.queue = "priority"}

(* The ledger has a name once, its captures are those of the result, and    *)
(* what is skipped is skipped because the limit is reached.                 *)
Books ==
    /\ \A j, k \in DOMAIN ledger : ledger[j].name = ledger[k].name => j = k
    /\ \A h \in Helpers : h \in DOMAIN calls <=> \E e \in ToSet(ledger) : IsCaptured(e) /\ e.name = h
    /\ IsFiniteSet(DOMAIN calls) /\ Cardinality(DOMAIN calls) \in 0..MaxHelpers
    /\ \A e \in ToSet(ledger) : e.status = "capture_limit_skipped" => Cardinality(DOMAIN calls) = MaxHelpers
    /\ settled => toQueue = <<>> /\ priorityQueue = <<>> /\ normalQueue = <<>>

(* What was found has its entry or waits.                                   *)
NothingLost ==
    /\ ToSet(roots) \subseteq Seen \cup NamesOf(ToSet(priorityQueue))
    /\ \A e \in ToSet(ledger) : Expanded(e) =>
          CallsOf(e.name) \subseteq
              Seen \cup NamesOf(ToSet(priorityQueue)) \cup NamesOf(ToSet(normalQueue)) \cup NamesOf(ToSet(toQueue))

(* What waits was reached as well as what has its entry.                    *)
AllReached ==
    \A e \in ToSet(ledger) \cup ToSet(priorityQueue) \cup ToSet(normalQueue) \cup ToSet(toQueue) : Reached(e)

(* On the focus path: the case calls it, or one of the first n entries      *)
(* hands it the buffer.                                                     *)
OnFocusPath(name, n) ==
    \/ name \in ToSet(roots)
    \/ \E j \in DOMAIN ledger : j <= n /\ Expanded(ledger[j]) /\ name \in FocusOf(ledger[j])

(* All that the first n entries hand the buffer to is among them.           *)
FocusExhausted(n) ==
    \A h \in DOMAIN ledger : h <= n /\ Expanded(ledger[h]) =>
        \A name \in FocusOf(ledger[h]) : \E i \in DOMAIN ledger : i <= n /\ ledger[i].name = name

(* Only the focus path waits in the priority queue, and all of it: what is  *)
(* captured beside the path is captured when the path is exhausted.         *)
PathFirst ==
    /\ \A c \in ToSet(priorityQueue) \cup FocusQueued : OnFocusPath(c.name, Len(ledger))
    /\ \A e \in ToSet(ledger) : Expanded(e) =>
          FocusOf(e) \subseteq Seen \cup NamesOf(ToSet(priorityQueue)) \cup NamesOf(FocusQueued)
    /\ \A k \in DOMAIN ledger : IsCaptured(ledger[k]) =>
          /\ OnFocusPath(ledger[k].name, k - 1) \/ FocusExhausted(k - 1)
          /\ \A i \in DOMAIN ledger : i < k => ledger[i].status # "capture_limit_skipped"

HelperInv == HelperTypeOK /\ Books /\ NothingLost /\ AllReached /\ PathFirst

-----------------------------------------------------------------------------
LEMMA TailSet ==
    ASSUME NEW S, NEW q \in Seq(S), q # <<>>
    PROVE  /\ Head(q) \in S /\ Head(q) \in ToSet(q) /\ Tail(q) \in Seq(S)
           /\ ToSet(Tail(q)) \subseteq ToSet(q)
           /\ ToSet(q) \subseteq ToSet(Tail(q)) \cup {Head(q)}
<1>1. /\ Head(q) = q[1] /\ 1 \in DOMAIN q /\ Head(q) \in S /\ Tail(q) \in Seq(S)
      /\ \A k \in DOMAIN Tail(q) : k + 1 \in DOMAIN q /\ Tail(q)[k] = q[k + 1]
      /\ \A k \in DOMAIN q : k = 1 \/ (k - 1 \in DOMAIN Tail(q) /\ Tail(q)[k - 1] = q[k])
  OBVIOUS
<1>2. ToSet(Tail(q)) \subseteq ToSet(q) /\ Head(q) \in ToSet(q)
  BY <1>1 DEF ToSet
<1>3. ASSUME NEW k \in DOMAIN q PROVE q[k] \in ToSet(Tail(q)) \cup {Head(q)}
  BY <1>1 DEF ToSet
<1>4. ToSet(q) \subseteq ToSet(Tail(q)) \cup {Head(q)}
  BY <1>3 DEF ToSet
<1> QED
  BY <1>1, <1>2, <1>4

LEMMA AppendSet ==
    ASSUME NEW S, NEW q \in Seq(S), NEW e \in S
    PROVE  /\ Append(q, e) \in Seq(S)
           /\ ToSet(Append(q, e)) = ToSet(q) \cup {e}
<1>1. /\ Append(q, e) \in Seq(S)
      /\ \A k \in DOMAIN q : k \in DOMAIN Append(q, e) /\ Append(q, e)[k] = q[k]
      /\ \A k \in DOMAIN Append(q, e) : k \in DOMAIN q \/ k = Len(q) + 1
      /\ Len(q) + 1 \in DOMAIN Append(q, e) /\ Append(q, e)[Len(q) + 1] = e
  OBVIOUS
<1> QED
  BY <1>1 DEF ToSet

(* What leaves a queue is the candidate, the first of the priority queue if *)
(* there is one.                                                            *)
LEMMA Popping ==
    ASSUME HelperTypeOK, Waiting, Pop
    PROVE  /\ Candidate \in Candidates
           /\ priorityQueue' \in Seq(Candidates) /\ normalQueue' \in Seq(Candidates)
           /\ ToSet(priorityQueue') \subseteq ToSet(priorityQueue)
           /\ ToSet(normalQueue') \subseteq ToSet(normalQueue)
           /\ ToSet(priorityQueue) \subseteq ToSet(priorityQueue') \cup {Candidate}
           /\ ToSet(normalQueue) \subseteq ToSet(normalQueue') \cup {Candidate}
           /\ \/ Candidate \in ToSet(priorityQueue)
              \/ priorityQueue = <<>> /\ Candidate \in ToSet(normalQueue)
<1>1. priorityQueue \in Seq(Candidates) /\ normalQueue \in Seq(Candidates)
  BY DEF HelperTypeOK
<1>2. CASE priorityQueue # <<>>
  <2>1. /\ Candidate = Head(priorityQueue) /\ priorityQueue' = Tail(priorityQueue)
        /\ normalQueue' = normalQueue
    BY <1>2 DEF Pop, Candidate
  <2> QED
    BY <1>1, <1>2, <2>1, TailSet
<1>3. CASE priorityQueue = <<>>
  <2>1. /\ Candidate = Head(normalQueue) /\ normalQueue' = Tail(normalQueue)
        /\ priorityQueue' = priorityQueue /\ normalQueue # <<>>
    BY <1>3 DEF Pop, Candidate, Waiting
  <2> QED
    BY <1>1, <1>3, <2>1, TailSet
<1> QED
  BY <1>2, <1>3

LEMMA LedgerGrows ==
    ASSUME ledger \in Seq(Entries), NEW e \in Entries, ledger' = Append(ledger, e)
    PROVE  /\ ledger' \in Seq(Entries) /\ Len(ledger) \in Nat /\ Len(ledger') = Len(ledger) + 1
           /\ DOMAIN ledger = 1..Len(ledger) /\ DOMAIN ledger' = 1..(Len(ledger) + 1)
           /\ \A k \in DOMAIN ledger : ledger'[k] = ledger[k]
           /\ ledger'[Len(ledger) + 1] = e
           /\ ToSet(ledger') = ToSet(ledger) \cup {e}
           /\ Seen' = Seen \cup {e.name}
<1>1. ToSet(ledger') = ToSet(ledger) \cup {e}
  BY AppendSet
<1>2. Seen' = Seen \cup {e.name}
  BY <1>1 DEF Seen
<1> QED
  BY <1>1, <1>2

(* What was reached stays reached, what is on the focus path stays on it,   *)
(* and the path that is exhausted stays exhausted, as the ledger grows.     *)
LEMMA ReachedStays ==
    ASSUME UNCHANGED roots, ToSet(ledger) \subseteq ToSet(ledger'),
           \A x \in ToSet(ledger) : IsCaptured(x) => calls'[x.name] = calls[x.name],
           NEW e, Reached(e)
    PROVE  Reached(e)'
  BY DEF Reached, CallsOf, IsCaptured

LEMMA PathStays ==
    ASSUME UNCHANGED roots, NEW n \in Int, NEW m \in Int, n <= m, DOMAIN ledger \subseteq Int,
           \A k \in DOMAIN ledger : k \in DOMAIN ledger' /\ ledger'[k] = ledger[k],
           \A k \in DOMAIN ledger : IsCaptured(ledger[k]) => calls'[ledger[k].name] = calls[ledger[k].name],
           NEW name, OnFocusPath(name, n)
    PROVE  OnFocusPath(name, m)'
  BY DEF OnFocusPath, FocusOf, Expanded, IsCaptured

LEMMA ExhaustedStays ==
    ASSUME NEW n \in Int, n <= Len(ledger), Len(ledger) \in Nat, DOMAIN ledger = 1..Len(ledger),
           DOMAIN ledger' \subseteq Nat \ {0},
           \A k \in DOMAIN ledger : k \in DOMAIN ledger' /\ ledger'[k] = ledger[k],
           \A k \in DOMAIN ledger : IsCaptured(ledger[k]) => calls'[ledger[k].name] = calls[ledger[k].name],
           FocusExhausted(n)
    PROVE  FocusExhausted(n)'
<1>1. \A h \in DOMAIN ledger' : h <= n => h \in DOMAIN ledger
  OBVIOUS
<1>2. ASSUME NEW h \in DOMAIN ledger', h <= n, Expanded(ledger[h]), NEW name \in FocusOf(ledger[h])
      PROVE  \E i \in DOMAIN ledger' : i <= n /\ ledger'[i].name = name
  <2>1. PICK i \in DOMAIN ledger : i <= n /\ ledger[i].name = name
    BY <1>1, <1>2 DEF FocusExhausted
  <2> QED
    BY <2>1
<1>3. \A h \in DOMAIN ledger' : h <= n /\ Expanded(ledger'[h]) =>
         h \in DOMAIN ledger /\ ledger'[h] = ledger[h] /\ FocusOf(ledger[h])' = FocusOf(ledger[h])
  BY <1>1 DEF FocusOf, Expanded, IsCaptured
<1> QED
  BY <1>2, <1>3 DEF FocusExhausted, Expanded, IsCaptured

-----------------------------------------------------------------------------
(* A candidate that has its entry already leaves its queue.                 *)
LEMMA LeavesSeen ==
    ASSUME HelperInv, Waiting, Candidate.name \in Seen, Pop,
           UNCHANGED <<roots, toQueue, ledger, calls, settled>>
    PROVE  HelperInv'
<1>1. /\ Candidate \in Candidates
      /\ priorityQueue' \in Seq(Candidates) /\ normalQueue' \in Seq(Candidates)
      /\ ToSet(priorityQueue') \subseteq ToSet(priorityQueue)
      /\ ToSet(normalQueue') \subseteq ToSet(normalQueue)
      /\ ToSet(priorityQueue) \subseteq ToSet(priorityQueue') \cup {Candidate}
      /\ ToSet(normalQueue) \subseteq ToSet(normalQueue') \cup {Candidate}
  BY Popping DEF HelperInv
<1>2. HelperTypeOK'
  BY <1>1 DEF HelperInv, HelperTypeOK
<1>3. Books'
  BY DEF HelperInv, Books, Waiting, IsCaptured
<1>4. Seen' = Seen /\ \A e : (Expanded(e)' <=> Expanded(e)) /\ FocusOf(e)' = FocusOf(e)
      /\ CallsOf(e.name)' = CallsOf(e.name) /\ FocusQueued' = FocusQueued
  BY DEF Seen, Expanded, IsCaptured, FocusOf, CallsOf, FocusQueued
<1>5. /\ NamesOf(ToSet(priorityQueue)) \subseteq NamesOf(ToSet(priorityQueue')) \cup Seen
      /\ NamesOf(ToSet(normalQueue)) \subseteq NamesOf(ToSet(normalQueue')) \cup Seen
  BY <1>1 DEF NamesOf
<1>6. NothingLost'
  BY <1>4, <1>5 DEF HelperInv, NothingLost
<1>7. AllReached'
  BY <1>1, ReachedStays DEF HelperInv, AllReached
<1>8. PathFirst'
  <2>1. \A name, n : OnFocusPath(name, n)' <=> OnFocusPath(name, n)
    BY DEF OnFocusPath, FocusOf, Expanded, IsCaptured
  <2>2. \A n : FocusExhausted(n)' <=> FocusExhausted(n)
    BY DEF FocusExhausted, FocusOf, Expanded, IsCaptured
  <2>3. \A c \in ToSet(priorityQueue') \cup FocusQueued' : OnFocusPath(c.name, Len(ledger))'
    BY <1>1, <1>4, <2>1 DEF HelperInv, PathFirst
  <2>4. \A e \in ToSet(ledger) : Expanded(e) =>
          FocusOf(e) \subseteq Seen \cup NamesOf(ToSet(priorityQueue')) \cup NamesOf(FocusQueued)
    BY <1>5 DEF HelperInv, PathFirst
  <2> QED
    BY <1>4, <2>1, <2>2, <2>3, <2>4 DEF HelperInv, PathFirst, IsCaptured
<1> QED
  BY <1>2, <1>3, <1>6, <1>7, <1>8 DEF HelperInv

(* The entry a candidate gets, whatever became of it.                       *)
NewEntry(status) == [name |-> Candidate.name, depth |-> Candidate.depth, status |-> status]

(* What is kept when a candidate gets its entry.                            *)
LEMMA Entering ==
    ASSUME HelperInv, Waiting, Candidate.name \notin Seen, NEW status \in Statuses,
           Record(status), Pop, UNCHANGED roots,
           \A h \in DOMAIN calls : calls'[h] = calls[h]
    PROVE  /\ NewEntry(status) \in Entries
           /\ \A j, k \in DOMAIN ledger' : ledger'[j].name = ledger'[k].name => j = k
           /\ \A x \in ToSet(ledger) : IsCaptured(x) => x.name \in DOMAIN calls /\ calls'[x.name] = calls[x.name]
           /\ NamesOf(ToSet(priorityQueue)) \subseteq NamesOf(ToSet(priorityQueue')) \cup Seen'
           /\ NamesOf(ToSet(normalQueue)) \subseteq NamesOf(ToSet(normalQueue')) \cup Seen'
           /\ \A e \in ToSet(ledger') \cup ToSet(priorityQueue') \cup ToSet(normalQueue') : Reached(e)'
           /\ \A k \in DOMAIN ledger : \A name : IsCaptured(ledger[k]) /\ name = ledger[k].name =>
                 OnFocusPath(name, k - 1)' \/ FocusExhausted(k - 1)'
           /\ \A c \in ToSet(priorityQueue') : OnFocusPath(c.name, Len(ledger))'
<1> DEFINE e == NewEntry(status)
<1>1. /\ Candidate \in Candidates
      /\ ToSet(priorityQueue') \subseteq ToSet(priorityQueue)
      /\ ToSet(normalQueue') \subseteq ToSet(normalQueue)
      /\ ToSet(priorityQueue) \subseteq ToSet(priorityQueue') \cup {Candidate}
      /\ ToSet(normalQueue) \subseteq ToSet(normalQueue') \cup {Candidate}
      /\ Candidate \in ToSet(priorityQueue) \/ Candidate \in ToSet(normalQueue)
  BY Popping DEF HelperInv
<1>2. e \in Entries /\ e.name = Candidate.name /\ e.depth = Candidate.depth
  BY <1>1 DEF NewEntry, Candidates, Entries
<1>3. ledger \in Seq(Entries) /\ ledger' = Append(ledger, e)
  BY DEF Record, NewEntry, HelperInv, HelperTypeOK
<1>4. /\ ledger' \in Seq(Entries) /\ Len(ledger) \in Nat /\ Len(ledger') = Len(ledger) + 1
      /\ DOMAIN ledger = 1..Len(ledger) /\ DOMAIN ledger' = 1..(Len(ledger) + 1)
      /\ \A k \in DOMAIN ledger : ledger'[k] = ledger[k]
      /\ ledger'[Len(ledger) + 1] = e
      /\ ToSet(ledger') = ToSet(ledger) \cup {e}
      /\ Seen' = Seen \cup {e.name}
  <2> HIDE DEF e
  <2> QED
    BY <1>2, <1>3, LedgerGrows
<1> HIDE DEF e
<1>5. \A k \in DOMAIN ledger : ledger[k] \in ToSet(ledger) /\ ledger[k].name \in Seen
  BY DEF Seen, ToSet
<1>6. \A j, k \in DOMAIN ledger' : ledger'[j].name = ledger'[k].name => j = k
  <2>1. \A j \in DOMAIN ledger' : j \in DOMAIN ledger \/ j = Len(ledger) + 1
    BY <1>4
  <2>2. \A j \in DOMAIN ledger : ledger'[j].name # e.name
    BY <1>2, <1>4, <1>5
  <2> QED
    BY <1>4, <2>1, <2>2 DEF HelperInv, Books
<1>7. \A x \in ToSet(ledger) : IsCaptured(x) => x.name \in DOMAIN calls /\ calls'[x.name] = calls[x.name]
  <2>1. \A x \in ToSet(ledger) : x.name \in Helpers
    <3>1. \A k \in DOMAIN ledger : ledger[k] \in Entries
      BY <1>3
    <3> QED
      BY <3>1 DEF ToSet, Entries
  <2> QED
    BY <2>1 DEF HelperInv, Books
<1>8. /\ NamesOf(ToSet(priorityQueue)) \subseteq NamesOf(ToSet(priorityQueue')) \cup Seen'
      /\ NamesOf(ToSet(normalQueue)) \subseteq NamesOf(ToSet(normalQueue')) \cup Seen'
  BY <1>1, <1>2, <1>4 DEF NamesOf
<1>9. \A x \in ToSet(ledger') \cup ToSet(priorityQueue') \cup ToSet(normalQueue') : Reached(x)'
  <2>1. \A x : Reached(x) => Reached(x)'
    BY <1>4, <1>7, ReachedStays
  <2>2. Reached(e)
    <3>1. Reached(Candidate)
      BY <1>1 DEF HelperInv, AllReached
    <3> QED
      BY <1>2, <3>1 DEF Reached
  <2> QED
    BY <1>1, <1>4, <2>1, <2>2 DEF HelperInv, AllReached
<1>10. \A k \in DOMAIN ledger :
         /\ k \in DOMAIN ledger' /\ ledger'[k] = ledger[k]
         /\ IsCaptured(ledger[k]) => calls'[ledger[k].name] = calls[ledger[k].name]
  BY <1>4, <1>5, <1>7
<1>11. ASSUME NEW k \in DOMAIN ledger, IsCaptured(ledger[k]), NEW name, name = ledger[k].name
       PROVE  OnFocusPath(name, k - 1)' \/ FocusExhausted(k - 1)'
  <2>1. k - 1 \in Int /\ k - 1 <= Len(ledger) /\ DOMAIN ledger' \subseteq Nat \ {0} /\ DOMAIN ledger \subseteq Int
    BY <1>4
  <2>2. OnFocusPath(name, k - 1) \/ FocusExhausted(k - 1)
    BY <1>11 DEF HelperInv, PathFirst
  <2>3. CASE OnFocusPath(name, k - 1)
    BY <1>4, <1>10, <2>1, <2>3, PathStays
  <2>4. CASE FocusExhausted(k - 1)
    BY <1>4, <1>10, <2>1, <2>4, ExhaustedStays
  <2> QED
    BY <2>2, <2>3, <2>4
<1>12. ASSUME NEW c \in ToSet(priorityQueue') PROVE OnFocusPath(c.name, Len(ledger))'
  <2>1. PICK n \in Nat : n = Len(ledger) /\ OnFocusPath(c.name, n)
    BY <1>1, <1>4 DEF HelperInv, PathFirst
  <2>2. OnFocusPath(c.name, n + 1)'
    BY <1>4, <1>10, <2>1, PathStays
  <2> QED
    BY <1>4, <2>1, <2>2 DEF OnFocusPath
<1> QED
  BY <1>2, <1>6, <1>7, <1>8, <1>9, <1>11, <1>12 DEF e

(* A candidate that is not captured gets its entry: IDA gives nothing, or   *)
(* the limit is reached.                                                    *)
LEMMA NotCaptured ==
    ASSUME HelperInv, Waiting, Candidate.name \notin Seen, NEW status \in Statuses \ {"captured"},
           status = "capture_limit_skipped" => Cardinality(DOMAIN calls) = MaxHelpers,
           Record(status), Pop, UNCHANGED <<roots, toQueue, calls, settled>>
    PROVE  HelperInv'
<1> DEFINE e == NewEntry(status)
<1>1. /\ e \in Entries
      /\ \A j, k \in DOMAIN ledger' : ledger'[j].name = ledger'[k].name => j = k
      /\ NamesOf(ToSet(priorityQueue)) \subseteq NamesOf(ToSet(priorityQueue')) \cup Seen'
      /\ NamesOf(ToSet(normalQueue)) \subseteq NamesOf(ToSet(normalQueue')) \cup Seen'
      /\ \A x \in ToSet(ledger') \cup ToSet(priorityQueue') \cup ToSet(normalQueue') : Reached(x)'
      /\ \A k \in DOMAIN ledger : \A name : IsCaptured(ledger[k]) /\ name = ledger[k].name =>
            OnFocusPath(name, k - 1)' \/ FocusExhausted(k - 1)'
      /\ \A c \in ToSet(priorityQueue') : OnFocusPath(c.name, Len(ledger))'
  BY Entering
<1>2. priorityQueue' \in Seq(Candidates) /\ normalQueue' \in Seq(Candidates)
  BY Popping DEF HelperInv
<1>3. e.status = status /\ ~IsCaptured(e) /\ ~Expanded(e)
  BY DEF NewEntry, IsCaptured, Expanded
<1>4. /\ ledger' \in Seq(Entries) /\ Len(ledger) \in Nat
      /\ DOMAIN ledger = 1..Len(ledger) /\ DOMAIN ledger' = 1..(Len(ledger) + 1)
      /\ \A k \in DOMAIN ledger : ledger'[k] = ledger[k]
      /\ ledger'[Len(ledger) + 1] = e
      /\ ToSet(ledger') = ToSet(ledger) \cup {e}
      /\ Seen' = Seen \cup {e.name}
  <2>1. ledger \in Seq(Entries) /\ ledger' = Append(ledger, e)
    BY DEF Record, NewEntry, HelperInv, HelperTypeOK
  <2> HIDE DEF e
  <2> QED
    BY <1>1, <2>1, LedgerGrows
<1> HIDE DEF e
<1>5. toQueue = <<>> /\ FocusQueued = {} /\ FocusQueued' = {} /\ ToSet(toQueue) = {} /\ ToSet(toQueue') = {}
  BY DEF Waiting, FocusQueued, ToSet
<1>6. HelperTypeOK'
  BY <1>2, <1>4 DEF HelperInv, HelperTypeOK
<1>7. Books'
  <2>1. \A h \in Helpers : h \in DOMAIN calls <=> \E x \in ToSet(ledger') : IsCaptured(x) /\ x.name = h
    BY <1>3, <1>4 DEF HelperInv, Books
  <2>2. \A x \in ToSet(ledger') : x.status = "capture_limit_skipped" => Cardinality(DOMAIN calls) = MaxHelpers
    BY <1>3, <1>4 DEF HelperInv, Books
  <2>3. ~settled
    BY DEF HelperInv, Books, Waiting
  <2> QED
    BY <1>1, <2>1, <2>2, <2>3 DEF HelperInv, Books, IsCaptured
<1>8. \A x \in ToSet(ledger') : Expanded(x) => x \in ToSet(ledger)
  BY <1>3, <1>4
<1>9. NothingLost'
  <2>1. ToSet(roots) \subseteq Seen' \cup NamesOf(ToSet(priorityQueue'))
    BY <1>1, <1>4 DEF HelperInv, NothingLost
  <2>2. \A x \in ToSet(ledger') : Expanded(x) =>
          CallsOf(x.name) \subseteq Seen' \cup NamesOf(ToSet(priorityQueue')) \cup NamesOf(ToSet(normalQueue'))
                                 \cup NamesOf(ToSet(toQueue))
    BY <1>1, <1>4, <1>8 DEF HelperInv, NothingLost
  <2> QED
    BY <2>1, <2>2 DEF NothingLost, Expanded, IsCaptured, CallsOf
<1>10. AllReached'
  BY <1>1, <1>5 DEF AllReached
<1>11. PathFirst'
  <2>1. \A x \in ToSet(ledger') : Expanded(x) =>
          FocusOf(x) \subseteq Seen' \cup NamesOf(ToSet(priorityQueue')) \cup NamesOf(FocusQueued)
    BY <1>1, <1>4, <1>8 DEF HelperInv, PathFirst
  <2>2. \A k \in DOMAIN ledger' : IsCaptured(ledger'[k]) => k \in DOMAIN ledger /\ ledger'[k] = ledger[k]
    BY <1>3, <1>4
  <2>3. ASSUME NEW k \in DOMAIN ledger', IsCaptured(ledger'[k])
        PROVE  /\ \A name : name = ledger'[k].name => OnFocusPath(name, k - 1)' \/ FocusExhausted(k - 1)'
               /\ \A i \in DOMAIN ledger' : i < k => ledger'[i].status # "capture_limit_skipped"
    <3>1. \A i \in DOMAIN ledger' : i < k => i \in DOMAIN ledger /\ ledger'[i] = ledger[i]
      BY <1>4, <2>2, <2>3
    <3> QED
      BY <1>1, <2>2, <2>3, <3>1 DEF HelperInv, PathFirst
  <2>4. \A k \in DOMAIN ledger' : IsCaptured(ledger'[k]) =>
          /\ (OnFocusPath(ledger[k].name, k - 1) \/ FocusExhausted(k - 1))'
          /\ \A i \in DOMAIN ledger' : i < k => ledger'[i].status # "capture_limit_skipped"
    BY <2>3
  <2> QED
    BY <1>1, <1>5, <2>1, <2>4 DEF PathFirst, Expanded, IsCaptured, FocusOf
<1> QED
  BY <1>6, <1>7, <1>9, <1>10, <1>11 DEF HelperInv

LEMMA FoundCallsOf ==
    ASSUME NEW focus \in Seq(Helpers), NEW other \in Seq(Helpers), Candidate \in Candidates,
           Candidate.depth < MaxDepth
    PROVE  /\ FoundBy(focus, other) \in Seq(FoundCalls)
           /\ \A c \in ToSet(FoundBy(focus, other)) :
                 /\ c.depth = Candidate.depth + 1
                 /\ c.name \in ToSet(focus) \cup ToSet(other)
                 /\ c.queue = "priority" => c.name \in ToSet(focus)
                 /\ c.queue = "normal" => c.name \in ToSet(other)
           /\ \A n \in ToSet(focus) : \E c \in ToSet(FoundBy(focus, other)) : c.queue = "priority" /\ c.name = n
           /\ \A n \in ToSet(other) : \E c \in ToSet(FoundBy(focus, other)) : c.name = n
<1> DEFINE f == Len(focus)
           o == Len(other)
           d == Candidate.depth + 1
           q == FoundBy(focus, other)
<1>1. /\ f \in Nat /\ o \in Nat /\ DOMAIN focus = 1..f /\ DOMAIN other = 1..o
      /\ \A k \in 1..f : focus[k] \in Helpers
      /\ \A k \in 1..o : other[k] \in Helpers
  OBVIOUS
<1>2. d \in 1..MaxDepth
  BY HelperAssumption DEF Candidates
<1>3. /\ DOMAIN q = 1..(f + o)
      /\ \A k \in 1..(f + o) : q[k] = [name |-> IF k <= f THEN focus[k] ELSE other[k - f],
                                     depth |-> d, queue |-> IF k <= f THEN "priority" ELSE "normal"]
  BY DEF FoundBy
<1> HIDE DEF f, o, d, q
<1>4. ASSUME NEW k \in 1..(f + o)
      PROVE  /\ q[k] \in FoundCalls /\ q[k].depth = d
             /\ q[k].name \in ToSet(focus) \cup ToSet(other)
             /\ q[k].queue = "priority" => q[k].name \in ToSet(focus)
             /\ q[k].queue = "normal" => q[k].name \in ToSet(other)
  <2>1. CASE k <= f
    <3>1. k \in 1..f /\ q[k] = [name |-> focus[k], depth |-> d, queue |-> "priority"]
      BY <1>1, <1>3, <2>1
    <3> QED
      BY <1>1, <1>2, <3>1 DEF FoundCalls, ToSet
  <2>2. CASE ~(k <= f)
    <3>1. k - f \in 1..o /\ q[k] = [name |-> other[k - f], depth |-> d, queue |-> "normal"]
      BY <1>1, <1>3, <2>2
    <3> QED
      BY <1>1, <1>2, <3>1 DEF FoundCalls, ToSet
  <2> QED
    BY <2>1, <2>2
<1>5. q \in Seq(FoundCalls)
  <2>1. q \in [1..(f + o) -> FoundCalls]
    BY <1>3, <1>4 DEF q, FoundBy
  <2> QED
    BY <1>1, <2>1
<1>6. \A n \in ToSet(focus) : \E c \in ToSet(q) : c.queue = "priority" /\ c.name = n
  <2>1. ASSUME NEW k \in 1..f PROVE \E c \in ToSet(q) : c.queue = "priority" /\ c.name = focus[k]
    <3>1. k \in 1..(f + o) /\ q[k] = [name |-> focus[k], depth |-> d, queue |-> "priority"]
      BY <1>1, <1>3
    <3>2. q[k] \in ToSet(q) /\ q[k].queue = "priority" /\ q[k].name = focus[k]
      BY <1>3, <3>1 DEF ToSet
    <3> QED
      BY <3>2
  <2> QED
    BY <1>1, <2>1 DEF ToSet
<1>7. \A n \in ToSet(other) : \E c \in ToSet(q) : c.name = n
  <2>1. ASSUME NEW k \in 1..o PROVE \E c \in ToSet(q) : c.name = other[k]
    <3>1. f + k \in 1..(f + o) /\ q[f + k] = [name |-> other[k], depth |-> d, queue |-> "normal"]
      BY <1>1, <1>3
    <3>2. q[f + k] \in ToSet(q) /\ q[f + k].name = other[k]
      BY <1>3, <3>1 DEF ToSet
    <3> QED
      BY <3>2
  <2> QED
    BY <1>1, <2>1 DEF ToSet
<1>8. \A c \in ToSet(q) :
        /\ c.depth = d
        /\ c.name \in ToSet(focus) \cup ToSet(other)
        /\ c.queue = "priority" => c.name \in ToSet(focus)
        /\ c.queue = "normal" => c.name \in ToSet(other)
  <2>1. \A c \in ToSet(q) : \E k \in 1..(f + o) : c = q[k]
    BY <1>3 DEF ToSet
  <2> QED
    BY <1>4, <2>1
<1> QED
  BY <1>5, <1>6, <1>7, <1>8 DEF q, d

(* A captured helper leaves its calls to be queued, below the depth limit,  *)
(* and one beside the focus path is captured when the path is exhausted.    *)
LEMMA Captures ==
    ASSUME HelperInv, NEW focus \in CallLists, NEW other \in CallLists, Capture(focus, other)
    PROVE  HelperInv'
<1> PICK e : e = NewEntry("captured")
  OBVIOUS
<1> PICK n : n = Len(ledger)
  OBVIOUS
<1>1. /\ Waiting /\ Cardinality(DOMAIN calls) < MaxHelpers /\ Candidate.name \notin Seen
      /\ Record("captured") /\ Pop /\ UNCHANGED <<roots, settled>>
      /\ DOMAIN calls' = DOMAIN calls \cup {Candidate.name}
      /\ calls'[Candidate.name] = [focus |-> focus, other |-> other]
      /\ \A h \in DOMAIN calls : h # Candidate.name => calls'[h] = calls[h]
      /\ toQueue' = IF Candidate.depth < MaxDepth THEN FoundBy(focus, other) ELSE <<>>
  BY DEF Capture, Capturing
<1>2. focus \in Seq(Helpers) /\ other \in Seq(Helpers) /\ Candidate \in Candidates
  BY <1>1, HelperAssumption, Popping DEF HelperInv
<1>3. Candidate.name \notin DOMAIN calls
  BY <1>1, <1>2 DEF HelperInv, Books, Seen, Candidates
<1>4. /\ e \in Entries
      /\ \A j, k \in DOMAIN ledger' : ledger'[j].name = ledger'[k].name => j = k
      /\ \A x \in ToSet(ledger) : IsCaptured(x) => x.name \in DOMAIN calls /\ calls'[x.name] = calls[x.name]
      /\ NamesOf(ToSet(priorityQueue)) \subseteq NamesOf(ToSet(priorityQueue')) \cup Seen'
      /\ NamesOf(ToSet(normalQueue)) \subseteq NamesOf(ToSet(normalQueue')) \cup Seen'
      /\ \A x \in ToSet(ledger') \cup ToSet(priorityQueue') \cup ToSet(normalQueue') : Reached(x)'
      /\ \A k \in DOMAIN ledger : \A name : IsCaptured(ledger[k]) /\ name = ledger[k].name =>
            OnFocusPath(name, k - 1)' \/ FocusExhausted(k - 1)'
      /\ \A c \in ToSet(priorityQueue') : OnFocusPath(c.name, Len(ledger))'
  <2>1. \A h \in DOMAIN calls : calls'[h] = calls[h]
    BY <1>1, <1>3
  <2>2. "captured" \in Statuses
    BY DEF Statuses
  <2> QED
    BY <1>1, <2>1, <2>2, Entering
<1>5. e.name = Candidate.name /\ e.depth = Candidate.depth /\ IsCaptured(e) /\ e.status = "captured"
  BY DEF NewEntry, IsCaptured
<1>6. ledger \in Seq(Entries) /\ ledger' = Append(ledger, e)
  BY <1>1 DEF Record, NewEntry, HelperInv, HelperTypeOK
<1>7. /\ ledger' \in Seq(Entries) /\ n \in Nat /\ Len(ledger') = n + 1
      /\ DOMAIN ledger = 1..n /\ DOMAIN ledger' = 1..(n + 1)
      /\ \A k \in DOMAIN ledger : ledger'[k] = ledger[k]
      /\ ledger'[n + 1] = e
      /\ ToSet(ledger') = ToSet(ledger) \cup {e}
      /\ Seen' = Seen \cup {e.name}
  BY <1>4, <1>6, LedgerGrows
<1>8. /\ priorityQueue' \in Seq(Candidates) /\ normalQueue' \in Seq(Candidates)
      /\ Candidate \in ToSet(priorityQueue) \/ priorityQueue = <<>>
  BY <1>1, Popping DEF HelperInv
<1>9. toQueue = <<>> /\ ToSet(toQueue) = {} /\ FocusQueued = {}
  BY <1>1 DEF Waiting, FocusQueued, ToSet
<1>10. /\ toQueue' \in Seq(FoundCalls)
       /\ \A c \in ToSet(toQueue') :
             /\ Candidate.depth < MaxDepth /\ c.depth = Candidate.depth + 1
             /\ c.name \in ToSet(focus) \cup ToSet(other)
             /\ c.queue = "priority" => c.name \in ToSet(focus)
       /\ Candidate.depth < MaxDepth =>
             /\ \A name \in ToSet(focus) : \E c \in ToSet(toQueue') : c.queue = "priority" /\ c.name = name
             /\ \A name \in ToSet(other) : \E c \in ToSet(toQueue') : c.name = name
  <2>1. CASE Candidate.depth < MaxDepth
    BY <1>1, <1>2, <2>1, FoundCallsOf
  <2>2. CASE ~(Candidate.depth < MaxDepth)
    <3>1. toQueue' = <<>> /\ ToSet(toQueue') = {} /\ toQueue' \in Seq(FoundCalls)
      BY <1>1, <2>2 DEF ToSet
    <3> QED
      BY <2>2, <3>1
  <2> QED
    BY <2>1, <2>2
<1>11. /\ CallsOf(e.name)' = ToSet(focus) \cup ToSet(other)
       /\ FocusOf(e)' = ToSet(focus)
       /\ \A x \in ToSet(ledger) : IsCaptured(x) =>
             CallsOf(x.name)' = CallsOf(x.name) /\ FocusOf(x)' = FocusOf(x)
  <2>1. calls'[e.name] = [focus |-> focus, other |-> other]
    BY <1>1, <1>5, <1>7
  <2> QED
    BY <1>4, <2>1 DEF CallsOf, FocusOf
<1>12. HelperTypeOK'
  <2>1. DOMAIN calls' \subseteq Helpers
    BY <1>1, <1>2 DEF HelperInv, HelperTypeOK, Candidates
  <2>2. \A h \in DOMAIN calls' : calls'[h] \in [focus : Seq(Helpers), other : Seq(Helpers)]
    BY <1>1, <1>2 DEF HelperInv, HelperTypeOK
  <2> QED
    BY <1>1, <1>7, <1>8, <1>10, <2>1, <2>2 DEF HelperInv, HelperTypeOK
<1>13. Books'
  <2>1. \A h \in Helpers : h \in DOMAIN calls' <=> \E x \in ToSet(ledger') : IsCaptured(x) /\ x.name = h
    BY <1>1, <1>5, <1>7 DEF HelperInv, Books
  <2>2. /\ IsFiniteSet(DOMAIN calls')
        /\ Cardinality(DOMAIN calls') = Cardinality(DOMAIN calls) + 1
    BY <1>1, <1>3, FS_AddElement DEF HelperInv, Books
  <2>3. Cardinality(DOMAIN calls') \in 0..MaxHelpers
    BY <1>1, <2>2, HelperAssumption DEF HelperInv, Books
  <2>4. \A x \in ToSet(ledger') : x.status # "capture_limit_skipped"
    <3>1. Cardinality(DOMAIN calls) # MaxHelpers
      BY <1>1, HelperAssumption DEF HelperInv, Books
    <3> QED
      BY <1>5, <1>7, <3>1 DEF HelperInv, Books
  <2>5. ~settled
    BY <1>1 DEF HelperInv, Books, Waiting
  <2> QED
    BY <1>1, <1>4, <2>1, <2>2, <2>3, <2>4, <2>5 DEF Books, IsCaptured
<1>14. NothingLost'
  <2>1. ToSet(roots) \subseteq Seen' \cup NamesOf(ToSet(priorityQueue'))
    BY <1>4, <1>7 DEF HelperInv, NothingLost
  <2>2. ASSUME NEW x \in ToSet(ledger'), Expanded(x)
        PROVE  CallsOf(x.name)' \subseteq Seen' \cup NamesOf(ToSet(priorityQueue'))
                   \cup NamesOf(ToSet(normalQueue')) \cup NamesOf(ToSet(toQueue'))
    <3>1. CASE x \in ToSet(ledger)
      BY <1>4, <1>7, <1>9, <1>11, <2>2, <3>1 DEF HelperInv, NothingLost, Expanded, NamesOf
    <3>2. CASE x = e
      BY <1>5, <1>10, <1>11, <2>2, <3>2 DEF Expanded, NamesOf
    <3> QED
      BY <1>7, <3>1, <3>2
  <2>3. \A x \in ToSet(ledger') : Expanded(x) =>
          CallsOf(x.name)' \subseteq Seen' \cup NamesOf(ToSet(priorityQueue'))
              \cup NamesOf(ToSet(normalQueue')) \cup NamesOf(ToSet(toQueue'))
    BY <2>2
  <2> QED
    BY <1>1, <2>1, <2>3 DEF NothingLost, Expanded, IsCaptured, CallsOf, NamesOf
<1>15. AllReached'
  <2>1. ASSUME NEW c \in ToSet(toQueue') PROVE Reached(c)'
    <3>1. e \in ToSet(ledger') /\ e.status = "captured" /\ c.depth = e.depth + 1
      BY <1>5, <1>7, <1>10
    <3>2. c.name \in CallsOf(e.name)'
      BY <1>10, <1>11
    <3> QED
      BY <3>1, <3>2 DEF Reached
  <2> QED
    BY <1>4, <2>1 DEF AllReached
<1>16. PathFirst'
  <2>1. ASSUME NEW c \in ToSet(toQueue'), c.queue = "priority" PROVE OnFocusPath(c.name, Len(ledger))'
    <3>1. n + 1 \in DOMAIN ledger' /\ n + 1 <= Len(ledger') /\ ledger'[n + 1] = e
      BY <1>7
    <3>2. Expanded(ledger'[n + 1]) /\ c.name \in ToSet(calls'[e.name].focus)
      BY <1>5, <1>10, <1>11, <2>1, <3>1 DEF Expanded, FocusOf
    <3> QED
      BY <3>1, <3>2 DEF OnFocusPath, FocusOf, Expanded, IsCaptured
  <2>2. ASSUME NEW x \in ToSet(ledger'), Expanded(x)
        PROVE  FocusOf(x)' \subseteq Seen' \cup NamesOf(ToSet(priorityQueue')) \cup NamesOf(FocusQueued')
    <3>1. CASE x \in ToSet(ledger)
      BY <1>4, <1>7, <1>9, <1>11, <2>2, <3>1 DEF HelperInv, PathFirst, Expanded, NamesOf
    <3>2. CASE x = e
      BY <1>5, <1>10, <1>11, <2>2, <3>2 DEF Expanded, NamesOf, FocusQueued
    <3> QED
      BY <1>7, <3>1, <3>2
  <2>3. ASSUME NEW name, name = e.name PROVE OnFocusPath(name, n) \/ FocusExhausted(n)
    <3>1. CASE Candidate \in ToSet(priorityQueue)
      BY <1>5, <2>3, <3>1 DEF HelperInv, PathFirst
    <3>2. CASE priorityQueue = <<>>
      <4>1. ToSet(priorityQueue) = {}
        BY <3>2 DEF ToSet
      <4>2. \A h \in DOMAIN ledger : Expanded(ledger[h]) => FocusOf(ledger[h]) \subseteq Seen
        BY <1>9, <4>1 DEF HelperInv, PathFirst, NamesOf, ToSet
      <4>3. \A m \in Seen : \E i \in DOMAIN ledger : i <= n /\ ledger[i].name = m
        BY <1>7 DEF Seen, ToSet
      <4> QED
        BY <4>2, <4>3 DEF FocusExhausted
    <3> QED
      BY <1>8, <3>1, <3>2
  <2>4. ASSUME NEW name, name = e.name PROVE OnFocusPath(name, n)' \/ FocusExhausted(n)'
    <3>1. \A k \in DOMAIN ledger :
            /\ k \in DOMAIN ledger' /\ ledger'[k] = ledger[k]
            /\ IsCaptured(ledger[k]) => calls'[ledger[k].name] = calls[ledger[k].name]
      BY <1>4, <1>7 DEF ToSet
    <3>2. n \in Int /\ n <= Len(ledger) /\ DOMAIN ledger' \subseteq Nat \ {0} /\ DOMAIN ledger \subseteq Int
      BY <1>7
    <3> QED
      BY <1>1, <1>7, <2>3, <2>4, <3>1, <3>2, PathStays, ExhaustedStays
  <2>5. \A i \in DOMAIN ledger' : ledger'[i].status # "capture_limit_skipped"
    <3>1. \A x \in ToSet(ledger) : x.status # "capture_limit_skipped"
      BY <1>1, HelperAssumption DEF HelperInv, Books
    <3> QED
      BY <1>5, <1>7, <3>1 DEF ToSet
  <2>6. ASSUME NEW k \in DOMAIN ledger', IsCaptured(ledger'[k]), NEW name, name = ledger'[k].name
        PROVE  OnFocusPath(name, k - 1)' \/ FocusExhausted(k - 1)'
    <3>1. CASE k \in DOMAIN ledger
      BY <1>4, <1>7, <2>6, <3>1
    <3>2. CASE k = n + 1
      <4>1. k - 1 = n /\ name = e.name
        BY <1>7, <2>6, <3>2
      <4> QED
        BY <2>4, <4>1
    <3> QED
      BY <1>7, <3>1, <3>2
  <2>7. \A k \in DOMAIN ledger' : IsCaptured(ledger'[k]) =>
          (OnFocusPath(ledger[k].name, k - 1) \/ FocusExhausted(k - 1))'
    BY <2>6
  <2>8. \A c \in ToSet(priorityQueue') \cup FocusQueued' : OnFocusPath(c.name, Len(ledger))'
    BY <1>4, <2>1 DEF FocusQueued
  <2>9. \A x \in ToSet(ledger') : Expanded(x) =>
          FocusOf(x)' \subseteq Seen' \cup NamesOf(ToSet(priorityQueue')) \cup NamesOf(FocusQueued')
    BY <2>2
  <2> QED
    BY <2>5, <2>7, <2>8, <2>9 DEF PathFirst, Expanded, IsCaptured, NamesOf
<1> QED
  BY <1>12, <1>13, <1>14, <1>15, <1>16 DEF HelperInv

(* A call that waits to be looked at comes into its queue or has its entry. *)
LEMMA Queues ==
    ASSUME HelperInv, QueueCall
    PROVE  HelperInv'
<1> PICK call : call = Head(toQueue)
  OBVIOUS
<1> PICK c : c = [name |-> call.name, depth |-> call.depth]
  OBVIOUS
<1>1. /\ toQueue # <<>> /\ toQueue' = Tail(toQueue)
      /\ UNCHANGED <<roots, ledger, calls, settled>>
      /\ \/ /\ call.name \in Seen \/ call.queue # "priority"
            /\ priorityQueue' = priorityQueue
         \/ call.queue = "priority" /\ priorityQueue' = Append(priorityQueue, c)
      /\ \/ /\ call.name \in Seen \/ call.queue # "normal"
            /\ normalQueue' = normalQueue
         \/ call.queue = "normal" /\ normalQueue' = Append(normalQueue, c)
  BY DEF QueueCall
<1>2. /\ toQueue \in Seq(FoundCalls)
      /\ priorityQueue \in Seq(Candidates) /\ normalQueue \in Seq(Candidates)
  BY DEF HelperInv, HelperTypeOK
<1>3. /\ call \in FoundCalls /\ call \in ToSet(toQueue) /\ toQueue' \in Seq(FoundCalls)
      /\ ToSet(toQueue') \subseteq ToSet(toQueue)
      /\ ToSet(toQueue) \subseteq ToSet(toQueue') \cup {call}
  BY <1>1, <1>2, TailSet
<1>4. /\ c \in Candidates /\ c.name = call.name /\ c.depth = call.depth
      /\ call.queue = "priority" \/ call.queue = "normal"
  BY <1>3 DEF FoundCalls, Candidates
<1>5. /\ priorityQueue' \in Seq(Candidates)
      /\ ToSet(priorityQueue) \subseteq ToSet(priorityQueue')
      /\ ToSet(priorityQueue') \subseteq ToSet(priorityQueue) \cup {c}
      /\ call.queue = "priority" => call.name \in Seen \/ c \in ToSet(priorityQueue')
      /\ call.queue # "priority" => priorityQueue' = priorityQueue
  <2>1. CASE (call.name \in Seen \/ call.queue # "priority") /\ priorityQueue' = priorityQueue
    BY <1>2, <2>1
  <2>2. CASE call.queue = "priority" /\ priorityQueue' = Append(priorityQueue, c)
    <3>1. priorityQueue' \in Seq(Candidates) /\ ToSet(priorityQueue') = ToSet(priorityQueue) \cup {c}
      BY <1>2, <1>4, <2>2, AppendSet
    <3> QED
      BY <2>2, <3>1
  <2> QED
    BY <1>1, <2>1, <2>2
<1>6. /\ normalQueue' \in Seq(Candidates)
      /\ ToSet(normalQueue) \subseteq ToSet(normalQueue')
      /\ ToSet(normalQueue') \subseteq ToSet(normalQueue) \cup {c}
      /\ call.queue = "normal" => call.name \in Seen \/ c \in ToSet(normalQueue')
  <2>1. CASE (call.name \in Seen \/ call.queue # "normal") /\ normalQueue' = normalQueue
    BY <1>2, <2>1
  <2>2. CASE call.queue = "normal" /\ normalQueue' = Append(normalQueue, c)
    <3>1. normalQueue' \in Seq(Candidates) /\ ToSet(normalQueue') = ToSet(normalQueue) \cup {c}
      BY <1>2, <1>4, <2>2, AppendSet
    <3> QED
      BY <2>2, <3>1
  <2> QED
    BY <1>1, <2>1, <2>2
<1>7. HelperTypeOK'
  BY <1>1, <1>3, <1>5, <1>6 DEF HelperInv, HelperTypeOK
<1>8. Books'
  BY <1>1 DEF HelperInv, Books, IsCaptured
<1>9. /\ Seen' = Seen
      /\ \A e : (Expanded(e)' <=> Expanded(e)) /\ FocusOf(e)' = FocusOf(e) /\ CallsOf(e.name)' = CallsOf(e.name)
  BY <1>1 DEF Seen, Expanded, IsCaptured, FocusOf, CallsOf
<1>10. NothingLost'
  <2>1. /\ NamesOf(ToSet(priorityQueue)) \subseteq NamesOf(ToSet(priorityQueue'))
        /\ NamesOf(ToSet(normalQueue)) \subseteq NamesOf(ToSet(normalQueue'))
        /\ call.name \in Seen \cup NamesOf(ToSet(priorityQueue')) \cup NamesOf(ToSet(normalQueue'))
    BY <1>4, <1>5, <1>6 DEF NamesOf
  <2>2. NamesOf(ToSet(toQueue)) \subseteq NamesOf(ToSet(toQueue')) \cup {call.name}
    BY <1>3 DEF NamesOf
  <2> QED
    BY <1>1, <1>9, <2>1, <2>2 DEF HelperInv, NothingLost
<1>11. AllReached'
  <2>1. Reached(c)
    <3>1. Reached(call)
      BY <1>3 DEF HelperInv, AllReached
    <3> QED
      BY <1>4, <3>1 DEF Reached
  <2>2. \A x : Reached(x) => Reached(x)'
    BY <1>1, ReachedStays
  <2> QED
    BY <1>1, <1>3, <1>5, <1>6, <2>1, <2>2 DEF HelperInv, AllReached
<1>12. PathFirst'
  <2>1. \A name, n : OnFocusPath(name, n)' <=> OnFocusPath(name, n)
    BY <1>1 DEF OnFocusPath, FocusOf, Expanded, IsCaptured
  <2>2. \A n : FocusExhausted(n)' <=> FocusExhausted(n)
    BY <1>1 DEF FocusExhausted, FocusOf, Expanded, IsCaptured
  <2>3. FocusQueued' \subseteq FocusQueued /\ (call.queue = "priority" => call \in FocusQueued)
    BY <1>3 DEF FocusQueued
  <2>4. ASSUME NEW x \in ToSet(priorityQueue') \cup FocusQueued' PROVE OnFocusPath(x.name, Len(ledger))
    <3>1. \A y \in ToSet(priorityQueue) \cup FocusQueued : OnFocusPath(y.name, Len(ledger))
      BY DEF HelperInv, PathFirst
    <3>2. CASE x \in ToSet(priorityQueue) \cup FocusQueued
      BY <3>1, <3>2
    <3>3. CASE x = c /\ call.queue = "priority"
      <4>1. OnFocusPath(call.name, Len(ledger))
        BY <2>3, <3>1, <3>3
      <4> QED
        BY <1>4, <3>3, <4>1
    <3> QED
      BY <1>5, <2>3, <3>2, <3>3
  <2>5. NamesOf(ToSet(priorityQueue)) \cup NamesOf(FocusQueued)
            \subseteq Seen \cup NamesOf(ToSet(priorityQueue')) \cup NamesOf(FocusQueued')
    BY <1>3, <1>4, <1>5 DEF NamesOf, FocusQueued
  <2>6. \A x \in ToSet(priorityQueue') \cup FocusQueued' : OnFocusPath(x.name, Len(ledger))'
    <3>1. Len(ledger') = Len(ledger)
      BY <1>1
    <3> QED
      BY <1>1, <2>1, <2>4, <3>1
  <2>7. \A e \in ToSet(ledger') : Expanded(e)' =>
          FocusOf(e)' \subseteq Seen' \cup NamesOf(ToSet(priorityQueue')) \cup NamesOf(FocusQueued')
    BY <1>1, <1>9, <2>5 DEF HelperInv, PathFirst
  <2>8. \A k \in DOMAIN ledger' : IsCaptured(ledger[k])' =>
          /\ (OnFocusPath(ledger[k].name, k - 1) \/ FocusExhausted(k - 1))'
          /\ \A i \in DOMAIN ledger' : i < k => ledger'[i].status # "capture_limit_skipped"
    BY <1>1, <2>1, <2>2 DEF HelperInv, PathFirst, IsCaptured
  <2> QED
    BY <2>6, <2>7, <2>8 DEF PathFirst
<1> QED
  BY <1>7, <1>8, <1>10, <1>11, <1>12 DEF HelperInv

(* What the queues and the ledger hold does not depend on the function      *)
(* having returned.                                                         *)
LEMMA Stays ==
    ASSUME HelperInv, UNCHANGED <<roots, queues, ledger, calls>>, settled' \in BOOLEAN,
           settled' => toQueue = <<>> /\ priorityQueue = <<>> /\ normalQueue = <<>>
    PROVE  HelperInv'
<1>1. HelperTypeOK' /\ Books'
  BY DEF HelperInv, HelperTypeOK, Books, IsCaptured, queues
<1>2. NothingLost' /\ AllReached'
  BY DEF HelperInv, NothingLost, AllReached, Seen, NamesOf, Expanded, IsCaptured, CallsOf, Reached, queues
<1>3. PathFirst'
  <2>1. \A name, n : OnFocusPath(name, n)' <=> OnFocusPath(name, n)
    BY DEF OnFocusPath, FocusOf, Expanded, IsCaptured
  <2>2. \A n : FocusExhausted(n)' <=> FocusExhausted(n)
    BY DEF FocusExhausted, FocusOf, Expanded, IsCaptured
  <2>3. /\ Seen' = Seen /\ FocusQueued' = FocusQueued /\ Len(ledger)' = Len(ledger)
        /\ \A e : (Expanded(e)' <=> Expanded(e)) /\ FocusOf(e)' = FocusOf(e)
    BY DEF Seen, FocusQueued, Expanded, IsCaptured, FocusOf, queues
  <2> QED
    BY <2>1, <2>2, <2>3 DEF HelperInv, PathFirst, IsCaptured, queues
<1> QED
  BY <1>1, <1>2, <1>3 DEF HelperInv

LEMMA HelperStarts == HelperInit => HelperInv
<1> SUFFICES ASSUME HelperInit PROVE HelperInv
  OBVIOUS
<1>1. /\ roots \in Seq(Helpers) /\ 1 \in 1..MaxDepth
      /\ priorityQueue = [k \in DOMAIN roots |-> [name |-> roots[k], depth |-> 1]]
      /\ normalQueue = <<>> /\ toQueue = <<>> /\ ledger = <<>> /\ calls = <<>> /\ settled = FALSE
  BY HelperAssumption DEF HelperInit
<1>2. /\ priorityQueue \in Seq(Candidates)
      /\ \A c \in ToSet(priorityQueue) : c.depth = 1 /\ c.name \in ToSet(roots)
      /\ ToSet(roots) \subseteq NamesOf(ToSet(priorityQueue))
  <2>1. DOMAIN roots = 1..Len(roots) /\ Len(roots) \in Nat /\ \A k \in DOMAIN roots : roots[k] \in Helpers
    BY <1>1
  <2>2. /\ DOMAIN priorityQueue = DOMAIN roots
        /\ \A k \in DOMAIN roots : priorityQueue[k] = [name |-> roots[k], depth |-> 1]
    BY <1>1
  <2>3. priorityQueue \in [1..Len(roots) -> Candidates]
    BY <1>1, <2>1 DEF Candidates
  <2> QED
    BY <2>1, <2>2, <2>3 DEF ToSet, NamesOf
<1>3. /\ ToSet(ledger) = {} /\ ToSet(normalQueue) = {} /\ ToSet(toQueue) = {} /\ FocusQueued = {}
      /\ DOMAIN calls = {} /\ DOMAIN ledger = {} /\ Len(ledger) = 0
  BY <1>1 DEF ToSet, FocusQueued
<1>4. HelperTypeOK
  <2>1. \A S : <<>> \in Seq(S)
    OBVIOUS
  <2>2. \A h \in DOMAIN calls : calls[h] \in [focus : Seq(Helpers), other : Seq(Helpers)]
    BY <1>3
  <2> QED
    BY <1>1, <1>2, <1>3, <2>1, <2>2 DEF HelperTypeOK
<1>5. Books
  BY <1>1, <1>3, FS_EmptySet, HelperAssumption DEF Books
<1>6. NothingLost /\ AllReached /\ PathFirst
  BY <1>2, <1>3 DEF NothingLost, AllReached, PathFirst, Reached, OnFocusPath
<1> QED
  BY <1>4, <1>5, <1>6 DEF HelperInv

LEMMA HelperSteps == HelperInv /\ [HelperNext]_helperVars => HelperInv'
<1> SUFFICES ASSUME HelperInv, [HelperNext]_helperVars PROVE HelperInv'
  OBVIOUS
<1>1. CASE PassSeen
  BY <1>1, LeavesSeen DEF PassSeen, Capturing
<1>2. ASSUME NEW s \in {"capture_unavailable", "capture_failed", "caller_self"}, CaptureNothing(s)
      PROVE  HelperInv'
  <2>1. s \in Statuses \ {"captured"} /\ s # "capture_limit_skipped"
    BY <1>2 DEF Statuses
  <2> QED
    BY <1>2, <2>1, NotCaptured DEF CaptureNothing, Capturing
<1>3. ASSUME NEW f \in CallLists, NEW o \in CallLists, Capture(f, o) PROVE HelperInv'
  BY <1>3, Captures
<1>4. CASE QueueCall
  BY <1>4, Queues
<1>5. CASE SkipCandidate
  <2>1. CASE Candidate.name \in Seen
    BY <1>5, <2>1, LeavesSeen DEF SkipCandidate
  <2>2. CASE Candidate.name \notin Seen
    <3>1. Cardinality(DOMAIN calls) = MaxHelpers
      BY <1>5, HelperAssumption DEF SkipCandidate, Capturing, HelperInv, Books
    <3>2. "capture_limit_skipped" \in Statuses \ {"captured"}
      BY DEF Statuses
    <3> QED
      BY <1>5, <2>2, <3>1, <3>2, NotCaptured DEF SkipCandidate
  <2> QED
    BY <2>1, <2>2
<1>6. CASE Settle
  BY <1>6, Stays DEF Settle, Waiting
<1>7. CASE UNCHANGED helperVars
  <2>1. UNCHANGED <<roots, queues, ledger, calls, settled>>
    BY <1>7 DEF helperVars
  <2> QED
    BY <2>1, Stays DEF HelperInv, HelperTypeOK, Books
<1> QED
  BY <1>1, <1>2, <1>3, <1>4, <1>5, <1>6, <1>7 DEF HelperNext

-----------------------------------------------------------------------------
(* The report misses no helper, for every case and every way its helpers    *)
(* call one another: each one the case calls, and each one called by a      *)
(* helper captured above the depth limit, has one entry in the ledger that  *)
(* _capture_buffer_contract_helpers_with_status returns; skips only happen  *)
(* when the number of captures has reached its limit.                       *)
THEOREM HelpersHaveEntries == HelperSpec => []HelpersAccounted
<1>1. HelperInv => HelpersAccounted
  <2> SUFFICES ASSUME HelperInv, settled PROVE HelpersAccounted
    BY DEF HelpersAccounted
  <2>1. ToSet(priorityQueue) = {} /\ ToSet(normalQueue) = {} /\ ToSet(toQueue) = {}
    BY DEF HelperInv, Books, ToSet
  <2>2. ledger \in Seq(Entries) /\ \A e \in ToSet(ledger) : e \in Entries
    BY DEF HelperInv, HelperTypeOK, ToSet
  <2>3. ToSet(roots) \subseteq Seen
    BY <2>1 DEF HelperInv, NothingLost, NamesOf
  <2>4. \A e \in ToSet(ledger) : e.status = "captured" /\ e.depth < MaxDepth => CallsOf(e.name) \subseteq Seen
    BY <2>1 DEF HelperInv, NothingLost, NamesOf, Expanded, IsCaptured
  <2>5. DOMAIN calls = {e.name : e \in {x \in ToSet(ledger) : x.status = "captured"}}
    <3>1. DOMAIN calls \subseteq Helpers
      BY DEF HelperInv, HelperTypeOK
    <3>2. \A e \in ToSet(ledger) : e.name \in Helpers
      BY <2>2 DEF Entries
    <3>3. \A x \in Helpers : x \in DOMAIN calls <=> \E e \in ToSet(ledger) : e.status = "captured" /\ e.name = x
      BY DEF HelperInv, Books, IsCaptured
    <3> QED
      BY <3>1, <3>2, <3>3
  <2>6. Cardinality(DOMAIN calls) <= MaxHelpers /\ (Skipped # {} => Cardinality(DOMAIN calls) = MaxHelpers)
    BY HelperAssumption DEF HelperInv, Books, Skipped
  <2>7. \A e \in ToSet(ledger) : Reached(e) /\ e.depth <= MaxDepth
    BY <2>2, HelperAssumption DEF HelperInv, AllReached, Entries
  <2>8. \A j, k \in DOMAIN ledger : ledger[j].name = ledger[k].name => j = k
    BY DEF HelperInv, Books
  <2> QED
    BY <2>3, <2>4, <2>5, <2>6, <2>7, <2>8 DEF HelpersAccounted
<1> QED
  BY <1>1, HelperStarts, HelperSteps, PTL DEF HelperSpec

(* The number of captures goes to the helpers that are handed the buffer    *)
(* first, for any number of helpers and captures: the two queues and the    *)
(* order in which a helper's calls come into them see to it.                *)
THEOREM FocusIsFirst == HelperSpec => []FocusFirst
<1>1. HelperInv => FocusFirst
  <2> SUFFICES ASSUME HelperInv, NEW h \in DOMAIN ledger, NEW k \in DOMAIN ledger, h < k,
                      ledger[h].status = "captured", ledger[k].status = "captured",
                      NEW e \in Skipped, ledger[h].depth < MaxDepth,
                      e.name \in ToSet(calls[ledger[h].name].focus),
                      ledger[k].name \notin ToSet(roots)
               PROVE  \E j \in 1..(k - 1) : /\ ledger[j].status = "captured" /\ ledger[j].depth < MaxDepth
                                            /\ ledger[k].name \in ToSet(calls[ledger[j].name].focus)
    BY DEF FocusFirst
  <2>1. DOMAIN ledger = 1..Len(ledger) /\ Len(ledger) \in Nat /\ h \in Nat /\ k \in Nat
    BY DEF HelperInv, HelperTypeOK
  <2>2. PICK s \in DOMAIN ledger : ledger[s] = e /\ e.status = "capture_limit_skipped"
    BY DEF Skipped, ToSet
  <2>3. /\ OnFocusPath(ledger[k].name, k - 1) \/ FocusExhausted(k - 1)
        /\ \A i \in DOMAIN ledger : i < k => ledger[i].status # "capture_limit_skipped"
    BY DEF HelperInv, PathFirst, IsCaptured
  <2>4. CASE OnFocusPath(ledger[k].name, k - 1)
    BY <2>1, <2>4 DEF OnFocusPath, Expanded, IsCaptured, FocusOf
  <2>5. ~FocusExhausted(k - 1)
    <3>1. SUFFICES ASSUME FocusExhausted(k - 1) PROVE FALSE
      OBVIOUS
    <3>2. h <= k - 1 /\ Expanded(ledger[h]) /\ e.name \in FocusOf(ledger[h])
      BY <2>1 DEF Expanded, IsCaptured, FocusOf
    <3>3. PICK i \in DOMAIN ledger : i <= k - 1 /\ ledger[i].name = e.name
      BY <3>1, <3>2 DEF FocusExhausted
    <3>4. i = s /\ i < k
      BY <2>1, <2>2, <3>3 DEF HelperInv, Books
    <3> QED
      BY <2>2, <2>3, <3>4
  <2> QED
    BY <2>3, <2>4, <2>5
<1> QED
  BY <1>1, HelperStarts, HelperSteps, PTL DEF HelperSpec

-----------------------------------------------------------------------------
(* What finding 6 needs: calls of both kinds.  If all that the captured     *)
(* helpers call is on the focus path, or nothing is, candidates wait in the *)
(* order of their depths, and every helper within the depth is looked at.   *)
OneKind ==
    \/ \A h \in DOMAIN calls : calls[h].focus = <<>>
    \/ \A h \in DOMAIN calls : calls[h].other = <<>>

OneKindFollowsToDepth == settled /\ OneKind => Within[MaxDepth] \subseteq Seen

(* What waits beside the focus path is called beside it by some helper.     *)
CallKinds ==
    /\ normalQueue # <<>> => \E h \in DOMAIN calls : calls[h].other # <<>>
    /\ \A c \in ToSet(toQueue) : c.queue = "normal" => \E h \in DOMAIN calls : calls[h].other # <<>>
    /\ \A c \in ToSet(toQueue) : c.queue = "priority" => \E h \in DOMAIN calls : calls[h].focus # <<>>

ByDepth(q) == \A i, j \in DOMAIN q : i < j => q[i].depth <= q[j].depth

(* What has its entry is no deeper than what waits, the priority queue no   *)
(* deeper than the other one, and what waits is at most one level apart.    *)
QueuesByDepth ==
    /\ ByDepth(priorityQueue) /\ ByDepth(normalQueue)
    /\ \A p \in ToSet(priorityQueue), c \in ToSet(normalQueue) : p.depth <= c.depth
    /\ \A p, c \in ToSet(priorityQueue) \cup ToSet(normalQueue) : p.depth <= c.depth + 1
    /\ \A e \in ToSet(ledger), c \in ToSet(priorityQueue) \cup ToSet(normalQueue) : e.depth <= c.depth

(* The calls of one helper are on one level, the lowest.                    *)
CallsLast ==
    /\ \A p \in ToSet(priorityQueue) \cup ToSet(normalQueue), c \in ToSet(toQueue) :
          p.depth <= c.depth /\ c.depth <= p.depth + 1
    /\ \A c, d \in ToSet(toQueue) : c.depth = d.depth
    /\ \A e \in ToSet(ledger), c \in ToSet(toQueue) : e.depth <= c.depth

Found == ToSet(ledger) \cup ToSet(priorityQueue) \cup ToSet(normalQueue) \cup ToSet(toQueue)
Near(name, d) == \E x \in Found : x.name = name /\ x.depth <= d

Distances ==
    /\ \A r \in ToSet(roots) : Near(r, 1)
    /\ \A e \in ToSet(ledger) : Expanded(e) => \A n \in CallsOf(e.name) : Near(n, e.depth + 1)

Levels == QueuesByDepth /\ CallsLast /\ Distances
LevelInv == CallKinds /\ (OneKind => Levels)

LEMMA TailByDepth ==
    ASSUME NEW q \in Seq(Candidates), q # <<>>, ByDepth(q)
    PROVE  ByDepth(Tail(q)) /\ \A c \in ToSet(q) : Head(q).depth <= c.depth
<1>1. /\ Head(q) = q[1] /\ 1 \in DOMAIN q /\ DOMAIN q \subseteq Nat \ {0}
      /\ \A k \in DOMAIN Tail(q) : k \in Nat /\ k + 1 \in DOMAIN q /\ Tail(q)[k] = q[k + 1]
      /\ \A k \in DOMAIN q : q[k] \in Candidates
  OBVIOUS
<1>2. \A c \in Candidates : c.depth \in Nat
  BY HelperAssumption DEF Candidates
<1>3. ByDepth(Tail(q))
  <2> SUFFICES ASSUME NEW i \in DOMAIN Tail(q), NEW j \in DOMAIN Tail(q), i < j
               PROVE  Tail(q)[i].depth <= Tail(q)[j].depth
    BY DEF ByDepth
  <2>1. i + 1 < j + 1 /\ i + 1 \in DOMAIN q /\ j + 1 \in DOMAIN q
    BY <1>1
  <2>2. q[i + 1].depth <= q[j + 1].depth
    BY <2>1 DEF ByDepth
  <2> QED
    BY <1>1, <2>2
<1>4. ASSUME NEW k \in DOMAIN q PROVE Head(q).depth <= q[k].depth
  <2>1. k = 1 \/ 1 < k
    BY <1>1
  <2> QED
    BY <1>1, <1>2, <2>1 DEF ByDepth
<1> QED
  BY <1>3, <1>4 DEF ToSet

LEMMA AppendByDepth ==
    ASSUME NEW q \in Seq(Candidates), NEW x \in Candidates, ByDepth(q), \A c \in ToSet(q) : c.depth <= x.depth
    PROVE  ByDepth(Append(q, x))
<1>1. /\ DOMAIN q = 1..Len(q) /\ Len(q) \in Nat /\ DOMAIN Append(q, x) = 1..(Len(q) + 1)
      /\ \A k \in 1..Len(q) : Append(q, x)[k] = q[k]
      /\ Append(q, x)[Len(q) + 1] = x
  OBVIOUS
<1> SUFFICES ASSUME NEW i \in 1..(Len(q) + 1), NEW j \in 1..(Len(q) + 1), i < j
             PROVE  Append(q, x)[i].depth <= Append(q, x)[j].depth
  BY <1>1 DEF ByDepth
<1>2. i \in 1..Len(q)
  BY <1>1
<1>3. CASE j \in 1..Len(q)
  BY <1>1, <1>2, <1>3 DEF ByDepth
<1>4. CASE j = Len(q) + 1
  <2>1. q[i].depth <= x.depth
    BY <1>1, <1>2 DEF ToSet
  <2> QED
    BY <1>1, <1>2, <1>4, <2>1
<1> QED
  BY <1>1, <1>3, <1>4

(* The candidate is on the highest level that waits.                        *)
LEMMA HighestFirst ==
    ASSUME HelperTypeOK, QueuesByDepth, Waiting, Pop
    PROVE  /\ Candidate \in Candidates
           /\ ToSet(priorityQueue') \cup ToSet(normalQueue') \subseteq ToSet(priorityQueue) \cup ToSet(normalQueue)
           /\ ToSet(priorityQueue) \cup ToSet(normalQueue)
                 \subseteq ToSet(priorityQueue') \cup ToSet(normalQueue') \cup {Candidate}
           /\ Candidate \in ToSet(priorityQueue) \cup ToSet(normalQueue)
           /\ ByDepth(priorityQueue') /\ ByDepth(normalQueue')
           /\ \A p \in ToSet(priorityQueue'), c \in ToSet(normalQueue') : p.depth <= c.depth
           /\ \A c \in ToSet(priorityQueue) \cup ToSet(normalQueue) :
                 Candidate.depth <= c.depth /\ c.depth <= Candidate.depth + 1
           /\ (normalQueue' # <<>> => normalQueue # <<>>)
<1>1. priorityQueue \in Seq(Candidates) /\ normalQueue \in Seq(Candidates)
  BY DEF HelperTypeOK
<1>2. /\ Candidate \in Candidates
      /\ ToSet(priorityQueue') \subseteq ToSet(priorityQueue)
      /\ ToSet(normalQueue') \subseteq ToSet(normalQueue)
      /\ ToSet(priorityQueue) \subseteq ToSet(priorityQueue') \cup {Candidate}
      /\ ToSet(normalQueue) \subseteq ToSet(normalQueue') \cup {Candidate}
      /\ Candidate \in ToSet(priorityQueue) \cup ToSet(normalQueue)
  BY Popping
<1>3. /\ ByDepth(priorityQueue') /\ ByDepth(normalQueue')
      /\ \A c \in ToSet(priorityQueue) \cup ToSet(normalQueue) : Candidate.depth <= c.depth
      /\ (normalQueue' # <<>> => normalQueue # <<>>)
  <2>1. CASE priorityQueue # <<>>
    <3>1. /\ Candidate = Head(priorityQueue) /\ priorityQueue' = Tail(priorityQueue)
          /\ normalQueue' = normalQueue
      BY <2>1 DEF Pop, Candidate
    <3>2. Candidate \in ToSet(priorityQueue)
      BY <1>1, <2>1, <3>1, TailSet
    <3> QED
      BY <1>1, <2>1, <3>1, <3>2, TailByDepth DEF QueuesByDepth
  <2>2. CASE priorityQueue = <<>>
    <3>1. /\ Candidate = Head(normalQueue) /\ normalQueue' = Tail(normalQueue)
          /\ priorityQueue' = priorityQueue /\ normalQueue # <<>>
      BY <2>2 DEF Pop, Candidate, Waiting
    <3>2. ToSet(priorityQueue) = {}
      BY <2>2 DEF ToSet
    <3> QED
      BY <1>1, <3>1, <3>2, TailByDepth DEF QueuesByDepth
  <2> QED
    BY <2>1, <2>2
<1> QED
  BY <1>2, <1>3 DEF QueuesByDepth

(* What is near stays near while nothing that is known is forgotten.        *)
LEMMA NearStays ==
    ASSUME \A x \in Found : \E y \in Found' : y.name = x.name /\ y.depth <= x.depth,
           \A x \in Found \cup Found' : x.depth \in Int, NEW name, NEW d \in Int, Near(name, d)
    PROVE  Near(name, d)'
<1>1. PICK x \in Found : x.name = name /\ x.depth <= d
  BY DEF Near
<1>2. PICK y \in Found' : y.name = x.name /\ y.depth <= x.depth
  OBVIOUS
<1>3. y.depth \in Int /\ x.depth \in Int
  OBVIOUS
<1>4. y.depth <= d
  BY ONLY <1>1, <1>2, <1>3
<1> QED
  BY <1>1, <1>2, <1>4 DEF Near

LEMMA KnownTyped == HelperTypeOK => \A x \in Found : x.depth \in Int /\ x.name \in Helpers
<1> SUFFICES ASSUME HelperTypeOK PROVE \A x \in Found : x.depth \in Int /\ x.name \in Helpers
  OBVIOUS
<1>1. /\ \A x \in ToSet(ledger) : x \in Entries
      /\ \A x \in ToSet(priorityQueue) \cup ToSet(normalQueue) : x \in Candidates
      /\ \A x \in ToSet(toQueue) : x \in FoundCalls
  BY DEF HelperTypeOK, ToSet
<1> QED
  BY <1>1, HelperAssumption DEF Found, Entries, Candidates, FoundCalls

LEMMA KnownTypedNext == HelperTypeOK' => \A x \in Found' : x.depth \in Int /\ x.name \in Helpers
<1> DEFINE Typed == \A x \in Found : x.depth \in Int /\ x.name \in Helpers
<1>1. HelperTypeOK => Typed
  BY KnownTyped
<1>2. HelperTypeOK' => Typed'
  BY <1>1, PTL
<1> QED
  BY <1>2

(* A candidate leaves its queue: it gets its entry, unless its name has one *)
(* that is no deeper.                                                       *)
LEMMA LevelsOfQueues ==
    ASSUME HelperInv, Levels, Waiting, Pop,
           ToSet(ledger') \subseteq ToSet(ledger) \cup {x \in Entries : x.depth = Candidate.depth}
    PROVE  QueuesByDepth'
<1>1. /\ ToSet(priorityQueue') \cup ToSet(normalQueue') \subseteq ToSet(priorityQueue) \cup ToSet(normalQueue)
      /\ ByDepth(priorityQueue') /\ ByDepth(normalQueue')
      /\ \A p \in ToSet(priorityQueue'), c \in ToSet(normalQueue') : p.depth <= c.depth
      /\ \A c \in ToSet(priorityQueue) \cup ToSet(normalQueue) : Candidate.depth <= c.depth
  BY HighestFirst DEF HelperInv, Levels
<1>2. \A p, c \in ToSet(priorityQueue') \cup ToSet(normalQueue') : p.depth <= c.depth + 1
  BY <1>1 DEF Levels, QueuesByDepth
<1>3. \A e \in ToSet(ledger'), c \in ToSet(priorityQueue') \cup ToSet(normalQueue') : e.depth <= c.depth
  BY <1>1 DEF Levels, QueuesByDepth
<1>4. ByDepth(priorityQueue)' /\ ByDepth(normalQueue)'
  BY <1>1 DEF ByDepth
<1> QED
  BY <1>1, <1>2, <1>3, <1>4 DEF QueuesByDepth

LEMMA LevelsPass ==
    ASSUME HelperInv, Levels, Waiting, Pop, Candidate.name \in Seen, UNCHANGED <<roots, toQueue, ledger, calls>>,
           HelperInv'
    PROVE  Levels'
<1>1. QueuesByDepth'
  BY LevelsOfQueues
<1>2. ToSet(toQueue) = {} /\ ToSet(toQueue') = {}
  BY DEF Waiting, ToSet
<1>3. CallsLast'
  BY <1>2 DEF CallsLast
<1>4. /\ ToSet(priorityQueue) \cup ToSet(normalQueue)
            \subseteq ToSet(priorityQueue') \cup ToSet(normalQueue') \cup {Candidate}
      /\ Candidate \in ToSet(priorityQueue) \cup ToSet(normalQueue)
  BY HighestFirst DEF HelperInv, Levels
<1>5. PICK e \in ToSet(ledger) : e.name = Candidate.name /\ e.depth <= Candidate.depth
  BY <1>4 DEF Seen, Levels, QueuesByDepth
<1>6. (\A x \in Found : x.depth \in Int) /\ (\A x \in Found' : x.depth \in Int)
  BY KnownTyped, KnownTypedNext DEF HelperInv
<1>7. \A x \in Found : \E y \in Found' : y.name = x.name /\ y.depth <= x.depth
  <2> SUFFICES ASSUME NEW x \in Found PROVE \E y \in Found' : y.name = x.name /\ y.depth <= x.depth
    OBVIOUS
  <2>1. CASE x = Candidate
    BY <1>5, <2>1 DEF Found
  <2>2. CASE x # Candidate
    <3>1. x \in Found'
      BY <1>2, <1>4, <2>2 DEF Found
    <3> QED
      BY <1>6, <3>1
  <2> QED
    BY <2>1, <2>2
<1>8. Distances'
  <2>1. \A r \in ToSet(roots) : Near(r, 1)'
    BY <1>6, <1>7, NearStays DEF Levels, Distances
  <2>2. \A x \in ToSet(ledger) : x.depth \in Int
    BY <1>6 DEF Found
  <2>3. \A x \in ToSet(ledger) : Expanded(x) => \A n \in CallsOf(x.name) : Near(n, x.depth + 1)'
    BY <1>6, <1>7, <2>2, NearStays DEF Levels, Distances
  <2> QED
    BY <2>1, <2>3 DEF Distances, Expanded, IsCaptured, CallsOf
<1> QED
  BY <1>1, <1>3, <1>8 DEF Levels

LEMMA LevelsRefuse ==
    ASSUME HelperInv, Levels, Waiting, Pop, Candidate.name \notin Seen, NEW status \in Statuses \ {"captured"},
           Record(status), UNCHANGED <<roots, toQueue, calls>>, HelperInv'
    PROVE  Levels'
<1> PICK e : e = NewEntry(status)
  OBVIOUS
<1>1. /\ ToSet(priorityQueue) \cup ToSet(normalQueue)
            \subseteq ToSet(priorityQueue') \cup ToSet(normalQueue') \cup {Candidate}
      /\ Candidate \in ToSet(priorityQueue) \cup ToSet(normalQueue) /\ Candidate \in Candidates
  BY HighestFirst DEF HelperInv, Levels
<1>2. e \in Entries /\ e.name = Candidate.name /\ e.depth = Candidate.depth /\ ~IsCaptured(e)
  BY <1>1 DEF NewEntry, Entries, Candidates, IsCaptured
<1>3. ToSet(ledger') = ToSet(ledger) \cup {e}
  <2>1. ledger \in Seq(Entries) /\ ledger' = Append(ledger, e)
    BY DEF Record, NewEntry, HelperInv, HelperTypeOK
  <2> QED
    BY <1>2, <2>1, AppendSet
<1>4. QueuesByDepth'
  BY <1>2, <1>3, LevelsOfQueues
<1>5. ToSet(toQueue) = {} /\ ToSet(toQueue') = {}
  BY DEF Waiting, ToSet
<1>6. CallsLast'
  BY <1>5 DEF CallsLast
<1>7. (\A x \in Found : x.depth \in Int) /\ (\A x \in Found' : x.depth \in Int)
  BY KnownTyped, KnownTypedNext DEF HelperInv
<1>8. \A x \in Found : \E y \in Found' : y.name = x.name /\ y.depth <= x.depth
  <2> SUFFICES ASSUME NEW x \in Found PROVE \E y \in Found' : y.name = x.name /\ y.depth <= x.depth
    OBVIOUS
  <2>1. CASE x = Candidate
    <3>1. e \in Found' /\ e.name = x.name /\ e.depth = x.depth /\ e.depth \in Int
      BY <1>2, <1>3, <1>7, <2>1 DEF Found
    <3> QED
      BY <3>1
  <2>2. CASE x # Candidate
    <3>1. x \in Found'
      BY <1>1, <1>3, <1>5, <2>2 DEF Found
    <3> QED
      BY <1>7, <3>1
  <2> QED
    BY <2>1, <2>2
<1>9. Distances'
  <2>1. \A r \in ToSet(roots) : Near(r, 1)'
    BY <1>7, <1>8, NearStays DEF Levels, Distances
  <2>2. \A x \in ToSet(ledger) : x.depth \in Int
    BY <1>7 DEF Found
  <2>3. \A x \in ToSet(ledger) : Expanded(x) => \A n \in CallsOf(x.name) : Near(n, x.depth + 1)'
    BY <1>7, <1>8, <2>2, NearStays DEF Levels, Distances
  <2> QED
    BY <1>2, <1>3, <2>1, <2>3 DEF Distances, Expanded, IsCaptured, CallsOf
<1> QED
  BY <1>4, <1>6, <1>9 DEF Levels

(* The calls of a captured helper are one level below it.                   *)
LEMMA LevelsCapture ==
    ASSUME HelperInv, Levels, NEW focus \in CallLists, NEW other \in CallLists, Capture(focus, other), HelperInv'
    PROVE  Levels'
<1> PICK e : e = NewEntry("captured")
  OBVIOUS
<1>1. /\ Waiting /\ Candidate.name \notin Seen /\ Record("captured") /\ Pop /\ UNCHANGED roots
      /\ calls'[Candidate.name] = [focus |-> focus, other |-> other]
      /\ \A h \in DOMAIN calls : h # Candidate.name => calls'[h] = calls[h]
      /\ toQueue' = IF Candidate.depth < MaxDepth THEN FoundBy(focus, other) ELSE <<>>
  BY DEF Capture, Capturing
<1>2. /\ ToSet(priorityQueue') \cup ToSet(normalQueue') \subseteq ToSet(priorityQueue) \cup ToSet(normalQueue)
      /\ ToSet(priorityQueue) \cup ToSet(normalQueue)
            \subseteq ToSet(priorityQueue') \cup ToSet(normalQueue') \cup {Candidate}
      /\ Candidate \in ToSet(priorityQueue) \cup ToSet(normalQueue) /\ Candidate \in Candidates
      /\ \A c \in ToSet(priorityQueue) \cup ToSet(normalQueue) :
            Candidate.depth <= c.depth /\ c.depth <= Candidate.depth + 1
  BY <1>1, HighestFirst DEF HelperInv, Levels
<1>3. e \in Entries /\ e.name = Candidate.name /\ e.depth = Candidate.depth /\ IsCaptured(e)
  BY <1>2 DEF NewEntry, Entries, Candidates, IsCaptured, Statuses
<1>4. ToSet(ledger') = ToSet(ledger) \cup {e}
  <2>1. ledger \in Seq(Entries) /\ ledger' = Append(ledger, e)
    BY <1>1 DEF Record, NewEntry, HelperInv, HelperTypeOK
  <2> QED
    BY <1>3, <2>1, AppendSet
<1>5. QueuesByDepth'
  BY <1>1, <1>3, <1>4, LevelsOfQueues
<1>6. /\ \A c \in ToSet(toQueue') : c.depth = Candidate.depth + 1
      /\ Candidate.depth < MaxDepth =>
            \A name \in ToSet(focus) \cup ToSet(other) : \E c \in ToSet(toQueue') : c.name = name
  <2>1. CASE Candidate.depth < MaxDepth
    <3>1. focus \in Seq(Helpers) /\ other \in Seq(Helpers)
      BY HelperAssumption
    <3> QED
      BY <1>1, <1>2, <2>1, <3>1, FoundCallsOf
  <2>2. CASE ~(Candidate.depth < MaxDepth)
    <3>1. ToSet(toQueue') = {}
      BY <1>1, <2>2 DEF ToSet
    <3> QED
      BY <2>2, <3>1
  <2> QED
    BY <2>1, <2>2
<1>7. (\A x \in Found : x.depth \in Int) /\ (\A x \in Found' : x.depth \in Int)
  BY KnownTyped, KnownTypedNext DEF HelperInv
<1>8. Candidate.depth \in Int /\ (\A x \in ToSet(ledger) : x.depth \in Int /\ x.depth <= Candidate.depth)
  BY <1>2, <1>7 DEF Found, Levels, QueuesByDepth
<1>9. CallsLast'
  <2>1. ASSUME NEW p \in ToSet(priorityQueue') \cup ToSet(normalQueue'), NEW c \in ToSet(toQueue')
        PROVE  p.depth <= c.depth /\ c.depth <= p.depth + 1
    <3>1. Candidate.depth <= p.depth /\ p.depth <= Candidate.depth + 1 /\ c.depth = Candidate.depth + 1
      BY <1>2, <1>6
    <3>2. p.depth \in Int
      BY <1>7 DEF Found
    <3> QED
      BY <1>8, <3>1, <3>2
  <2>2. ASSUME NEW x \in ToSet(ledger'), NEW c \in ToSet(toQueue') PROVE x.depth <= c.depth
    <3>1. x.depth \in Int /\ x.depth <= Candidate.depth
      BY <1>3, <1>4, <1>8
    <3> QED
      BY <1>6, <1>8, <3>1
  <2> QED
    BY <1>6, <2>1, <2>2 DEF CallsLast
<1>10. ToSet(toQueue) = {}
  BY <1>1 DEF Waiting, ToSet
<1>11. \A x \in Found : \E y \in Found' : y.name = x.name /\ y.depth <= x.depth
  <2> SUFFICES ASSUME NEW x \in Found PROVE \E y \in Found' : y.name = x.name /\ y.depth <= x.depth
    OBVIOUS
  <2>1. CASE x = Candidate
    <3>1. e \in Found' /\ e.name = x.name /\ e.depth = x.depth /\ e.depth \in Int
      BY <1>3, <1>4, <1>7, <2>1 DEF Found
    <3> QED
      BY <3>1
  <2>2. CASE x # Candidate
    <3>1. x \in Found'
      BY <1>2, <1>4, <1>10, <2>2 DEF Found
    <3> QED
      BY <1>7, <3>1
  <2> QED
    BY <2>1, <2>2
<1>12. Distances'
  <2>1. \A r \in ToSet(roots) : Near(r, 1)'
    BY <1>7, <1>11, NearStays DEF Levels, Distances
  <2>2. \A x \in ToSet(ledger) : Expanded(x) => \A n \in CallsOf(x.name) : Near(n, x.depth + 1)'
    BY <1>7, <1>8, <1>11, NearStays DEF Levels, Distances
  <2>3. \A x \in ToSet(ledger) : IsCaptured(x) => CallsOf(x.name)' = CallsOf(x.name)
    <3>1. ASSUME NEW x \in ToSet(ledger), IsCaptured(x) PROVE calls'[x.name] = calls[x.name]
      <4>1. x.name # Candidate.name
        BY <1>1 DEF Seen
      <4>2. x.name \in Helpers
        BY KnownTyped DEF HelperInv, Found
      <4>3. x.name \in DOMAIN calls
        BY <3>1, <4>2 DEF HelperInv, Books
      <4> QED
        BY <1>1, <4>1, <4>3
    <3> QED
      BY <3>1 DEF CallsOf
  <2>4. Expanded(e) => \A n \in CallsOf(e.name)' : Near(n, e.depth + 1)'
    <3> SUFFICES ASSUME Expanded(e), NEW n \in CallsOf(e.name)' PROVE Near(n, e.depth + 1)'
      OBVIOUS
    <3>1. n \in ToSet(focus) \cup ToSet(other)
      <4>1. calls'[e.name] = [focus |-> focus, other |-> other]
        BY <1>1, <1>3
      <4> QED
        BY <4>1 DEF CallsOf
    <3>2. PICK c \in ToSet(toQueue') : c.name = n
      BY <1>3, <1>6, <3>1 DEF Expanded
    <3>3. c.depth = e.depth + 1 /\ c.depth \in Int /\ c \in Found'
      BY <1>3, <1>6, <1>7 DEF Found
    <3> QED
      BY <3>2, <3>3 DEF Near
  <2> QED
    BY <1>1, <1>4, <2>1, <2>2, <2>3, <2>4 DEF Distances, Expanded, IsCaptured
<1> QED
  BY <1>5, <1>9, <1>12 DEF Levels

(* A call joins the end of its queue.                                       *)
LEMMA LevelsQueue ==
    ASSUME HelperInv, Levels, QueueCall, Head(toQueue).queue = "priority" => normalQueue = <<>>, HelperInv'
    PROVE  Levels'
<1> PICK call : call = Head(toQueue)
  OBVIOUS
<1> PICK c : c = [name |-> call.name, depth |-> call.depth]
  OBVIOUS
<1>1. /\ toQueue # <<>> /\ toQueue' = Tail(toQueue)
      /\ UNCHANGED <<roots, ledger, calls>>
      /\ \/ call.name \in Seen /\ priorityQueue' = priorityQueue /\ normalQueue' = normalQueue
         \/ call.queue = "priority" /\ priorityQueue' = Append(priorityQueue, c) /\ normalQueue' = normalQueue
         \/ call.queue = "normal" /\ normalQueue' = Append(normalQueue, c) /\ priorityQueue' = priorityQueue
  <2>1. Head(toQueue) \in FoundCalls
    BY TailSet DEF HelperInv, HelperTypeOK, QueueCall
  <2>2. call.queue \in {"priority", "normal"}
    BY <2>1 DEF FoundCalls
  <2> QED
    BY <2>2 DEF QueueCall
<1>2. /\ toQueue \in Seq(FoundCalls)
      /\ priorityQueue \in Seq(Candidates) /\ normalQueue \in Seq(Candidates)
  BY DEF HelperInv, HelperTypeOK
<1>3. /\ call \in FoundCalls /\ call \in ToSet(toQueue)
      /\ ToSet(toQueue') \subseteq ToSet(toQueue)
      /\ ToSet(toQueue) \subseteq ToSet(toQueue') \cup {call}
  BY <1>1, <1>2, TailSet
<1>4. c \in Candidates /\ c.name = call.name /\ c.depth = call.depth
  BY <1>3 DEF FoundCalls, Candidates
<1>5. /\ \A p \in ToSet(priorityQueue) \cup ToSet(normalQueue) : p.depth <= c.depth /\ c.depth <= p.depth + 1
      /\ \A d \in ToSet(toQueue) : d.depth = c.depth
      /\ \A e \in ToSet(ledger) : e.depth <= c.depth
  BY <1>3, <1>4 DEF Levels, CallsLast
<1>6. (\A x \in Found : x.depth \in Int) /\ (\A x \in Found' : x.depth \in Int)
  BY KnownTyped, KnownTypedNext DEF HelperInv
<1>7. /\ ToSet(priorityQueue) \cup ToSet(normalQueue) \subseteq ToSet(priorityQueue') \cup ToSet(normalQueue')
      /\ ToSet(priorityQueue') \cup ToSet(normalQueue') \subseteq ToSet(priorityQueue) \cup ToSet(normalQueue) \cup {c}
      /\ call.name \in Seen \/ c \in ToSet(priorityQueue') \cup ToSet(normalQueue')
      /\ ByDepth(priorityQueue') /\ ByDepth(normalQueue')
      /\ \A p \in ToSet(priorityQueue'), d \in ToSet(normalQueue') : p.depth <= d.depth
  <2>1. /\ ByDepth(priorityQueue) /\ ByDepth(normalQueue)
        /\ \A p \in ToSet(priorityQueue), d \in ToSet(normalQueue) : p.depth <= d.depth
    BY DEF Levels, QueuesByDepth
  <2>2. CASE call.name \in Seen /\ priorityQueue' = priorityQueue /\ normalQueue' = normalQueue
    BY <2>1, <2>2
  <2>3. CASE call.queue = "priority" /\ priorityQueue' = Append(priorityQueue, c) /\ normalQueue' = normalQueue
    <3>1. ToSet(priorityQueue') = ToSet(priorityQueue) \cup {c} /\ ByDepth(priorityQueue')
      BY <1>2, <1>4, <1>5, <2>1, <2>3, AppendSet, AppendByDepth
    <3>2. ToSet(normalQueue') = {} /\ ByDepth(normalQueue')
      BY <2>1, <2>3 DEF ToSet
    <3> QED
      BY <2>3, <3>1, <3>2
  <2>4. CASE call.queue = "normal" /\ normalQueue' = Append(normalQueue, c) /\ priorityQueue' = priorityQueue
    <3>1. ToSet(normalQueue') = ToSet(normalQueue) \cup {c} /\ ByDepth(normalQueue')
      BY <1>2, <1>4, <1>5, <2>1, <2>4, AppendSet, AppendByDepth
    <3> QED
      BY <1>5, <2>1, <2>4, <3>1
  <2> QED
    BY <1>1, <2>2, <2>3, <2>4
<1>8. QueuesByDepth'
  <2>1. \A p, d \in ToSet(priorityQueue') \cup ToSet(normalQueue') : p.depth <= d.depth + 1
    <3>1. \A p, d \in ToSet(priorityQueue) \cup ToSet(normalQueue) : p.depth <= d.depth + 1
      BY DEF Levels, QueuesByDepth
    <3>2. \A p \in ToSet(priorityQueue) \cup ToSet(normalQueue) : p.depth \in Int
      BY <1>6 DEF Found
    <3>3. c.depth \in Int
      BY <1>3, <1>4, <1>6 DEF Found
    <3>4. \A p \in ToSet(priorityQueue) \cup ToSet(normalQueue) : p.depth <= c.depth + 1 /\ c.depth <= p.depth + 1
      BY <1>5, <3>2, <3>3
    <3>5. c.depth <= c.depth + 1
      BY <3>3
    <3> QED
      BY <1>7, <3>1, <3>4, <3>5
  <2>2. \A e \in ToSet(ledger'), d \in ToSet(priorityQueue') \cup ToSet(normalQueue') : e.depth <= d.depth
    BY <1>1, <1>5, <1>7 DEF Levels, QueuesByDepth
  <2>3. ByDepth(priorityQueue)' /\ ByDepth(normalQueue)'
    BY <1>7 DEF ByDepth
  <2> QED
    BY <1>7, <2>1, <2>2, <2>3 DEF QueuesByDepth
<1>9. CallsLast'
  <2>1. c.depth \in Int /\ \A d \in ToSet(toQueue') : d.depth = c.depth
    BY <1>3, <1>4, <1>5, <1>6 DEF Found
  <2>2. \A p \in ToSet(priorityQueue') \cup ToSet(normalQueue') : p.depth <= c.depth /\ c.depth <= p.depth + 1
    BY <1>5, <1>7, <2>1
  <2> QED
    BY <1>1, <1>5, <2>1, <2>2 DEF CallsLast
<1>10. \A x \in Found : \E y \in Found' : y.name = x.name /\ y.depth <= x.depth
  <2> SUFFICES ASSUME NEW x \in Found PROVE \E y \in Found' : y.name = x.name /\ y.depth <= x.depth
    OBVIOUS
  <2>1. CASE x = call
    <3>1. CASE call.name \in Seen
      <4>1. PICK e \in ToSet(ledger) : e.name = call.name
        BY <3>1 DEF Seen
      <4> QED
        BY <1>1, <1>4, <1>5, <2>1, <4>1 DEF Found
    <3>2. CASE c \in ToSet(priorityQueue') \cup ToSet(normalQueue')
      <4>1. c \in Found' /\ c.depth \in Int
        BY <1>6, <3>2 DEF Found
      <4> QED
        BY <1>4, <2>1, <4>1
    <3> QED
      BY <1>7, <3>1, <3>2
  <2>2. CASE x # call
    <3>1. x \in Found'
      BY <1>1, <1>3, <1>7, <2>2 DEF Found
    <3> QED
      BY <1>6, <3>1
  <2> QED
    BY <2>1, <2>2
<1>11. Distances'
  <2>1. \A r \in ToSet(roots) : Near(r, 1)'
    BY <1>6, <1>10, NearStays DEF Levels, Distances
  <2>2. \A x \in ToSet(ledger) : x.depth \in Int
    BY <1>6 DEF Found
  <2>3. \A x \in ToSet(ledger) : Expanded(x) => \A n \in CallsOf(x.name) : Near(n, x.depth + 1)'
    BY <1>6, <1>10, <2>2, NearStays DEF Levels, Distances
  <2> QED
    BY <1>1, <2>1, <2>3 DEF Distances, Expanded, IsCaptured, CallsOf
<1> QED
  BY <1>8, <1>9, <1>11 DEF Levels

(* Calls are only added, each with its kind.                                *)
LEMMA KindsOfCapture ==
    ASSUME HelperInv, CallKinds, NEW focus \in CallLists, NEW other \in CallLists, Capture(focus, other)
    PROVE  CallKinds' /\ (OneKind' => OneKind)
<1>1. /\ Waiting /\ Candidate.name \notin Seen /\ Pop
      /\ DOMAIN calls' = DOMAIN calls \cup {Candidate.name}
      /\ calls'[Candidate.name] = [focus |-> focus, other |-> other]
      /\ \A h \in DOMAIN calls : h # Candidate.name => calls'[h] = calls[h]
      /\ toQueue' = IF Candidate.depth < MaxDepth THEN FoundBy(focus, other) ELSE <<>>
  BY DEF Capture, Capturing
<1>2. Candidate \in Candidates /\ (normalQueue' # <<>> => normalQueue # <<>>)
  <2>1. normalQueue = <<>> => normalQueue' = <<>>
    BY <1>1 DEF Pop, Waiting
  <2> QED
    BY <1>1, <2>1, Popping DEF HelperInv
<1>3. Candidate.name \notin DOMAIN calls
  BY <1>1, <1>2 DEF HelperInv, Books, Seen, Candidates
<1>4. \A h \in DOMAIN calls : h \in DOMAIN calls' /\ calls'[h] = calls[h]
  BY <1>1, <1>3
<1>5. OneKind' => OneKind
  BY <1>4 DEF OneKind
<1>6. ASSUME NEW c \in ToSet(toQueue')
      PROVE  (c.queue = "priority" => focus # <<>>) /\ (c.queue = "normal" => other # <<>>)
  <2>1. Candidate.depth < MaxDepth
    BY <1>1, <1>6 DEF ToSet
  <2>2. focus \in Seq(Helpers) /\ other \in Seq(Helpers)
    BY HelperAssumption
  <2>3. /\ c.queue = "priority" => c.name \in ToSet(focus)
        /\ c.queue = "normal" => c.name \in ToSet(other)
    BY <1>1, <1>2, <1>6, <2>1, <2>2, FoundCallsOf
  <2> QED
    BY <2>3 DEF ToSet
<1>7. CallKinds'
  <2>1. normalQueue' # <<>> => \E h \in DOMAIN calls' : calls'[h].other # <<>>
    BY <1>2, <1>4 DEF CallKinds
  <2>2. \A c \in ToSet(toQueue') : c.queue = "normal" => \E h \in DOMAIN calls' : calls'[h].other # <<>>
    BY <1>1, <1>6
  <2>3. \A c \in ToSet(toQueue') : c.queue = "priority" => \E h \in DOMAIN calls' : calls'[h].focus # <<>>
    BY <1>1, <1>6
  <2> QED
    BY <2>1, <2>2, <2>3 DEF CallKinds
<1> QED
  BY <1>5, <1>7

LEMMA KindsStay ==
    ASSUME CallKinds, calls' = calls, normalQueue' # <<>> => normalQueue # <<>>,
           ToSet(toQueue') \subseteq ToSet(toQueue)
    PROVE  CallKinds' /\ (OneKind' => OneKind)
BY DEF CallKinds, OneKind

LEMMA KindsOfQueue ==
    ASSUME HelperInv, CallKinds, QueueCall
    PROVE  CallKinds' /\ (OneKind => (Head(toQueue).queue = "priority" => normalQueue = <<>>))
<1> PICK call : call = Head(toQueue)
  OBVIOUS
<1>1. /\ call \in ToSet(toQueue) /\ ToSet(toQueue') \subseteq ToSet(toQueue) /\ calls' = calls
  BY TailSet DEF HelperInv, HelperTypeOK, QueueCall
<1>2. normalQueue' # normalQueue => call.queue = "normal"
  BY DEF QueueCall
<1>3. normalQueue' # <<>> => \E h \in DOMAIN calls : calls[h].other # <<>>
  BY <1>1, <1>2 DEF CallKinds
<1>4. CallKinds'
  BY <1>1, <1>3 DEF CallKinds
<1> QED
  BY <1>1, <1>4 DEF CallKinds, OneKind

LEMMA LevelsStay ==
    ASSUME UNCHANGED <<roots, queues, ledger, calls>>, LevelInv
    PROVE  LevelInv'
<1>1. CallKinds' /\ (OneKind' => OneKind)
  BY DEF LevelInv, CallKinds, OneKind, queues
<1>2. Levels => Levels'
  <2>1. QueuesByDepth => QueuesByDepth'
    BY DEF QueuesByDepth, ByDepth, queues
  <2>2. CallsLast => CallsLast'
    BY DEF CallsLast, queues
  <2>3. Found' = Found
    BY DEF Found, queues
  <2>4. Distances => Distances'
    BY <2>3 DEF Distances, Near, Expanded, IsCaptured, CallsOf
  <2> QED
    BY <2>1, <2>2, <2>4 DEF Levels
<1> QED
  BY <1>1, <1>2 DEF LevelInv

LEMMA LevelsStart == HelperInit => LevelInv
<1> SUFFICES ASSUME HelperInit PROVE LevelInv
  OBVIOUS
<1>1. /\ roots \in Seq(Helpers)
      /\ priorityQueue = [k \in DOMAIN roots |-> [name |-> roots[k], depth |-> 1]]
      /\ normalQueue = <<>> /\ toQueue = <<>> /\ ledger = <<>>
  BY HelperAssumption DEF HelperInit
<1>2. /\ \A k \in DOMAIN priorityQueue : priorityQueue[k].depth = 1
      /\ \A k \in DOMAIN roots : k \in DOMAIN priorityQueue /\ priorityQueue[k].name = roots[k]
  BY <1>1
<1>3. /\ \A c \in ToSet(priorityQueue) : c.depth = 1
      /\ \A r \in ToSet(roots) : \E c \in ToSet(priorityQueue) : c.name = r
      /\ ToSet(normalQueue) = {} /\ ToSet(toQueue) = {} /\ ToSet(ledger) = {}
  BY <1>1, <1>2 DEF ToSet
<1>4. ByDepth(priorityQueue) /\ ByDepth(normalQueue)
  BY <1>1, <1>2 DEF ByDepth
<1>5. QueuesByDepth /\ CallsLast
  BY <1>3, <1>4 DEF QueuesByDepth, CallsLast
<1>6. Distances
  BY <1>3 DEF Distances, Near, Found
<1>7. CallKinds
  BY <1>1, <1>3 DEF CallKinds
<1> QED
  BY <1>5, <1>6, <1>7 DEF LevelInv, Levels

LEMMA LevelSteps == HelperInv /\ HelperInv' /\ LevelInv /\ [HelperNext]_helperVars => LevelInv'
<1> SUFFICES ASSUME HelperInv, HelperInv', LevelInv, [HelperNext]_helperVars PROVE LevelInv'
  OBVIOUS
<1>0. ASSUME Waiting, Pop, calls' = calls, toQueue' = toQueue PROVE CallKinds' /\ (OneKind' => OneKind)
  <2>1. normalQueue = <<>> => normalQueue' = <<>>
    BY <1>0 DEF Pop, Waiting
  <2> QED
    BY <1>0, <2>1, KindsStay DEF LevelInv
<1>1. CASE PassSeen
  BY <1>0, <1>1, LevelsPass DEF PassSeen, Capturing, LevelInv
<1>2. ASSUME NEW s \in {"capture_unavailable", "capture_failed", "caller_self"}, CaptureNothing(s)
      PROVE  LevelInv'
  <2>1. s \in Statuses \ {"captured"}
    BY DEF Statuses
  <2> QED
    BY <1>0, <1>2, <2>1, LevelsRefuse DEF CaptureNothing, Capturing, LevelInv
<1>3. ASSUME NEW f \in CallLists, NEW o \in CallLists, Capture(f, o) PROVE LevelInv'
  BY <1>3, KindsOfCapture, LevelsCapture DEF LevelInv
<1>4. CASE QueueCall
  <2>1. OneKind' => OneKind
    BY <1>4 DEF QueueCall, OneKind
  <2> QED
    BY <1>4, <2>1, KindsOfQueue, LevelsQueue DEF LevelInv
<1>5. CASE SkipCandidate
  <2>1. CASE Candidate.name \in Seen
    BY <1>0, <1>5, <2>1, LevelsPass DEF SkipCandidate, LevelInv
  <2>2. CASE Candidate.name \notin Seen
    <3>1. "capture_limit_skipped" \in Statuses \ {"captured"}
      BY DEF Statuses
    <3> QED
      BY <1>0, <1>5, <2>2, <3>1, LevelsRefuse DEF SkipCandidate, LevelInv
  <2> QED
    BY <2>1, <2>2
<1>6. CASE Settle \/ UNCHANGED helperVars
  BY <1>6, LevelsStay DEF Settle, helperVars
<1> QED
  BY <1>1, <1>2, <1>3, <1>4, <1>5, <1>6 DEF HelperNext

LEMMA LeastDepth ==
    ASSUME NEW S, S \subseteq Nat, S # {}
    PROVE  \E m \in S : \A y \in S : m <= y
<1>1. PICK m \in S : \A y \in S : ~(<<y, m>> \in OpToRel(<, Nat))
  BY NatLessThanWellFounded, WFMin
<1>2. ASSUME NEW y \in S PROVE m <= y
  <2>1. m \in Nat /\ y \in Nat
    OBVIOUS
  <2>2. ~(y < m)
    BY <1>1, <2>1 DEF OpToRel
  <2> QED
    BY <2>1, <2>2
<1> QED
  BY <1>2

LEMMA DownTheDepths ==
    ASSUME NEW n \in Nat, NEW S, 0 \in S, \A i \in S : i \in 0..n /\ i < n => i + 1 \in S
    PROVE  0..n \subseteq S
<1> PICK T : T = (0..n) \ S
  OBVIOUS
<1> SUFFICES ASSUME T # {} PROVE FALSE
  OBVIOUS
<1>1. PICK i \in T : \A y \in T : i <= y
  <2>1. T \subseteq Nat
    OBVIOUS
  <2> QED
    BY <2>1, LeastDepth
<1>2. i \in 0..n /\ i \notin S /\ i # 0
  OBVIOUS
<1>3. i - 1 \in 0..n /\ i - 1 < n /\ (i - 1) + 1 = i /\ i - 1 < i
  BY <1>2
<1>4. i - 1 \in T
  BY <1>2, <1>3
<1> QED
  BY <1>1, <1>2, <1>3, <1>4

(* The recursive function Within exists: each level is found from the one   *)
(* above it.                                                                *)
LEMMA WithinByLevels ==
    \A d \in 0..MaxDepth :
        /\ d = 0 => Within[d] = {}
        /\ d = 1 => Within[d] = ToSet(roots)
        /\ d > 1 => Within[d] = Within[d - 1] \cup UNION {CallsOf(h) : h \in Within[d - 1] \cap DOMAIN calls}
<1> PICK n : n = MaxDepth
  OBVIOUS
<1>0. n \in Nat
  BY HelperAssumption
<1> PICK V : V = ToSet(roots) \cup UNION {CallsOf(h) : h \in DOMAIN calls}
  OBVIOUS
<1> DEFINE Deeper(W) == W \cup UNION {CallsOf(h) : h \in W \cap DOMAIN calls}
           Body(g, d) == IF d = 0 THEN {} ELSE IF d = 1 THEN ToSet(roots) ELSE Deeper(g[d - 1])
           From(g) == [d \in 0..MaxDepth |-> Body(g, d)]
<1>1. ASSUME NEW g, NEW d \in 0..n, d > 0 => g[d - 1] \in SUBSET V
      PROVE  Body(g, d) \in SUBSET V
  <2>1. ASSUME NEW W \in SUBSET V PROVE Deeper(W) \in SUBSET V
    OBVIOUS
  <2> HIDE DEF Deeper
  <2>2. d = 0 \/ d > 0
    BY <1>0
  <2> QED
    BY <1>1, <2>1, <2>2
<1> HIDE DEF Deeper
<1>2. \E g : g = From(g)
  <2> DEFINE B(m) == \E g \in [0..n -> SUBSET V] : \A i \in 0..m : g[i] = Body(g, i)
             A == {m \in 0..n : B(m)}
  <2>1. 0 \in A
    <3>1. PICK g \in [0..n -> SUBSET V] : g = [i \in 0..n |-> {}]
      OBVIOUS
    <3>2. \A i \in 0..0 : g[i] = Body(g, i)
      BY <3>1, <1>0
    <3> HIDE DEF Body
    <3>3. B(0) /\ 0 \in 0..n
      BY <1>0, <3>2
    <3> QED
      BY <3>3
  <2>2. ASSUME NEW m \in A, m \in 0..n, m < n PROVE m + 1 \in A
    <3>1. PICK g \in [0..n -> SUBSET V] : \A i \in 0..m : g[i] = Body(g, i)
      OBVIOUS
    <3>2. m + 1 \in 0..n /\ (m + 1) - 1 = m
      BY <1>0, <2>2
    <3>3. PICK p \in SUBSET V : p = Body(g, m + 1)
      <4> PICK k : k = m + 1
        OBVIOUS
      <4>1. k \in 0..n /\ g[k - 1] \in SUBSET V
        BY <3>2, <2>2
      <4> HIDE DEF Body
      <4>2. Body(g, k) \in SUBSET V
        BY <1>1, <4>1
      <4> QED
        BY <4>2
    <3>4. PICK h \in [0..n -> SUBSET V] : h = [g EXCEPT ![m + 1] = p]
      BY <3>2
    <3>5. h[m + 1] = p /\ \A i \in 0..m : h[i] = g[i]
      BY <3>2, <3>4, <1>0
    <3>6. ASSUME NEW i \in 0..(m + 1) PROVE h[i] = Body(h, i)
      <4>1. CASE i = m + 1
        <5>1. h[i - 1] = g[i - 1]
          BY <4>1, <3>2, <3>5, <1>0
        <5>2. Body(h, i) = Body(g, i)
          BY ONLY <5>1, Zenon
        <5> HIDE DEF Body
        <5> QED
          BY <4>1, <3>3, <3>5, <5>2
      <4>2. CASE i \in 0..m
        <5>1. h[i] = g[i] /\ (i # 0 => h[i - 1] = g[i - 1])
          <6>1. i # 0 => i - 1 \in 0..m
            BY <4>2
          <6> QED
            BY <4>2, <3>5, <6>1
        <5>2. Body(h, i) = Body(g, i)
          BY ONLY <5>1, Zenon
        <5> HIDE DEF Body
        <5> QED
          BY <4>2, <3>1, <5>1, <5>2
      <4> QED
        BY <3>6, <4>1, <4>2, <3>2, <1>0
    <3> HIDE DEF Body
    <3>7. B(m + 1)
      BY <3>6
    <3> QED
      BY <3>2, <3>7
  <2>3. 0..n \subseteq A
    <3> HIDE DEF A
    <3> QED
      BY <1>0, <2>1, <2>2, DownTheDepths
  <2>4. PICK g \in [0..n -> SUBSET V] : \A i \in 0..n : g[i] = Body(g, i)
    <3>1. n \in A
      <4> HIDE DEF A
      <4> QED
        BY <2>3, <1>0
    <3> HIDE DEF Body
    <3> QED
      BY <3>1
  <2> HIDE DEF Body
  <2>5. g = From(g)
    BY <2>4
  <2> QED
    BY <2>5
<1>3. Within = CHOOSE g : g = From(g)
  BY Zenon DEF Within, Deeper
<1>4. Within = From(Within)
  <2> HIDE DEF From
  <2> QED
    BY <1>2, <1>3, Zenon
<1>5. \A d \in 0..MaxDepth : Within[d] = Body(Within, d)
  <2> PICK g : g = Within
    OBVIOUS
  <2>1. g = [d \in 0..MaxDepth |-> Body(g, d)]
    BY <1>4, Zenon
  <2> HIDE DEF Body
  <2>2. \A d \in 0..MaxDepth : g[d] = Body(g, d)
    BY <2>1
  <2> QED
    BY <2>2, Zenon
<1> SUFFICES ASSUME NEW d \in 0..MaxDepth
             PROVE  /\ d = 0 => Within[d] = {}
                    /\ d = 1 => Within[d] = ToSet(roots)
                    /\ d > 1 => Within[d] = Deeper(Within[d - 1])
  BY Zenon DEF Deeper
<1>6. Within[d] = Body(Within, d)
  BY <1>5, Zenon
<1>7. d > 1 => d # 0 /\ d # 1
  BY HelperAssumption
<1>8. 1 # 0
  OBVIOUS
<1> QED
  BY ONLY <1>6, <1>7, <1>8, Zenon

(* Nothing waits any more: a helper within d levels has an entry at most d  *)
(* levels deep.                                                             *)
LEMMA WithinIsLevelled ==
    ASSUME HelperInv, Levels, settled
    PROVE  Within[MaxDepth] \subseteq Seen
<1> DEFINE Level(d) == \A n \in Within[d] : \E e \in ToSet(ledger) : e.name = n /\ e.depth <= d
           S == {d \in 0..MaxDepth : Level(d)}
<1>1. MaxDepth \in Nat \ {0}
  BY HelperAssumption
<1>2. Found = ToSet(ledger)
  <2>1. toQueue = <<>> /\ priorityQueue = <<>> /\ normalQueue = <<>>
    BY DEF HelperInv, Books
  <2> QED
    BY <2>1 DEF Found, ToSet
<1>3. \A e \in ToSet(ledger) : e.depth \in Int
  BY <1>2, KnownTyped DEF HelperInv
<1>4. 0 \in S
  BY <1>1, WithinByLevels
<1>5. ASSUME NEW d \in S, d \in 0..MaxDepth, d < MaxDepth PROVE d + 1 \in S
  <2>1. d + 1 \in 0..MaxDepth /\ (d + 1) - 1 = d /\ (d = 0 \/ d + 1 > 1)
    BY <1>1, <1>5
  <2>2. CASE d = 0
    <3>1. Within[d + 1] = ToSet(roots)
      BY <2>1, <2>2, WithinByLevels
    <3>2. \A r \in ToSet(roots) : \E e \in ToSet(ledger) : e.name = r /\ e.depth <= 1
      BY <1>2 DEF Levels, Distances, Near
    <3>3. Level(d + 1)
      BY <2>2, <3>1, <3>2
    <3> QED
      BY <2>1, <3>3
  <2>3. CASE d + 1 > 1
    <3>1. Within[d + 1] = Within[d] \cup UNION {CallsOf(h) : h \in Within[d] \cap DOMAIN calls}
      BY <2>1, <2>3, WithinByLevels
    <3>2. ASSUME NEW m \in Within[d] PROVE \E e \in ToSet(ledger) : e.name = m /\ e.depth <= d + 1
      <4>1. PICK e \in ToSet(ledger) : e.name = m /\ e.depth <= d
        OBVIOUS
      <4>2. e.depth \in Int /\ d \in Int
        BY <1>3, <1>5
      <4>3. e.depth <= d + 1
        BY ONLY <4>1, <4>2
      <4> QED
        BY <4>1, <4>3
    <3>3. ASSUME NEW h \in Within[d] \cap DOMAIN calls, NEW m \in CallsOf(h)
          PROVE  \E e \in ToSet(ledger) : e.name = m /\ e.depth <= d + 1
      <4>1. PICK e \in ToSet(ledger) : e.name = h /\ e.depth <= d
        OBVIOUS
      <4>2. PICK c \in ToSet(ledger) : IsCaptured(c) /\ c.name = h
        BY DEF HelperInv, HelperTypeOK, Books
      <4>3. c = e
        BY <4>1, <4>2 DEF HelperInv, Books, ToSet
      <4>4. e.depth \in Int /\ d \in Int /\ MaxDepth \in Int
        BY <1>1, <1>3, <1>5
      <4>5. e.depth < MaxDepth
        BY ONLY <4>1, <4>4, <1>5
      <4>6. Near(m, e.depth + 1)
        BY <4>1, <4>2, <4>3, <4>5 DEF Levels, Distances, Expanded
      <4>7. PICK x \in ToSet(ledger) : x.name = m /\ x.depth <= e.depth + 1
        BY <1>2, <4>6 DEF Near
      <4>8. x.depth \in Int
        BY <1>3
      <4>9. x.depth <= d + 1
        BY ONLY <4>1, <4>4, <4>7, <4>8
      <4> QED
        BY <4>7, <4>9
    <3>4. Level(d + 1)
      BY <3>1, <3>2, <3>3
    <3> HIDE DEF Level
    <3> QED
      BY <2>1, <3>4
  <2> QED
    BY <2>1, <2>2, <2>3
<1>6. 0..MaxDepth \subseteq S
  <2> HIDE DEF S
  <2> QED
    BY <1>1, <1>4, <1>5, DownTheDepths
<1>7. Level(MaxDepth)
  <2> HIDE DEF Level
  <2> QED
    BY <1>1, <1>6
<1> QED
  BY <1>7 DEF Seen

(* "--helper-depth 4 follows up to four helper/subhandler levels" can only  *)
(* fail where calls on the focus path and calls beside it meet: when all    *)
(* calls of the captured helpers are of one kind, every helper within the   *)
(* depth is looked at, even with the number of captures exhausted.          *)
THEOREM OneKindReachesDepth == HelperSpec => []OneKindFollowsToDepth
<1>1. HelperInit => HelperInv /\ LevelInv
  BY HelperStarts, LevelsStart
<1>2. HelperInv /\ LevelInv /\ [HelperNext]_helperVars => (HelperInv /\ LevelInv)'
  BY HelperSteps, LevelSteps
<1>3. HelperInv /\ LevelInv => OneKindFollowsToDepth
  BY WithinIsLevelled DEF LevelInv, OneKindFollowsToDepth
<1> QED
  BY <1>1, <1>2, <1>3, PTL DEF HelperSpec

-----------------------------------------------------------------------------
(* The loop of the capture ends, however the helpers call each other: a     *)
(* capture uses one of a limited number, a call that is found is looked at  *)
(* once, and each round of the loop takes a candidate from the queues.      *)
CapturesLeft == MaxHelpers - Cardinality(DOMAIN calls)
Queued == Len(priorityQueue) + Len(normalQueue)

Shrinks ==
    /\ CapturesLeft \in Nat /\ CapturesLeft' \in Nat
    /\ \/ CapturesLeft' < CapturesLeft
       \/ CapturesLeft' = CapturesLeft /\ Len(toQueue') < Len(toQueue)
       \/ CapturesLeft' = CapturesLeft /\ toQueue' = toQueue /\ Queued' < Queued
       \/ UNCHANGED <<queues, calls>> /\ ~settled /\ settled'

LEMMA PopShrinks ==
    ASSUME HelperTypeOK, Waiting, Pop
    PROVE  Queued' < Queued
<1>1. priorityQueue \in Seq(Candidates) /\ normalQueue \in Seq(Candidates)
  BY DEF HelperTypeOK
<1>2. ASSUME NEW q \in Seq(Candidates) PROVE Len(q) \in Nat /\ (q # <<>> => Len(Tail(q)) = Len(q) - 1)
  OBVIOUS
<1>3. CASE priorityQueue # <<>>
  <2>1. priorityQueue' = Tail(priorityQueue) /\ normalQueue' = normalQueue
    BY <1>3 DEF Pop
  <2> QED
    BY <1>1, <1>2, <1>3, <2>1 DEF Queued
<1>4. CASE priorityQueue = <<>>
  <2>1. normalQueue # <<>> /\ normalQueue' = Tail(normalQueue) /\ priorityQueue' = priorityQueue
    BY <1>4 DEF Pop, Waiting
  <2> QED
    BY <1>1, <1>2, <2>1 DEF Queued
<1> QED
  BY <1>3, <1>4

(* The while loop of the capture and the for loop over the found calls end: *)
(* each step uses up a capture, or a found call, or a candidate, and gives  *)
(* back none of those named before it; the step that uses none returns.     *)
THEOREM CaptureEnds == HelperSpec => [][Shrinks]_helperVars
<1>1. ASSUME HelperInv PROVE CapturesLeft \in Nat
  BY <1>1, HelperAssumption DEF HelperInv, Books, CapturesLeft
<1>2. ASSUME HelperInv, HelperInv', HelperNext PROVE Shrinks
  <2>1. CapturesLeft \in Nat
    BY <1>1, <1>2
  <2>2. CapturesLeft' \in Nat
    BY <1>2, HelperAssumption DEF HelperInv, Books, CapturesLeft
  <2>3. calls' = calls => CapturesLeft' = CapturesLeft
    BY DEF CapturesLeft
  <2>4. ASSUME Waiting, Pop, UNCHANGED <<toQueue, calls>> PROVE Shrinks
    BY <1>2, <2>1, <2>2, <2>3, <2>4, PopShrinks DEF Shrinks, HelperInv
  <2>5. CASE PassSeen
    BY <2>4, <2>5 DEF PassSeen, Capturing
  <2>6. ASSUME NEW s \in {"capture_unavailable", "capture_failed", "caller_self"}, CaptureNothing(s)
        PROVE  Shrinks
    BY <2>4, <2>6 DEF CaptureNothing, Capturing
  <2>7. ASSUME NEW f \in CallLists, NEW o \in CallLists, Capture(f, o) PROVE Shrinks
    <3>1. DOMAIN calls' = DOMAIN calls \cup {Candidate.name}
      BY <2>7 DEF Capture
    <3>2. Candidate.name \notin DOMAIN calls
      <4>1. Candidate \in Candidates
        BY <1>2, <2>7, Popping DEF Capture, Capturing, HelperInv
      <4>2. Candidate.name \in Helpers /\ Candidate.name \notin Seen
        BY <2>7, <4>1 DEF Candidates, Capture
      <4> QED
        BY <1>2, <4>2 DEF HelperInv, Books, Seen
    <3>3. Cardinality(DOMAIN calls') = Cardinality(DOMAIN calls) + 1
      BY <1>2, <3>1, <3>2, FS_AddElement DEF HelperInv, Books
    <3>4. Cardinality(DOMAIN calls) \in Int /\ MaxHelpers \in Int
      BY <1>2, HelperAssumption DEF HelperInv, Books
    <3>5. CapturesLeft' < CapturesLeft
      BY <3>3, <3>4 DEF CapturesLeft
    <3> QED
      BY <2>1, <2>2, <3>5 DEF Shrinks
  <2>8. CASE QueueCall
    <3>1. toQueue \in Seq(FoundCalls) /\ toQueue # <<>> /\ toQueue' = Tail(toQueue) /\ calls' = calls
      BY <1>2, <2>8 DEF QueueCall, HelperInv, HelperTypeOK
    <3>2. Len(toQueue') < Len(toQueue)
      BY <3>1
    <3> QED
      BY <2>1, <2>2, <2>3, <3>1, <3>2 DEF Shrinks
  <2>9. CASE SkipCandidate
    BY <2>4, <2>9 DEF SkipCandidate
  <2>10. CASE Settle
    BY <2>1, <2>2, <2>10 DEF Settle, Shrinks
  <2> QED
    BY <1>2, <2>5, <2>6, <2>7, <2>8, <2>9, <2>10 DEF HelperNext
<1>3. HelperInv /\ [HelperNext]_helperVars => HelperInv'
  BY HelperSteps
<1>4. HelperInv /\ HelperInv' /\ [HelperNext]_helperVars => [Shrinks]_helperVars
  BY <1>2
<1> QED
  BY HelperStarts, <1>3, <1>4, PTL DEF HelperSpec
=============================================================================
