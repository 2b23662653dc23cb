------------------------------ MODULE RulePacks ------------------------------
(***************************************************************************)
(* load_rule_packs_from_dirs (core/deterministic/loader.py): every analysis *)
(* asks for the rule packs of its directories, here one.  They are kept     *)
(* under the signature of the files, times and sizes, which is taken before *)
(* the files are read; a lock guards the table, not the time between.  The  *)
(* files are the user's, who may edit, remove and create them at any        *)
(* moment; analyses run on several threads.  What a file holds is the       *)
(* number of changes made to it so far.                                     *)
(***************************************************************************)
EXTENDS Naturals

CONSTANTS Callers,      \* threads that analyse
          NFiles,       \* *.json files there may be, in their order
          NotListed,    \* no part of a signature
          Vanished,     \* gone since it was listed: signed without time and size
          MaxChanges,   \* bound on the changes of files
          MaxAsks       \* bound on the calls

RuleFiles == 1..NFiles

ASSUME RulePacksAssumption ==
    /\ NFiles \in Nat /\ MaxChanges \in Nat /\ MaxAsks \in Nat
    /\ NotListed \notin Nat /\ Vanished \notin Nat

VARIABLES
    changes,    \* made to each file
    edited,     \* made to all, counted for the bound
    there,      \* files of the directory
    packCache,  \* _RULE_PACK_CACHE: what was read, under its signature
    call,       \* where a caller is
    file,       \* the file it is at
    listed,     \* the files it has listed
    signature,  \* what it has signed
    read,       \* what it has read
    asked,      \* history: the changes when it asked
    asks        \* calls, counted for the bound

packsVars == <<changes, edited, there, packCache, call, file, listed, signature, read, asked, asks>>

Signatures == [RuleFiles -> (0..MaxChanges) \cup {NotListed, Vanished}]
Contents == [RuleFiles -> 0..MaxChanges]
Nowhere == [f \in RuleFiles |-> 0]
Unsigned == [f \in RuleFiles |-> NotListed]

PacksTypeOK ==
    /\ changes \in Contents /\ edited \in 0..MaxChanges /\ there \subseteq RuleFiles
    /\ packCache \subseteq [signature : Signatures, read : Contents]
    /\ \A p, q \in packCache : p.signature = q.signature => p = q
    /\ \A t \in Callers :
        /\ call[t] \in {"idle", "signing", "signed", "loading", "returned"}
        /\ file[t] \in 1..(NFiles + 1) /\ listed[t] \subseteq RuleFiles
        /\ signature[t] \in Signatures /\ read[t] \in Contents /\ asked[t] \in Contents
    /\ asks \in 0..MaxAsks

PacksInit ==
    /\ changes = Nowhere /\ edited = 0 /\ there \in SUBSET RuleFiles
    /\ packCache = {} /\ asks = 0
    /\ call = [t \in Callers |-> "idle"] /\ file = [t \in Callers |-> 1]
    /\ listed = [t \in Callers |-> {}] /\ signature = [t \in Callers |-> Unsigned]
    /\ read = [t \in Callers |-> Nowhere] /\ asked = [t \in Callers |-> Nowhere]

-----------------------------------------------------------------------------
(* The user.  A change gives a file another time or size.                   *)
ChangeFile(f) ==
    /\ edited < MaxChanges
    /\ edited' = edited + 1 /\ changes' = [changes EXCEPT ![f] = @ + 1]
    /\ there' \in {there \cup {f}, there \ {f}}
    /\ f \in there \cup there'
    /\ UNCHANGED <<packCache, call, file, listed, signature, read, asked, asks>>

-----------------------------------------------------------------------------
(* The directory is listed ...                                              *)
AskForPacks(t) ==
    /\ call[t] \in {"idle", "returned"} /\ asks < MaxAsks
    /\ call' = [call EXCEPT ![t] = "signing"]
    /\ file' = [file EXCEPT ![t] = 1]
    /\ listed' = [listed EXCEPT ![t] = there]
    /\ signature' = [signature EXCEPT ![t] = Unsigned]
    /\ asked' = [asked EXCEPT ![t] = changes]
    /\ asks' = asks + 1
    /\ UNCHANGED <<changes, edited, there, packCache, read>>

(* ... and the files looked at one by one.                                  *)
SignFile(t) ==
    /\ call[t] = "signing" /\ file[t] \in RuleFiles
    /\ LET f == file[t]
       IN  signature' = [signature EXCEPT ![t][f] =
                IF f \notin listed[t] THEN NotListed ELSE IF f \in there THEN changes[f] ELSE Vanished]
    /\ file' = [file EXCEPT ![t] = @ + 1]
    /\ UNCHANGED <<changes, edited, there, packCache, call, listed, read, asked, asks>>

(* Under the lock: what is kept under the signature.                        *)
LookUpPacks(t) ==
    /\ call[t] = "signing" /\ file[t] \notin RuleFiles
    /\ \/ \E p \in packCache :
            /\ p.signature = signature[t]
            /\ read' = [read EXCEPT ![t] = p.read] /\ call' = [call EXCEPT ![t] = "returned"]
       \/ /\ \A p \in packCache : p.signature # signature[t]
          /\ call' = [call EXCEPT ![t] = "signed"] /\ UNCHANGED read
    /\ UNCHANGED <<changes, edited, there, packCache, file, listed, signature, asked, asks>>

(* A miss: the directory is listed again ...                                *)
ListFiles(t) ==
    /\ call[t] = "signed"
    /\ call' = [call EXCEPT ![t] = "loading"]
    /\ file' = [file EXCEPT ![t] = 1]
    /\ listed' = [listed EXCEPT ![t] = there]
    /\ read' = [read EXCEPT ![t] = changes]
    /\ UNCHANGED <<changes, edited, there, packCache, signature, asked, asks>>

(* ... and the files read: rules, or an error of the report.                *)
LoadFile(t) ==
    /\ call[t] = "loading" /\ file[t] \in RuleFiles
    /\ read' = IF file[t] \in listed[t] THEN [read EXCEPT ![t][file[t]] = changes[file[t]]] ELSE read
    /\ file' = [file EXCEPT ![t] = @ + 1]
    /\ UNCHANGED <<changes, edited, there, packCache, call, listed, signature, asked, asks>>

Kept(s, contents) ==
    {p \in packCache : p.signature # s} \cup {[signature |-> s, read |-> contents]}

(* What could be wrong: the signature is taken when the files were read.    *)
KeepPacksSignedLate(t) ==
    /\ call[t] = "loading" /\ file[t] \notin RuleFiles
    /\ packCache' = Kept([f \in RuleFiles |-> IF f \in there THEN changes[f] ELSE NotListed], read[t])
    /\ call' = [call EXCEPT ![t] = "returned"]
    /\ UNCHANGED <<changes, edited, there, file, listed, signature, read, asked, asks>>

(* Under the lock: kept under the signature, whatever happened since.       *)
KeepPacks(t) ==
    /\ call[t] = "loading" /\ file[t] \notin RuleFiles
    /\ packCache' = Kept(signature[t], read[t])
    /\ call' = [call EXCEPT ![t] = "returned"]
    /\ UNCHANGED <<changes, edited, there, file, listed, signature, read, asked, asks>>

CallerStep(t) ==
    \/ AskForPacks(t) \/ SignFile(t) \/ LookUpPacks(t)
    \/ ListFiles(t) \/ LoadFile(t) \/ KeepPacks(t)

PacksNext == (\E f \in RuleFiles : ChangeFile(f)) \/ \E t \in Callers : CallerStep(t)

PacksSpec == PacksInit /\ [][PacksNext]_packsVars

-----------------------------------------------------------------------------
(* Properties.                                                              *)

(* The rules an analysis gets are never older than the files were when it   *)
(* asked, whoever read them, and whatever was edited meanwhile.  This does  *)
(* not hold of a file that is gone: packs read after it was created are     *)
(* found again under the signature taken before.                            *)
PacksAreCurrent ==
    \A t \in Callers : call[t] = "returned" =>
        \A f \in RuleFiles : read[t][f] >= asked[t][f] \/ signature[t][f] \in {NotListed, Vanished}
=============================================================================
