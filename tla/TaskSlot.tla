------------------------------ MODULE TaskSlot ------------------------------
(***************************************************************************)
(* What the background runner promises its callers: a group is a slot that  *)
(* one run occupies at a time; a run may be asked to stop while it occupies *)
(* the slot; it leaves the slot once, with one outcome; and it never        *)
(* delivers a result that it was asked not to deliver before it committed   *)
(* to the delivery.                                                         *)
(***************************************************************************)
CONSTANTS Runs, Slots, NoRun

VARIABLES holder,    \* the run that occupies each slot
          phase,     \* "waiting", "running", "committed", or the outcome
          asked      \* runs asked to stop

svars == <<holder, phase, asked>>

SInit ==
    /\ holder = [s \in Slots |-> NoRun]
    /\ phase = [r \in Runs |-> "waiting"]
    /\ asked = {}

Enter(r, s) ==
    /\ holder[s] = NoRun
    /\ phase[r] = "waiting"
    /\ holder' = [holder EXCEPT ![s] = r]
    /\ phase' = [phase EXCEPT ![r] = "running"]
    /\ UNCHANGED asked

(* Also after the run left: the request may have been on its way.           *)
Ask(r) ==
    /\ phase[r] # "waiting"
    /\ asked' = asked \cup {r}
    /\ UNCHANGED <<holder, phase>>

Commit(r) ==
    /\ phase[r] = "running"
    /\ r \notin asked
    /\ phase' = [phase EXCEPT ![r] = "committed"]
    /\ UNCHANGED <<holder, asked>>

Leave(r, s) ==
    /\ holder[s] = r
    /\ \/ phase[r] = "running"   /\ phase' = [phase EXCEPT ![r] = "failed"]
       \/ phase[r] = "running"   /\ r \in asked
                                 /\ phase' = [phase EXCEPT ![r] = "cancelled"]
       \/ phase[r] = "committed" /\ phase' = [phase EXCEPT ![r] = "done"]
    /\ holder' = [holder EXCEPT ![s] = NoRun]
    /\ UNCHANGED asked

SNext == \E r \in Runs :
    \/ Ask(r) \/ Commit(r)
    \/ \E s \in Slots : Enter(r, s) \/ Leave(r, s)

SSpec == SInit /\ [][SNext]_svars
=============================================================================
