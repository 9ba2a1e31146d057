---------------------------- MODULE LockService ----------------------------
(***************************************************************************)
(* What writer locks promise to those who use them, without their files: a *)
(* lock has one user at a time, nobody ends that use but the user, and a   *)
(* record that its user left behind keeps everybody else away until it is  *)
(* recovered.  WriterLock implements one such lock step by step, and       *)
(* TwoLocks composes one per directory.                                    *)
(***************************************************************************)
CONSTANTS
    Locks,     \* the locks
    Processes  \* who may use them

VARIABLES
    recorded,  \* locks whose record exists
    users      \* users[k]: who relies on lock k

Take(k, p) ==
    /\ k \notin recorded /\ users[k] = {}
    /\ k \in recorded' /\ users'[k] = {p}

\* An acquisition fails and cannot remove the record it has just created.
Spoil(k) ==
    /\ k \notin recorded /\ users[k] = {}
    /\ k \in recorded' /\ users'[k] = {}

Give(k, p) ==
    /\ k \in recorded /\ users[k] = {p}
    /\ k \notin recorded' /\ users'[k] = {}

\* The user dies, or fails to remove its record.
Leave(k, p) ==
    /\ k \in recorded /\ users[k] = {p}
    /\ k \in recorded' /\ users'[k] = {}

Recover(k) ==
    /\ k \in recorded /\ users[k] = {}
    /\ k \notin recorded' /\ users'[k] = {}

Same(k) == (k \in recorded' <=> k \in recorded) /\ users'[k] = users[k]

Init == recorded = {} /\ users = [k \in Locks |-> {}]

\* A process that dies leaves all its locks at once.
Next ==
    \A k \in Locks :
        \/ Same(k) \/ Spoil(k) \/ Recover(k)
        \/ \E p \in Processes : Take(k, p) \/ Give(k, p) \/ Leave(k, p)

Spec == Init /\ [][Next]_<<recorded, users>>

=============================================================================
