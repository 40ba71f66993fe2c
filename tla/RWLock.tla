------------------------------- MODULE RWLock -------------------------------
(***************************************************************************)
(* What the users of the namespace lock rely on (cmd/namespace-lock.go,    *)
(* RWLocker): readers of a resource exclude its writers, and a writer      *)
(* excludes everyone.  A lock that is kept in the memory of other nodes    *)
(* can be lost behind its holder's back; such a holder is suspect, and     *)
(* from then on nothing is promised about it.                              *)
(***************************************************************************)
CONSTANTS
    UIDs,          \* the callers
    Conflict(_, _) \* whether two callers exclude each other

VARIABLES
    inside,   \* the callers in their critical section
    suspect   \* the callers whose lock may have been lost

vars == <<inside, suspect>>

Init == inside = {} /\ suspect = {}

\* A caller gets the lock: no conflicting caller with an intact lock is inside.
Enter(u) ==
    /\ u \notin inside
    /\ u \notin suspect => \A v \in inside \ suspect : ~ Conflict(u, v) /\ ~ Conflict(v, u)
    /\ inside' = inside \cup {u}
    /\ UNCHANGED suspect

\* A caller unlocks, is told that its lock was lost, or dies.
Leave(u) ==
    /\ u \in inside
    /\ inside' = inside \ {u}
    /\ suspect' \in {suspect, suspect \cup {u}}

\* A node restarts, lets entries expire or is told to drop them.
Lose(us) ==
    /\ suspect' = suspect \cup us
    /\ UNCHANGED inside

Next ==
    \/ \E u \in UIDs : Enter(u) \/ Leave(u)
    \/ \E us \in SUBSET UIDs : Lose(us)

Spec == Init /\ [][Next]_vars
=============================================================================
