------------------------------- MODULE NSLock -------------------------------
(***************************************************************************)
(* The namespace lock of a server that is not distributed                  *)
(* (cmd/namespace-lock.go, nsLockMap and localLockInstance) over its       *)
(* read-write mutexes (internal/lsync/lrwmutex.go).                        *)
(*                                                                         *)
(* lockMap holds a mutex for a path only while somebody uses it.  A caller *)
(* finds or makes the mutex and counts itself under lockMapMutex, then     *)
(* polls the mutex without lockMapMutex, so that the map changes between.  *)
(* Each critical section is one action.                                    *)
(***************************************************************************)
EXTENDS Integers, FiniteSets, Sequences

CONSTANTS
    Callers,   \* the goroutines that lock
    Paths,     \* what can be locked; numbers, ordered as strings are
    Args,      \* Args[u]: is u a writer, and its paths as NewNSLock gets them
    Mutexes    \* the mutexes in the heap; one that nobody refers to is free

none == "none"
nowhere == 0

ASSUME ArgsAssumption ==
    /\ Paths \subseteq Nat \ {nowhere}
    /\ Args \in [Callers -> [writer : BOOLEAN, paths : Seq(Paths) \ {<<>>}]]
    /\ none \notin Mutexes /\ IsFiniteSet(Callers)

Writer(u) == Args[u].writer
PathsOf(u) == {Args[u].paths[i] : i \in DOMAIN Args[u].paths}

VARIABLES
    lockMap,  \* lockMap[p]: the mutex the map has for p, or none
    users,    \* users[m]: nsLock.ref
    ref,      \* ref[m], isWriteLock[m]: the LRWMutex
    isWriteLock,
    pc,       \* pc[u]: where the caller is
    want,     \* want[u]: the path it is at
    nsLk,     \* nsLk[u]: the mutex it found for that path
    got       \* got[u]: the paths it has locked (success)

mapVars == <<lockMap, users>>
mutexVars == <<ref, isWriteLock>>
callerVars == <<pc, want, nsLk, got>>
vars == <<mapVars, mutexVars, callerVars>>

TypeOK ==
    /\ lockMap \in [Paths -> Mutexes \cup {none}]
    /\ users \in [Mutexes -> Nat]
    /\ ref \in [Mutexes -> Nat]
    /\ isWriteLock \in [Mutexes -> BOOLEAN]
    \* a mutex that is write locked is locked once
    /\ \A m \in Mutexes : isWriteLock[m] => ref[m] = 1
    /\ pc \in [Callers -> {"idle", "refer", "wait", "failed", "rollback",
                           "held", "unlock", "panic"}]
    /\ want \in [Callers -> Paths \cup {nowhere}]
    /\ nsLk \in [Callers -> Mutexes \cup {none}]
    /\ got \in [Callers -> SUBSET Paths]

Init ==
    /\ lockMap = [p \in Paths |-> none]
    /\ users = [m \in Mutexes |-> 0]
    /\ ref = [m \in Mutexes |-> 0]
    /\ isWriteLock = [m \in Mutexes |-> FALSE]
    /\ pc = [u \in Callers |-> "idle"]
    /\ want = [u \in Callers |-> nowhere]
    /\ nsLk = [u \in Callers |-> none]
    /\ got = [u \in Callers |-> {}]

Free(m) ==
    /\ \A p \in Paths : lockMap[p] # m
    /\ \A u \in Callers : nsLk[u] # m

-----------------------------------------------------------------------------
(* localLockInstance.GetLock and GetRLock: the paths one by one, in order.   *)

\* Mutant of First: the paths as the request lists them.
First_unsorted(u, ps) ==
    LET list == Args[u].paths
        i == CHOOSE j \in DOMAIN list : list[j] \in ps /\ \A k \in 1..(j - 1) : list[k] \notin ps
    IN  list[i]

\* NewNSLock sorts the paths; the loops take them from the front.
First(u, ps) == CHOOSE p \in ps : \A q \in ps : p <= q

Begin(u) ==
    /\ pc[u] = "idle"
    /\ pc' = [pc EXCEPT ![u] = "refer"]
    /\ want' = [want EXCEPT ![u] = First(u, PathsOf(u))]
    /\ UNCHANGED <<mapVars, mutexVars, nsLk, got>>

\* nsLockMap.lock, first section: find or make the mutex and count.
Refer(u) ==
    /\ pc[u] = "refer"
    /\ \E m \in Mutexes :
          /\ IF lockMap[want[u]] = none
             THEN /\ Free(m)
                  /\ users' = [users EXCEPT ![m] = 1]
                  /\ ref' = [ref EXCEPT ![m] = 0]
                  /\ isWriteLock' = [isWriteLock EXCEPT ![m] = FALSE]
             ELSE /\ m = lockMap[want[u]]
                  /\ users' = [users EXCEPT ![m] = @ + 1]
                  /\ UNCHANGED mutexVars
          /\ lockMap' = [lockMap EXCEPT ![want[u]] = m]
          /\ nsLk' = [nsLk EXCEPT ![u] = m]
    /\ pc' = [pc EXCEPT ![u] = "wait"]
    /\ UNCHANGED <<want, got>>

\* Mutant of CanLock: a writer does not look at the readers.
CanLock_readers(u, m) == ~ isWriteLock[m]

\* LRWMutex.lock would succeed.
CanLock(u, m) == ~ isWriteLock[m] /\ (Writer(u) => ref[m] = 0)

\* lockLoop: a try that succeeds.  One that fails changes nothing.
TryLock(u) ==
    LET m == nsLk[u]
        rest == PathsOf(u) \ (got[u] \cup {want[u]})
    IN  /\ pc[u] = "wait"
        /\ CanLock(u, m)
        /\ ref' = [ref EXCEPT ![m] = IF Writer(u) THEN 1 ELSE @ + 1]
        /\ isWriteLock' = [isWriteLock EXCEPT ![m] = Writer(u)]
        /\ got' = [got EXCEPT ![u] = @ \cup {want[u]}]
        /\ nsLk' = [nsLk EXCEPT ![u] = none]
        /\ pc' = [pc EXCEPT ![u] = IF rest = {} THEN "held" ELSE "refer"]
        /\ want' = [want EXCEPT ![u] = IF rest = {} THEN nowhere ELSE First(u, rest)]
        /\ UNCHANGED mapVars

\* lockLoop: the timeout or the end of the caller's context.
GiveUp(u) ==
    /\ pc[u] = "wait"
    /\ pc' = [pc EXCEPT ![u] = "failed"]
    /\ UNCHANGED <<mapVars, mutexVars, want, nsLk, got>>

\* Mutant of Drop: the mutex leaves the map with whoever leaves.
Drop_always(p) ==
    /\ users' = [users EXCEPT ![lockMap[p]] = @ - 1]
    /\ lockMap' = [lockMap EXCEPT ![p] = none]

\* Both lock and unlock end by taking a user off the path, and the mutex off
\* the map with the last one.
Drop(p) ==
    /\ users' = [users EXCEPT ![lockMap[p]] = @ - 1]
    /\ lockMap' = [lockMap EXCEPT ![p] = IF users[@] = 1 THEN none ELSE @]

\* nsLockMap.lock, last section, after a failure: then GetLock rolls back.
Unrefer(u) ==
    /\ pc[u] = "failed"
    /\ Drop(want[u])
    /\ nsLk' = [nsLk EXCEPT ![u] = none]
    /\ pc' = [pc EXCEPT ![u] = IF got[u] = {} THEN "idle" ELSE "rollback"]
    /\ want' = [want EXCEPT ![u] = IF got[u] = {} THEN nowhere ELSE First(u, got[u])]
    /\ UNCHANGED <<mutexVars, got>>

-----------------------------------------------------------------------------
(* Unlock, RUnlock and the rollback. *)

BeginUnlock(u) ==
    /\ pc[u] = "held"
    /\ pc' = [pc EXCEPT ![u] = "unlock"]
    /\ want' = [want EXCEPT ![u] = First(u, got[u])]
    /\ UNCHANGED <<mapVars, mutexVars, nsLk, got>>

\* Mutant of CanUnlock: RUnlock releases as Unlock does.
CanUnlock_write(u, m) == isWriteLock[m] /\ ref[m] = 1

\* LRWMutex.unlock succeeds; otherwise Unlock and RUnlock panic.
CanUnlock(u, m) == IF Writer(u) THEN isWriteLock[m] /\ ref[m] = 1
                                ELSE ~ isWriteLock[m] /\ ref[m] > 0

\* Mutant of Release: the write flag stays.
Release_flag(m) ==
    /\ ref' = [ref EXCEPT ![m] = @ - 1]
    /\ UNCHANGED isWriteLock

\* What LRWMutex.unlock does then.
Release(m) ==
    /\ ref' = [ref EXCEPT ![m] = @ - 1]
    /\ isWriteLock' = [isWriteLock EXCEPT ![m] = FALSE]

\* The next of the paths, or the end.
Unlocked(u) ==
    LET rest == got[u] \ {want[u]}
    IN  /\ got' = [got EXCEPT ![u] = rest]
        /\ pc' = [pc EXCEPT ![u] = IF rest = {} THEN "idle" ELSE @]
        /\ want' = [want EXCEPT ![u] = IF rest = {} THEN nowhere ELSE First(u, rest)]

\* nsLockMap.unlock, for one path.
UnlockOne(u) ==
    LET m == lockMap[want[u]]
    IN  /\ pc[u] \in {"unlock", "rollback"}
        /\ IF m = none
           THEN Unlocked(u) /\ UNCHANGED <<mapVars, mutexVars>>
           ELSE IF ~ CanUnlock(u, m)
           THEN /\ pc' = [pc EXCEPT ![u] = "panic"]
                /\ UNCHANGED <<mapVars, mutexVars, want, got>>
           ELSE Release(m) /\ Drop(want[u]) /\ Unlocked(u)
        /\ UNCHANGED nsLk

Next ==
    \E u \in Callers :
        \/ Begin(u) \/ Refer(u) \/ TryLock(u) \/ GiveUp(u) \/ Unrefer(u)
        \/ BeginUnlock(u) \/ UnlockOne(u)

Spec == Init /\ [][Next]_vars

-----------------------------------------------------------------------------
\* The callers that use p: they have it, or wait for it, or are about to say
\* that they no longer do.
Users(p) ==
    {u \in Callers : p \in got[u] \/ (want[u] = p /\ pc[u] \in {"wait", "failed"})}

\* A mutex is in the map exactly while somebody uses its path, and the count is
\* the number of those users: it never goes below zero, and no mutex is taken
\* off the map while a caller still polls it.
MapCountsUsers ==
    \A p \in Paths :
        /\ lockMap[p] = none <=> Users(p) = {}
        /\ lockMap[p] # none => users[lockMap[p]] = Cardinality(Users(p))
        /\ \A u \in Callers :
              want[u] = p /\ pc[u] \in {"wait", "failed"} => nsLk[u] = lockMap[p]

\* Nobody unlocks a mutex that is not locked the way it was taken: the panics
\* of Unlock and RUnlock do not happen.
NoPanic == \A u \in Callers : pc[u] # "panic"

\* Callers that need several paths do not wait for each other in a circle: when
\* somebody waits, somebody can go on, without any timeout.
SomeoneMoves ==
    (\E u \in Callers : pc[u] = "wait") =>
        \E u \in Callers : pc[u] # "idle" /\ (pc[u] = "wait" => CanLock(u, nsLk[u]))

Conflict(u, v) ==
    u # v /\ (Writer(u) \/ Writer(v)) /\ PathsOf(u) \cap PathsOf(v) # {}

\* The namespace lock seen by its users.
Abstract == INSTANCE RWLock WITH
    UIDs <- Callers,
    inside <- {u \in Callers : pc[u] = "held"},
    suspect <- {}

\* The lock map with its mutexes implements the read-write lock, and no lock is
\* ever lost: what the callers of NewNSLock rely on is the same as with dsync.
ImplementsRWLock == Abstract!Spec
=============================================================================
