----------------------------- MODULE LockServer -----------------------------
(***************************************************************************)
(* The lock REST server of one node (cmd/lock-rest-server.go) over its     *)
(* lock table, and what the REST client makes of its answers               *)
(* (cmd/lock-rest-client.go, restCall).  Requests of any kind arrive in    *)
(* any order: the network delays and repeats them, and a client gives up   *)
(* on a call that the server still serves later; only a release is never   *)
(* sent before a grant.  The table lives in memory only, so a restart      *)
(* empties it.                                                             *)
(***************************************************************************)
EXTENDS LocalLocker

CONSTANTS
    AdminPaths,   \* the sets of paths an admin force-unlocks
    MaxAttempts   \* bound: attempts of one reader that are not released yet

ASSUME AdminAssumption == AdminPaths \subseteq SUBSET Resources /\ MaxAttempts \in Nat

VARIABLES
    table,    \* globalLockServer's lockMap and lockUID
    granted,  \* the requests that were granted at some time
    answer    \* the last call served: what, for whom, its result

vars == <<table, granted, answer>>

TypeOK ==
    /\ table \in LockTable
    /\ granted \subseteq UIDs
    /\ answer \in [call : {"none", "lock", "rlock", "unlock", "runlock",
                           "refresh", "force", "admin"},
                   uid : UIDs \cup {"-"}, reply : BOOLEAN, err : BOOLEAN]
    /\ OldestFirst(table)

Init ==
    /\ table = newLocker
    /\ granted = {}
    /\ answer = [call |-> "none", uid |-> "-", reply |-> TRUE, err |-> FALSE]

Serve(call, u, result) ==
    /\ table' = result.st
    /\ answer' = [call |-> call, uid |-> u, reply |-> result.reply, err |-> result.err]

-----------------------------------------------------------------------------
(* The handlers. *)

LockHandler(u) ==
    /\ Writer(u)
    /\ Serve("lock", u, Lock(table, u))
    /\ granted' = IF answer'.reply THEN granted \cup {u} ELSE granted

RLockHandler(u) ==
    /\ ~ Writer(u)
    /\ Len(table.lockMap[ResourceAt(u, 0)][u]) < MaxAttempts
    /\ Serve("rlock", u, RLock(table, u))
    /\ granted' = IF answer'.reply THEN granted \cup {u} ELSE granted

UnlockHandler(u) ==
    Writer(u) /\ u \in granted /\ Serve("unlock", u, Unlock(table, u)) /\ UNCHANGED granted

RUnlockHandler(u) ==
    ~ Writer(u) /\ u \in granted /\ Serve("runlock", u, RUnlock(table, u)) /\ UNCHANGED granted

RefreshHandler(u) == Serve("refresh", u, Refresh(table, u)) /\ UNCHANGED granted

ForceUnlockHandler(u) == Serve("force", u, ForceUnlock(table, u)) /\ UNCHANGED granted

\* The admin API's ForceUnlockHandler sends paths and no uid.
AdminForceUnlock(rs) ==
    Serve("admin", "-", ForceUnlockResources(table, rs)) /\ UNCHANGED granted

\* lockMaintenance's tick.
lockMaintenance ==
    /\ \E late \in SUBSET AtLimit(table) : table' = expireOldLocks(table, late)
    /\ UNCHANGED <<granted, answer>>

Restart == table' = newLocker /\ UNCHANGED <<granted, answer>>

Tick == table' = Older(table) /\ UNCHANGED <<granted, answer>>

Next ==
    \/ \E u \in UIDs :
          \/ LockHandler(u) \/ UnlockHandler(u)
          \/ RLockHandler(u) \/ RUnlockHandler(u)
          \/ RefreshHandler(u) \/ ForceUnlockHandler(u)
    \/ \E rs \in AdminPaths : AdminForceUnlock(rs)
    \/ lockMaintenance
    \/ Restart
    \/ Tick

Spec == Init /\ [][Next]_vars

-----------------------------------------------------------------------------
(* What the table promises. *)

\* A writer's entry is the only entry on its resource, however the calls of
\* Lock, RLock, releases, refreshes and expiry are interleaved.
WriterExcludesAll == WriterAlone(table)

\* Every key of the uid index names a resource on which that request still has
\* an entry: the "unexpected inconsistency" Refresh and ForceUnlock guard
\* against does not arise.
IndexSound == IndexBacked(table)

\* A request is held on all of its resources or on none.
Whole(st, u) ==
    \/ \A r \in ResourcesOf(u) : Holds(st, u, r)
    \/ \A r \in ResourcesOf(u) : ~ Holds(st, u, r)

\* A request for several resources (a bulk delete) is split by two things only:
\* an admin's unlock of some of its resources, and a pass of expireOldLocks
\* that meets all of its entries at the very end of their validity.  No grant,
\* release, refresh, forced release, restart or earlier or later pass does it,
\* in whatever order they come.
SplitOnlyAtLimit ==
    [][\A u \in UIDs : Writer(u) /\ Whole(table, u) /\ ~ Whole(table', u) =>
          \/ \E rs \in AdminPaths : AdminForceUnlock(rs) /\ ~ ResourcesOf(u) \subseteq rs
          \/ /\ lockMaintenance
             /\ \A r \in ResourcesOf(u) : table.lockMap[r][u] = <<LockValidity>>]_vars

\* A refresh that is answered positively has renewed the request's entries,
\* with one exception: those on resources behind one that the request has lost
\* (Refresh stops there and answers true all the same).
RefreshRenews ==
    [][\A u \in UIDs :
          RefreshHandler(u) /\ answer'.reply =>
            /\ Holds(table', u, ResourceAt(u, 0))
            /\ \A i \in 0 .. Size(u) - 1 :
                  \/ \A k \in DOMAIN table'.lockMap[ResourceAt(u, i)][u] :
                        table'.lockMap[ResourceAt(u, i)][u][k] = 0
                  \/ \E j \in 0 .. i - 1 : ~ Holds(table', u, ResourceAt(u, j))]_vars

\* However much of a request for several resources is gone, and whoever has
\* those resources by now, its Unlock gives back all that is left, and takes
\* nothing from anybody else.
UnlockFreesTheRest ==
    [][\A u \in UIDs : UnlockHandler(u) =>
          \A r \in ResourcesOf(u), v \in UIDs :
             IF v = u THEN ~ Holds(table', u, r)
                      ELSE table'.lockMap[r][v] = table.lockMap[r][v]]_vars
=============================================================================
