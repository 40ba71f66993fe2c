---------------------------- MODULE LocalLocker ----------------------------
(***************************************************************************)
(* The in-memory lock table one node keeps for the other nodes             *)
(* (cmd/local-locker.go, type localLocker): the pure effect and reply of   *)
(* each of its methods.  Every method runs under l.mutex, so one call is   *)
(* one atomic change of the table.  LockServer drives one table through    *)
(* its REST handlers, DSync a table per node through the dsync client.     *)
(*                                                                         *)
(* A table st is a record                                                  *)
(*   lockMap[r][u]  the entries request u has on resource r, oldest first, *)
(*                  each entry being its age: the ticks since it was last  *)
(*                  refreshed;                                             *)
(*   lockUID        the pairs <<u, i>> for which the uid index has a key   *)
(*                  formatUUID(u, i); the resource it names is the one at  *)
(*                  position i of the request.                             *)
(* The code keeps one slice per resource with the entries of all requests. *)
(* Their order matters only between entries of one request (removeEntry    *)
(* takes the first that matches), so a sequence per request loses nothing. *)
(* Owner, Source, Quorum and Group are carried by an entry and decide      *)
(* nothing here: a uid is used by one owner only.                          *)
(*                                                                         *)
(* A method reads the clock once for every entry it stamps or judges.  The *)
(* ticks fall between the calls, so the stamps of one call count as one;   *)
(* that they differ, and that the clock moves on during an expiry pass,    *)
(* shows where an age is at the limit: each such entry is judged by itself.*)
(***************************************************************************)
EXTENDS Integers, Sequences, FiniteSets

CONSTANTS
    UIDs,          \* the ids of lock requests (one per DRWMutex)
    Resources,     \* the names that can be locked
    Args,          \* Args[u]: is u a writer, and its resources, in order
    LockValidity,  \* lockValidityDuration, in ticks
    MaxDeleteList  \* maxDeleteList: most resources in a request

\* What the callers guarantee of a request: it names at least one resource, and
\* none of them twice.
ASSUME ArgsAssumption ==
    /\ Args \in [UIDs -> [writer : BOOLEAN, resources : Seq(Resources)]]
    /\ \A u \in UIDs :
        /\ Len(Args[u].resources) > 0
        /\ \A i, j \in 1 .. Len(Args[u].resources) :
              Args[u].resources[i] = Args[u].resources[j] => i = j

ASSUME BoundsAssumption == LockValidity \in Nat /\ MaxDeleteList \in Nat

-----------------------------------------------------------------------------
(* The request a uid stands for. *)

Writer(u) == Args[u].writer
Size(u) == Len(Args[u].resources)

\* The position of a request's resource, counted from 0 as in the code.
ResourceAt(u, i) == Args[u].resources[i + 1]
ResourcesOf(u) == {ResourceAt(u, i) : i \in 0 .. Size(u) - 1}

\* formatUUID: the keys of the index, and the resource a key is for.
Keys == UNION {{u} \X (0 .. Size(u) - 1) : u \in UIDs}
KeyResource(k) == ResourceAt(k[1], k[2])

-----------------------------------------------------------------------------
(* The table. *)

newLocker ==
    [lockMap |-> [r \in Resources |-> [u \in UIDs |-> <<>>]],
     lockUID |-> {}]

\* Ages are capped one above the validity: all older entries expire alike.
Ages == 0 .. LockValidity + 1

LockTable ==
    [lockMap : [Resources -> [UIDs -> Seq(Ages)]],
     lockUID : SUBSET Keys]

Holds(st, u, r) == st.lockMap[r][u] # <<>>
Taken(st, r) == \E u \in UIDs : Holds(st, u, r)

\* isWriteLock: the only entry on the resource is a writer's.
isWriteLock(st, r) ==
    \E u \in UIDs :
        /\ Writer(u)
        /\ Len(st.lockMap[r][u]) = 1
        /\ \A v \in UIDs \ {u} : ~ Holds(st, v, r)

\* Mutant of canTakeLock: a request may take again what it has.
canTakeLock_reentrant(st, u) ==
    \A r \in ResourcesOf(u), v \in UIDs \ {u} : ~ Holds(st, v, r)

canTakeLock(st, u) == \A r \in ResourcesOf(u) : ~ Taken(st, r)
canTakeUnlock(st, r) == isWriteLock(st, r)

\* The result of a method: the new table, its reply and whether it failed.
Result(st, reply, err) == [st |-> st, reply |-> reply, err |-> err]

-----------------------------------------------------------------------------
(* Taking and giving back. *)

\* Lock: all resources of the request at once, or none.
Lock(st, u) ==
    IF Size(u) > MaxDeleteList THEN Result(st, FALSE, TRUE)
    ELSE IF ~ canTakeLock(st, u) THEN Result(st, FALSE, FALSE)
    ELSE Result(
        [lockMap |-> [r \in Resources |->
                        IF r \in ResourcesOf(u)
                        THEN [v \in UIDs |-> IF v = u THEN <<0>> ELSE <<>>]
                        ELSE st.lockMap[r]],
         lockUID |-> st.lockUID \cup {<<u, i>> : i \in 0 .. Size(u) - 1}],
        TRUE, FALSE)

\* removeEntry on each resource of rs: the first entry of u there, and its key.
removeEntry(st, u, rs) ==
    LET hit == {r \in rs : Holds(st, u, r)}
    IN  [lockMap |-> [r \in Resources |->
                        IF r \in hit
                        THEN [st.lockMap[r] EXCEPT ![u] = Tail(@)]
                        ELSE st.lockMap[r]],
         lockUID |-> {k \in st.lockUID : k[1] = u => KeyResource(k) \notin hit}]

\* Mutant of Unlock: returns at the first resource that is not write locked.
Unlock_return(st, u) ==
    LET open == {r \in ResourcesOf(u) : canTakeUnlock(st, r)}
        until == {ResourceAt(u, i) : i \in {j \in 0 .. Size(u) - 1 :
                    \A k \in 0 .. j : ResourceAt(u, k) \in open}}
    IN  Result(removeEntry(st, u, until), until # {}, open # ResourcesOf(u))

\* Unlock: skips, and reports as an error, every resource that is not write
\* locked; a resource some other writer holds is left alone without an error.
Unlock(st, u) ==
    LET open == {r \in ResourcesOf(u) : canTakeUnlock(st, r)}
    IN  IF Size(u) > MaxDeleteList THEN Result(st, FALSE, TRUE)
        ELSE Result(removeEntry(st, u, open),
                    \E r \in open : Holds(st, u, r),
                    open # ResourcesOf(u))

\* Mutant of RLock: does not look for a write lock.
RLock_unchecked(st, u) ==
    Result([lockMap |-> [st.lockMap EXCEPT ![ResourceAt(u, 0)][u] = Append(@, 0)],
            lockUID |-> st.lockUID \cup {<<u, 0>>}], TRUE, FALSE)

\* Mutant of RLock: puts the new entry in front.
RLock_front(st, u) ==
    LET r == ResourceAt(u, 0)
    IN  IF isWriteLock(st, r) THEN Result(st, FALSE, FALSE)
        ELSE Result([lockMap |-> [st.lockMap EXCEPT ![r][u] = <<0>> \o @],
                     lockUID |-> st.lockUID \cup {<<u, 0>>}], TRUE, FALSE)

\* RLock: refused under a write lock, else one more entry, also when the
\* request has an entry already.
RLock(st, u) ==
    LET r == ResourceAt(u, 0)
    IN  IF Size(u) > 1 THEN Result(st, FALSE, TRUE)
        ELSE IF isWriteLock(st, r) THEN Result(st, FALSE, FALSE)
        ELSE Result([lockMap |-> [st.lockMap EXCEPT ![r][u] = Append(@, 0)],
                     lockUID |-> st.lockUID \cup {<<u, 0>>}], TRUE, FALSE)

RUnlock(st, u) ==
    LET r == ResourceAt(u, 0)
    IN  IF Size(u) > 1 THEN Result(st, FALSE, TRUE)
        ELSE IF ~ Taken(st, r) THEN Result(st, TRUE, FALSE)
        ELSE IF isWriteLock(st, r) THEN Result(st, FALSE, TRUE)
        ELSE Result(removeEntry(st, u, {r}), TRUE, FALSE)

-----------------------------------------------------------------------------
(* Forced release, refresh and expiry. *)

\* The positions the loops over the index visit: from 0 while there is a key.
IndexRun(st, u) ==
    {i \in 0 .. Size(u) - 1 : \A j \in 0 .. i : <<u, j>> \in st.lockUID}

\* Mutant of ForceUnlock: takes the first resource only.
ForceUnlock_first(st, u) ==
    Result(removeEntry(st, u, {ResourceAt(u, 0)}), <<u, 0>> \in st.lockUID, FALSE)

\* ForceUnlock with a uid: one entry from each resource the index names; a key
\* whose resource is free is dropped.
ForceUnlock(st, u) ==
    LET run   == IndexRun(st, u)
        rs    == {ResourceAt(u, i) : i \in run}
        after == removeEntry(st, u, rs)
        stray == {<<u, i>> : i \in {j \in run : ~ Taken(st, ResourceAt(u, j))}}
    IN  Result([after EXCEPT !.lockUID = @ \ stray], run # {}, FALSE)

\* Mutant of ForceUnlockResources: forgets the keys.
ForceUnlockResources_keys(st, rs) ==
    Result([st EXCEPT !.lockMap = [r \in Resources |->
                IF r \in rs THEN [u \in UIDs |-> <<>>] ELSE @[r]]], TRUE, FALSE)

\* ForceUnlock with resources and no uid (the admin call): every entry there.
ForceUnlockResources(st, rs) ==
    Result(
        [lockMap |-> [r \in Resources |->
                        IF r \in rs THEN [u \in UIDs |-> <<>>] ELSE st.lockMap[r]],
         lockUID |-> {k \in st.lockUID :
                        KeyResource(k) \in rs => ~ Holds(st, k[1], KeyResource(k))}],
        TRUE, FALSE)

\* Mutant of Refresh: renews the first resource of a request only.
Refresh_first(st, u) ==
    IF <<u, 0>> \in st.lockUID
    THEN Result([st EXCEPT !.lockMap[ResourceAt(u, 0)][u] = [k \in DOMAIN @ |-> 0]], TRUE, FALSE)
    ELSE Result(st, FALSE, FALSE)

\* Mutant of Refresh: answers without renewing.
Refresh_stale(st, u) == Result(st, <<u, 0>> \in st.lockUID, FALSE)

\* Refresh: stops at the first resource nobody holds and drops its key.
Refresh(st, u) ==
    LET run   == IndexRun(st, u)
        stop  == {i \in run : ~ Taken(st, ResourceAt(u, i))}
        fresh == {i \in run : \A j \in stop : i < j}
        rs    == {ResourceAt(u, i) : i \in fresh}
        first == {<<u, i>> : i \in {j \in stop : \A k \in stop : j <= k}}
    IN  Result(
          [lockMap |-> [r \in Resources |->
                          IF r \in rs
                          THEN [st.lockMap[r] EXCEPT ![u] =
                                  [k \in DOMAIN @ |-> 0]]
                          ELSE st.lockMap[r]],
           lockUID |-> st.lockUID \ first],
          fresh # {}, FALSE)

\* The entries as old as the validity, <<resource, uid, position>>: whether one
\* is past it depends on the instant of its stamp and of the look at it.
AtLimit(st) ==
    UNION {{<<r, u, k>> : k \in {j \in DOMAIN st.lockMap[r][u] :
                                    st.lockMap[r][u][j] = LockValidity}} :
             r \in Resources, u \in UIDs}

\* How many entries of u on r a pass finds past the validity, when it comes too
\* late for those in late: the oldest ones.
Expired(st, late, r, u) ==
    Cardinality({k \in DOMAIN st.lockMap[r][u] :
                    st.lockMap[r][u][k] > LockValidity \/ <<r, u, k>> \in late})

\* Mutant of expireOldLocks: drops the keys and forgets the entries.
expireOldLocks_keys(st, late) ==
    [st EXCEPT !.lockUID = {k \in @ : Expired(st, late, KeyResource(k), k[1]) = 0}]

\* expireOldLocks: drops the expired entries, and the key of each of them also
\* when the same request keeps a younger entry.
expireOldLocks(st, late) ==
    [lockMap |-> [r \in Resources |-> [u \in UIDs |->
                    SubSeq(st.lockMap[r][u], Expired(st, late, r, u) + 1,
                           Len(st.lockMap[r][u]))]],
     lockUID |-> {k \in st.lockUID : Expired(st, late, KeyResource(k), k[1]) = 0}]

\* A tick of the clock.
Older(st) ==
    [lockMap |-> [r \in Resources |-> [u \in UIDs |->
                    [k \in DOMAIN st.lockMap[r][u] |->
                       IF st.lockMap[r][u][k] > LockValidity
                       THEN st.lockMap[r][u][k] ELSE st.lockMap[r][u][k] + 1]]],
     lockUID |-> st.lockUID]

-----------------------------------------------------------------------------
(* What a table promises. *)

\* A writer's entry is the only entry on its resource.
WriterAlone(st) ==
    \A r \in Resources, u \in UIDs :
        Writer(u) /\ Holds(st, u, r) =>
            /\ Len(st.lockMap[r][u]) = 1
            /\ \A v \in UIDs \ {u} : ~ Holds(st, v, r)

\* A key of the index names a resource on which the request has an entry.
IndexBacked(st) == \A k \in st.lockUID : Holds(st, k[1], KeyResource(k))

\* Entries are appended, so the older ones of a request come first.
OldestFirst(st) ==
    \A r \in Resources, u \in UIDs : \A i, j \in DOMAIN st.lockMap[r][u] :
        i < j => st.lockMap[r][u][i] >= st.lockMap[r][u][j]
=============================================================================
