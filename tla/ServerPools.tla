---------------------------- MODULE ServerPools ----------------------------
(***************************************************************************)
(* Requests for one object over the server pools                           *)
(* (cmd/erasure-server-pool.go): which pool a request finds the object in, *)
(* and which lock it holds meanwhile.                                      *)
(*                                                                         *)
(* A lock is taken at the lockers of an erasure set.  The pool layer takes *)
(* it at the set of the first pool that the name hashes to, the set layer  *)
(* at its own set, and a request for several names at the set of the empty *)
(* name.  Where these are the same lockers the locks exclude each other as *)
(* RWLock says; between different lockers nothing does.                    *)
(*                                                                         *)
(* The versions of the object are told apart by their modification time.   *)
(***************************************************************************)
EXTENDS Integers, FiniteSets

CONSTANTS
    Pools,      \* 0 .. number of pools - 1
    Requests,   \* the requests
    Kind,       \* Kind[o]: "get", "put", "delete", "bulk" or "upload"
    Lockers,    \* Lockers[p][n]: the lockers of the set of pool p that n hashes to
    MaxWrites,  \* bound: writes of the object
    MaxErrors   \* bound: calls answered with an error

Names == {"object", "many"}   \* the object's name, and several names

ASSUME PoolsAssumption ==
    /\ Pools \subseteq Nat /\ 0 \in Pools /\ IsFiniteSet(Pools)
    /\ Kind \in [Requests -> {"get", "put", "delete", "bulk", "upload"}]
    /\ DOMAIN Lockers = Pools /\ \A p \in Pools : DOMAIN Lockers[p] = Names
    /\ MaxWrites \in Nat /\ MaxErrors \in Nat

nowhere == -1
failed == -1   \* in place of a time: an error other than "not found"

VARIABLES
    modTime,   \* modTime[p]: the object's time in pool p, 0 if it is not there
    uploads,   \* uploads[p]: the multipart uploads of the object in pool p
    now,       \* the clock
    errors,    \* the calls answered with an error so far
    held,      \* who holds a lock where: <<lockers, request>>
    pc,        \* pc[o]: where the request is
    look,      \* look[o]: the pools it has yet to look at
    seen,      \* seen[o][p]: the object's time it saw in pool p, or failed
    idx,       \* idx[o]: the pool it settled on
    opened,    \* opened[o]: the time of the object it read or wrote, or failed
    acked,     \* history: the times of the changes acknowledged
    gone,      \* history: those that an acknowledged change came after
    deletes,   \* history: the times of the deletes
    before     \* before[o]: history: acked and gone when o began

dataVars == <<modTime, uploads, now>>
historyVars == <<acked, gone, deletes, before>>
requestVars == <<pc, look, seen, idx, opened>>
vars == <<dataVars, errors, held, requestVars, historyVars>>

Times == 0 .. MaxWrites

TypeOK ==
    /\ modTime \in [Pools -> Times]
    /\ uploads \in [Pools -> SUBSET Requests]
    /\ now \in Times /\ errors \in 0 .. MaxErrors
    /\ held \subseteq {Lockers[p][n] : p \in Pools, n \in Names} \X Requests
    \* a request has its lock from the step that takes it until it is answered
    /\ \A h \in held : pc[h[2]] \notin {"begin", "lock", "lockSet", "done"}
    /\ pc \in [Requests -> {"begin", "lock", "list", "look", "choose", "open", "stream",
                            "lockSet", "write", "create", "uploaded", "unlock", "done"}]
    /\ look \in [Requests -> SUBSET Pools]
    /\ seen \in [Requests -> [Pools -> Times \cup {failed}]]
    /\ idx \in [Requests -> Pools \cup {nowhere}]
    /\ opened \in [Requests -> Times \cup {failed}]
    /\ acked \subseteq Times /\ gone \subseteq acked /\ deletes \subseteq Times
    /\ before \in [Requests -> [acked : SUBSET Times, gone : SUBSET Times]]

Init ==
    /\ modTime = [p \in Pools |-> 0]
    /\ uploads = [p \in Pools |-> {}]
    /\ now = 0 /\ errors = 0
    /\ held = {}
    /\ pc = [o \in Requests |-> "begin"]
    /\ look = [o \in Requests |-> {}]
    /\ seen = [o \in Requests |-> [p \in Pools |-> 0]]
    /\ idx = [o \in Requests |-> nowhere]
    /\ opened = [o \in Requests |-> 0]
    /\ acked = {} /\ gone = {} /\ deletes = {}
    /\ before = [o \in Requests |-> [acked |-> {}, gone |-> {}]]

SinglePool == Pools = {0}

-----------------------------------------------------------------------------
(* Locks. *)

Writes(o) == Kind[o] # "get"

\* Mutant of GetLock: a writer does not wait for readers.
GetLock_readers(o, lockers) ==
    /\ \A v \in Requests : <<lockers, v>> \in held => ~ Writes(v)
    /\ held' = held \cup {<<lockers, o>>}

\* GetLock or GetRLock at the lockers of one set.
GetLock(o, lockers) ==
    /\ \A v \in Requests : <<lockers, v>> \in held => ~ Writes(o) /\ ~ Writes(v)
    /\ held' = held \cup {<<lockers, o>>}

\* GetRLock would succeed: a read lock that is held for one look only.
Readable(lockers) == \A v \in Requests : <<lockers, v>> \in held => ~ Writes(v)

Goto(o, l) == pc' = [pc EXCEPT ![o] = l]

Arrives(o) == before' = [before EXCEPT ![o] = [acked |-> acked, gone |-> gone]]

-----------------------------------------------------------------------------
(* The steps of the requests.  After Begin:                                  *)
(*   get, put: lock, look at every pool, choose, read or write, unlock;      *)
(*   delete: look, choose, lock, write, unlock;  bulk: lock first;           *)
(*   upload: list the uploads of the pools, look, choose, create, and later  *)
(*   complete: lock, write, unlock.                                          *)
(* With a single pool there is nothing to look at or choose.                 *)
(* A request whose lock is not granted in time, or whose uploads are not     *)
(* listed, ends with nothing held and nothing done: it goes no further.      *)

LocksFirst(o) == Kind[o] \in {"bulk", "get"} \/ (Kind[o] = "put" /\ ~ SinglePool)

Begin(o) ==
    /\ pc[o] = "begin"
    /\ Arrives(o)
    /\ look' = [look EXCEPT ![o] = Pools]
    /\ IF SinglePool
       THEN /\ idx' = [idx EXCEPT ![o] = 0]
            /\ Goto(o, CASE LocksFirst(o) -> "lock"
                         [] Kind[o] = "upload" -> "create"
                         [] OTHER -> "lockSet")
       ELSE /\ UNCHANGED idx
            /\ Goto(o, CASE LocksFirst(o) -> "lock"
                         [] Kind[o] = "upload" -> "list"
                         [] OTHER -> "look")
    /\ UNCHANGED <<dataVars, errors, held, seen, opened, acked, gone, deletes>>

\* erasureSets.NewNSLock: the set whose lockers are asked.
LockName(o) == IF Kind[o] = "bulk" THEN "many" ELSE "object"

\* z.NewNSLock: at the first pool, whatever pool the object is in.
LockFirstPool(o) ==
    /\ pc[o] = "lock"
    /\ GetLock(o, Lockers[0][LockName(o)])
    /\ Goto(o, CASE ~ SinglePool -> "look"
                 [] Kind[o] = "get" -> "open"
                 [] OTHER -> "write")
    /\ UNCHANGED <<dataVars, errors, look, seen, idx, opened, historyVars>>

\* NewMultipartUpload lists the uploads of the pools in turn and stays with the
\* pool that has one.
ListUploads(o) ==
    LET p == CHOOSE q \in look[o] : \A r \in look[o] : q <= r
    IN  /\ pc[o] = "list"
        /\ IF uploads[p] # {}
           THEN /\ idx' = [idx EXCEPT ![o] = p]
                /\ Goto(o, "create")
                /\ UNCHANGED look
           ELSE /\ UNCHANGED idx
                /\ IF look[o] = {p}
                   THEN look' = [look EXCEPT ![o] = Pools] /\ Goto(o, "look")
                   ELSE look' = [look EXCEPT ![o] = @ \ {p}] /\ UNCHANGED pc
        /\ UNCHANGED <<dataVars, errors, held, seen, opened, historyVars>>

\* A call of a pool is answered with an error: a lock that times out, drives
\* short of a quorum.
Err == errors < MaxErrors /\ errors' = errors + 1

\* GetObjectInfo in pool p, one of the calls made at the same time.  It takes
\* the set's read lock unless the caller holds the one of the first pool.
LookAt(o, p) ==
    /\ pc[o] = "look"
    /\ p \in look[o]
    /\ \/ /\ ~ LocksFirst(o) => Readable(Lockers[p]["object"])
          /\ seen' = [seen EXCEPT ![o][p] = modTime[p]]
          /\ UNCHANGED errors
       \/ Err /\ seen' = [seen EXCEPT ![o][p] = failed]
    /\ look' = [look EXCEPT ![o] = @ \ {p}]
    /\ IF look[o] = {p} THEN Goto(o, "choose") ELSE UNCHANGED pc
    /\ UNCHANGED <<dataVars, held, idx, opened, historyVars>>

\* The answers sorted by time, the latest first: an error has no time and comes
\* after every copy that was found.
Latest(o) == {p \in Pools : seen[o][p] > 0 /\ \A q \in Pools : seen[o][p] >= seen[o][q]}

\* Some pool could not tell.
Erred(o) == \E p \in Pools : seen[o][p] = failed

\* Mutant of PoolsFor: a pool that cannot tell counts as one without the object.
PoolsFor_error(o) == IF Latest(o) = {} /\ Kind[o] \in {"put", "upload"} THEN Pools ELSE Latest(o)

\* Mutant of PoolsFor: a get reads the pool whose lock it holds.
PoolsFor_first(o) ==
    CASE Kind[o] = "get" -> {0}
      [] Latest(o) = {} /\ ~ Erred(o) /\ Kind[o] \in {"put", "upload"} -> Pools
      [] OTHER -> Latest(o)

\* getPoolIdxNoLock, getPoolIdx: a new object goes to any pool with space, if
\* every pool said that it has none.
\* getPoolIdxExistingWithOpts, getLatestObjectInfoWithIdx: only where it is.
PoolsFor(o) ==
    IF Latest(o) = {} /\ ~ Erred(o) /\ Kind[o] \in {"put", "upload"} THEN Pools ELSE Latest(o)

Choose(o) ==
    /\ pc[o] = "choose"
    /\ IF PoolsFor(o) = {}
       THEN /\ opened' = [opened EXCEPT ![o] = IF Erred(o) THEN failed ELSE 0]
            /\ Goto(o, "unlock")
            /\ UNCHANGED idx
       ELSE /\ \E p \in PoolsFor(o) : idx' = [idx EXCEPT ![o] = p]
            /\ UNCHANGED opened
            /\ Goto(o, CASE Kind[o] = "get" -> "open"
                         [] Kind[o] = "delete" -> "lockSet"
                         [] Kind[o] = "upload" -> "create"
                         [] OTHER -> "write")
    /\ UNCHANGED <<dataVars, errors, held, look, seen, historyVars>>

\* erasureObjects.GetObjectNInfo with no lock of its own: not found, a stream,
\* or an error.
Open(o) ==
    /\ pc[o] = "open"
    /\ \/ /\ opened' = [opened EXCEPT ![o] = modTime[idx[o]]]
          /\ Goto(o, IF modTime[idx[o]] = 0 THEN "unlock" ELSE "stream")
          /\ UNCHANGED errors
       \/ /\ Err
          /\ opened' = [opened EXCEPT ![o] = failed]
          /\ Goto(o, "unlock")
    /\ UNCHANGED <<dataVars, held, look, seen, idx, historyVars>>

Close(o) ==
    /\ pc[o] = "stream"
    /\ Goto(o, "unlock")
    /\ UNCHANGED <<dataVars, errors, held, look, seen, idx, opened, historyVars>>

\* er.NewNSLock in DeleteObject, putObject and CompleteMultipartUpload.
LockSet(o) ==
    /\ pc[o] = "lockSet"
    /\ GetLock(o, Lockers[idx[o]]["object"])
    /\ Goto(o, "write")
    /\ UNCHANGED <<dataVars, errors, look, seen, idx, opened, historyVars>>

\* The change becomes visible.  A delete that finds nothing changes nothing.
Write(o) ==
    LET p == idx[o]
        removes == Kind[o] \in {"delete", "bulk"}
        nothing == removes /\ modTime[p] = 0
    IN  /\ pc[o] = "write"
        /\ IF nothing THEN UNCHANGED <<modTime, now, deletes>>
           ELSE /\ now < MaxWrites
                /\ now' = now + 1
                /\ modTime' = [modTime EXCEPT ![p] = IF removes THEN 0 ELSE now + 1]
                /\ deletes' = IF removes THEN deletes \cup {now + 1} ELSE deletes
        /\ uploads' = [uploads EXCEPT ![p] = @ \ {o}]
        /\ opened' = [opened EXCEPT ![o] = IF nothing THEN 0 ELSE now + 1]
        /\ Goto(o, "unlock")
        /\ UNCHANGED <<errors, held, look, seen, idx, acked, gone, before>>

\* What a call saw is gone when it returns.
Forget(o) ==
    /\ look' = [look EXCEPT ![o] = {}]
    /\ seen' = [seen EXCEPT ![o] = [p \in Pools |-> 0]]

\* erasureObjects.NewMultipartUpload.
CreateUpload(o) ==
    /\ pc[o] = "create"
    /\ uploads' = [uploads EXCEPT ![idx[o]] = @ \cup {o}]
    /\ Goto(o, "uploaded")
    /\ Forget(o)
    /\ UNCHANGED <<modTime, now, errors, held, idx, opened, historyVars>>

\* CompleteMultipartUpload finds the upload in its pool.
CompleteUpload(o) ==
    /\ pc[o] = "uploaded"
    /\ Arrives(o)
    /\ Goto(o, "lockSet")
    /\ UNCHANGED <<dataVars, errors, held, look, seen, idx, opened, acked, gone, deletes>>

AbortUpload(o) ==
    /\ pc[o] = "uploaded"
    /\ uploads' = [uploads EXCEPT ![idx[o]] = @ \ {o}]
    /\ Goto(o, "done")
    /\ UNCHANGED <<modTime, now, errors, held, look, seen, idx, opened, historyVars>>

\* What an acknowledged change came after can no longer be the latest.
Acknowledge(o) ==
    IF Writes(o) /\ opened[o] > 0
    THEN acked' = acked \cup {opened[o]} /\ gone' = gone \cup before[o].acked
    ELSE UNCHANGED <<acked, gone>>

\* The request is answered; only of an upload it is remembered what came of it.
Answer(o) ==
    /\ Acknowledge(o)
    /\ Forget(o)
    /\ idx' = [idx EXCEPT ![o] = nowhere]
    /\ before' = [before EXCEPT ![o] = [acked |-> {}, gone |-> {}]]
    /\ opened' = [opened EXCEPT ![o] = IF Kind[o] = "upload" THEN @ ELSE 0]
    /\ Goto(o, "done")
    /\ UNCHANGED <<dataVars, errors, deletes>>

\* Mutant of Unlock: the early return of a request that found nothing.
Unlock_found(o) ==
    /\ pc[o] = "unlock"
    /\ held' = IF opened[o] = 0 THEN held ELSE {h \in held : h[2] # o}
    /\ Answer(o)

\* The locks are released and the request answered.
Unlock(o) ==
    /\ pc[o] = "unlock"
    /\ held' = {h \in held : h[2] # o}
    /\ Answer(o)

Next ==
    \E o \in Requests :
        \/ Begin(o) \/ LockFirstPool(o) \/ ListUploads(o) \/ Choose(o)
        \/ Open(o) \/ Close(o) \/ LockSet(o) \/ Write(o) \/ Unlock(o)
        \/ CreateUpload(o) \/ CompleteUpload(o) \/ AbortUpload(o)
        \/ \E p \in Pools : LookAt(o, p)

Spec == Init /\ [][Next]_vars

-----------------------------------------------------------------------------
\* What a reader streams is not replaced or removed under it.
StreamIntact ==
    \A o \in Requests : pc[o] = "stream" => modTime[idx[o]] = opened[o]

\* No upload has been completed: the one write whose pool is chosen long before
\* it is locked, so that a put meanwhile may have gone to another pool.
NoUpload == \A o \in Requests : Kind[o] = "upload" => opened[o] <= 0

\* "We always serve latest": a get never returns a version that an
\* acknowledged put, upload or delete had followed before the get began, and
\* says that there is nothing only when nothing was acknowledged by then or
\* some delete may have been the last change; a pool that answers with an error
\* never makes it say so.  Once an upload was completed, and there may be two
\* copies, it is not so in two cases: a delete takes one of the copies, and a
\* get serves the older one when the newer one's pool answered with an error,
\* because an error sorts behind every copy found.
ServesLatest ==
    \A o \in Requests :
        Kind[o] = "get" /\ pc[o] = "unlock" /\ (NoUpload \/ (deletes = {} /\ ~ Erred(o))) =>
            /\ opened[o] > 0 => opened[o] \notin before[o].gone
            /\ opened[o] = 0 => before[o].acked = {} \/ deletes \ before[o].gone # {}

\* Puts and deletes leave the object in at most one pool, also when a pool
\* cannot tell whether it has the object.
OnePool == NoUpload => Cardinality({p \in Pools : modTime[p] # 0}) <= 1
=============================================================================
