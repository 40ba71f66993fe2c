------------------------------- MODULE DSync -------------------------------
(***************************************************************************)
(* The distributed read-write mutex (internal/dsync/drwmutex.go): clients  *)
(* that lock a set of names on a quorum of the nodes' lock tables, composed*)
(* with those tables (LocalLocker).                                        *)
(*                                                                         *)
(* A uid stands for one DRWMutex and the one GetLock or GetRLock made on   *)
(* it; all attempts of that call use the same uid, as in lockBlocking.     *)
(* One call of a NetLocker is served in one step.  A call may also fail at *)
(* the client, and its request be served later or never.                   *)
(*                                                                         *)
(* Time passes in ticks of one refresh interval.                           *)
(***************************************************************************)
EXTENDS LocalLocker

CONSTANTS
    Lockers,       \* the nodes that keep a lock table
    MaxAttempts,   \* bound: attempts of one lockBlocking call
    Retriers,      \* bound: the uids that make more than one attempt
    FaultKinds,    \* what may go wrong: see Fault
    MaxFaults,     \* bound: how often something goes wrong
    Clock,         \* does time pass: without it no lock gets old
    Timely         \* do calls and refreshes complete within a tick

ASSUME DSyncAssumption ==
    /\ IsFiniteSet(Lockers) /\ Lockers # {}
    /\ IsFiniteSet(UIDs)
    /\ MaxAttempts \in Nat /\ Retriers \subseteq UIDs
    /\ MaxFaults \in Nat
    /\ Clock \in BOOLEAN /\ Timely \in BOOLEAN

VARIABLES
    tables,    \* tables[l]: the lock table of node l
    pc,        \* pc[u]: where the caller of u is
    attempt,   \* attempt[u]: the number of its current attempt
    locks,     \* locks[u]: the lockers marked locked (locks, then read/writeLocks)
    failed,    \* failed[u]: locksFailed while lock loops over the answers
    todo,      \* todo[u]: lockers the current releaseAll has yet to call
    call,      \* call[u][a][l]: the call of attempt a at l, or its answer in ch
    requests,  \* lock requests not served yet
    releases,  \* releases the client gave up on and that may still be served
    refresher, \* refresher[u]: the goroutine of startContinousLockRefresh
    lost,      \* uids whose lockLossCallback has been called
    lapsed,    \* history: uids that lost an entry they had not released
    faults     \* how many faults there have been

clientVars == <<pc, attempt, locks, failed, todo>>
netVars == <<call, requests, releases>>
refreshVars == <<refresher, lost>>
vars == <<tables, clientVars, netVars, refreshVars, lapsed, faults>>

-----------------------------------------------------------------------------
(* Quorums, as computed by lockBlocking and the two unlock functions. *)

N == Cardinality(Lockers)

\* The tolerance of Unlock and RUnlock, and the one lockBlocking starts from.
halfTolerance == N \div 2

\* Mutant of quorum: no extra node for writers.
quorum_split(u) == N - halfTolerance

\* Mutant of quorum: one too few.
quorum_less(u) == N - halfTolerance - 1

quorum(u) ==
    LET q == N - halfTolerance
    IN  IF Writer(u) /\ q = halfTolerance THEN q + 1 ELSE q

tolerance(u) == N - quorum(u)

\* Mutant of checkFailedUnlocks: without the case of an even split.
checkFailedUnlocks_split(ls, tol) == Cardinality(ls) > tol

\* checkFailedUnlocks on the lockers still marked.
checkFailedUnlocks(ls, tol) ==
    IF N - tol = tol THEN Cardinality(ls) >= tol ELSE Cardinality(ls) > tol

-----------------------------------------------------------------------------
Attempts == 1 .. MaxAttempts
Idle == [phase |-> "off", todo |-> {}, missing |-> 0]

TypeOK ==
    /\ tables \in [Lockers -> LockTable]
    /\ pc \in [UIDs -> {"idle", "acquire", "abort", "backoff", "held",
                        "unlock", "done", "gaveUp", "crashed"}]
    /\ attempt \in [UIDs -> 0 .. MaxAttempts]
    /\ locks \in [UIDs -> SUBSET Lockers]
    /\ failed \in [UIDs -> 0 .. N]
    \* the loop of lock counts no more answers than there are lockers, and
    \* nothing is counted outside of it
    /\ \A u \in UIDs : IF pc[u] = "acquire" THEN Cardinality(locks[u]) + failed[u] < N
                                             ELSE failed[u] = 0
    /\ todo \in [UIDs -> SUBSET Lockers]
    /\ call \in [UIDs -> [Attempts -> [Lockers ->
                    {"none", "sent", "granted", "refused"}]]]
    /\ requests \subseteq UIDs \X Attempts \X Lockers
    /\ releases \subseteq UIDs \X Attempts \X Lockers
    /\ refresher \in [UIDs -> [phase : {"off", "wait", "refresh", "fresh", "force"},
                               todo : SUBSET Lockers, missing : Nat]]
    /\ lost \subseteq UIDs
    /\ lapsed \subseteq UIDs
    /\ faults \in 0 .. MaxFaults

Init ==
    /\ tables = [l \in Lockers |-> newLocker]
    /\ pc = [u \in UIDs |-> "idle"]
    /\ attempt = [u \in UIDs |-> 0]
    /\ locks = [u \in UIDs |-> {}]
    /\ failed = [u \in UIDs |-> 0]
    /\ todo = [u \in UIDs |-> {}]
    /\ call = [u \in UIDs |-> [a \in Attempts |-> [l \in Lockers |-> "none"]]]
    /\ requests = {}
    /\ releases = {}
    /\ refresher = [u \in UIDs |-> Idle]
    /\ lost = {}
    /\ lapsed = {}
    /\ faults = 0

-----------------------------------------------------------------------------
(* What u has been granted at l and neither released nor handed back: an     *)
(* answer still in ch, a release under way, a locker counted or about to be  *)
(* released.                                                                 *)

Counted(u) ==
    CASE pc[u] \in {"acquire", "held"} -> locks[u]
      [] pc[u] = "abort" -> todo[u]
      [] OTHER -> {}

Owed(u, l) ==
    Cardinality({a \in Attempts : call[u][a][l] = "granted"}) +
    Cardinality({a \in Attempts : <<u, a, l>> \in releases}) +
    (IF l \in Counted(u) THEN 1 ELSE 0)

\* Replace the table of l by st, which takes entries away from their owners:
\* note whose grants it leaves without an entry.
TakeAway(l, st) ==
    /\ tables' = [tables EXCEPT ![l] = st]
    /\ lapsed' = lapsed \cup
         {u \in UIDs : \E r \in ResourcesOf(u) :
            /\ Len(st.lockMap[r][u]) < Len(tables[l].lockMap[r][u])
            /\ Len(st.lockMap[r][u]) < Owed(u, l)}

-----------------------------------------------------------------------------
(* Faults: calls that fail at the client, with the request lost or served    *)
(* late ("lock", "release", "drain", "refresh", "force"), nodes that restart *)
(* ("restart"), callers that die ("crash"), and admins that force-unlock     *)
(* ("admin").                                                                *)

Fault(kind) ==
    /\ kind \in FaultKinds
    /\ faults < MaxFaults
    /\ faults' = faults + 1

-----------------------------------------------------------------------------
(* lockBlocking and lock: one attempt broadcasts to every locker, then loops *)
(* over the answers until all came, or too many failed.                      *)

Attempt(u) ==
    /\ pc[u] \in {"idle", "backoff"}
    /\ attempt[u] < MaxAttempts
    /\ attempt[u] = 0 \/ u \in Retriers
    /\ LET a == attempt[u] + 1
       IN  /\ attempt' = [attempt EXCEPT ![u] = a]
           /\ call' = [call EXCEPT ![u][a] = [l \in Lockers |-> "sent"]]
           /\ requests' = requests \cup ({u} \X {a} \X Lockers)
    /\ pc' = [pc EXCEPT ![u] = "acquire"]
    /\ locks' = [locks EXCEPT ![u] = {}]
    /\ failed' = [failed EXCEPT ![u] = 0]
    /\ UNCHANGED <<tables, todo, releases, refreshVars, lapsed, faults>>

\* An answer that is no grant: once lock has left its loop nobody looks at it.
Refusal(u, a) == IF pc[u] = "acquire" /\ a = attempt[u] THEN "refused" ELSE "none"

\* Lock or RLock at l; the answer reaches ch unless the client gave up on it.
ServeLock(u, a, l) ==
    /\ <<u, a, l>> \in requests
    /\ LET res == IF Writer(u) THEN Lock(tables[l], u) ELSE RLock(tables[l], u)
       IN  /\ tables' = [tables EXCEPT ![l] = res.st]
           /\ call' = IF call[u][a][l] # "sent" THEN call
                      ELSE [call EXCEPT ![u][a][l] =
                              IF res.reply THEN "granted" ELSE Refusal(u, a)]
    /\ requests' = requests \ {<<u, a, l>>}
    /\ UNCHANGED <<clientVars, releases, refreshVars, lapsed, faults>>

\* The call fails at the client; the request is lost or will be served late.
CallError(u, a, l) ==
    /\ call[u][a][l] = "sent"
    /\ Fault("lock")
    /\ call' = [call EXCEPT ![u][a][l] = Refusal(u, a)]
    /\ requests' \in {requests, requests \ {<<u, a, l>>}}
    /\ UNCHANGED <<tables, clientVars, releases, refreshVars, lapsed>>

\* Mutant of Iterated: the loop goes on after the last answer.
Iterated_unbounded(u, ls, f, row) ==
    LET over == f > tolerance(u)
    IN  /\ pc' = [pc EXCEPT ![u] = IF over THEN "backoff" ELSE "acquire"]
        /\ locks' = [locks EXCEPT ![u] = ls]
        /\ failed' = [failed EXCEPT ![u] = IF over THEN 0 ELSE f]
        /\ call' = [call EXCEPT ![u][attempt[u]] = row]
        /\ UNCHANGED <<todo, refresher>>

\* The end of one iteration, with ls locked, f failed and row what is left of
\* the calls: when it was the last, either a quorum is locked and the refresh
\* starts, or releaseAll does.
Iterated(u, ls, f, row) ==
    LET over == f > tolerance(u) \/ Cardinality(ls) + f = N
        won  == Cardinality(ls) >= quorum(u) /\ f <= tolerance(u)
        a    == attempt[u]
    IN  /\ pc' = [pc EXCEPT ![u] = IF ~ over THEN "acquire"
                                   ELSE IF won THEN "held"
                                   ELSE IF ls = {} THEN "backoff" ELSE "abort"]
        /\ locks' = [locks EXCEPT ![u] = ls]
        /\ failed' = [failed EXCEPT ![u] = IF over THEN 0 ELSE f]
        /\ todo' = [todo EXCEPT ![u] = IF over /\ ~ won THEN ls ELSE {}]
        /\ call' = [call EXCEPT ![u][a] =
              [l \in Lockers |-> IF over /\ row[l] = "refused" THEN "none" ELSE row[l]]]
        /\ refresher' = [refresher EXCEPT ![u] =
                            IF over /\ won THEN [Idle EXCEPT !.phase = "fresh"] ELSE @]

\* An answer taken from ch.
Collect(u, l) ==
    LET row  == call[u][attempt[u]]
        rest == [row EXCEPT ![l] = "none"]
    IN  /\ pc[u] = "acquire"
        /\ \/ row[l] = "granted" /\ Iterated(u, locks[u] \cup {l}, failed[u], rest)
           \/ row[l] = "refused" /\ Iterated(u, locks[u], failed[u] + 1, rest)
        /\ UNCHANGED <<tables, attempt, requests, releases, lost, lapsed, faults>>

\* ctx.Done: the acquire timeout counts as a failed answer.
AcquireTimeout(u) ==
    /\ pc[u] = "acquire"
    /\ Iterated(u, locks[u], failed[u] + 1, call[u][attempt[u]])
    /\ UNCHANGED <<tables, attempt, requests, releases, lost, lapsed, faults>>

\* The total timeout: lockBlocking returns false.
GiveUp(u) ==
    /\ pc[u] = "backoff"
    /\ pc' = [pc EXCEPT ![u] = "gaveUp"]
    /\ UNCHANGED <<tables, attempt, locks, failed, todo, netVars, refreshVars, lapsed, faults>>

-----------------------------------------------------------------------------
(* Releasing: releaseAll after a failed attempt, Unlock and RUnlock, and the *)
(* goroutine that hands back grants nobody waited for.                       *)

Release(u, st) == IF Writer(u) THEN Unlock(st, u) ELSE RUnlock(st, u)

\* The caller is done, or was told of the loss: Unlock or RUnlock stops the
\* refresh and starts releasing.
BeginUnlock(u) ==
    /\ pc[u] = "held"
    /\ pc' = [pc EXCEPT ![u] = "unlock"]
    /\ todo' = [todo EXCEPT ![u] = locks[u]]
    /\ refresher' = [refresher EXCEPT ![u] = Idle]
    /\ UNCHANGED <<tables, attempt, locks, failed, netVars, lost, lapsed, faults>>

\* sendRelease returned for l, leaving ls marked.  With the last one releaseAll
\* returns: lock goes on to sleep whatever it says, the two unlock functions
\* call it again while too many are marked.  What is marked after the end
\* nobody reads: the next attempt starts by clearing it.
Released(u, l, ls) ==
    LET rest == todo[u] \ {l}
        again == pc[u] = "unlock" /\ checkFailedUnlocks(ls, halfTolerance)
    IN  /\ locks' = [locks EXCEPT ![u] = IF rest # {} \/ again THEN ls ELSE {}]
        /\ todo' = [todo EXCEPT ![u] = IF rest = {} /\ again THEN ls ELSE rest]
        /\ pc' = [pc EXCEPT ![u] = IF rest # {} \/ again THEN @
                                   ELSE IF @ = "abort" THEN "backoff" ELSE "done"]

\* sendRelease that is answered: an error leaves the locker marked.
ReleaseOne(u, l) ==
    /\ pc[u] \in {"abort", "unlock"}
    /\ l \in todo[u]
    /\ LET res == Release(u, tables[l])
       IN  /\ tables' = [tables EXCEPT ![l] = res.st]
           /\ Released(u, l, IF res.err THEN locks[u] ELSE locks[u] \ {l})
    /\ UNCHANGED <<attempt, failed, netVars, refreshVars, lapsed, faults>>

\* sendRelease that fails at the client, its request being lost or late.
ReleaseError(u, l) ==
    /\ pc[u] \in {"abort", "unlock"}
    /\ l \in todo[u]
    /\ Fault("release")
    /\ releases' \in {releases, releases \cup {<<u, attempt[u], l>>}}
    /\ Released(u, l, locks[u])
    /\ UNCHANGED <<tables, attempt, failed, call, requests, refreshVars, lapsed>>

\* A release the client gave up on is served after all.
ServeRelease(u, a, l) ==
    /\ <<u, a, l>> \in releases
    /\ tables' = [tables EXCEPT ![l] = Release(u, @).st]
    /\ releases' = releases \ {<<u, a, l>>}
    /\ UNCHANGED <<clientVars, call, requests, refreshVars, lapsed, faults>>

\* After an attempt, once all of its calls returned: the grants left in ch are
\* released, without looking at the outcome.
Drain(u, a, l) ==
    /\ \/ a < attempt[u]
       \/ a = attempt[u] /\ pc[u] \notin {"acquire", "abort"}
    /\ \A k \in Lockers : call[u][a][k] # "sent"
    /\ call[u][a][l] = "granted"
    /\ call' = [call EXCEPT ![u][a][l] = "none"]
    /\ \/ /\ tables' = [tables EXCEPT ![l] = Release(u, @).st]
          /\ UNCHANGED <<releases, faults>>
       \/ /\ Fault("drain")
          /\ releases' \in {releases, releases \cup {<<u, a, l>>}}
          /\ UNCHANGED tables
    /\ UNCHANGED <<clientVars, requests, refreshVars, lapsed>>

-----------------------------------------------------------------------------
(* startContinousLockRefresh.  A refresh waits here for all calls; the code  *)
(* may stop counting earlier, when the outcome can no longer change.         *)

\* The refresh timer fires.
StartRefresh(u) ==
    /\ refresher[u].phase = "wait"
    /\ refresher' = [refresher EXCEPT ![u] =
                        [phase |-> "refresh", todo |-> Lockers, missing |-> 0]]
    /\ UNCHANGED <<tables, clientVars, netVars, lost, lapsed, faults>>

\* Mutant of Refreshed: the lock is lost only when no locker knows it.
Refreshed_all(u, l, m) ==
    LET rest == refresher[u].todo \ {l}
    IN  refresher' = [refresher EXCEPT ![u] =
            IF rest # {} THEN [@ EXCEPT !.todo = rest, !.missing = m]
            ELSE IF m = N THEN [phase |-> "force", todo |-> Lockers, missing |-> 0]
            ELSE [Idle EXCEPT !.phase = "fresh"]]

\* The answer of l is in: with the last one, forceUnlock follows when too many
\* lockers do not know the lock.
Refreshed(u, l, m) ==
    LET rest == refresher[u].todo \ {l}
        noQuorum == m > N - quorum(u)
    IN  refresher' = [refresher EXCEPT ![u] =
            IF rest # {} THEN [@ EXCEPT !.todo = rest, !.missing = m]
            ELSE IF noQuorum THEN [phase |-> "force", todo |-> Lockers, missing |-> 0]
            ELSE [Idle EXCEPT !.phase = "fresh"]]

RefreshOne(u, l) ==
    LET res == Refresh(tables[l], u)
        m == refresher[u].missing
    IN  /\ refresher[u].phase = "refresh"
        /\ l \in refresher[u].todo
        /\ \/ /\ tables' = [tables EXCEPT ![l] = res.st]
              /\ Refreshed(u, l, IF res.reply THEN m ELSE m + 1)
              /\ UNCHANGED faults
           \/ /\ Fault("refresh")    \* an offline locker is not counted at all
              /\ tables' \in {tables, [tables EXCEPT ![l] = res.st]}
              /\ Refreshed(u, l, m)
        /\ UNCHANGED <<clientVars, netVars, lost, lapsed>>

\* forceUnlock at l; after the last one the callback tells the caller.
ForceOne(u, l) ==
    LET rest == refresher[u].todo \ {l}
    IN  /\ refresher[u].phase = "force"
        /\ l \in refresher[u].todo
        /\ \/ TakeAway(l, ForceUnlock(tables[l], u).st) /\ UNCHANGED faults
           \/ Fault("force") /\ UNCHANGED <<tables, lapsed>>
        /\ refresher' = [refresher EXCEPT ![u] =
                            IF rest = {} THEN Idle ELSE [@ EXCEPT !.todo = rest]]
        /\ lost' = IF rest = {} THEN lost \cup {u} ELSE lost
        /\ UNCHANGED <<clientVars, netVars>>

-----------------------------------------------------------------------------
(* What happens to the tables and clients by themselves. *)

\* lockMaintenance at node l.
Expire(l) ==
    /\ \E late \in SUBSET AtLimit(tables[l]) : TakeAway(l, expireOldLocks(tables[l], late))
    /\ UNCHANGED <<clientVars, netVars, refreshVars, faults>>

\* Node l restarts with an empty table (newLocker).
Restart(l) ==
    /\ Fault("restart")
    /\ TakeAway(l, newLocker)
    /\ UNCHANGED <<clientVars, netVars, refreshVars>>

\* An admin force-unlocks resource r; the call reaches node l.
AdminForceUnlock(l, r) ==
    /\ Fault("admin")
    /\ TakeAway(l, ForceUnlockResources(tables[l], {r}).st)
    /\ UNCHANGED <<clientVars, netVars, refreshVars>>

\* The process of the caller dies, and its goroutines with it.
Crash(u) ==
    /\ Fault("crash")
    /\ pc[u] \notin {"idle", "done", "gaveUp", "crashed"}
    /\ pc' = [pc EXCEPT ![u] = "crashed"]
    /\ todo' = [todo EXCEPT ![u] = {}]
    /\ call' = [call EXCEPT ![u] = [a \in Attempts |-> [l \in Lockers |-> "none"]]]
    /\ refresher' = [refresher EXCEPT ![u] = Idle]
    /\ locks' = [locks EXCEPT ![u] = {}]
    /\ failed' = [failed EXCEPT ![u] = 0]
    /\ UNCHANGED <<tables, attempt, requests, releases, lost, lapsed>>

\* A refresh interval passes.  With Timely, every call has been served and every
\* refresh that was due has been made before that.
Tick ==
    /\ Clock
    /\ Timely =>
         /\ requests = {} /\ releases = {}
         /\ \A u \in UIDs :
              /\ pc[u] \notin {"acquire", "abort"}
              /\ refresher[u].phase \in {"off", "fresh"}
              /\ \A a \in Attempts, l \in Lockers : call[u][a][l] \notin {"sent", "granted"}
    /\ tables' = [l \in Lockers |-> Older(tables[l])]
    /\ refresher' = [u \in UIDs |-> IF refresher[u].phase = "fresh"
                                    THEN [Idle EXCEPT !.phase = "wait"] ELSE refresher[u]]
    /\ UNCHANGED <<clientVars, netVars, lost, lapsed, faults>>

Next ==
    \/ \E u \in UIDs :
          \/ Attempt(u) \/ AcquireTimeout(u) \/ GiveUp(u)
          \/ BeginUnlock(u) \/ StartRefresh(u) \/ Crash(u)
          \/ \E l \in Lockers :
                \/ Collect(u, l) \/ ReleaseOne(u, l) \/ ReleaseError(u, l)
                \/ RefreshOne(u, l) \/ ForceOne(u, l)
                \/ \E a \in Attempts :
                      \/ ServeLock(u, a, l) \/ CallError(u, a, l)
                      \/ ServeRelease(u, a, l) \/ Drain(u, a, l)
    \/ \E l \in Lockers :
          \/ Expire(l) \/ Restart(l)
          \/ \E r \in Resources : AdminForceUnlock(l, r)
    \/ Tick

Spec == Init /\ [][Next]_vars

\* Every goroutine goes on, every call that does not fail is served, timers fire
\* and time passes.  Nothing makes a caller start, retry, give up or leave its
\* critical section, and nothing makes a fault happen.
Fairness ==
    /\ \A u \in UIDs :
          /\ WF_vars(AcquireTimeout(u)) /\ WF_vars(StartRefresh(u))
          /\ \A l \in Lockers :
                /\ WF_vars(ReleaseOne(u, l)) /\ WF_vars(ForceOne(u, l))
                /\ WF_vars(RefreshOne(u, l))
                /\ \A a \in Attempts :
                      /\ WF_vars(ServeLock(u, a, l)) /\ WF_vars(ServeRelease(u, a, l))
                      /\ WF_vars(Drain(u, a, l))
    /\ \A l \in Lockers : WF_vars(Expire(l))
    /\ WF_vars(Tick)

FairSpec == Spec /\ Fairness

-----------------------------------------------------------------------------
(* Safety. *)

\* The caller of u is inside its critical section as far as it knows.
InSection(u) == pc[u] = "held" /\ u \notin lost

Conflict(u, v) ==
    /\ u # v
    /\ Writer(u) \/ Writer(v)
    /\ ResourcesOf(u) \cap ResourcesOf(v) # {}

\* As long as no table lost an entry of theirs (by expiry, restart or a forced
\* unlock), two conflicting callers are never inside together: not with late
\* and repeated calls, and not with the retries of lockBlocking, whose uid is
\* the same and whose abandoned attempts release grants at any later time.
MutualExclusion ==
    \A u, v \in UIDs :
        Conflict(u, v) /\ InSection(u) /\ InSection(v) => u \in lapsed \/ v \in lapsed

\* Until u unlocks, every grant it has not released yet has an entry of
\* its own in the table that gave it, so no release that is still to come, of
\* this or of an earlier attempt, can take the entry another grant relies on.
GrantsBacked ==
    \A u \in UIDs \ lapsed : pc[u] \in {"idle", "acquire", "abort", "backoff", "held"} =>
        \A l \in Lockers : \A r \in ResourcesOf(u) :
            Len(tables[l].lockMap[r][u]) >= Owed(u, l)

\* Unlock and RUnlock return only when, with the answers still on their way
\* handed back, the entries they could not release leave a write quorum free:
\* what checkFailedUnlocks is for.  (Entries whose grant never reached the
\* client, or came too late and could not be handed back, are not counted by
\* Unlock; they go away by expiry only.)
UnlockFreesQuorum ==
    \A u \in UIDs :
        /\ pc[u] = "done"
        /\ \A a \in Attempts, l \in Lockers :
              call[u][a][l] = "none" /\ <<u, a, l>> \notin releases
        => Cardinality({l \in Lockers : \E r \in ResourcesOf(u) : Holds(tables[l], u, r)})
             <= (N - 1) \div 2

\* "A DRWMutex is a distributed mutual exclusion lock", whatever the tables
\* lost, when calls and refreshes complete in time.
Exclusive ==
    \A u, v \in UIDs : Conflict(u, v) => ~ (InSection(u) /\ InSection(v))

\* The lock as its users see it.  inside and suspect are the state of RWLock.
Abstract == INSTANCE RWLock WITH
    inside <- {u \in UIDs : InSection(u)},
    suspect <- lapsed

\* The mutex with its tables, attempts, retries, late calls and refreshes
\* implements the lock that admits a caller only when no conflicting caller
\* with an intact lock is inside.
ImplementsRWLock == Abstract!Spec

-----------------------------------------------------------------------------
(* Liveness. *)

\* Too few tables know the lock of u: a refresh that reached all would say so.
QuorumLost(u) ==
    Cardinality({l \in Lockers : <<u, 0>> \notin tables[l].lockUID}) > N - quorum(u)

\* A holder whose lock was lost on too many nodes does not stay inside for ever
\* without being told: the continuous refresh notices and the callback is made.
LossNoticed ==
    \A u \in UIDs : InSection(u) /\ QuorumLost(u) ~> ~ InSection(u) \/ ~ QuorumLost(u)

\* "Unable to release acquired locks, these locks will expire automatically":
\* what a caller that ended or died left in the tables goes away.
ResidueExpires ==
    \A u \in UIDs :
        pc[u] \in {"done", "gaveUp", "crashed"} ~>
            \A l \in Lockers, r \in ResourcesOf(u) : ~ Holds(tables[l], u, r)
=============================================================================
