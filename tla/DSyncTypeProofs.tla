-------------------------- MODULE DSyncTypeProofs ---------------------------
(***************************************************************************)
(* The distributed mutex: its quorums, its lock tables and the types of    *)
(* its state, for any number of lockers, requests, resources, attempts     *)
(* and faults.                                                             *)
(***************************************************************************)
EXTENDS DSync, LocalLockerProofs

TablesOK == \A l \in Lockers : TableOK(tables[l])

\* A caller that started is in one of its attempts.
Started == \A u \in UIDs : pc[u] # "idle" => attempt[u] \in Attempts

\* A caller inside has counted a quorum.
HeldQuorum == \A u \in UIDs : pc[u] = "held" => Cardinality(locks[u]) >= quorum(u)

-----------------------------------------------------------------------------
(* Quorums. *)

\* There is at least one locker.
LEMMA NFacts == N \in Nat /\ N > 0
BY DSyncAssumption, FS_CardinalityType, FS_EmptySet DEF N

\* halfTolerance is half of the lockers, rounded down.
LEMMA HalfFacts == halfTolerance \in Nat /\ (N = 2 * halfTolerance \/ N = 2 * halfTolerance + 1)
BY NFacts DEF halfTolerance

\* A quorum has between one and all of the lockers.
LEMMA QuorumFacts ==
    ASSUME NEW u \in UIDs
    PROVE  /\ quorum(u) \in Nat /\ quorum(u) > 0 /\ quorum(u) <= N
           /\ tolerance(u) \in Nat /\ tolerance(u) = N - quorum(u)
<1>1. Writer(u) \in BOOLEAN
  BY SizeFacts
<1> QED
  BY <1>1, NFacts, HalfFacts DEF quorum, tolerance

\* The quorums of a writer and of anyone else add up to more than all lockers.
LEMMA QuorumsOverlap ==
    ASSUME NEW u \in UIDs, NEW v \in UIDs, Writer(u) \/ Writer(v)
    PROVE  quorum(u) + quorum(v) > N
<1>1. Writer(u) \in BOOLEAN /\ Writer(v) \in BOOLEAN
  BY SizeFacts
<1> QED
  BY <1>1, NFacts, HalfFacts DEF quorum

\* What a set of lockers can count.
LEMMA LockerSets ==
    ASSUME NEW ls, ls \subseteq Lockers
    PROVE  /\ IsFiniteSet(ls)
           /\ Cardinality(ls) \in Nat /\ Cardinality(ls) <= N
           /\ \A l \in Lockers : Cardinality(ls \cup {l}) \in Nat
                                 /\ Cardinality(ls \cup {l}) <= Cardinality(ls) + 1
<1>1. IsFiniteSet(ls) /\ Cardinality(ls) <= N
  BY DSyncAssumption, FS_Subset DEF N
<1>2. Cardinality(ls) \in Nat
  BY <1>1, FS_CardinalityType
<1>3. \A l \in Lockers : Cardinality(ls \cup {l}) = IF l \in ls THEN Cardinality(ls)
                                                     ELSE Cardinality(ls) + 1
  BY <1>1, FS_AddElement
<1> QED
  BY <1>1, <1>2, <1>3

-----------------------------------------------------------------------------
(* The tables. *)

Tables == tables \in [Lockers -> LockTable] /\ TablesOK

\* Replacing one sound table by another.
LEMMA OneTable ==
    ASSUME Tables, NEW l \in Lockers, NEW st, TableOK(st), tables' = [tables EXCEPT ![l] = st]
    PROVE  Tables'
<1>1. st \in LockTable
  BY DEF TableOK
<1>2. \A k \in Lockers : tables'[k] = IF k = l THEN st ELSE tables[k]
  BY DEF Tables
<1>3. \A k \in Lockers : TableOK(tables'[k])
  BY <1>2 DEF Tables, TablesOK
<1> QED
  BY <1>1, <1>3 DEF Tables, TablesOK, TableOK

\* Unlock or RUnlock keeps the table sound and takes at most one entry, of u.
LEMMA ReleaseKeeps ==
    ASSUME NEW st, TableOK(st), NEW u \in UIDs
    PROVE  /\ TableOK(Release(u, st).st)
           /\ \A v \in UIDs, r \in Resources :
                Entries(Release(u, st).st, v, r) >=
                  Entries(st, v, r) - (IF v = u THEN 1 ELSE 0)
BY Zenon, UnlockKeeps, RUnlockKeeps DEF Release

\* What serving a lock request does to a table: nothing when it is refused, one
\* more entry on each resource of the request when it is granted.
LEMMA AcquireKeeps ==
    ASSUME NEW st, TableOK(st), NEW u \in UIDs
    PROVE  LET res == IF Writer(u) THEN Lock(st, u) ELSE RLock(st, u)
           IN  /\ TableOK(res.st)
               /\ res.reply \in BOOLEAN
               /\ ~ res.reply => res.st = st
               /\ res.reply => \A v \in UIDs, r \in Resources :
                    Entries(res.st, v, r) =
                      IF v = u /\ r \in ResourcesOf(u)
                      THEN Entries(st, v, r) + 1 ELSE Entries(st, v, r)
<1>1. CASE Writer(u)
  BY <1>1, LockKeeps, LockRefused, LockEntries DEF TableOK
<1>2. CASE ~ Writer(u)
  BY <1>2, RLockKeeps, RLockRefused, RLockEntries DEF TableOK
<1> QED
  BY <1>1, <1>2

\* Every step keeps every table sound.
LEMMA TablesStep == Tables /\ [Next]_vars => Tables'
<1> SUFFICES ASSUME Tables, [Next]_vars
             PROVE  Tables'
  OBVIOUS
<1>1. \A l \in Lockers : TableOK(tables[l])
  BY DEF Tables, TablesOK
<1>2. CASE UNCHANGED tables
  BY <1>2 DEF Tables, TablesOK
<1>3. ASSUME NEW u \in UIDs, NEW l \in Lockers, NEW a \in Attempts, ServeLock(u, a, l)
      PROVE  Tables'
  BY Zenon, <1>1, <1>3, AcquireKeeps, OneTable DEF ServeLock
<1>4. ASSUME NEW u \in UIDs, NEW l \in Lockers, ReleaseOne(u, l)
      PROVE  Tables'
  BY Zenon, <1>1, <1>4, ReleaseKeeps, OneTable DEF ReleaseOne
<1>5. ASSUME NEW u \in UIDs, NEW l \in Lockers, tables' = [tables EXCEPT ![l] = Release(u, @).st]
      PROVE  Tables'
  <2>1. tables' = [tables EXCEPT ![l] = Release(u, tables[l]).st]
    BY <1>5 DEF Tables
  <2> QED
    BY Zenon, <1>1, <2>1, ReleaseKeeps, OneTable
<1>6. ASSUME NEW u \in UIDs, NEW l \in Lockers, RefreshOne(u, l)
      PROVE  Tables'
  BY SMTT(30), <1>1, <1>2, <1>6, RefreshKeeps, OneTable DEF RefreshOne
<1>7. ASSUME NEW u \in UIDs, NEW l \in Lockers, ForceOne(u, l)
      PROVE  Tables'
  BY <1>1, <1>2, <1>7, ForceKeeps, OneTable DEF ForceOne, TakeAway
<1>8. ASSUME NEW l \in Lockers, Expire(l)
      PROVE  Tables'
  BY Zenon, <1>1, <1>8, ExpireKeeps, OneTable DEF Expire, TakeAway
<1>9. ASSUME NEW l \in Lockers, Restart(l)
      PROVE  Tables'
  BY Zenon, <1>9, NewTable, OneTable DEF Restart, TakeAway
<1>10. ASSUME NEW l \in Lockers, NEW r \in Resources, AdminForceUnlock(l, r)
      PROVE  Tables'
  <2>1. {r} \subseteq Resources
    OBVIOUS
  <2> QED
    BY ZenonT(40), <1>1, <1>10, <2>1, ForceResourcesKeeps, OneTable DEF AdminForceUnlock, TakeAway
<1>11. CASE Tick
  <2>1. \A l \in Lockers : tables'[l] = Older(tables[l]) /\ TableOK(Older(tables[l]))
    BY <1>1, <1>11, OlderKeeps DEF Tick
  <2> QED
    BY <1>11, <2>1 DEF Tick, Tables, TablesOK, TableOK
<1>12. ASSUME NEW u \in UIDs,
              \/ Attempt(u) \/ AcquireTimeout(u) \/ GiveUp(u)
              \/ BeginUnlock(u) \/ StartRefresh(u) \/ Crash(u)
       PROVE  Tables'
  BY SMTT(30), <1>2, <1>12 DEF Attempt, AcquireTimeout, GiveUp, BeginUnlock, StartRefresh, Crash
<1>13. ASSUME NEW u \in UIDs, NEW l \in Lockers, Collect(u, l) \/ ReleaseError(u, l)
       PROVE  Tables'
  BY <1>2, <1>13 DEF Collect, ReleaseError
<1>14. ASSUME NEW u \in UIDs, NEW l \in Lockers, NEW a \in Attempts,
              CallError(u, a, l) \/ ServeRelease(u, a, l) \/ Drain(u, a, l)
       PROVE  Tables'
  BY <1>2, <1>5, <1>14 DEF CallError, ServeRelease, Drain
<1>15. CASE UNCHANGED vars
  BY <1>2, <1>15 DEF vars
<1> QED
  BY SMTT(30), <1>3, <1>4, <1>6, <1>7, <1>8, <1>9, <1>10, <1>11, <1>12, <1>13, <1>14, <1>15 DEF Next

-----------------------------------------------------------------------------
(* Types, attempts and quorums. *)

Control == TypeOK /\ Started /\ HeldQuorum

\* The types of the tables aside, a step has to keep the rest.
LEMMA IteratedKeeps ==
    ASSUME Control, NEW u \in UIDs, pc[u] = "acquire",
           NEW ls, ls \subseteq Lockers, NEW f \in Nat, Cardinality(ls) + f <= N,
           NEW row \in [Lockers -> {"none", "sent", "granted", "refused"}],
           Iterated(u, ls, f, row),
           UNCHANGED <<tables, attempt, requests, releases, lost, lapsed, faults>>
    PROVE  Control'
<1> DEFINE over == f > tolerance(u) \/ Cardinality(ls) + f = N
           won  == Cardinality(ls) >= quorum(u) /\ f <= tolerance(u)
<1>1. attempt[u] \in Attempts
  BY DEF Control, Started
<1>2. /\ Cardinality(ls) \in Nat /\ N \in Nat
      /\ Cardinality(locks[u]) \in Nat
      /\ quorum(u) \in Nat /\ tolerance(u) \in Nat
  BY LockerSets, NFacts, QuorumFacts DEF Control, TypeOK
<1>3. /\ pc' = [pc EXCEPT ![u] = IF ~ over THEN "acquire"
                                   ELSE IF won THEN "held"
                                   ELSE IF ls = {} THEN "backoff" ELSE "abort"]
      /\ locks' = [locks EXCEPT ![u] = ls]
      /\ failed' = [failed EXCEPT ![u] = IF over THEN 0 ELSE f]
      /\ todo' = [todo EXCEPT ![u] = IF over /\ ~ won THEN ls ELSE {}]
      /\ call' = [call EXCEPT ![u][attempt[u]] =
              [l \in Lockers |-> IF over /\ row[l] = "refused" THEN "none" ELSE row[l]]]
      /\ refresher' = [refresher EXCEPT ![u] =
                            IF over /\ won THEN [Idle EXCEPT !.phase = "fresh"] ELSE @]
  BY DEF Iterated
<1> HIDE DEF over, won
<1>4. over \in BOOLEAN /\ won \in BOOLEAN
  BY DEF over, won
<1>5. pc' \in [UIDs -> {"idle", "acquire", "abort", "backoff", "held",
                        "unlock", "done", "gaveUp", "crashed"}]
  BY <1>3 DEF Control, TypeOK
<1>6. /\ locks' \in [UIDs -> SUBSET Lockers]
      /\ todo' \in [UIDs -> SUBSET Lockers]
  BY <1>3 DEF Control, TypeOK
<1>7. failed' \in [UIDs -> 0 .. N]
  BY <1>2, <1>3 DEF Control, TypeOK
<1>8. \A v \in UIDs : IF pc'[v] = "acquire" THEN Cardinality(locks'[v]) + failed'[v] < N
                                             ELSE failed'[v] = 0
  <2> TAKE v \in UIDs
  <2>1. CASE v # u
    BY <1>3, <2>1 DEF Control, TypeOK
  <2>2. CASE v = u /\ over
    BY <1>3, <2>2 DEF Control, TypeOK
  <2>3. CASE v = u /\ ~ over
    <3>1. locks'[v] = ls /\ failed'[v] = f /\ pc'[v] = "acquire"
      BY <1>3, <2>3 DEF Control, TypeOK
    <3>2. Cardinality(ls) + f # N
      BY <2>3 DEF over
    <3> QED
      BY <1>2, <3>1, <3>2
  <2> QED
    BY <2>1, <2>2, <2>3
<1>9. call' \in [UIDs -> [Attempts -> [Lockers -> {"none", "sent", "granted", "refused"}]]]
  BY <1>1, <1>3 DEF Control, TypeOK
<1>10. refresher' \in [UIDs -> [phase : {"off", "wait", "refresh", "fresh", "force"},
                               todo : SUBSET Lockers, missing : Nat]]
  BY Zenon, <1>3, <1>4 DEF Control, TypeOK, Idle
<1>11. TypeOK'
  BY SMTT(30), <1>5, <1>6, <1>7, <1>8, <1>9, <1>10 DEF Control, TypeOK, N
<1>12. Started'
  BY <1>1, <1>3 DEF Control, TypeOK, Started, Attempts
<1>13. HeldQuorum'
  <2> SUFFICES ASSUME NEW v \in UIDs, pc'[v] = "held"
               PROVE  Cardinality(locks'[v]) >= quorum(v)
    BY DEF HeldQuorum, quorum, halfTolerance, N
  <2>1. CASE v # u
    BY <1>3, <2>1 DEF Control, TypeOK, HeldQuorum
  <2>2. CASE v = u
    BY SMTT(30), <1>3, <1>4, <2>2 DEF Control, TypeOK, won
  <2> QED
    BY <2>1, <2>2
<1> QED
  BY <1>11, <1>12, <1>13 DEF Control

\* Every step keeps the types, the attempts and the quorums.
LEMMA ControlStep == Control /\ Tables /\ [Next]_vars => Control'
<1> SUFFICES ASSUME Control, Tables, [Next]_vars
             PROVE  Control'
  OBVIOUS
<1>0. tables' \in [Lockers -> LockTable]
  BY TablesStep DEF Tables
<1> DEFINE Answers == {"none", "sent", "granted", "refused"}
<1> USE NFacts DEF Control
<1>1. ASSUME NEW u \in UIDs, Attempt(u)
      PROVE  Control'
  <2>1. attempt[u] + 1 \in Attempts
    BY <1>1, DSyncAssumption DEF Attempt, TypeOK, Attempts
  <2>2. attempt' \in [UIDs -> 0 .. MaxAttempts]
    BY <1>1, <2>1 DEF Attempt, TypeOK, Attempts
  <2>3. call' \in [UIDs -> [Attempts -> [Lockers -> Answers]]]
    BY <1>1, <2>1 DEF Attempt, TypeOK
  <2>4. requests' \subseteq UIDs \X Attempts \X Lockers
    BY <1>1, <2>1 DEF Attempt, TypeOK
  <2>5. Cardinality({}) = 0
    BY FS_EmptySet
  <2>6. \A v \in UIDs : IF pc'[v] = "acquire" THEN Cardinality(locks'[v]) + failed'[v] < N
                                              ELSE failed'[v] = 0
    BY <1>1, <2>5 DEF Attempt, TypeOK
  <2>7. TypeOK'
    BY SMTT(30), <1>0, <1>1, <2>2, <2>3, <2>4, <2>6 DEF Attempt, TypeOK, refreshVars, N
  <2>8. Started'
    BY <1>1, <2>1 DEF Attempt, TypeOK, Started, Attempts
  <2>9. HeldQuorum'
    BY <1>1 DEF Attempt, TypeOK, HeldQuorum, quorum, halfTolerance, N
  <2> QED
    BY <2>7, <2>8, <2>9
<1>2. ASSUME NEW u \in UIDs, NEW l \in Lockers, NEW a \in Attempts, ServeLock(u, a, l)
      PROVE  Control'
  <2>1. call' \in [UIDs -> [Attempts -> [Lockers -> Answers]]]
    BY <1>2 DEF ServeLock, TypeOK, Refusal
  <2>2. TypeOK'
    BY <1>0, <1>2, <2>1 DEF ServeLock, TypeOK, clientVars, refreshVars, N
  <2> QED
    BY <1>2, <2>2 DEF ServeLock, clientVars, Started, HeldQuorum, Attempts, quorum, halfTolerance, N
<1>3. ASSUME NEW u \in UIDs, NEW l \in Lockers, NEW a \in Attempts, CallError(u, a, l)
      PROVE  Control'
  <2>1. call' \in [UIDs -> [Attempts -> [Lockers -> Answers]]]
    BY <1>3 DEF CallError, TypeOK, Refusal
  <2>2. requests' \subseteq UIDs \X Attempts \X Lockers
    BY <1>3 DEF CallError, TypeOK
  <2>3. faults' \in 0 .. MaxFaults
    BY <1>3, DSyncAssumption DEF CallError, Fault, TypeOK
  <2>4. TypeOK'
    BY SMTT(30), <1>0, <1>3, <2>1, <2>2, <2>3 DEF CallError, TypeOK, clientVars, refreshVars, N
  <2> QED
    BY <1>3, <2>4 DEF CallError, clientVars, Started, HeldQuorum, Attempts, quorum, halfTolerance, N
<1>4. ASSUME NEW u \in UIDs, NEW l \in Lockers, Collect(u, l)
      PROVE  Control'
  <2> DEFINE row  == call[u][attempt[u]]
             rest == [row EXCEPT ![l] = "none"]
  <2>1. pc[u] = "acquire" /\ UNCHANGED <<tables, attempt, requests, releases, lost, lapsed, faults>>
    BY <1>4 DEF Collect
  <2>2. attempt[u] \in Attempts
    BY <2>1 DEF Started
  <2>3. rest \in [Lockers -> Answers]
    BY <2>2 DEF TypeOK
  <2>4. /\ locks[u] \subseteq Lockers /\ failed[u] \in Nat
        /\ Cardinality(locks[u]) + failed[u] < N
        /\ Cardinality(locks[u]) \in Nat
        /\ Cardinality(locks[u] \cup {l}) \in Nat
        /\ Cardinality(locks[u] \cup {l}) <= Cardinality(locks[u]) + 1
    BY <2>1, LockerSets DEF TypeOK
  <2>5. CASE Iterated(u, locks[u] \cup {l}, failed[u], rest)
    <3>1. Cardinality(locks[u] \cup {l}) + failed[u] <= N
      BY <2>4
    <3> QED
      BY <2>1, <2>3, <2>4, <2>5, <3>1, IteratedKeeps
  <2>6. CASE Iterated(u, locks[u], failed[u] + 1, rest)
    <3>1. Cardinality(locks[u]) + (failed[u] + 1) <= N /\ failed[u] + 1 \in Nat
      BY <2>4
    <3> QED
      BY <2>1, <2>3, <2>4, <2>6, <3>1, IteratedKeeps
  <2> QED
    BY <1>4, <2>5, <2>6 DEF Collect
<1>5. ASSUME NEW u \in UIDs, AcquireTimeout(u)
      PROVE  Control'
  <2>1. pc[u] = "acquire" /\ UNCHANGED <<tables, attempt, requests, releases, lost, lapsed, faults>>
    BY <1>5 DEF AcquireTimeout
  <2>2. attempt[u] \in Attempts
    BY <2>1 DEF Started
  <2>3. call[u][attempt[u]] \in [Lockers -> Answers]
    BY <2>2 DEF TypeOK
  <2>4. /\ locks[u] \subseteq Lockers /\ failed[u] \in Nat
        /\ Cardinality(locks[u]) + failed[u] < N
        /\ Cardinality(locks[u]) \in Nat
    BY <2>1, LockerSets DEF TypeOK
  <2>5. Cardinality(locks[u]) + (failed[u] + 1) <= N /\ failed[u] + 1 \in Nat
    BY <2>4
  <2> QED
    BY <1>5, <2>1, <2>3, <2>4, <2>5, IteratedKeeps DEF AcquireTimeout
<1>6. ASSUME NEW u \in UIDs, GiveUp(u)
      PROVE  Control'
  <2>1. TypeOK'
    BY <1>0, <1>6 DEF GiveUp, TypeOK, netVars, refreshVars, N
  <2> QED
    BY ZenonT(40), <1>6, <2>1 DEF GiveUp, TypeOK, Started, HeldQuorum, Attempts, quorum, halfTolerance, N
<1>7. ASSUME NEW u \in UIDs, BeginUnlock(u)
      PROVE  Control'
  <2>1. refresher' \in [UIDs -> [phase : {"off", "wait", "refresh", "fresh", "force"},
                               todo : SUBSET Lockers, missing : Nat]]
    BY <1>7 DEF BeginUnlock, TypeOK, Idle
  <2>2. TypeOK'
    BY SMTT(30), <1>0, <1>7, <2>1 DEF BeginUnlock, TypeOK, netVars, N
  <2> QED
    BY Zenon, <1>7, <2>2 DEF BeginUnlock, TypeOK, Started, HeldQuorum, Attempts, quorum, halfTolerance, N
<1>8. ASSUME NEW u \in UIDs, NEW l \in Lockers, NEW ls, ls \subseteq Lockers,
             pc[u] \in {"abort", "unlock"}, Released(u, l, ls), UNCHANGED <<attempt, failed>>
      PROVE  /\ pc' \in [UIDs -> {"idle", "acquire", "abort", "backoff", "held",
                                  "unlock", "done", "gaveUp", "crashed"}]
             /\ locks' \in [UIDs -> SUBSET Lockers]
             /\ todo' \in [UIDs -> SUBSET Lockers]
             /\ \A v \in UIDs :
                  IF pc'[v] = "acquire" THEN Cardinality(locks'[v]) + failed'[v] < N
                                        ELSE failed'[v] = 0
             /\ Started' /\ HeldQuorum'
  <2> DEFINE rest == todo[u] \ {l}
             again == pc[u] = "unlock" /\ checkFailedUnlocks(ls, halfTolerance)
  <2>1. /\ locks' = [locks EXCEPT ![u] = IF rest # {} \/ again THEN ls ELSE {}]
        /\ todo' = [todo EXCEPT ![u] = IF rest = {} /\ again THEN ls ELSE rest]
        /\ pc' = [pc EXCEPT ![u] = IF rest # {} \/ again THEN @
                                   ELSE IF @ = "abort" THEN "backoff" ELSE "done"]
    BY <1>8 DEF Released
  <2>2. rest \subseteq Lockers
    BY DEF TypeOK
  <2> HIDE DEF rest, again
  <2>3. /\ pc' \in [UIDs -> {"idle", "acquire", "abort", "backoff", "held",
                                  "unlock", "done", "gaveUp", "crashed"}]
        /\ pc'[u] \in {"abort", "backoff", "unlock", "done"}
        /\ \A v \in UIDs \ {u} : pc'[v] = pc[v] /\ locks'[v] = locks[v]
    BY <1>8, <2>1 DEF TypeOK
  <2>4. /\ locks' \in [UIDs -> SUBSET Lockers]
        /\ todo' \in [UIDs -> SUBSET Lockers]
    BY <1>8, <2>1, <2>2 DEF TypeOK
  <2>5. \A v \in UIDs : IF pc'[v] = "acquire" THEN Cardinality(locks'[v]) + failed'[v] < N
                                        ELSE failed'[v] = 0
    BY <1>8, <2>3 DEF TypeOK
  <2>6. Started'
    BY <1>8, <2>3 DEF Started, Attempts
  <2>7. HeldQuorum'
    BY <2>3 DEF HeldQuorum, quorum, halfTolerance, N
  <2> QED
    BY SMTT(30), <2>3, <2>4, <2>5, <2>6, <2>7
<1>9. ASSUME NEW u \in UIDs, NEW l \in Lockers, ReleaseOne(u, l)
      PROVE  Control'
  <2> DEFINE ls == IF Release(u, tables[l]).err THEN locks[u] ELSE locks[u] \ {l}
  <2>1. Released(u, l, ls) /\ pc[u] \in {"abort", "unlock"} /\ ls \subseteq Lockers
    BY <1>9 DEF ReleaseOne, TypeOK
  <2>2. UNCHANGED <<attempt, failed, netVars, refreshVars, lapsed, faults>>
    BY <1>9 DEF ReleaseOne
  <2> QED
    BY <1>0, <1>8, <2>1, <2>2 DEF TypeOK, netVars, refreshVars, N
<1>10. ASSUME NEW u \in UIDs, NEW l \in Lockers, ReleaseError(u, l)
      PROVE  Control'
  <2>1. Released(u, l, locks[u]) /\ pc[u] \in {"abort", "unlock"} /\ locks[u] \subseteq Lockers
    BY <1>10 DEF ReleaseError, TypeOK
  <2>2. UNCHANGED <<tables, attempt, failed, call, requests, refreshVars, lapsed>>
    BY <1>10 DEF ReleaseError
  <2>3. attempt[u] \in Attempts
    BY <2>1 DEF Started
  <2>4. releases' \subseteq UIDs \X Attempts \X Lockers
    BY <1>10, <2>3 DEF ReleaseError, TypeOK
  <2>5. faults' \in 0 .. MaxFaults
    BY <1>10, DSyncAssumption DEF ReleaseError, Fault, TypeOK
  <2> QED
    BY SMTT(30), <1>0, <1>8, <2>1, <2>2, <2>4, <2>5 DEF TypeOK, refreshVars, N
<1>11. ASSUME NEW u \in UIDs, NEW l \in Lockers, NEW a \in Attempts, ServeRelease(u, a, l)
      PROVE  Control'
  <2>1. TypeOK'
    BY <1>0, <1>11 DEF ServeRelease, TypeOK, clientVars, refreshVars, N
  <2> QED
    BY <1>11, <2>1 DEF ServeRelease, clientVars, Started, HeldQuorum, Attempts, quorum, halfTolerance, N
<1>12. ASSUME NEW u \in UIDs, NEW l \in Lockers, NEW a \in Attempts, Drain(u, a, l)
      PROVE  Control'
  <2>1. call' \in [UIDs -> [Attempts -> [Lockers -> Answers]]]
    BY <1>12 DEF Drain, TypeOK
  <2>2. releases' \subseteq UIDs \X Attempts \X Lockers
    BY SMTT(30), <1>12 DEF Drain, TypeOK
  <2>3. faults' \in 0 .. MaxFaults
    BY SMTT(30), <1>12, DSyncAssumption DEF Drain, Fault, TypeOK
  <2>4. TypeOK'
    BY SMTT(30), <1>0, <1>12, <2>1, <2>2, <2>3 DEF Drain, TypeOK, clientVars, refreshVars, N
  <2> QED
    BY <1>12, <2>4 DEF Drain, clientVars, Started, HeldQuorum, Attempts, quorum, halfTolerance, N
<1> DEFINE Refreshers == [UIDs -> [phase : {"off", "wait", "refresh", "fresh", "force"},
                                   todo : SUBSET Lockers, missing : Nat]]
<1>13. ASSUME UNCHANGED <<clientVars, netVars>>, refresher' \in Refreshers,
              lost' \subseteq UIDs, lapsed' \subseteq UIDs, faults' \in 0 .. MaxFaults
       PROVE  Control'
  <2>1. TypeOK'
    BY SMTT(30), <1>0, <1>13 DEF TypeOK, clientVars, netVars, N
  <2> QED
    BY <1>13, <2>1 DEF clientVars, Started, HeldQuorum, Attempts, quorum, halfTolerance, N
<1>14. ASSUME NEW u \in UIDs, StartRefresh(u)
       PROVE  Control'
  <2>1. refresher' \in Refreshers
    BY <1>14 DEF StartRefresh, TypeOK
  <2> QED
    BY <1>13, <1>14, <2>1 DEF StartRefresh, TypeOK
<1>15. ASSUME NEW u \in UIDs, NEW l \in Lockers, NEW m \in Nat, Refreshed(u, l, m)
       PROVE  refresher' \in Refreshers
  <2>1. refresher[u].todo \ {l} \subseteq Lockers
    BY DEF TypeOK
  <2>2. [refresher[u] EXCEPT !.todo = refresher[u].todo \ {l}, !.missing = m] \in
          [phase : {"off", "wait", "refresh", "fresh", "force"}, todo : SUBSET Lockers, missing : Nat]
    BY ZenonT(40), <2>1 DEF TypeOK
  <2>3. [Idle EXCEPT !.phase = "fresh"] \in
          [phase : {"off", "wait", "refresh", "fresh", "force"}, todo : SUBSET Lockers, missing : Nat]
    BY DEF Idle
  <2> QED
    BY Zenon, <1>15, <2>2, <2>3 DEF Refreshed, TypeOK
<1>16. ASSUME NEW u \in UIDs, NEW l \in Lockers, RefreshOne(u, l)
       PROVE  Control'
  <2>1. refresher[u].missing \in Nat
    BY SMTT(30) DEF TypeOK
  <2>2. PICK m \in Nat : Refreshed(u, l, m)
    <3>1. refresher[u].missing + 1 \in Nat
      BY <2>1
    <3> QED
      BY Zenon, <1>16, <2>1, <3>1 DEF RefreshOne
  <2>3. refresher' \in Refreshers
    BY Zenon, <1>15, <2>2
  <2>4. faults' \in 0 .. MaxFaults
    BY <1>16, DSyncAssumption DEF RefreshOne, Fault, TypeOK
  <2> QED
    BY <1>13, <1>16, <2>3, <2>4 DEF RefreshOne, TypeOK
<1>17. ASSUME NEW u \in UIDs, NEW l \in Lockers, ForceOne(u, l)
       PROVE  Control'
  <2>1. refresher' \in Refreshers
    BY ZenonT(40), <1>17 DEF ForceOne, TypeOK, Idle
  <2>2. faults' \in 0 .. MaxFaults
    BY <1>17, DSyncAssumption DEF ForceOne, Fault, TypeOK
  <2>3. lapsed' \subseteq UIDs /\ lost' \subseteq UIDs
    BY <1>17 DEF ForceOne, TakeAway, TypeOK
  <2> QED
    BY <1>13, <1>17, <2>1, <2>2, <2>3 DEF ForceOne
<1>18. ASSUME NEW l \in Lockers, NEW st, TakeAway(l, st),
              UNCHANGED <<clientVars, netVars, refreshVars>>, faults' \in 0 .. MaxFaults
       PROVE  Control'
  <2>1. lapsed' \subseteq UIDs
    BY <1>18 DEF TakeAway, TypeOK
  <2> QED
    BY <1>13, <1>18, <2>1 DEF refreshVars, TypeOK
<1>19. ASSUME Fault("restart") \/ Fault("admin")
       PROVE  faults' \in 0 .. MaxFaults
  BY SMTT(30), <1>19, DSyncAssumption DEF Fault, TypeOK
<1>20. ASSUME NEW l \in Lockers, Expire(l)
       PROVE  Control'
  BY <1>18, <1>20 DEF Expire, TypeOK
<1>21. ASSUME NEW l \in Lockers, Restart(l)
       PROVE  Control'
  BY <1>18, <1>19, <1>21 DEF Restart
<1>22. ASSUME NEW l \in Lockers, NEW r \in Resources, AdminForceUnlock(l, r)
       PROVE  Control'
  BY SMTT(30), <1>18, <1>19, <1>22 DEF AdminForceUnlock
<1>23. ASSUME NEW u \in UIDs, Crash(u)
       PROVE  Control'
  <2>1. refresher' \in Refreshers
    BY <1>23 DEF Crash, TypeOK, Idle
  <2>2. call' \in [UIDs -> [Attempts -> [Lockers -> Answers]]]
    BY <1>23 DEF Crash, TypeOK
  <2>3. faults' \in 0 .. MaxFaults
    BY SMTT(30), <1>23, DSyncAssumption DEF Crash, Fault, TypeOK
  <2>4. TypeOK'
    BY SMTT(30), <1>0, <1>23, <2>1, <2>2, <2>3 DEF Crash, TypeOK, N
  <2>5. attempt[u] \in Attempts
    BY <1>23 DEF Crash, Started
  <2> QED
    BY SMTT(30), <1>23, <2>4, <2>5 DEF Crash, TypeOK, Started, HeldQuorum, Attempts, quorum, halfTolerance, N
<1>24. CASE Tick
  <2>1. refresher' \in Refreshers
    BY ZenonT(40), <1>24 DEF Tick, TypeOK, Idle
  <2> QED
    BY Zenon, <1>13, <1>24, <2>1 DEF Tick, TypeOK
<1>25. CASE UNCHANGED vars
  BY <1>13, <1>25 DEF vars, refreshVars, TypeOK
<1> QED
  BY SMTT(30), <1>1, <1>2, <1>3, <1>4, <1>5, <1>6, <1>7, <1>9, <1>10, <1>11, <1>12, <1>14, <1>16, <1>17,
     <1>20, <1>21, <1>22, <1>23, <1>24, <1>25 DEF Next
=============================================================================
