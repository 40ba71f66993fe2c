---------------------------- MODULE DSyncProofs -----------------------------
(***************************************************************************)
(* Mutual exclusion of the distributed mutex, which implements RWLock.     *)
(*                                                                         *)
(* The argument: a caller inside has counted a quorum of lockers; each of  *)
(* them still has an entry for it (GrantsBacked); the quorums of two       *)
(* conflicting callers share a locker; and the table of that locker never  *)
(* has entries of both (WriterAlone).                                      *)
(***************************************************************************)
EXTENDS DSyncGrantProofs

IInv == TypeOK /\ TablesOK /\ Started /\ HeldQuorum /\ GrantsBacked

-----------------------------------------------------------------------------
(* The invariant. *)

\* At the start nobody holds or is owed anything.
LEMMA InitHolds == Init => IInv
<1> SUFFICES ASSUME Init
             PROVE  IInv
  OBVIOUS
<1>1. tables \in [Lockers -> LockTable] /\ TablesOK
  BY NewTable DEF Init, TablesOK, TableOK
<1>2. Idle \in [phase : {"off", "wait", "refresh", "fresh", "force"},
                todo : SUBSET Lockers, missing : Nat]
  BY DEF Idle
<1>3. TypeOK
  BY <1>1, <1>2, NFacts, DSyncAssumption DEF Init, TypeOK
<1>4. Started /\ HeldQuorum
  BY DEF Init, Started, HeldQuorum
<1>5. ASSUME NEW u \in UIDs, NEW l \in Lockers
      PROVE  Backed(u, l)
  <2>1. Granted(u, l) = {} /\ Late(u, l) = {} /\ Mark(u, l) = 0
    BY DEF Init, Granted, Late, Mark, Counted
  <2>2. Owed(u, l) = 0
    <3>1. Cardinality(Granted(u, l)) = 0 /\ Cardinality(Late(u, l)) = 0
      BY <2>1, FS_EmptySet
    <3>2. Owed(u, l) = Cardinality(Granted(u, l)) + Cardinality(Late(u, l)) + Mark(u, l)
      BY OwedSum
    <3> QED
      BY <2>1, <3>1, <3>2
  <2>3. \A r \in ResourcesOf(u) : Entries(tables[l], u, r) = 0
    BY NewTable, SizeFacts DEF Init
  <2> QED
    BY <2>2, <2>3 DEF Backed
<1>6. GrantsBacked
  BY <1>5, BackedDef
<1> QED
  BY <1>1, <1>3, <1>4, <1>6 DEF IInv

\* The invariant is inductive.
LEMMA NextKeeps == IInv /\ [Next]_vars => IInv'
<1> SUFFICES ASSUME IInv, [Next]_vars
             PROVE  IInv'
  OBVIOUS
<1>1. Tables /\ Control
  BY DEF IInv, Tables, Control, TypeOK
<1>2. Tables'
  BY <1>1, TablesStep
<1>3. Control'
  BY <1>1, ControlStep
<1>4. GrantsBacked'
  BY <1>1, <1>2, GrantsStep DEF Before, IInv
<1> QED
  BY <1>2, <1>3, <1>4 DEF IInv, Tables, Control

-----------------------------------------------------------------------------
(* The theorems. *)

\* Two callers with intact locks that conflict are not inside together: their
\* quorums share a locker, and its table would have entries of both.
LEMMA NoConflict ==
    ASSUME IInv, NEW u \in UIDs, NEW v \in UIDs, Conflict(u, v),
           pc[u] = "held", pc[v] = "held", u \notin lapsed, v \notin lapsed
    PROVE  FALSE
<1>1. /\ locks[u] \subseteq Lockers /\ locks[v] \subseteq Lockers
      /\ Cardinality(locks[u]) \in Nat /\ Cardinality(locks[v]) \in Nat
  BY LockerSets DEF IInv, TypeOK
<1>2. Cardinality(locks[u]) >= quorum(u) /\ Cardinality(locks[v]) >= quorum(v)
  BY DEF IInv, HeldQuorum
<1>3. quorum(u) + quorum(v) > N
  BY QuorumsOverlap DEF Conflict
<1>4. Cardinality(locks[u]) + Cardinality(locks[v]) > Cardinality(Lockers)
  BY SMTT(30), <1>1, <1>2, <1>3, NFacts, QuorumFacts DEF N
<1>5. PICK l \in Lockers : l \in locks[u] /\ l \in locks[v]
  BY <1>1, <1>4, DSyncAssumption, FS_MajoritiesIntersect
<1>6. PICK r : r \in ResourcesOf(u) /\ r \in ResourcesOf(v)
  BY DEF Conflict
<1>7. r \in Resources
  BY <1>6, SizeFacts
<1>8. tables[l] \in LockTable /\ WriterAlone(tables[l])
  BY DEF IInv, TablesOK, TableOK
<1>9. ASSUME NEW w \in {u, v}
      PROVE  Holds(tables[l], w, r)
  <2>1. Mark(w, l) = 1
    BY <1>5 DEF Mark, Counted
  <2>2. Owed(w, l) > 0 /\ Owed(w, l) \in Nat
    BY <2>1, OwedSum
  <2>3. Backed(w, l)
    BY Zenon, BackedDef DEF IInv, Trying
  <2>4. Entries(tables[l], w, r) >= Owed(w, l)
    BY <1>6, <2>3 DEF Backed
  <2>5. Entries(tables[l], w, r) \in Nat
    BY Zenon, <1>7, <1>8, CellFacts
  <2> QED
    BY SMTT(30), <1>7, <1>8, <2>2, <2>4, <2>5, CellFacts
<1> QED
  BY SMTT(30), <1>7, <1>8, <1>9 DEF WriterAlone, Conflict

\* The distributed mutex never leaves its types; in particular the loop of lock
\* never counts more answers than there are lockers.
THEOREM TypeCorrect == Spec => []TypeOK
<1>1. IInv => TypeOK
  BY DEF IInv
<1> QED
  BY <1>1, InitHolds, NextKeeps, PTL DEF Spec

\* Until it unlocks, a caller that lost nothing has an entry for each grant that
\* it counts or that may still be released.
THEOREM GrantsAreBacked == Spec => []GrantsBacked
<1>1. IInv => GrantsBacked
  BY DEF IInv
<1> QED
  BY <1>1, InitHolds, NextKeeps, PTL DEF Spec

\* Mutual exclusion, for any number of lockers, callers, attempts and faults.
THEOREM MutuallyExclusive == Spec => []MutualExclusion
<1>1. IInv => MutualExclusion
  BY NoConflict DEF MutualExclusion, InSection
<1> QED
  BY <1>1, InitHolds, NextKeeps, PTL DEF Spec

-----------------------------------------------------------------------------
(* The refinement. *)

Inside == {u \in UIDs : InSection(u)}

\* A step that moves nobody in or out is, for the abstract lock, no step or one
\* that makes holders suspect.
LEMMA AbstractLose ==
    ASSUME Inside' = Inside, lapsed \subseteq lapsed', lapsed' \subseteq UIDs
    PROVE  Abstract!Next
<1>1. Abstract!Lose(lapsed')
  BY DEF Abstract!Lose, Inside
<1> QED
  BY <1>1 DEF Abstract!Next

\* A step that moves u out.
LEMMA AbstractLeave ==
    ASSUME NEW u \in UIDs, u \in Inside, Inside' = Inside \ {u},
           lapsed' \in {lapsed, lapsed \cup {u}}
    PROVE  Abstract!Next
<1>1. Abstract!Leave(u)
  BY DEF Abstract!Leave, Inside
<1> QED
  BY <1>1 DEF Abstract!Next

\* A step that moves u in, in a state where mutual exclusion holds after it.
LEMMA AbstractEnter ==
    ASSUME NEW u \in UIDs, u \notin Inside, Inside' = Inside \cup {u}, lapsed' = lapsed,
           MutualExclusion'
    PROVE  Abstract!Next
<1>1. \A v \in Inside \ lapsed : u \notin lapsed => ~ Conflict(u, v) /\ ~ Conflict(v, u)
  <2> SUFFICES ASSUME NEW v \in Inside, v \notin lapsed, u \notin lapsed
               PROVE  ~ Conflict(u, v) /\ ~ Conflict(v, u)
    OBVIOUS
  <2>1. v \in UIDs /\ v \in Inside' /\ u \in Inside'
    BY DEF Inside
  <2>2. InSection(u)' /\ InSection(v)'
    BY <2>1 DEF Inside
  <2>3. (Conflict(u, v) => u \in lapsed' \/ v \in lapsed') /\ (Conflict(v, u) => u \in lapsed' \/ v \in lapsed')
    BY Zenon, <2>1, <2>2 DEF MutualExclusion, Conflict, Writer, ResourcesOf, Size, ResourceAt
  <2> QED
    BY <2>3
<1>2. Abstract!Enter(u)
  BY <1>1 DEF Abstract!Enter, Inside
<1> QED
  BY <1>2 DEF Abstract!Next

\* Moving u between two places outside of its section.
LEMMA StaysOut ==
    ASSUME Control, NEW u \in UIDs, NEW w, pc' = [pc EXCEPT ![u] = w],
           lost' = lost, ~ InSection(u), w # "held"
    PROVE  Inside' = Inside
BY DEF Inside, InSection, Control, TypeOK

\* The end of an iteration lets u in or leaves it outside.
LEMMA IteratedSimulates ==
    ASSUME Control, MutualExclusion', NEW u \in UIDs, pc[u] = "acquire",
           NEW ls, NEW f, NEW row, Iterated(u, ls, f, row), UNCHANGED <<lost, lapsed>>
    PROVE  Abstract!Next
<1>1. u \notin Inside
  BY DEF Inside, InSection
<1>2. \A v \in UIDs \ {u} : pc'[v] = pc[v]
  BY Zenon, IteratedCounted
<1>3. Inside' = Inside \/ Inside' = Inside \cup {u}
  BY <1>1, <1>2 DEF Inside, InSection
<1>4. CASE Inside' = Inside
  BY <1>4, AbstractLose DEF Control, TypeOK
<1>5. CASE Inside' = Inside \cup {u}
  BY <1>1, <1>5, AbstractEnter
<1> QED
  BY <1>3, <1>4, <1>5

\* forceUnlock of u takes entries of u only; with its last call u is told.
LEMMA ForceSimulates ==
    ASSUME Control, Tables, NEW u \in UIDs, NEW k \in Lockers, ForceOne(u, k)
    PROVE  Abstract!Next
<1>1. lapsed' \in {lapsed, lapsed \cup {u}}
  <2>1. CASE TakeAway(k, ForceUnlock(tables[k], u).st)
    <3> DEFINE st == ForceUnlock(tables[k], u).st
    <3>1. TableOK(tables[k])
      BY DEF Tables, TablesOK
    <3>2. \A v \in UIDs \ {u} : \A r \in ResourcesOf(v) :
             ~ (Len(st.lockMap[r][v]) < Len(tables[k].lockMap[r][v]))
      <4> TAKE v \in UIDs \ {u}
      <4> TAKE r \in ResourcesOf(v)
      <4>1. r \in Resources
        BY SizeFacts
      <4>2. Entries(st, v, r) = Entries(tables[k], v, r) /\ Entries(tables[k], v, r) \in Nat
        BY ZenonT(40), <3>1, <4>1, ForceKeeps, CellFacts DEF TableOK
      <4> QED
        BY SMTT(30), <4>2 DEF Entries
    <3> HIDE DEF st
    <3>3. {v \in UIDs : \E r \in ResourcesOf(v) :
              /\ Len(st.lockMap[r][v]) < Len(tables[k].lockMap[r][v])
              /\ Len(st.lockMap[r][v]) < Owed(v, k)} \subseteq {u}
      BY <3>2
    <3>4. lapsed' = lapsed \cup {v \in UIDs : \E r \in ResourcesOf(v) :
              /\ Len(st.lockMap[r][v]) < Len(tables[k].lockMap[r][v])
              /\ Len(st.lockMap[r][v]) < Owed(v, k)}
      BY <2>1 DEF TakeAway, st
    <3> QED
      BY <3>3, <3>4
  <2>2. CASE UNCHANGED lapsed
    BY <2>2
  <2> QED
    BY <2>1, <2>2 DEF ForceOne
<1>2. UNCHANGED pc /\ lost' \in {lost, lost \cup {u}}
  BY DEF ForceOne, clientVars
<1>3. Inside' = Inside \/ (u \in Inside /\ Inside' = Inside \ {u})
  BY <1>2 DEF Inside, InSection
<1>4. lapsed \subseteq lapsed' /\ lapsed' \subseteq UIDs
  BY <1>1 DEF Control, TypeOK
<1> QED
  BY <1>1, <1>3, <1>4, AbstractLose, AbstractLeave

\* Every step of the mutex is a step of the abstract lock, or none.
LEMMA Simulates ==
    ASSUME Control, Tables, MutualExclusion', [Next]_vars
    PROVE  [Abstract!Next]_(Abstract!vars)
<1>0. lapsed \subseteq UIDs
  BY DEF Control, TypeOK
<1>1. ASSUME NEW u \in UIDs, Attempt(u) \/ GiveUp(u)
      PROVE  Abstract!Next
  <2>1. ~ InSection(u) /\ lapsed' = lapsed
    BY <1>1 DEF Attempt, GiveUp, InSection
  <2>2. Inside' = Inside
    BY SMTT(30), <1>1, <2>1, StaysOut DEF Attempt, GiveUp, refreshVars
  <2> QED
    BY <1>0, <2>1, <2>2, AbstractLose
<1>2. ASSUME NEW u \in UIDs, AcquireTimeout(u)
      PROVE  Abstract!Next
  BY <1>2, IteratedSimulates DEF AcquireTimeout
<1>3. ASSUME NEW u \in UIDs, BeginUnlock(u) \/ Crash(u)
      PROVE  Abstract!Next
  <2>1. \E w \in {"unlock", "crashed"} : pc' = [pc EXCEPT ![u] = w]
    BY Zenon, <1>3 DEF BeginUnlock, Crash
  <2>2. UNCHANGED <<lost, lapsed>>
    BY Zenon, <1>3 DEF BeginUnlock, Crash
  <2>3. Inside' = Inside \ {u}
    BY <2>1, <2>2 DEF Inside, InSection, Control, TypeOK
  <2>4. CASE u \in Inside
    BY <2>2, <2>3, <2>4, AbstractLeave
  <2>5. CASE u \notin Inside
    <3>1. Inside' = Inside
      BY <2>3, <2>5
    <3> QED
      BY <1>0, <2>2, <3>1, AbstractLose
  <2> QED
    BY <2>4, <2>5
<1>4. ASSUME UNCHANGED <<pc, lost>>, lapsed \subseteq lapsed', lapsed' \subseteq UIDs
      PROVE  Abstract!Next
  <2>1. Inside' = Inside
    BY <1>4 DEF Inside, InSection
  <2> QED
    BY <1>4, <2>1, AbstractLose
<1>5. ASSUME NEW u \in UIDs, StartRefresh(u)
      PROVE  Abstract!Next
  BY <1>0, <1>4, <1>5 DEF StartRefresh, clientVars
<1>6. ASSUME NEW u \in UIDs, NEW l \in Lockers, Collect(u, l)
      PROVE  Abstract!Next
  BY Zenon, <1>6, IteratedSimulates DEF Collect
<1>7. ASSUME NEW u \in UIDs, NEW l \in Lockers, ReleaseOne(u, l) \/ ReleaseError(u, l)
      PROVE  Abstract!Next
  <2>1. /\ pc[u] \in {"abort", "unlock"} /\ UNCHANGED <<lost, lapsed>>
        /\ \E ls : Released(u, l, ls)
    BY Zenon, <1>7 DEF ReleaseOne, ReleaseError, refreshVars
  <2>2. \E w : w # "held" /\ pc' = [pc EXCEPT ![u] = w]
    BY Zenon, <2>1 DEF Released
  <2>3. Inside' = Inside
    BY Zenon, <2>1, <2>2, StaysOut DEF InSection
  <2> QED
    BY <1>0, <2>1, <2>3, AbstractLose
<1>8. ASSUME NEW u \in UIDs, NEW l \in Lockers, RefreshOne(u, l)
      PROVE  Abstract!Next
  BY Zenon, <1>0, <1>4, <1>8 DEF RefreshOne, clientVars
<1>9. ASSUME NEW u \in UIDs, NEW l \in Lockers, ForceOne(u, l)
      PROVE  Abstract!Next
  BY <1>9, ForceSimulates
<1>10. ASSUME NEW u \in UIDs, NEW l \in Lockers, NEW a \in Attempts,
              \/ ServeLock(u, a, l) \/ CallError(u, a, l)
              \/ ServeRelease(u, a, l) \/ Drain(u, a, l)
       PROVE  Abstract!Next
  BY Zenon, <1>0, <1>4, <1>10 DEF ServeLock, CallError, ServeRelease, Drain, clientVars, refreshVars
<1>11. ASSUME NEW l \in Lockers,
              Expire(l) \/ Restart(l) \/ \E r \in Resources : AdminForceUnlock(l, r)
       PROVE  Abstract!Next
  <2>1. UNCHANGED <<pc, lost>> /\ \E st : TakeAway(l, st)
    BY Zenon, <1>11 DEF Expire, Restart, AdminForceUnlock, clientVars, refreshVars
  <2>2. lapsed \subseteq lapsed' /\ lapsed' \subseteq UIDs
    BY <1>0, <2>1 DEF TakeAway
  <2> QED
    BY <1>4, <2>1, <2>2
<1>12. CASE Tick
  BY <1>0, <1>4, <1>12 DEF Tick, clientVars
<1>13. CASE UNCHANGED vars
  BY <1>0, <1>4, <1>13 DEF vars, clientVars, refreshVars
<1> QED
  BY <1>1, <1>2, <1>3, <1>5, <1>6, <1>7, <1>8, <1>9, <1>10, <1>11, <1>12, <1>13 DEF Next

\* The distributed mutex implements the abstract read-write lock: a caller gets
\* in only when no conflicting caller whose lock is intact is inside.
THEOREM Refinement == Spec => ImplementsRWLock
<1>1. Init => Abstract!Init
  BY DEF Init, Abstract!Init, InSection
<1>2. IInv => MutualExclusion
  BY NoConflict DEF MutualExclusion, InSection
<1>3. IInv /\ MutualExclusion' /\ [Next]_vars => [Abstract!Next]_(Abstract!vars)
  BY Simulates DEF IInv, Control, Tables, TypeOK
<1> QED
  BY <1>1, <1>2, <1>3, InitHolds, NextKeeps, PTL DEF Spec, ImplementsRWLock, Abstract!Spec
=============================================================================
