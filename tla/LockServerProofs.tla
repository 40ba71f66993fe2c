-------------------------- MODULE LockServerProofs --------------------------
(***************************************************************************)
(* The lock server keeps, for any requests, resources, validity and calls, *)
(* what its table promises.  The inductive invariant is the type invariant *)
(* with TableOK: WriterAlone alone is not inductive, because Unlock takes  *)
(* an entry by its position and expiry by its age.                         *)
(***************************************************************************)
EXTENDS LockServer, LocalLockerProofs

IInv == TypeOK /\ TableOK(table)

\* Serving a call that keeps the table sound and answers with two booleans.
LEMMA ServeKeeps ==
    ASSUME IInv, NEW call, NEW u, NEW result, Serve(call, u, result),
           call \in {"lock", "rlock", "unlock", "runlock", "refresh", "force", "admin"},
           u \in UIDs \cup {"-"},
           TableOK(result.st), result.reply \in BOOLEAN, result.err \in BOOLEAN,
           granted' \subseteq UIDs
    PROVE  IInv'
<1>1. table' = result.st
  BY DEF Serve
<1>2. TableOK(table)'
  BY <1>1 DEF TableOK
<1>3. answer' \in [call : {"none", "lock", "rlock", "unlock", "runlock",
                            "refresh", "force", "admin"},
                   uid : UIDs \cup {"-"}, reply : BOOLEAN, err : BOOLEAN]
  BY DEF Serve
<1> QED
  BY <1>2, <1>3 DEF IInv, TypeOK, TableOK

\* Every step of the lock server keeps the inductive invariant.
LEMMA NextKeeps == IInv /\ [Next]_vars => IInv'
<1> SUFFICES ASSUME IInv, [Next]_vars
             PROVE  IInv'
  OBVIOUS
<1> USE DEF IInv
<1>0. granted \subseteq UIDs
  BY DEF TypeOK
<1>1. ASSUME NEW u \in UIDs, LockHandler(u)
      PROVE  IInv'
  <2>1. granted' \subseteq UIDs
    BY <1>0, <1>1 DEF LockHandler
  <2> QED
    BY <1>1, <2>1, LockKeeps, ServeKeeps DEF LockHandler
<1>2. ASSUME NEW u \in UIDs, RLockHandler(u)
      PROVE  IInv'
  <2>1. granted' \subseteq UIDs
    BY <1>0, <1>2 DEF RLockHandler
  <2> QED
    BY <1>2, <2>1, RLockKeeps, ServeKeeps DEF RLockHandler
<1>3. ASSUME NEW u \in UIDs, UnlockHandler(u)
      PROVE  IInv'
  BY <1>0, <1>3, UnlockKeeps, ServeKeeps DEF UnlockHandler
<1>4. ASSUME NEW u \in UIDs, RUnlockHandler(u)
      PROVE  IInv'
  BY <1>0, <1>4, RUnlockKeeps, ServeKeeps DEF RUnlockHandler
<1>5. ASSUME NEW u \in UIDs, RefreshHandler(u)
      PROVE  IInv'
  BY <1>0, <1>5, RefreshKeeps, ServeKeeps DEF RefreshHandler
<1>6. ASSUME NEW u \in UIDs, ForceUnlockHandler(u)
      PROVE  IInv'
  BY <1>0, <1>6, ForceKeeps, ServeKeeps DEF ForceUnlockHandler
<1>7. ASSUME NEW rs \in AdminPaths, AdminForceUnlock(rs)
      PROVE  IInv'
  <2>1. rs \subseteq Resources
    BY AdminAssumption
  <2> QED
    BY <1>0, <1>7, <2>1, ForceResourcesKeeps, ServeKeeps DEF AdminForceUnlock
<1>8. ASSUME NEW new, TableOK(new), table' = new, UNCHANGED <<granted, answer>>
      PROVE  IInv'
  <2>1. TableOK(table)'
    BY <1>8 DEF TableOK
  <2> QED
    BY <1>8, <2>1 DEF TypeOK, TableOK
<1>9. CASE lockMaintenance
  BY <1>8, <1>9, ExpireKeeps DEF lockMaintenance
<1>10. CASE Restart
  BY <1>8, <1>10, NewTable DEF Restart
<1>11. CASE Tick
  BY <1>8, <1>11, OlderKeeps DEF Tick
<1>12. CASE UNCHANGED vars
  BY <1>8, <1>12 DEF vars
<1> QED
  BY <1>1, <1>2, <1>3, <1>4, <1>5, <1>6, <1>7, <1>9, <1>10, <1>11, <1>12 DEF Next

\* The server starts with the empty table.
LEMMA InitHolds == Init => IInv
BY NewTable DEF Init, IInv, TypeOK, TableOK

\* The lock server never leaves its types, and keeps the entries of a request in
\* the order in which they were taken, as expireOldLocks and removeEntry assume.
THEOREM TypeCorrect == Spec => []TypeOK
<1>1. IInv => TypeOK
  BY DEF IInv
<1> QED
  BY <1>1, InitHolds, NextKeeps, PTL DEF Spec

\* A writer's entry is the only one on its resource, whatever calls the server
\* serves, in whatever order, with restarts, expiry and forced releases.
THEOREM WriterExcluded == Spec => []WriterExcludesAll
<1>1. IInv => WriterExcludesAll
  BY DEF IInv, TableOK, WriterExcludesAll
<1> QED
  BY <1>1, InitHolds, NextKeeps, PTL DEF Spec

\* The uid index never has a key without an entry behind it: Refresh and
\* ForceUnlock never meet the inconsistency they guard against.
THEOREM IndexIsSound == Spec => []IndexSound
<1>1. IInv => IndexSound
  BY DEF IInv, TableOK, IndexSound
<1> QED
  BY <1>1, InitHolds, NextKeeps, PTL DEF Spec

-----------------------------------------------------------------------------
(* A release after a part of the request is gone. *)

\* A writer that was granted is within maxDeleteList: Unlock does not refuse it.
Fits == \A u \in granted : Writer(u) => Size(u) <= MaxDeleteList

\* Only LockHandler adds a writer, and Lock grants none that is too large.
LEMMA FitsKeeps == IInv /\ Fits /\ [Next]_vars => Fits'
<1> SUFFICES ASSUME IInv, Fits, [Next]_vars
             PROVE  Fits'
  OBVIOUS
<1>1. ASSUME NEW u \in UIDs, LockHandler(u)
      PROVE  Fits'
  <2>1. CASE granted' = granted
    BY <2>1 DEF Fits
  <2>2. CASE granted' # granted
    <3>1. answer'.reply /\ granted' = granted \cup {u}
      BY <1>1, <2>2 DEF LockHandler
    <3>2. Lock(table, u).reply
      BY <1>1, <3>1 DEF LockHandler, Serve
    <3>3. ~ (Size(u) > MaxDeleteList)
      BY <3>2 DEF Lock, Result
    <3>4. Size(u) <= MaxDeleteList
      BY <3>3, SizeFacts, BoundsAssumption
    <3> QED
      BY <3>1, <3>4 DEF Fits
  <2> QED
    BY <2>1, <2>2
<1>2. ASSUME NEW u \in UIDs, RLockHandler(u)
      PROVE  Fits'
  <2>1. ~ Writer(u) /\ granted' \subseteq granted \cup {u}
    BY <1>2 DEF RLockHandler
  <2> QED
    BY <2>1 DEF Fits
<1>3. ASSUME UNCHANGED granted
      PROVE  Fits'
  BY <1>3 DEF Fits
<1> QED
  BY <1>1, <1>2, <1>3 DEF Next, vars, UnlockHandler, RUnlockHandler, RefreshHandler,
     ForceUnlockHandler, AdminForceUnlock, lockMaintenance, Restart, Tick

\* What a writer's entry leaves behind when it goes: nothing, because it is the
\* only one.
LEMMA UnlockFrees ==
    ASSUME NEW st, TableOK(st), NEW u \in UIDs, Writer(u), Size(u) <= MaxDeleteList,
           NEW r \in ResourcesOf(u), NEW v \in UIDs
    PROVE  LET new == Unlock(st, u).st
           IN  IF v = u THEN ~ Holds(new, u, r) ELSE new.lockMap[r][v] = st.lockMap[r][v]
<1> DEFINE open == {s \in ResourcesOf(u) : canTakeUnlock(st, s)}
<1>0. r \in Resources /\ open \subseteq Resources /\ st \in LockTable
  BY SizeFacts DEF TableOK
<1>1. Unlock(st, u).st = removeEntry(st, u, open)
  <2>1. ~ (Size(u) > MaxDeleteList)
    BY SizeFacts, BoundsAssumption
  <2> QED
    BY <2>1 DEF Unlock, Result
<1> HIDE DEF open
<1>2. Unlock(st, u).st.lockMap[r][v] =
        IF v = u /\ r \in open /\ Holds(st, u, r)
        THEN Tail(st.lockMap[r][v]) ELSE st.lockMap[r][v]
  BY <1>0, <1>1, RemoveCells
<1>3. ASSUME Holds(st, u, r)
      PROVE  r \in open /\ Len(st.lockMap[r][u]) = 1
  <2>1. Len(st.lockMap[r][u]) = 1 /\ \A w \in UIDs \ {u} : ~ Holds(st, w, r)
    BY <1>0, <1>3 DEF TableOK, WriterAlone
  <2> QED
    BY <2>1 DEF open, canTakeUnlock, isWriteLock
<1>4. ASSUME Holds(st, u, r)
      PROVE  Tail(st.lockMap[r][u]) = <<>>
  <2>1. st.lockMap[r][u] \in Seq(Ages) /\ st.lockMap[r][u] # <<>>
    BY <1>0, <1>4, CellFacts DEF Holds
  <2>2. Tail(st.lockMap[r][u]) \in Seq(Ages) /\ Len(Tail(st.lockMap[r][u])) = 0
    BY <1>3, <1>4, <2>1, HeadTailProperties
  <2> QED
    BY <2>2, EmptySeq
<1>5. CASE v = u
  BY <1>2, <1>3, <1>4, <1>5 DEF Holds
<1>6. CASE v # u
  BY <1>2, <1>6
<1> QED
  BY <1>5, <1>6

\* Unlock gives back all that is left of a bulk delete's locks, and nothing of
\* anybody else's, after any admin unlocks, expiry, restarts and later grants.
THEOREM UnlockFreesAll == Spec => UnlockFreesTheRest
<1> DEFINE Step == \A u \in UIDs : UnlockHandler(u) =>
                     \A r \in ResourcesOf(u), v \in UIDs :
                        IF v = u THEN ~ Holds(table', u, r)
                                 ELSE table'.lockMap[r][v] = table.lockMap[r][v]
<1>1. Init => Fits
  BY DEF Init, Fits
<1>2. IInv /\ Fits => Step
  <2> SUFFICES ASSUME IInv, Fits, NEW u \in UIDs, UnlockHandler(u),
                      NEW r \in ResourcesOf(u), NEW v \in UIDs
               PROVE  IF v = u THEN ~ Holds(table', u, r)
                               ELSE table'.lockMap[r][v] = table.lockMap[r][v]
    OBVIOUS
  <2>1. Writer(u) /\ Size(u) <= MaxDeleteList /\ table' = Unlock(table, u).st
    BY DEF UnlockHandler, Serve, Fits
  <2>2. TableOK(table)
    BY DEF IInv
  <2> QED
    BY <2>1, <2>2, UnlockFrees
<1>3. IInv /\ Fits /\ [Next]_vars => [Step]_vars
  BY <1>2
<1> QED
  BY <1>1, <1>3, InitHolds, NextKeeps, FitsKeeps, PTL DEF Spec, UnlockFreesTheRest
=============================================================================
