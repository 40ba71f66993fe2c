------------------------ MODULE ErasureObjectProofs ------------------------
(***************************************************************************)
(* A get never goes back: for every number of drives, every parity and any *)
(* run of puts, deletes, tag writes, heals, purges and faults, the version *)
(* a get returns is one that no acknowledged change came after.            *)
(*                                                                         *)
(* The reason is that a version that is not current is on fewer drives     *)
(* than it has data blocks.  An acknowledged put or delete leaves it on no *)
(* more than the drives outside a write quorum; everything else only       *)
(* takes it off drives, except a heal, and a heal brings back only a       *)
(* version that is on as many drives as it has data blocks.                *)
(***************************************************************************)
EXTENDS ErasureObject, FiniteSetTheorems, TLAPS

Copies(v) == {d \in Drives : meta[d] = v}

\* Superseded versions are below their read quorum.  The first two conjuncts
\* are the part of TypeOK that the argument uses.
Superseded ==
    /\ parity \in [Versions -> 0 .. N \div 2]
    /\ puts \in Nat
    /\ \A u \in Versions \ Current : Cardinality(Copies(u)) < DataBlocks(u)

-----------------------------------------------------------------------------
\* A set has finitely many drives, N of them (newErasureSets).
LEMMA DrivesFinite ==
    /\ IsFiniteSet(Drives)
    /\ Cardinality(Drives) = N
    /\ \A S \in SUBSET Drives : IsFiniteSet(S) /\ Cardinality(S) \in 0 .. N
<1>1. IsFiniteSet(Drives) /\ Cardinality(Drives) = N
  <2>1. N \in Nat /\ 1 \in Int /\ N \in Int
    BY ErasureAssumption DEF ErasureAssumption
  <2>2. IsFiniteSet(1 .. N) /\ Cardinality(1 .. N) = IF 1 > N THEN 0 ELSE N - 1 + 1
    BY <2>1, FS_Interval
  <2> QED BY <2>1, <2>2 DEF Drives
<1>2. ASSUME NEW S \in SUBSET Drives PROVE IsFiniteSet(S) /\ Cardinality(S) \in 0 .. N
  BY <1>1, FS_Subset, FS_CardinalityType, ErasureAssumption DEF ErasureAssumption
<1> QED BY <1>1, <1>2

\* Fewer drives, fewer copies (every operation that only removes).
LEMMA FewerDrives ==
    ASSUME NEW S \in SUBSET Drives, NEW T \in SUBSET S
    PROVE  Cardinality(T) <= Cardinality(S)
BY DrivesFinite, FS_Subset

\* The drives outside a write quorum are too few for any version's data: the
\* write quorum is more than half of the drives, the parity at most half
\* (writeQuorum of putObject and DeleteObject).
LEMMA OutsideWriteQuorum ==
    ASSUME NEW p \in 0 .. N \div 2, NEW q \in 0 .. N \div 2,
           NEW ok \in SUBSET Drives, Cardinality(ok) >= WriteQuorum(p),
           NEW S \in SUBSET (Drives \ ok)
    PROVE  Cardinality(S) < N - q
<1>1. Cardinality(Drives \ ok) = N - Cardinality(ok)
  <2>1. Drives \cap ok = ok
    OBVIOUS
  <2> QED BY <2>1, DrivesFinite, FS_Difference
<1>2. Cardinality(S) <= Cardinality(Drives \ ok)
  BY FewerDrives
<1>3. Cardinality(S) \in Nat /\ Cardinality(ok) \in Nat
  BY DrivesFinite
<1>4. WriteQuorum(p) > q
  BY ErasureAssumption DEF ErasureAssumption, WriteQuorum
<1> QED BY <1>1, <1>2, <1>3, <1>4, ErasureAssumption DEF ErasureAssumption, WriteQuorum

\* A step that keeps the parities, brings no version back that is not current
\* and makes none less current (everything but acknowledged changes).
LEMMA BringsNothingBack ==
    ASSUME Superseded, UNCHANGED <<parity, puts>>, Current \subseteq Current',
           \A u \in Versions \ Current' : Copies(u)' \subseteq Copies(u)
    PROVE  Superseded'
<1> SUFFICES ASSUME NEW u \in Versions \ Current'
             PROVE  Cardinality(Copies(u)') < DataBlocks(u)'
  BY DEF Superseded
<1>1. Copies(u)' \subseteq Copies(u) /\ Copies(u) \subseteq Drives
  BY DEF Copies
<1>2. Cardinality(Copies(u)') <= Cardinality(Copies(u))
  BY <1>1, FewerDrives
<1>3. Cardinality(Copies(u)) \in Nat /\ Cardinality(Copies(u)') \in Nat
  BY <1>1, DrivesFinite
<1>4. DataBlocks(u)' = DataBlocks(u) /\ DataBlocks(u) \in Int
  BY ErasureAssumption DEF ErasureAssumption, Superseded, DataBlocks
<1> QED BY <1>2, <1>3, <1>4 DEF Superseded

\* Removing the object from some drives brings nothing back (deleteObjectVersion
\* of a delete, a purge or a wiped drive).
LEMMA RemovesCopies ==
    ASSUME NEW S, deleteObjectVersion(S), NEW u \in Versions
    PROVE  Copies(u)' \subseteq Copies(u) /\ Copies(u)' \cap S = {}
BY DEF deleteObjectVersion, Copies, notFound, Versions

\* A version that is on as many drives as it has data blocks is current: what a
\* get decodes, and what a heal restores from (erasure.Decode, erasure.Heal).
LEMMA EnoughIsCurrent ==
    ASSUME Superseded, NEW v \in Versions, NEW S \in SUBSET Copies(v),
           Cardinality(S) >= DataBlocks(v)
    PROVE  v \in Current
<1>1. Copies(v) \subseteq Drives
  BY DEF Copies
<1>2. Cardinality(S) <= Cardinality(Copies(v))
  BY <1>1, FewerDrives
<1>3. Cardinality(S) \in Nat /\ Cardinality(Copies(v)) \in Nat
  BY <1>1, DrivesFinite
<1>4. DataBlocks(v) \in Int
  BY ErasureAssumption DEF ErasureAssumption, Superseded, DataBlocks
<1> QED BY <1>2, <1>3, <1>4 DEF Superseded

\* The rule on the times of xl.meta only drops drives.
LEMMA AcceptableDrops ==
    ASSUME NEW A, NEW S, NEW v
    PROVE  AcceptableDelta(A, S, v) \subseteq S
BY DEF AcceptableDelta

\* A drive that a heal reads from has the version that the heal restores
\* (disksWithAllParts), and its shard.
LEMMA ReadersHaveVersion ==
    ASSUME NEW up \in SUBSET Drives, NEW deep \in BOOLEAN, ~ HealPlan(up, deep).purge
    PROVE  /\ HealPlan(up, deep).version \in Versions
           /\ HealPlan(up, deep).readers \in SUBSET Copies(HealPlan(up, deep).version)
<1> DEFINE found == readAllFileInfo(meta, up)
           v == objectQuorumFromMeta(meta, up, found)
           online == Holding(meta, found, v)
           right == AcceptableDelta(found, online, v)
           available == {d \in right : part[d] = "ok" \/ (part[d] = "rot" /\ ~deep)}
<1>1. right \subseteq online
  BY AcceptableDrops
<1>2. online \subseteq Copies(v)
  BY DEF Holding, Copies, readAllFileInfo
<1>3. Holding(part, available, "ok") \subseteq right
  BY DEF Holding
<1>4. v \in Versions /\ HealPlan(up, deep).version = v
      /\ HealPlan(up, deep).readers = Holding(part, available, "ok")
  <2>1. HealPlan(up, deep) =
          IF v \notin Versions
          THEN [version |-> v, valid |-> found, errs |-> up \ found, purge |-> TRUE]
          ELSE IF Cardinality(available) < ReadQuorum(v)
          THEN [version |-> v, valid |-> found \ (online \ available),
                errs |-> (up \ found) \cup (online \ available), purge |-> TRUE]
          ELSE [version |-> v, tags |-> tags[First(online)], purge |-> FALSE,
                readers |-> Holding(part, available, "ok"),
                shardFix |-> right # online,
                outDated |-> (up \ available) \cup {d \in available : tags[d] # tags[First(online)]}]
    BY DEF HealPlan
  <2> HIDE DEF found, v, online, right, available
  <2> QED BY <2>1
<1> HIDE DEF found, v, online, right, available
<1> QED BY <1>1, <1>2, <1>3, <1>4

\* A rename puts its version in place of others, or removes them (renameData).
LEMMA RenameOnly ==
    ASSUME NEW ok, NEW lost, NEW v, NEW t, RenameData(ok, lost, v, t),
           NEW u \in Versions, u # v
    PROVE  Copies(u)' \subseteq Copies(u) \ ok
BY DEF RenameData, Copies, notFound, Versions

\* A put that is acknowledged supersedes every other version (putObject).
LEMMA PutSupersedes ==
    ASSUME Superseded, NEW class \in Parities, NEW offline \in 0 .. MaxDown,
           NEW ok \in SUBSET Drives, PutObject(class, offline, ok)
    PROVE  Superseded'
<1> DEFINE v == puts + 1
           p == parityDrives(class, offline)
<1>1. p \in 0 .. N \div 2 /\ v \in Versions /\ puts' = v /\ v \in Nat
  BY ErasureAssumption DEF ErasureAssumption, PutObject, parityDrives, Superseded, Versions
<1>2. parity' = [parity EXCEPT ![v] = p]
  BY DEF PutObject
<1> HIDE DEF p, v
<1>3. parity' \in [Versions -> 0 .. N \div 2] /\ puts' \in Nat
  BY <1>1, <1>2 DEF Superseded
<1>4. v \in Current'
  BY <1>1 DEF PutObject, Current, v
<1>5. \A u \in Versions \ {v} : Copies(u)' \subseteq Copies(u) \ ok
  <2>1. PICK lost \in SUBSET (Drives \ ok) : RenameData(ok, lost, v, 0)
    BY DEF PutObject, v
  <2> QED BY <2>1, RenameOnly
<1>6. ASSUME NEW u \in Versions \ Current'
      PROVE  Cardinality(Copies(u)') < DataBlocks(u)'
  <2>1. u # v /\ DataBlocks(u)' = DataBlocks(u) /\ parity[u] \in 0 .. N \div 2
    BY <1>1, <1>2, <1>4, <1>6 DEF DataBlocks, Superseded
  <2>2. Copies(u)' \subseteq Copies(u) \ ok /\ Copies(u) \subseteq Drives
    BY <1>5, <2>1 DEF Copies
  <2>3. CASE Cardinality(ok) >= WriteQuorum(p)
    BY <1>1, <2>1, <2>2, <2>3, OutsideWriteQuorum DEF DataBlocks
  <2>4. CASE Current \subseteq Current'
    <3>1. Cardinality(Copies(u)') <= Cardinality(Copies(u))
      BY <2>2, FewerDrives
    <3>2. Cardinality(Copies(u)) \in Nat /\ Cardinality(Copies(u)') \in Nat
      BY <2>2, DrivesFinite
    <3>3. DataBlocks(u) \in Int /\ Cardinality(Copies(u)) < DataBlocks(u)
      BY <2>1, <2>4, <1>6, ErasureAssumption DEF ErasureAssumption, Superseded, DataBlocks
    <3> QED BY <2>1, <3>1, <3>2, <3>3
  <2> QED BY <2>3, <2>4 DEF PutObject, Acknowledged, NotAcknowledged, Current, p
<1> QED BY <1>3, <1>6 DEF Superseded

\* So does a delete (DeleteObject).
LEMMA DeleteSupersedes ==
    ASSUME Superseded, NEW up \in SUBSET Drives, DeleteObject(up)
    PROVE  Superseded'
<1> DEFINE v == GetLatest(up)
<1>1. v \in Versions /\ UNCHANGED <<parity, puts>>
  BY DEF DeleteObject, coding
<1>2. PICK ok \in SUBSET Drives :
        /\ deleteObjectVersion(ok)
        /\ \/ Cardinality(readAllFileInfo(meta, ok)) >= WriteQuorum(parity[v])
           \/ Current \subseteq Current'
  BY DEF DeleteObject, Acknowledged, NotAcknowledged, Current
<1> HIDE DEF v
<1>3. CASE Current \subseteq Current'
  BY <1>1, <1>2, <1>3, RemovesCopies, BringsNothingBack
<1>4. CASE Cardinality(readAllFileInfo(meta, ok)) >= WriteQuorum(parity[v])
  <2> DEFINE removed == readAllFileInfo(meta, ok)
  <2>1. removed \subseteq ok /\ removed \subseteq Drives
    BY DEF readAllFileInfo
  <2>2. ASSUME NEW u \in Versions \ Current'
        PROVE  Cardinality(Copies(u)') < DataBlocks(u)'
    <3>1. Copies(u)' \subseteq Drives \ removed
      BY <1>2, <2>1, RemovesCopies DEF Copies
    <3>2. parity[u] \in 0 .. N \div 2 /\ parity[v] \in 0 .. N \div 2
      BY <1>1 DEF Superseded
    <3>3. Cardinality(Copies(u)') < N - parity[u]
      BY <1>4, <2>1, <3>1, <3>2, OutsideWriteQuorum
    <3> QED BY <1>1, <3>3 DEF DataBlocks
  <2> QED BY <1>1, <2>2 DEF Superseded
<1> QED BY <1>2, <1>3, <1>4

\* A heal brings back only what is current (healObject).
LEMMA HealKeepsSuperseded ==
    ASSUME Superseded, NEW up \in SUBSET Drives, NEW deep \in BOOLEAN, healObject(up, deep)
    PROVE  Superseded'
<1> DEFINE plan == HealPlan(up, deep)
<1>1. CASE purgeObjectDangling(up, plan)
  <2>1. PICK S \in SUBSET up : deleteObjectVersion(S)
    BY <1>1 DEF purgeObjectDangling, deleteIfDangling
  <2>2. UNCHANGED <<parity, puts>> /\ Current' = Current
    BY <1>1 DEF purgeObjectDangling, coding, counters, history, Current
  <2> HIDE DEF plan
  <2> QED BY <2>1, <2>2, RemovesCopies, BringsNothingBack
<1>2. ASSUME CanRestore(plan), NEW ok \in SUBSET plan.outDated,
             \/ \E fresh \in SUBSET up : Restore(up, plan, ok, fresh)
             \/ \E d \in plan.outDated \ ok : RestoreFails(plan, ok, d)
      PROVE  Superseded'
  <2>1. plan.version \in Versions /\ plan.readers \in SUBSET Copies(plan.version)
    BY <1>2, ReadersHaveVersion DEF CanRestore
  <2> HIDE DEF plan
  <2>2. plan.version \in Current
    BY <1>2, <2>1, EnoughIsCurrent DEF CanRestore
  <2>3. UNCHANGED <<parity, puts>> /\ Current' = Current
    BY <1>2 DEF Restore, RestoreFails, coding, counters, history, Current
  <2>4. ASSUME NEW u \in Versions, u # plan.version PROVE Copies(u)' \subseteq Copies(u)
    <3>1. CASE meta' = [d \in Drives |-> IF d \in ok THEN plan.version ELSE meta[d]]
      BY <2>4, <3>1 DEF Copies
    <3>2. CASE \E d \in plan.outDated \ ok : RenameData(ok, {d}, plan.version, plan.tags)
      BY <2>4, <3>2, RenameOnly
    <3> QED BY <1>2, <3>1, <3>2 DEF Restore, RestoreFails
  <2> QED BY <2>2, <2>3, <2>4, BringsNothingBack
<1> QED BY <1>1, <1>2 DEF healObject

\* Every step keeps superseded versions below their read quorum.
LEMMA StepKeepsSuperseded ==
    ASSUME Superseded, [Next]_vars
    PROVE  Superseded'
<1> USE DEF Answering
<1>1. CASE \E class \in Parities, offline \in 0 .. MaxDown, ok \in SUBSET Drives :
              PutObject(class, offline, ok)
  BY <1>1, PutSupersedes
<1>2. ASSUME NEW up \in Answering, PurgeOnRead(up) PROVE Superseded'
  <2>1. PICK S \in SUBSET up : deleteObjectVersion(S)
    BY <1>2 DEF PurgeOnRead, deleteIfDangling
  <2>2. UNCHANGED <<parity, puts>> /\ Current' = Current
    BY <1>2 DEF PurgeOnRead, coding, counters, history, Current
  <2> QED BY <2>1, <2>2, RemovesCopies, BringsNothingBack
<1>3. ASSUME NEW up \in Answering, DeleteObject(up) PROVE Superseded'
  BY <1>3, DeleteSupersedes
<1>4. ASSUME NEW up \in Answering, PutObjectTags(up) PROVE Superseded'
  <2>1. UNCHANGED <<meta, parity, puts>> /\ Current' = Current
    BY <1>4 DEF PutObjectTags, UpdateMetadata, coding, history, Current
  <2> QED BY <2>1, BringsNothingBack DEF Copies
<1>5. ASSUME NEW up \in Answering, NEW deep \in BOOLEAN, healObject(up, deep) PROVE Superseded'
  BY <1>5, HealKeepsSuperseded
<1>6. ASSUME NEW d \in Drives, Wipe(d) PROVE Superseded'
  <2>1. UNCHANGED <<parity, puts>> /\ Current' = Current /\ deleteObjectVersion({d})
    BY <1>6 DEF Wipe, coding, history, Current
  <2> QED BY <2>1, RemovesCopies, BringsNothingBack
<1>7. ASSUME NEW d \in Drives, NEW kind \in {"gone", "rot"}, Damage(d, kind) PROVE Superseded'
  <2>1. UNCHANGED <<meta, parity, puts>> /\ Current' = Current
    BY <1>7 DEF Damage, coding, history, Current
  <2> QED BY <2>1, BringsNothingBack DEF Copies
<1>8. CASE Tick \/ UNCHANGED vars
  <2>1. UNCHANGED <<meta, parity, puts>> /\ Current' = Current
    BY <1>8 DEF Tick, vars, driveVars, coding, counters, history, Current
  <2> QED BY <2>1, BringsNothingBack DEF Copies
<1> QED BY <1>1, <1>2, <1>3, <1>4, <1>5, <1>6, <1>7, <1>8 DEF Next

\* A get never returns a version that an acknowledged put or delete came after,
\* for every number of drives, parity and number of faults (GetObjectNInfo
\* through getObjectFileInfo).
THEOREM GetNeverGoesBack == Spec => []FoundIsCurrent
<1>1. Init => Superseded
  <2> SUFFICES ASSUME Init PROVE Superseded
    OBVIOUS
  <2>1. parity \in [Versions -> 0 .. N \div 2] /\ puts \in Nat
    BY ErasureAssumption DEF ErasureAssumption, Init
  <2>2. ASSUME NEW u \in Versions PROVE Cardinality(Copies(u)) < DataBlocks(u)
    <3>1. Copies(u) = {}
      BY DEF Init, Copies, Versions, notFound
    <3>2. Cardinality({}) = 0
      BY FS_EmptySet
    <3> QED BY <2>1, <3>1, <3>2, ErasureAssumption DEF ErasureAssumption, DataBlocks
  <2> QED BY <2>1, <2>2 DEF Superseded
<1>2. Superseded /\ [Next]_vars => Superseded'
  BY StepKeepsSuperseded
<1>3. Superseded => FoundIsCurrent
  <2> SUFFICES ASSUME Superseded, NEW up \in Answering, GetObject(up) \in Versions
               PROVE  GetObject(up) \in Current
    BY DEF FoundIsCurrent
  <2> DEFINE v == GetLatest(up)
             shards == AcceptableDelta(Holding(meta, up, v), Holding(meta, up, v), v)
             good == Holding(part, shards, "ok")
  <2>1. GetObject(up) = v /\ ~ (Cardinality(good) < DataBlocks(v))
    BY DEF GetObject, Versions, noQuorum
  <2>2. good \subseteq shards /\ shards \subseteq Holding(meta, up, v)
    BY AcceptableDrops DEF Holding
  <2>3. Holding(meta, up, v) \subseteq Copies(v) /\ Copies(v) \subseteq Drives
    BY DEF Holding, Copies, Answering
  <2> HIDE DEF v, shards, good
  <2>4. Cardinality(good) \in Nat
    BY <2>2, <2>3, DrivesFinite
  <2>5. v \in Versions
    BY <2>1
  <2>6. DataBlocks(v) \in Int
    BY <2>5, ErasureAssumption DEF ErasureAssumption, Superseded, DataBlocks
  <2> QED BY <2>1, <2>2, <2>3, <2>4, <2>5, <2>6, EnoughIsCurrent
<1> QED BY <1>1, <1>2, <1>3, PTL DEF Spec
=============================================================================
