--------------------------- MODULE ErasureObject ---------------------------
(***************************************************************************)
(* One object of an unversioned bucket on the drives of an erasure set     *)
(* (cmd/erasure-object.go, cmd/erasure-healing.go and the helpers of the   *)
(* two): put, get, delete, tags and heal.                                  *)
(*                                                                         *)
(* Every operation holds the object's lock (NSLock) while it reads or      *)
(* changes xl.meta, so operations follow each other; what an operation     *)
(* meets is which drives answer it, and a server may stop in the middle    *)
(* of one.  Drives lose the object, lose its data or let it rot.           *)
(*                                                                         *)
(* A version of the object is told from the others by its modification     *)
(* time; it has data, so that a get reads shards.  The drives are numbered *)
(* in the order in which the code looks at their answers, which decides    *)
(* several ties.                                                           *)
(***************************************************************************)
EXTENDS Integers, FiniteSets

CONSTANTS
    N,              \* drives of the set
    DefaultParities,\* what a set's default parity may be (er.defaultParityCount)
    Parities,       \* parity blocks of the storage classes in use
    FaultKinds,     \* what befalls drives: "wipe", "gone", "rot", "rename"
    MaxDown,        \* bound: drives that do not answer an operation
    MaxPuts,        \* bound: puts
    MaxTags,        \* bound: writes of tags
    MaxDeletes,     \* bound: deletes
    MaxTorn,        \* bound: puts, tag writes and deletes that fail half done
    MaxFaults,      \* bound: faults of drives
    MaxTicks        \* bound: times the clock moves by a minute or more

ASSUME ErasureAssumption ==
    /\ N \in Nat /\ N >= 2
    /\ Parities \subseteq 0 .. N \div 2 /\ DefaultParities \subseteq 0 .. N \div 2
    /\ FaultKinds \subseteq {"wipe", "gone", "rot", "rename"}
    /\ {MaxDown, MaxPuts, MaxTags, MaxDeletes, MaxTorn, MaxFaults, MaxTicks} \subseteq Nat

Drives == 1 .. N
Versions == 1 .. MaxPuts   \* modification times
notFound == 0              \* errFileNotFound
noQuorum == -1             \* errErasureReadQuorum

VARIABLES
    meta,     \* meta[d]: the version in xl.meta of drive d, notFound if there is none
    part,     \* part[d]: the version's shard on drive d: "ok", "gone" or "rot"
    tags,     \* tags[d]: the tags in xl.meta of drive d
    stamp,    \* stamp[d]: the time at which xl.meta of drive d was written
    defaultParity,   \* of the set; the server's configuration, it does not change
    parity,   \* parity[v]: the parity blocks of version v
    now,      \* the clock, in minutes
    puts, tagWrites, deletes, torn, faults,   \* how many there were
    last,     \* history: the last acknowledged change, notFound for a delete
    maybe     \* history: the changes begun after it and not acknowledged

driveVars == <<meta, part, tags, stamp>>
coding == <<defaultParity, parity>>
counters == <<puts, tagWrites, deletes, torn, faults>>
history == <<last, maybe>>
vars == <<driveVars, coding, now, counters, history>>

TypeOK ==
    /\ meta \in [Drives -> {notFound} \cup Versions]
    /\ part \in [Drives -> {"ok", "gone", "rot"}]
    /\ tags \in [Drives -> 0 .. MaxTags]
    /\ stamp \in [Drives -> 0 .. MaxTicks]
    /\ defaultParity \in DefaultParities
    /\ parity \in [Versions -> 0 .. N \div 2]
    /\ now \in 0 .. MaxTicks
    /\ puts \in 0 .. MaxPuts /\ tagWrites \in 0 .. MaxTags /\ deletes \in 0 .. MaxDeletes
    /\ torn \in 0 .. MaxTorn /\ faults \in 0 .. MaxFaults
    /\ last \in {notFound} \cup Versions /\ maybe \subseteq {notFound} \cup Versions
    /\ \A d \in Drives : meta[d] <= puts

Init ==
    /\ meta = [d \in Drives |-> notFound]
    /\ part = [d \in Drives |-> "ok"]
    /\ tags = [d \in Drives |-> 0]
    /\ stamp = [d \in Drives |-> 0]
    /\ defaultParity \in DefaultParities
    /\ parity = [v \in Versions |-> 0]
    /\ now = 0
    /\ puts = 0 /\ tagWrites = 0 /\ deletes = 0 /\ torn = 0 /\ faults = 0
    /\ last = notFound /\ maybe = {}
-----------------------------------------------------------------------------
(* What the answers of the drives amount to.  m is meta, or meta as it     *)
(* will be; S a set of drives.                                             *)

DataBlocks(v) == N - parity[v]

Holding(m, S, v) == {d \in S : m[d] = v}

MostCommon(f, S) ==
    CHOOSE v \in {f[d] : d \in S} : \A u \in {f[d] : d \in S} :
        \/ Cardinality(Holding(f, S, u)) < Cardinality(Holding(f, S, v))
        \/ Cardinality(Holding(f, S, u)) = Cardinality(Holding(f, S, v)) /\ u <= v

First(S) == CHOOSE d \in S : \A c \in S : d <= c

\* The drives that answered with an xl.meta.
readAllFileInfo(m, up) == {d \in up : m[d] # notFound}

\* The version all drives are to agree on: the newest, unless an answer is
\* older than one before it; then the answers are counted.
mergeXLV2Versions(m, S) ==
    LET newest == CHOOSE v \in {m[d] : d \in S} : \A d \in S : m[d] <= v
        older == \E c, d \in S : c < d /\ m[c] > m[d]
        latest == IF older THEN MostCommon(m, S) ELSE newest
    IN S # {} /\ Cardinality(Holding(m, S, latest)) >= (N + 1) \div 2

\* Without such a version every drive counts as one without the object.
readAllXL(m, up) ==
    LET S == readAllFileInfo(m, up)
    IN IF mergeXLV2Versions(m, S) THEN S ELSE {}

\* Mutant of getLatestFileInfo: off by one.
getLatestFileInfo_more(m, up, found) ==
    LET have == Cardinality(found)
        miss == Cardinality(up \ found)
        v == MostCommon(m, found)
    IN IF have < N \div 2 /\ miss < N \div 2 THEN noQuorum
       ELSE IF miss > have THEN notFound
       ELSE IF Cardinality(Holding(m, found, v)) <= DataBlocks(v) THEN noQuorum
       ELSE v

\* The version to use, from the drives in found; the others in up said
\* that they have none.
getLatestFileInfo(m, up, found) ==
    LET have == Cardinality(found)
        miss == Cardinality(up \ found)
        v == MostCommon(m, found)
    IN IF have < N \div 2 /\ miss < N \div 2 THEN noQuorum
       ELSE IF miss > have THEN notFound
       ELSE IF Cardinality(Holding(m, found, v)) < DataBlocks(v) THEN noQuorum
       ELSE v

\* The version an operation settles on, or why it does not.  With a default
\* parity of 0 objectQuorumFromMeta asks for one drive, and the answers that
\* there is no object do not count.
objectQuorumFromMeta(m, up, found) ==
    IF defaultParity > 0 THEN getLatestFileInfo(m, up, found)
    ELSE IF found = {} THEN noQuorum ELSE MostCommon(m, found)

ReadQuorum(v) == IF defaultParity > 0 THEN DataBlocks(v) ELSE 1

\* The drives in S whose xl.meta was written when most of those in metaArr
\* were: the others' shards are taken for wrong ones.
AcceptableDelta(metaArr, S, v) ==
    LET t == MostCommon(stamp, metaArr)
    IN IF Cardinality(Holding(stamp, metaArr, t)) >= DataBlocks(v)
       THEN {d \in S : stamp[d] = t} ELSE S

\* Mutant of isObjectDangling: off by one.
isObjectDangling_equal(valid, errs) == valid # {} /\ errs >= parity[meta[First(valid)]]

\* valid: the drives with a usable xl.meta; errs: how many lack it, or the data.
isObjectDangling(valid, errs) == valid # {} /\ errs > parity[meta[First(valid)]]
-----------------------------------------------------------------------------
(* What a call to the drives in S leaves on them. *)

\* On the drives in lost the last rename fails, and xl.meta is deleted.
RenameData(S, lost, v, t) ==
    /\ lost # {} => "rename" \in FaultKinds
    /\ faults + Cardinality(lost) <= MaxFaults /\ faults' = faults + Cardinality(lost)
    /\ meta' = [d \in Drives |-> IF d \in S THEN v ELSE IF d \in lost THEN notFound ELSE meta[d]]
    /\ part' = [d \in Drives |-> IF d \in S \cup lost THEN "ok" ELSE part[d]]
    /\ tags' = [d \in Drives |-> IF d \in S THEN t ELSE IF d \in lost THEN 0 ELSE tags[d]]
    /\ stamp' = [d \in Drives |-> IF d \in S THEN now ELSE IF d \in lost THEN 0 ELSE stamp[d]]

UpdateMetadata(S, t) ==
    /\ tags' = [d \in Drives |-> IF d \in S THEN t ELSE tags[d]]
    /\ stamp' = [d \in Drives |-> IF d \in S THEN now ELSE stamp[d]]
    /\ UNCHANGED <<meta, part>>

deleteObjectVersion(S) ==
    /\ meta' = [d \in Drives |-> IF d \in S THEN notFound ELSE meta[d]]
    /\ part' = [d \in Drives |-> IF d \in S THEN "ok" ELSE part[d]]
    /\ tags' = [d \in Drives |-> IF d \in S THEN 0 ELSE tags[d]]
    /\ stamp' = [d \in Drives |-> IF d \in S THEN 0 ELSE stamp[d]]

deleteIfDangling(up, valid, errs) ==
    /\ isObjectDangling(valid, errs)
    /\ \E S \in SUBSET up : deleteObjectVersion(S)

Answering == {up \in SUBSET Drives : N - Cardinality(up) <= MaxDown}

\* Mutant of WriteQuorum: as many drives as there are data blocks.
WriteQuorum_data(p) == N - p

\* defaultWQuorum, and the write quorum of putObject and objectQuorumFromMeta.
WriteQuorum(p) == IF N - p = p THEN N - p + 1 ELSE N - p

\* A change that got through on at least enough drives is acknowledged, or
\* the server stops before it says so; one that did not is not undone.
Acknowledged(through, enough) == Cardinality(through) >= enough /\ UNCHANGED torn
NotAcknowledged(through) == through # {} /\ torn < MaxTorn /\ torn' = torn + 1
-----------------------------------------------------------------------------
(* The operations.  up: the drives that answer when it reads; ok: those its *)
(* changes get through on.                                                  *)

\* getObjectFileInfo: the answers are counted once more, against ReadQuorum.
GetLatest(up) ==
    LET found == readAllXL(meta, up)
    IN IF Cardinality(up \ found) > Cardinality(found) /\ defaultParity = 0 THEN notFound
       ELSE objectQuorumFromMeta(meta, up, found)

\* The outcome of a get: a version, notFound or noQuorum.
GetObject(up) ==
    LET v == GetLatest(up)
        S == Holding(meta, up, v)
        shards == AcceptableDelta(S, S, v)
    IN IF v \in Versions /\ Cardinality(Holding(part, shards, "ok")) < DataBlocks(v)
       THEN noQuorum ELSE v

\* An operation that finds too few drives with the object may remove it.
PurgeOnRead(up) ==
    LET found == readAllXL(meta, up)
    IN /\ objectQuorumFromMeta(meta, up, found) = noQuorum
       /\ deleteIfDangling(up, found, Cardinality(up \ found))
       /\ UNCHANGED <<coding, now, counters, history>>

\* Mutant of parityDrives: no limit.
parityDrives_unlimited(class, offline) == class + offline

\* Each drive that is offline when a put begins raises its parity, up to a half.
parityDrives(class, offline) ==
    IF class + offline >= N \div 2 THEN N \div 2 ELSE class + offline

PutObject(class, offline, ok) ==
    LET v == puts + 1
        p == parityDrives(class, offline)
    IN /\ puts < MaxPuts
       /\ puts' = v
       /\ parity' = [parity EXCEPT ![v] = p]
       /\ \E lost \in SUBSET (Drives \ ok) : RenameData(ok, lost, v, 0)
       /\ \/ /\ Acknowledged(ok, WriteQuorum(p))
             /\ last' = v /\ maybe' = {}
          \/ /\ NotAcknowledged(ok)
             /\ maybe' = maybe \cup {v} /\ UNCHANGED last
       /\ UNCHANGED <<defaultParity, now, tagWrites, deletes>>

DeleteObject(up) ==
    LET v == GetLatest(up)
    IN /\ deletes < MaxDeletes
       /\ deletes' = deletes + 1
       /\ v \in Versions
       /\ \E ok \in SUBSET Drives :
            LET removed == readAllFileInfo(meta, ok)
            IN /\ deleteObjectVersion(ok)
               /\ \/ /\ Acknowledged(removed, WriteQuorum(parity[v]))
                     /\ last' = notFound /\ maybe' = {}
                  \/ /\ NotAcknowledged(removed)
                     /\ maybe' = maybe \cup {notFound} /\ UNCHANGED last
       /\ UNCHANGED <<coding, now, puts, tagWrites, faults>>

PutObjectTags(up) ==
    LET v == objectQuorumFromMeta(meta, up, readAllXL(meta, up))
        t == tagWrites + 1
    IN /\ tagWrites < MaxTags
       /\ tagWrites' = t
       /\ v \in Versions
       /\ \E ok \in SUBSET Holding(meta, up, v) :
            /\ UpdateMetadata(ok, t)
            /\ Acknowledged(ok, WriteQuorum(defaultParity)) \/ NotAcknowledged(ok)
       /\ UNCHANGED <<coding, now, puts, deletes, faults, history>>
-----------------------------------------------------------------------------
(* Healing. *)

\* What a heal makes of the drives' answers.  deep: it verifies the data, and
\* does not only look for it.
HealPlan(up, deep) ==
    LET found == readAllFileInfo(meta, up)
        v == objectQuorumFromMeta(meta, up, found)
        online == Holding(meta, found, v)
        right == AcceptableDelta(found, online, v)
        available == {d \in right : part[d] = "ok" \/ (part[d] = "rot" /\ ~deep)}
        latest == tags[First(online)]
    IN IF v \notin Versions
       THEN [version |-> v, valid |-> found, errs |-> up \ found, purge |-> TRUE]
       ELSE IF Cardinality(available) < ReadQuorum(v)
       THEN [version |-> v, valid |-> found \ (online \ available),
             errs |-> (up \ found) \cup (online \ available), purge |-> TRUE]
       ELSE [version |-> v, tags |-> latest, purge |-> FALSE,
             readers |-> Holding(part, available, "ok"),
             shardFix |-> right # online,
             outDated |-> (up \ available) \cup {d \in available : tags[d] # latest}]

\* Too few drives have the object, or its data: it is removed if that is
\* for good.
purgeObjectDangling(up, plan) ==
    /\ plan.purge
    /\ deleteIfDangling(up, plan.valid, Cardinality(plan.errs))
    /\ UNCHANGED <<coding, now, counters, history>>

\* The drives whose metadata is written once more after a restore, because some
\* shards were taken for wrong ones.
Refreshed(up, plan, healed, fresh) ==
    fresh # {} =>
        /\ plan.shardFix
        /\ objectQuorumFromMeta(healed, up, readAllXL(healed, up)) = plan.version
        /\ fresh \subseteq Holding(healed, up, plan.version)

\* ok: the outdated drives restored; fresh: see above.
Restore(up, plan, ok, fresh) ==
    LET healed == [d \in Drives |-> IF d \in ok THEN plan.version ELSE meta[d]]
    IN /\ Refreshed(up, plan, healed, fresh)
       /\ meta' = healed
       /\ part' = [d \in Drives |-> IF d \in ok THEN "ok" ELSE part[d]]
       /\ tags' = [d \in Drives |-> IF d \in ok \cup fresh THEN plan.tags ELSE tags[d]]
       /\ stamp' = [d \in Drives |-> IF d \in ok \cup fresh THEN now ELSE stamp[d]]
       /\ UNCHANGED <<coding, now, counters, history>>

\* A rename fails on drive d and ends the heal: d loses its xl.meta, or the data
\* that was moved out of the way.
RestoreFails(plan, ok, d) ==
    /\ \/ RenameData(ok, {d}, plan.version, plan.tags)
       \/ /\ "rename" \in FaultKinds /\ faults < MaxFaults /\ faults' = faults + 1
          /\ meta[d] = plan.version
          /\ meta' = [c \in Drives |-> IF c \in ok THEN plan.version ELSE meta[c]]
          /\ part' = [c \in Drives |-> IF c \in ok THEN "ok" ELSE IF c = d THEN "gone" ELSE part[c]]
          /\ tags' = [c \in Drives |-> IF c \in ok THEN plan.tags ELSE tags[c]]
          /\ stamp' = [c \in Drives |-> IF c \in ok THEN now ELSE stamp[c]]
    /\ UNCHANGED <<coding, now, puts, tagWrites, deletes, torn, history>>

\* Mutant of CanRestore: off by one.
CanRestore_fewer(plan) ==
    /\ ~plan.purge
    /\ plan.outDated # {} /\ Cardinality(plan.outDated) < parity[plan.version]
    /\ Cardinality(plan.readers) >= DataBlocks(plan.version)

\* It gives up if more drives are outdated than the parity, or if too few of
\* those it reads from turn out to have the data.
CanRestore(plan) ==
    /\ ~plan.purge
    /\ plan.outDated # {} /\ Cardinality(plan.outDated) <= parity[plan.version]
    /\ Cardinality(plan.readers) >= DataBlocks(plan.version)

healObject(up, deep) ==
    \E plan \in {HealPlan(up, deep)} :
        \/ purgeObjectDangling(up, plan)
        \/ /\ CanRestore(plan)
           /\ \E ok \in SUBSET plan.outDated :
                 \/ \E fresh \in SUBSET up : Restore(up, plan, ok, fresh)
                 \/ \E d \in plan.outDated \ ok : RestoreFails(plan, ok, d)

(* What happens to the drives, and the clock. *)

Wipe(d) ==
    /\ "wipe" \in FaultKinds /\ faults < MaxFaults /\ faults' = faults + 1
    /\ meta[d] # notFound
    /\ deleteObjectVersion({d})
    /\ UNCHANGED <<coding, now, puts, tagWrites, deletes, torn, history>>

Damage(d, kind) ==
    /\ kind \in FaultKinds /\ faults < MaxFaults /\ faults' = faults + 1
    /\ meta[d] # notFound /\ part[d] = "ok"
    /\ part' = [part EXCEPT ![d] = kind]
    /\ UNCHANGED <<meta, tags, stamp, coding, now, puts, tagWrites, deletes, torn, history>>

Tick ==
    /\ now < MaxTicks /\ now' = now + 1
    /\ UNCHANGED <<driveVars, coding, counters, history>>

Next ==
    \/ \E class \in Parities, offline \in 0 .. MaxDown, ok \in SUBSET Drives :
            PutObject(class, offline, ok)
    \/ \E up \in Answering :
        \/ PurgeOnRead(up)
        \/ DeleteObject(up)
        \/ PutObjectTags(up)
        \/ \E deep \in BOOLEAN : healObject(up, deep)
    \/ \E d \in Drives : Wipe(d) \/ \E kind \in {"gone", "rot"} : Damage(d, kind)
    \/ Tick

Spec == Init /\ [][Next]_vars

\* The background healer comes back to the object until it has healed it with
\* every drive answering and no call failing.
HealCompletes ==
    \E plan \in {HealPlan(Drives, TRUE)} :
        \/ /\ plan.purge /\ isObjectDangling(plan.valid, Cardinality(plan.errs))
           /\ deleteObjectVersion(Drives)
           /\ UNCHANGED <<coding, now, counters, history>>
        \/ /\ CanRestore(plan)
           /\ Restore(Drives, plan, plan.outDated, IF plan.shardFix THEN Drives ELSE {})

FairSpec == Spec /\ WF_vars(HealCompletes)
-----------------------------------------------------------------------------
Current == {last} \cup maybe

Intact(v) == Cardinality({d \in Drives : meta[d] = v /\ part[d] = "ok"}) >= DataBlocks(v)

\* A get never returns a version that an acknowledged put or delete came after,
\* whichever drives answer it and whatever was lost or healed in between
\* (getLatestFileInfo against renameData and deleteObjectVersion).
FoundIsCurrent == \A up \in Answering : GetObject(up) \in Versions => GetObject(up) \in Current

\* While no more drives than the parity are down or without a good shard, a
\* get returns the acknowledged version, provided that the xl.meta that answer
\* were written in the same minute: else the shards of a minority, healed or
\* tagged later than the rest, are not read (GetObjectNInfo).
AvailableWithinParity ==
    \A up \in Answering :
        (/\ last # notFound /\ maybe = {}
         /\ Cardinality({d \in up : meta[d] = last /\ part[d] = "ok"}) >= DataBlocks(last)
         /\ \A c, d \in Holding(meta, up, last) : stamp[c] = stamp[d])
        => GetObject(up) = last

\* With every drive answering, a get says that there is no object only if a
\* delete was acknowledged last, or begun since (readAllXL).
MissingIsDeleted == GetObject(Drives) = notFound => notFound \in Current

\* No drive has a version with less parity than v.
LeastParity(v) == \A d \in Drives : meta[d] # notFound => parity[meta[d]] >= parity[v]

\* No read and no heal destroys what can still be restored: as long as nobody
\* changes the object and no drive fails, it stays restorable (isObjectDangling,
\* healObject).  What a put of a class with less parity left on a drive when it
\* failed is excepted: isObjectDangling counts against the parity of the first
\* version it meets.  With a clock that moves the property fails.
KeepsIntact ==
    [][history' = history /\ faults' = faults /\ puts' = puts /\ deletes' = deletes
         => ((\E v \in Current \ {notFound} : Intact(v) /\ LeastParity(v))
               => (\E v \in Current \ {notFound} : Intact(v)'))]_vars

\* The good shards of version v, less those with xl.meta from another minute than
\* most, which a heal does not read.
Usable(v) ==
    Holding(part, AcceptableDelta(readAllFileInfo(meta, Drives), Holding(meta, Drives, v), v), "ok")

\* A write of tags got through on some of v's drives only, and the first of them
\* shares its tags with too few others.
TagsSplit(v) ==
    LET have == Holding(meta, Drives, v)
    IN /\ \E c, d \in have : tags[c] # tags[d]
       /\ Cardinality({d \in Usable(v) : tags[d] = tags[First(have)]}) < DataBlocks(v)

\* Once the object is left alone and every drive answers, the healer brings it to
\* one state on every drive, data and tags included.  There are two exceptions:
\* fewer usable shards are left than there are data blocks, or the tags are so
\* split over the drives that healObject counts more outdated ones than the
\* parity and gives up, each time.
Converges ==
    <>[][HealCompletes]_vars =>
        <>[](\/ \A d \in Drives : meta[d] = meta[1] /\ part[d] = "ok" /\ tags[d] = tags[1]
             \/ \A v \in Current \ {notFound} : Cardinality(Usable(v)) < DataBlocks(v)
             \/ \E v \in Current \ {notFound} : TagsSplit(v))
=============================================================================
