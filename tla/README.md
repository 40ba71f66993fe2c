# Verification of the storage server

TLA+ models of parts of the server in `src/`, the TLC runs that check them on small
instances, and TLAPS proofs of the results that should hold for every size. The
modules are translated from the Go source; `PROJECT.json` maps each definition to the
lines it stands for.

1. [The system](#the-system)
2. [Modules](#modules)
3. [Runs, bounds and fairness](#runs-bounds-and-fairness)
4. [What is proved](#what-is-proved)
5. [Disagreements found](#disagreements-found)
6. [What is only model-checked, and what is not modelled](#what-is-only-model-checked-and-what-is-not-modelled)
7. [Plan](#plan)

## The system

The server keeps S3 objects on erasure-coded drives. From the bottom up:

| Layer | Source | State that matters |
|---|---|---|
| drive | `cmd/xl-storage*.go`, `cmd/storage-rest-*.go` | files of one drive: `xl.meta` (a journal of versions) and data directories |
| erasure set | `cmd/erasure*.go` | none of its own: every operation asks all drives and decides by quorum |
| sets and pools | `cmd/erasure-sets.go`, `cmd/erasure-server-pool*.go` | which pool an object is in; pool metadata while a pool is emptied |
| namespace lock | `cmd/namespace-lock.go`, `internal/lsync`, `internal/dsync`, `cmd/local-locker.go`, `cmd/lock-rest-*.go` | a lock table in the memory of every node |
| repair | `cmd/mrf.go`, `cmd/erasure-healing*.go`, `cmd/admin-heal-ops.go`, `cmd/background-*.go` | queues and trackers of what has to be healed |
| background work | `cmd/data-scanner.go`, `cmd/data-update-tracker.go`, `cmd/bucket-lifecycle.go`, `cmd/tier*.go`, `cmd/bucket-replication*.go`, `cmd/site-replication.go` | worker queues, trackers, journals |
| caches | `cmd/metacache*.go`, `cmd/disk-cache*.go`, `cmd/iam*.go`, `cmd/bucket-metadata-sys.go` | copies of what a drive or another server has |
| API, admin, S3 Select, gateways, notification targets, logs | the rest of `cmd/` and `internal/` | mostly per request |

Everything above a drive relies on two things: the namespace lock, which keeps
requests for one object apart, and quorums over drives, which let an operation succeed
when some drives do not answer. The lock is the core of this project: it is where
concurrency, loss of messages, restarts, timeouts and retries meet, and every other
component's correctness argument starts with "under the lock". It is modelled from the
table of one node up to the callers, and proved. On top of it come the choice of a
pool and of the lockers that a request asks. The second pillar, quorums over drives, is
modelled for one object: what puts, deletes and heals that reach only some drives leave
behind, and what a get makes of it.

`PROJECT.json` lists every component, modelled or not, with its sources, and the
hazards: the places where something can go wrong that a test would hardly reach, and
the properties that would notice.

## Modules

    LocalLocker ----> LockServer          one node's table, and its REST handlers
         |      \---> DSync ---refines--> RWLock    the mutex over many nodes
    NSLock ---refines-------------------> RWLock    the same interface on one server
    ServerPools                           which pool and which lock a request uses
    ErasureObject                         one object on the drives of a set

`MC*` modules instantiate these for TLC; `*Proofs` modules hold the theorems.

### LocalLocker: the lock table of a node (`cmd/local-locker.go`)

A table is a record: `lockMap[r][u]` is the sequence of ages of the entries of request
`u` for resource `r` (the source keeps one list per resource; the order between
different requests is never used), `lockUID` is the uid index, a set of pairs of a uid
and the index of the resource within the request. Every function of `localLocker` is an
operator from a table to a new table, a reply and an error: `Lock`, `Unlock`, `RLock`, `RUnlock`, `ForceUnlock`
(by uid and, as an administrator does, by resource), `Refresh`, `expireOldLocks`.
`removeEntry` deletes the index key along with one entry, although a reader that asked
twice with the same uid has another entry: that is kept, because a finding hangs on it.
An age counts refresh intervals since the last refresh, up to `LockValidity + 1`, after
which all ages are alike. Time passes between calls, so an age says in which interval an
entry was stamped and not when: entries of age `LockValidity` are at the limit, and a pass
of `expireOldLocks` judges each of them for itself (`late`), as the code does, which stamps
every entry of a request and looks at every entry at an instant of its own. What an entry
records for display is left out.

### LockServer: one node under any traffic (`cmd/lock-rest-server.go`, `-client.go`)

State: one `table`, who was ever `granted`, the last `answer`. One action per handler,
plus `lockMaintenance`, `Tick`, `Restart`. Requests come in any order, repeated or late,
except that nobody releases what was never granted. This is the widest environment for
the table, so what holds here holds for each table in `DSync`.

### DSync: the distributed mutex (`internal/dsync/drwmutex.go`)

A uid is one `DRWMutex` and one `GetLock` or `GetRLock` on it. The state of a caller is
where it is (`pc`), the attempt it is in, the lockers it counts as locked, the failures
it counted and whom its current `releaseAll` has yet to call. Per attempt and locker,
`call` says whether a call is out, answered, or done. The abandoned calls of an attempt
go on while the next attempt runs; `Drain` is the goroutine that hands back the grants
nobody waited for. `requests` and `releases` hold what a locker may still serve after
the client gave up on it. `refresher` is the goroutine of `startContinousLockRefresh`.

| Source | Actions |
|---|---|
| `lockBlocking`, `lock` 185-504 | `Attempt`, `ServeLock`, `CallError`, `Collect`, `AcquireTimeout`, `GiveUp`, `Drain` |
| `releaseAll`, `checkFailedUnlocks`, `Unlock`, `RUnlock`, `sendRelease` 506-681 | `BeginUnlock`, `ReleaseOne`, `ReleaseError`, `ServeRelease` |
| `startContinousLockRefresh`, `refreshLock`, `forceUnlock` 244-386 | `StartRefresh`, `RefreshOne`, `ForceOne` |
| nodes and processes | `Expire`, `Restart`, `AdminForceUnlock`, `Crash`, `Tick` |

Two history variables: `lapsed` marks a caller that lost an entry it had not released
(by expiry, restart or a forced unlock), and `faults` counts what went wrong.

### RWLock: what users of a lock rely on

The abstract read-write lock: a caller enters only when no conflicting caller with an
intact lock is inside. A caller whose lock may have been lost is `suspect`, and nothing
more is promised about it. `DSync` maps `inside` to the callers in their critical
section that have not been told of a loss, and `suspect` to `lapsed`; `NSLock`, whose
locks cannot be lost, maps `suspect` to the empty set.

### NSLock: the lock map of one server (`cmd/namespace-lock.go`, `internal/lsync/lrwmutex.go`)

`lockMap` has a mutex for a path only while somebody uses it. A caller finds or makes
the mutex under `lockMapMutex` (`Refer`), polls it without (`TryLock`), gives up on a
timeout (`GiveUp`), and takes its count back (`Unrefer`, `UnlockOne`), dropping the mutex
at zero. A request for several paths sorts them and rolls back on failure. Mutexes are
model values, so that a caller can be left with one the map no longer has.

### ServerPools: which pool, which lock (`cmd/erasure-server-pool.go`, `cmd/erasure-sets.go`)

Requests (get, put, delete, bulk delete, multipart upload) for one object that may be in
any pool. A request takes a lock at the lockers of an erasure set: the pool layer at
the set of the *first* pool that the name hashes to, the set layer at its own set, and a
request for several names at the set of the *empty* name. It then looks at the pools
one after the other, and reads or writes. Versions are told apart by their time. A call
of a pool may be answered with an error (`Err`): an error has no time and sorts behind
every copy that was found, but no request takes a pool that could not tell for one
without the object.
History variables record which changes were acknowledged before a get began.

### ErasureObject: one object on an erasure set (`cmd/erasure-object.go`, `cmd/erasure-healing*.go`)

`meta[d]` is the version that `xl.meta` of drive `d` has (a number, its modification
time), `part[d]` the state of its shard, `tags[d]` its tags, `stamp[d]` the minute in which
`xl.meta` was written, and `parity[v]` the parity blocks a version was written with. All
operations hold the object's lock, so they are atomic with respect to each other; what
an operation meets is the set of drives that answer (`up`), the drives its changes get
through on (`ok`), those on which the last rename fails and takes `xl.meta` with it
(`lost`), and the end of the server in the middle. The default parity of the set,
`defaultParity`, may be 0, where `objectQuorumFromMeta` asks for a single drive.

| Source | Definitions |
|---|---|
| `readAllXL` with `mergeXLV2Versions`, `getLatestFileInfo`, `objectQuorumFromMeta` | the operators of the same names: what the answers of the drives amount to |
| `GetObjectNInfo`, `getObjectFileInfo`, `getObjectWithFileInfo` | `GetLatest`, `GetObject` (the outcome of a get), `PurgeOnRead` (a read that deletes a dangling object) |
| `putObject`, `renameData`, `xlStorage.RenameData` | `PutObject`, `RenameData`, `parityDrives` (offline drives raise the parity) |
| `DeleteObject`, `PutObjectTags` | the actions of the same names |
| `healObject`, `disksWithAllParts`, `isObjectDangling`, `purgeObjectDangling` | `HealPlan`, `CanRestore`, `Restore`, `RestoreFails` (a rename fails in the middle of a heal), `purgeObjectDangling` |
| drives | `Wipe` (the object is gone), `Damage` (its data is gone or rotten), `Tick` |

Drives are numbered in the order in which the code looks at their answers, because the
order decides ties. `last` and `maybe` are history: the last acknowledged change, and
those that were begun after it and failed. A change that fails is not undone, as in the
code. A shard counts as wrong when its `xl.meta` was not written in the minute in which
most were (`AcceptableDelta`). The flag that a heal means to set once it has repaired
such shards is not in the model, because it is never stored: `PutObjectMetadata` ignores
the options it is passed in.

## Runs, bounds and fairness

Every run is listed in `PROJECT.json` with its properties. `tlc -config X.cfg M` repeats
one. Runs marked *violation* show a disagreement between the code and what a comment or
document says of it (see below).

| Run | Question | Result |
|---|---|---|
| `lock_server` | does one node's table stay consistent under any traffic: a writer has a resource for itself, every index key leads to an entry; when is a bulk request split, what does a positive refresh renew, what does `Unlock` give back of a request of which a part is gone | holds; see below |
| `dsync_even` | four nodes: is the mutex the abstract lock where half of the nodes is not a majority, and how many failed releases may `Unlock` ignore | holds |
| `dsync_timely` | a writer retries with its uid, with time, expiry and a lost refresh: has every grant its own entry, and do writers exclude each other without any proviso if calls and refreshes are in time | holds |
| `dsync_reader_retry` | the same for a reader that retries | violation |
| `dsync_live` | after any one fault, is a holder told of a loss, and does what ended callers leave expire | holds |
| `nslock` | does the map count its users, without a panic and without a circular wait, and implement the abstract lock, with timeouts and rollbacks | holds |
| `pools_single` | one pool: is an object changed while it is read | no |
| `pools_two` | two pools: does a get serve the latest version, and is the object in one pool | holds, with provisos for uploads (see below) |
| `erasure` | does a get ever go back to an older version, does it find the object while enough good shards answer, does a read or heal destroy what could be restored | no; yes; no, with a clock that stands still |
| `erasure_live` | with a clock that moves: does a get find the object while enough good shards answer, do repeated heals bring the drives to one state | with exceptions (see below) |
| `erasure_torn` | does a get ever say that an object does not exist that nobody deleted | violation |
| `erasure_purge` | the question of `erasure` about heals, when a heal comes a minute or more after the put | violation |

**What holds only with an exception.** The properties state these; each is what the code does.

* `SplitOnlyAtLimit`: a bulk request is held whole or not at all unless an administrator
  unlocks a part of it, or a pass of `expireOldLocks` meets all of its entries at the very
  end of their validity and finds some past it and some not.
* `RefreshRenews`: a refresh that is answered with true has renewed the first resource and
  all up to the first one that the request has lost. `Refresh` stops there
  (`local-locker.go:337`); what lies behind is not renewed, and expires.
* `ServesLatest`, `OnePool`: an upload's pool is chosen long before it completes, so there may
  be two copies. Then a delete takes one of them, and a get serves the older copy when
  the pool of the newer one answers with an error. Without uploads neither happens. That
  the write itself fails in a pool is not in this model.
* `AvailableWithinParity`: the `xl.meta` of the drives that answer were written in the same
  minute. A drive that was healed or tagged later than most is not read
  (`erasure-object.go:224`): put on drives 1 to 3, heal 4 a minute later, let 2 and 3
  lose their data, and the get fails although two good shards answer.
* `KeepsIntact`: no drive has a version with less parity, and the clock stands still. A put
  of a class with less parity that failed on all drives but one leaves its version there;
  `isObjectDangling` counts against the parity of the first version it meets, and with
  parity 0 one drive without the object is enough to remove an intact older version.
  What a clock that moves does is `erasure_purge`.
* `Converges`: the object is left alone and, from some time on, all drives answer each heal;
  and neither are too few shards left that a heal accepts, nor are the tags split. A write
  of tags on drives 2 to 4 of 4 succeeds; a heal takes drive 1's tags for the right ones, counts
  three outdated drives, more than the parity, and gives up (`erasure-healing.go:429`),
  each time. Heals that see different drives can even move such tags back and forth, which is
  why the property asks that the drives answer.

**Bounds.** Two conflicting callers are enough for mutual exclusion: every condition of
the table and of the quorum mentions a pair. Three lockers give a minority of one, four
the even split that `quorum` and `checkFailedUnlocks` treat separately. Two attempts are
what it takes for a grant of an abandoned attempt to meet the next one; that the argument
does not depend on the number is what the proof adds. Faults are limited in number
(`MaxFaults`) and kind (`FaultKinds`) per run, so that each run asks one question.
`LockServer` has a request for three resources, a writer of the second and two readers of
the first, with up to two attempts of a reader; an administrator unlocks all three, or the
second alone, so that what is left lies on both sides of a gap. `LockValidity` is 3 refresh
intervals in `dsync_timely`, the least for which one lost refresh costs nobody a lock
(entries at the limit may go), and 2 in `dsync_reader_retry`, where nothing is lost.
`NSLock` has two bulk requests
listing the same two paths in opposite orders and a reader of each, with three mutexes:
one more than there are paths, so that a mutex dropped from the map and its successor
exist together. `ServerPools` has one or two pools, five requests and one error (`MaxErrors`).

`ErasureObject` has four drives in `erasure`. With two parity blocks that is the even split
where a write quorum has one drive more than there are data blocks; without any, every
drive counts; and a put that finds a drive offline has one block more, so that versions
of three parities meet. The default parity is 0 or 2. Two puts, a delete, one operation
that fails half way and two faults are enough for a stale drive to come back, to be healed
or to be overwritten. The clock stands still in `erasure` and moves by one step in
`erasure_live` and `erasure_purge`: the rule that judges shards by their time is the subject
of the last. `erasure_live` has three drives, one of them for parity, which is enough for
every exception of `Converges` to happen: two puts, a write of tags, a fault, and an
operation that fails half way.

Lockers, mutexes and puts are symmetric sets in safety runs and not in liveness runs.

**Deadlock** is checked in the lock modules. In `ServerPools` the requests end, and in
`ErasureObject` the bounds on puts and faults are used up.

**Fairness.** `FairSpec` of `DSync`: goroutines run on, a call that does not fail is
served, timers fire, `lockMaintenance` runs, time passes: weak fairness of the
corresponding actions. Nothing obliges a caller to start, to retry, to give up or to leave
its critical section, and no fault is obliged to happen. `FairSpec` of `ErasureObject`:
weak fairness of `HealCompletes`, a heal with all drives answering and no call failing.
The scanner and the background healer come back to every object for as long as the
server runs, and nothing fails for ever; no single heal is assumed to succeed. `Converges`
itself says under which condition it speaks: from some time on nothing happens but such
heals.

## What is proved

TLAPS checks six modules of proofs; all results hold for any number of nodes, callers,
resources, attempts, drives, parities and faults. They assume what the `ASSUME`s of
`LocalLocker`, `LockServer`, `DSync` and `ErasureObject` say: a request names at least one
resource and none twice, there is at least one locker, the sets of lockers and uids are
finite, and a set has at least two drives, at most half of them for parity.

* `LocalLockerProofs` has one lemma per method of the table. Its invariant for one
  table, `TableOK`, is the type, `WriterAlone` (a resource with a writer's entry has no
  other entry), `IndexBacked` (a key of the index leads to an entry of its request) and
  `OldestFirst` (the entries of one request are in the order of their age, so the expired
  ones that `expireOldLocks` removes are the first ones).
* `LockServerProofs` lifts that to every handler: `TypeCorrect`, `WriterExcluded`,
  `IndexIsSound`, and `UnlockFreesAll` (`Spec => UnlockFreesTheRest`): an `Unlock` frees all
  that is left of its request and nothing of anybody else's. It needs the invariant and
  that a granted writer is within `maxDeleteList` (`Fits`), or `Unlock` would refuse it.
* `DSyncTypeProofs` has the facts about quorums and that tables, types and counted
  quorums are kept, `DSyncGrantProofs` that grants stay backed, and `DSyncProofs` the
  theorems: `TypeCorrect`, `GrantsAreBacked`, `MutuallyExclusive` and `Refinement`
  (`Spec => ImplementsRWLock`).
* `ErasureObjectProofs` has `GetNeverGoesBack` (`Spec => []FoundIsCurrent`).

Mutual exclusion is not inductive by itself. The argument is: a caller inside has
counted a quorum of lockers (`HeldQuorum`); each of them still has an entry for it; the
quorums of conflicting callers share a locker (`QuorumsOverlap` and
`FS_MajoritiesIntersect`); and that locker's table cannot have entries of both
(`WriterAlone`). The second point needs a stronger statement, because a late release from
an abandoned attempt carries the same uid and would remove the entry the current attempt
relies on. `GrantsBacked` weighs the two sides: the number of entries of a uid at a
locker is at least the number of grants that are counted, waiting in the channel, or
being released (`Owed`). The inductive invariant is

    IInv == TypeOK /\ TablesOK /\ Started /\ HeldQuorum /\ GrantsBacked

where `TablesOK` is `TableOK` of every table and `Started` says that a caller that is not
idle is in one of its attempts. There is one lemma per action for `GrantsBacked`
(`AttemptBacked`, `ServeLockBacked`, ...), gathered by `GrantsStep`. The refinement uses
`NoConflict` (from `IInv`) for the step that enters, and maps every other step to a
leave, a loss or a stutter.

A caller from which a table took an unreleased entry is excepted from all of this: it is
`lapsed`. That such a caller is told in the end is `LossNoticed`, and that timely
refreshes keep it from happening to writers is `Exclusive` in `dsync_timely`; both are
model-checked only.

`GetNeverGoesBack` rests on one invariant, `Superseded`: a version that is not current (an
acknowledged change came after it) is on fewer drives than it has data blocks. An
acknowledged put or delete leaves it on no more than the drives outside a write quorum,
and `OutsideWriteQuorum` says that these are too few for any version, whatever its own
parity: here the extra drive of the even split is needed. Every other step only takes
versions off drives, except a heal, and a heal restores only what it can read from as many
drives as there are data blocks: `EnoughIsCurrent` says that such a version is current. A get
needs as many good shards, so the same lemma ends the proof. Neither how the quorum is
counted, which a default parity of 0 leaves out, nor how ties are broken matters for the
theorem.

## Disagreements found

| Run | What the source says | What the code does |
|---|---|---|
| `dsync_reader_retry` | `drwmutex.go:90`: a DRWMutex is a mutual exclusion lock | the release of an abandoned attempt of a reader removes the index key of the entry its next attempt relies on; the next refresh then fails without any fault and the lock is given away |
| `erasure_torn` | `erasure-object.go:723`: "otherwise return failure. Cleanup successful renames."; `docs/distributed/README.md:25`: strict read-after-write | nothing is cleaned up; with the versions 1, 1, 2 on the drives `mergeXLV2Versions` settles on 2, which too few drives have, drops 1 because it has the same version id, and a get says that the object does not exist |
| `erasure_purge` | `erasure-healing.go:868`: dangling if and only if too few files are neither corrupted nor missing | a drive that was healed a minute or more after the put is counted as corrupted; when others lose data the object is deleted although enough good shards are left |

Other places where the code and its comments part, met while the modules were written
and not the subject of a run:

* `lock-rest-server.go:138` says of `Unlock` that without an error its reply is always
  true. On a resource that another request has write-locked it returns false and no error.
* `dsync_test.go:270` says that `Unlock` after a failed refresh is a "safe operation in all
  cases". Where the tables lost the entry every release is answered with an error and
  `Unlock` repeats for ever.
* With several pools a delete takes its lock at the object's own pool
  (`erasure-object.go:1427`) and a get at the first pool, so a delete does not exclude a
  get; this is why `StreamIntact` is checked for one pool.
* A bulk delete is locked at the set of the empty name (`erasure-sets.go:586`), which may
  be on other nodes than an object's set. The runs have them on the same nodes.
* `erasure-server-pool.go:1361` expects no two uploads of an object in two pools; two
  concurrent requests both find none and choose independently. The object is then in
  two pools, a delete removes the newer copy, and a get serves the older one. `OnePool`
  and `ServesLatest` except exactly that.
* Tags are not part of what `findFileInfoInQuorum` compares, so a drive that missed a tag
  write can answer for the others, and a heal may take the majority's tags for outdated
  (the exception of `Converges`).
* An object is judged by the parity of the first readable `xl.meta` (`isObjectDangling`),
  which may be that of a version with less parity (the exception of `KeepsIntact`).

## What is only model-checked, and what is not modelled

Only model-checked: everything that needs fairness (`LossNoticed`, `ResidueExpires`,
`Converges`), what depends on the order of clock ticks and refreshes (`Exclusive`),
`SplitOnlyAtLimit`, `RefreshRenews`, `UnlockFreesQuorum`, `AvailableWithinParity`,
`KeepsIntact`, and all of `NSLock` and `ServerPools`. Liveness and `ENABLED` are out of the
prover's reach, and so is induction over data, which the existence of a most common
value (`MostCommon`) would need.

Left out of the modelled components: authentication and encoding of lock requests,
statistics, the fields of an entry that only describe it, log messages. In `DSync` a
refresh waits for all calls, where the code may stop counting once the outcome cannot
change. In `ServerPools` an object is one value in a pool: what happens on the drives of
a set belongs to `ErasureObject`. Pools that are suspended, versioned buckets and
listing are not modelled. In `ErasureObject` there is one object of an unversioned bucket;
the transfer of the data, inline data, delete markers, transitioned objects and calls
that take effect after their operation ended are left out, and the order of drives is
the same for all versions.

Not modelled at all: the components that `PROJECT.json` marks `not_modelled`, each with
the reason. Some will not be: cryptography, request parsing, S3 Select, gateways and
metrics compute values or report, and hold no state that outlives a request.

## Plan

In this order; each step brings its module, runs, mutants and hazards.

1. **Objects on an erasure set, continued.** Versioned buckets and delete markers, bulk
   deletes, calls that take effect late. Abstract specification: a register whose
   acknowledged writes are not lost while at most *parity* drives are. Theorem: an
   acknowledged version stays readable.
2. **Version journal.** `AddVersion`, `DeleteVersion`, `mergeXLV2Versions` as operators,
   checked against reference definitions over all small journals.
3. **Repair.** MRF queue and counters; heal sequences and their result queue; the tracker
   of a fresh drive across restarts; dynamic timeouts.
4. **Pools.** Decommissioning with its saved state, restart and cancel, composed with
   `ServerPools`.
5. **Multipart.** Part uploads that race complete, abort and the clean-up of stale uploads.
6. **Trackers and journals.** Update tracker cycles; tier journal; event queue store.
7. **Caches.** Life of a cached listing; IAM cache against the store; disk cache write-back.
8. **Replication.** Status of a version per target; site replication's heal pass.
9. **Start.** Agreement on `format.json`; a drive's health tracker.
10. **Proofs.** `NSLock` (map counts users, refinement), `AvailableWithinParity`.
