------------------------- MODULE LocalLockerProofs -------------------------
(***************************************************************************)
(* What every method of the lock table preserves, and what it does to the  *)
(* entries of each request.  The theorems on the lock server and on the    *)
(* distributed mutex rest on these facts alone.                            *)
(***************************************************************************)
EXTENDS LocalLocker, SequenceTheorems, FiniteSetTheorems, TLAPS

TableOK(st) ==
    /\ st \in LockTable
    /\ OldestFirst(st)
    /\ WriterAlone(st)
    /\ IndexBacked(st)

\* The entries of u on r.
Entries(st, u, r) == Len(st.lockMap[r][u])

-----------------------------------------------------------------------------
(* Requests and their keys. *)

\* A request has at least one resource, and all its resources are known.
LEMMA SizeFacts ==
    ASSUME NEW u \in UIDs
    PROVE  /\ Size(u) \in Nat /\ Size(u) > 0
           /\ \A i \in 0 .. Size(u) - 1 : ResourceAt(u, i) \in Resources
           /\ ResourceAt(u, 0) \in ResourcesOf(u)
           /\ ResourcesOf(u) \subseteq Resources
           /\ Writer(u) \in BOOLEAN
<1>1. Args[u].resources \in Seq(Resources) /\ Len(Args[u].resources) > 0
  BY ArgsAssumption
<1>2. Size(u) \in Nat /\ Size(u) > 0
  BY <1>1, LenProperties DEF Size
<1>3. \A i \in 0 .. Size(u) - 1 : ResourceAt(u, i) \in Resources
  BY <1>1, <1>2 DEF Size, ResourceAt
<1>4. Writer(u) \in BOOLEAN
  BY ArgsAssumption DEF Writer
<1> QED
  BY <1>2, <1>3, <1>4 DEF ResourcesOf

\* A key of the index belongs to a request and to one of its resources.
LEMMA KeyFacts ==
    ASSUME NEW k \in Keys
    PROVE  /\ k[1] \in UIDs
           /\ k[2] \in 0 .. Size(k[1]) - 1
           /\ k = <<k[1], k[2]>>
           /\ KeyResource(k) \in ResourcesOf(k[1])
           /\ KeyResource(k) \in Resources
<1>1. PICK u \in UIDs : k \in {u} \X (0 .. Size(u) - 1)
  BY DEF Keys
<1>2. k[1] = u /\ k[2] \in 0 .. Size(u) - 1 /\ k = <<k[1], k[2]>>
  BY <1>1
<1>3. KeyResource(k) \in ResourcesOf(u)
  BY <1>2 DEF KeyResource, ResourcesOf
<1> QED
  BY <1>2, <1>3, SizeFacts

\* Each position of a request has a key (formatUUID).
LEMMA KeyOf ==
    ASSUME NEW u \in UIDs, NEW i \in 0 .. Size(u) - 1
    PROVE  <<u, i>> \in Keys /\ KeyResource(<<u, i>>) = ResourceAt(u, i)
BY DEF Keys, KeyResource

\* The entries of a request on a resource: a sequence, empty when it does not
\* hold the resource.
LEMMA CellFacts ==
    ASSUME NEW st \in LockTable, NEW r \in Resources, NEW u \in UIDs
    PROVE  /\ st.lockMap[r][u] \in Seq(Ages)
           /\ Entries(st, u, r) \in Nat
           /\ DOMAIN st.lockMap[r][u] = 1 .. Entries(st, u, r)
           /\ Holds(st, u, r) <=> Entries(st, u, r) > 0
<1>1. st.lockMap[r][u] \in Seq(Ages)
  BY DEF LockTable
<1>2. /\ Len(st.lockMap[r][u]) \in Nat
      /\ DOMAIN st.lockMap[r][u] = 1 .. Len(st.lockMap[r][u])
  BY <1>1, LenProperties
<1>3. st.lockMap[r][u] = <<>> <=> Len(st.lockMap[r][u]) = 0
  BY <1>1, EmptySeq
<1> QED
  BY <1>1, <1>2, <1>3 DEF Entries, Holds

\* An age, and what a tick makes of it.
LEMMA AgeFacts ==
    ASSUME NEW age \in Ages
    PROVE  /\ age \in Nat
           /\ (IF age > LockValidity THEN age ELSE age + 1) \in Ages
BY BoundsAssumption DEF Ages

\* The entries in a sequence of ages are ages.
LEMMA AgeAt ==
    ASSUME NEW s \in Seq(Ages), NEW k \in 1 .. Len(s)
    PROVE  s[k] \in Ages /\ s[k] \in Nat
BY ElementOfSeq, AgeFacts

-----------------------------------------------------------------------------
(* The empty table. *)

\* newLocker: nobody has an entry.
LEMMA NewTable ==
    /\ TableOK(newLocker)
    /\ \A u \in UIDs, r \in Resources : Entries(newLocker, u, r) = 0
<1>1. \A u \in UIDs, r \in Resources : newLocker.lockMap[r][u] = <<>>
  BY DEF newLocker
<1>2. newLocker \in LockTable
  BY EmptySeq DEF newLocker, LockTable
<1>3. OldestFirst(newLocker)
  BY <1>1 DEF OldestFirst
<1>4. WriterAlone(newLocker)
  BY <1>1 DEF WriterAlone, Holds
<1>5. IndexBacked(newLocker)
  BY DEF IndexBacked, newLocker
<1> QED
  BY <1>1, <1>2, <1>3, <1>4, <1>5 DEF TableOK, Entries

-----------------------------------------------------------------------------
(* Lock. *)

\* The table after a successful Lock.
LEMMA LockGranted ==
    ASSUME NEW st, st \in LockTable, NEW u \in UIDs, Lock(st, u).reply
    PROVE  LET new == Lock(st, u).st
           IN  /\ \A r \in ResourcesOf(u), v \in UIDs : ~ Holds(st, v, r)
               /\ \A r \in ResourcesOf(u) : new.lockMap[r][u] = <<0>>
               /\ \A r \in ResourcesOf(u), v \in UIDs \ {u} : new.lockMap[r][v] = <<>>
               /\ \A r \in Resources \ ResourcesOf(u) : new.lockMap[r] = st.lockMap[r]
               /\ new.lockUID = st.lockUID \cup {<<u, i>> : i \in 0 .. Size(u) - 1}
               /\ new \in LockTable
<1> DEFINE new == Lock(st, u).st
<1>1. /\ canTakeLock(st, u)
      /\ new = [lockMap |-> [r \in Resources |->
                        IF r \in ResourcesOf(u)
                        THEN [v \in UIDs |-> IF v = u THEN <<0>> ELSE <<>>]
                        ELSE st.lockMap[r]],
                lockUID |-> st.lockUID \cup {<<u, i>> : i \in 0 .. Size(u) - 1}]
  BY DEF Lock, Result
<1>2. \A r \in ResourcesOf(u), v \in UIDs : ~ Holds(st, v, r)
  BY <1>1 DEF canTakeLock, Taken
<1>3. ResourcesOf(u) \subseteq Resources
  BY SizeFacts
<1>4. <<0>> \in Seq(Ages) /\ <<>> \in Seq(Ages)
  BY EmptySeq, BoundsAssumption DEF Ages
<1>5. {<<u, i>> : i \in 0 .. Size(u) - 1} \subseteq Keys
  BY KeyOf
<1>6. new \in LockTable
  BY <1>1, <1>3, <1>4, <1>5 DEF LockTable
<1> QED
  BY <1>1, <1>2, <1>3, <1>6

\* A Lock that is refused changes nothing.
LEMMA LockRefused ==
    ASSUME NEW st, NEW u \in UIDs, ~ Lock(st, u).reply
    PROVE  Lock(st, u).st = st
BY DEF Lock, Result

\* Lock, granted or not, keeps what the table promises.
LEMMA LockKeeps ==
    ASSUME NEW st, TableOK(st), NEW u \in UIDs
    PROVE  /\ TableOK(Lock(st, u).st)
           /\ Lock(st, u).reply \in BOOLEAN /\ Lock(st, u).err \in BOOLEAN
<1> DEFINE new == Lock(st, u).st
<1>0. Lock(st, u).reply \in BOOLEAN /\ Lock(st, u).err \in BOOLEAN
  BY DEF Lock, Result
<1>1. CASE ~ Lock(st, u).reply
  BY <1>0, <1>1, LockRefused
<1>2. CASE Lock(st, u).reply
  <2> USE DEF TableOK
  <2>1. /\ \A r \in ResourcesOf(u), v \in UIDs : ~ Holds(st, v, r)
        /\ \A r \in ResourcesOf(u) : new.lockMap[r][u] = <<0>>
        /\ \A r \in ResourcesOf(u), v \in UIDs \ {u} : new.lockMap[r][v] = <<>>
        /\ \A r \in Resources \ ResourcesOf(u) : new.lockMap[r] = st.lockMap[r]
        /\ new.lockUID = st.lockUID \cup {<<u, i>> : i \in 0 .. Size(u) - 1}
        /\ new \in LockTable
    BY <1>2, LockGranted
  <2>2. Len(<<0>>) = 1 /\ DOMAIN <<0>> = {1} /\ <<0>> # <<>>
    OBVIOUS
  <2>3. OldestFirst(new)
    <3> SUFFICES ASSUME NEW r \in Resources, NEW v \in UIDs,
                        NEW i \in DOMAIN new.lockMap[r][v], NEW j \in DOMAIN new.lockMap[r][v],
                        i < j
                 PROVE  new.lockMap[r][v][i] >= new.lockMap[r][v][j]
      BY DEF OldestFirst
    <3>1. CASE r \in ResourcesOf(u)
      BY <3>1, <2>1, <2>2
    <3>2. CASE r \notin ResourcesOf(u)
      BY <3>2, <2>1 DEF OldestFirst
    <3> QED
      BY <3>1, <3>2
  <2>4. WriterAlone(new)
    <3> SUFFICES ASSUME NEW r \in Resources, NEW v \in UIDs, Writer(v), Holds(new, v, r)
                 PROVE  /\ Len(new.lockMap[r][v]) = 1
                        /\ \A w \in UIDs \ {v} : ~ Holds(new, w, r)
      BY DEF WriterAlone
    <3>1. CASE r \in ResourcesOf(u)
      BY Zenon, <3>1, <2>1, <2>2 DEF Holds
    <3>2. CASE r \notin ResourcesOf(u)
      BY <3>2, <2>1 DEF WriterAlone, Holds
    <3> QED
      BY <3>1, <3>2
  <2>5. IndexBacked(new)
    <3> SUFFICES ASSUME NEW k \in new.lockUID
                 PROVE  Holds(new, k[1], KeyResource(k))
      BY DEF IndexBacked
    <3>1. CASE k \in st.lockUID
      <4>1. k \in Keys
        BY <3>1 DEF LockTable
      <4>2. Holds(st, k[1], KeyResource(k))
        BY <3>1 DEF IndexBacked
      <4> QED
        BY <4>1, <4>2, KeyFacts, <2>1 DEF Holds
    <3>2. CASE k \in {<<u, i>> : i \in 0 .. Size(u) - 1}
      <4>1. PICK i \in 0 .. Size(u) - 1 : k = <<u, i>>
        BY <3>2
      <4>2. k[1] = u /\ KeyResource(k) \in ResourcesOf(u)
        BY <4>1, KeyOf, KeyFacts
      <4> QED
        BY <4>2, <2>1, <2>2 DEF Holds
    <3> QED
      BY <3>1, <3>2, <2>1
  <2> QED
    BY <1>0, <2>1, <2>3, <2>4, <2>5
<1> QED
  BY <1>0, <1>1, <1>2

\* A successful Lock adds one entry of u to each of its resources.
LEMMA LockEntries ==
    ASSUME NEW st, st \in LockTable, NEW u \in UIDs, Lock(st, u).reply,
           NEW v \in UIDs, NEW r \in Resources
    PROVE  Entries(Lock(st, u).st, v, r) =
             IF v = u /\ r \in ResourcesOf(u) THEN Entries(st, v, r) + 1 ELSE Entries(st, v, r)
<1>1. Len(<<0>>) = 1 /\ Len(<<>>) = 0
  OBVIOUS
<1>2. CASE r \in ResourcesOf(u)
  <2>1. Entries(st, v, r) = 0
    BY <1>2, LockGranted, CellFacts
  <2>2. Lock(st, u).st.lockMap[r][v] = IF v = u THEN <<0>> ELSE <<>>
    BY <1>2, LockGranted
  <2>3. Entries(Lock(st, u).st, v, r) = IF v = u THEN 1 ELSE 0
    BY <1>1, <2>2 DEF Entries
  <2> QED
    BY <1>2, <2>1, <2>3
<1>3. CASE r \notin ResourcesOf(u)
  BY <1>3, LockGranted DEF Entries
<1> QED
  BY <1>2, <1>3

-----------------------------------------------------------------------------
(* removeEntry and the two releases. *)

\* The table after removeEntry: one entry less where the request had one, and
\* no key left for those.
LEMMA RemoveCells ==
    ASSUME NEW st, st \in LockTable, NEW u \in UIDs, NEW rs, rs \subseteq Resources
    PROVE  LET new == removeEntry(st, u, rs)
           IN  /\ new \in LockTable
               /\ \A r \in Resources, v \in UIDs :
                    new.lockMap[r][v] = IF v = u /\ r \in rs /\ Holds(st, u, r)
                                        THEN Tail(st.lockMap[r][v]) ELSE st.lockMap[r][v]
               /\ new.lockUID \subseteq st.lockUID
               /\ \A k \in new.lockUID : k[1] = u =>
                    ~ (KeyResource(k) \in rs /\ Holds(st, u, KeyResource(k)))
<1> DEFINE hit == {r \in rs : Holds(st, u, r)}
           new == removeEntry(st, u, rs)
<1>1. new = [lockMap |-> [r \in Resources |->
                            IF r \in hit THEN [st.lockMap[r] EXCEPT ![u] = Tail(@)]
                            ELSE st.lockMap[r]],
             lockUID |-> {k \in st.lockUID : k[1] = u => KeyResource(k) \notin hit}]
  BY DEF removeEntry
<1>2. \A r \in hit : Tail(st.lockMap[r][u]) \in Seq(Ages)
  <2> SUFFICES ASSUME NEW r \in hit PROVE Tail(st.lockMap[r][u]) \in Seq(Ages)
    OBVIOUS
  <2>1. st.lockMap[r][u] \in Seq(Ages) /\ st.lockMap[r][u] # <<>>
    BY CellFacts DEF Holds
  <2> QED
    BY <2>1, HeadTailProperties
<1>3. \A r \in Resources : st.lockMap[r] \in [UIDs -> Seq(Ages)]
  BY DEF LockTable
<1>4. new.lockMap \in [Resources -> [UIDs -> Seq(Ages)]]
  BY <1>1, <1>2, <1>3
<1>5. new \in LockTable
  BY <1>1, <1>4 DEF LockTable
<1>6. \A r \in Resources, v \in UIDs :
         new.lockMap[r][v] = IF v = u /\ r \in rs /\ Holds(st, u, r)
                             THEN Tail(st.lockMap[r][v]) ELSE st.lockMap[r][v]
  BY <1>1, <1>3
<1> QED
  BY <1>1, <1>5, <1>6

\* An entry goes from each resource of rs where u has one.
LEMMA RemoveEntries ==
    ASSUME NEW st, st \in LockTable, NEW u \in UIDs, NEW rs, rs \subseteq Resources,
           NEW v \in UIDs, NEW r \in Resources
    PROVE  Entries(removeEntry(st, u, rs), v, r) =
             IF v = u /\ r \in rs /\ Holds(st, u, r)
             THEN Entries(st, v, r) - 1 ELSE Entries(st, v, r)
<1>1. CASE v = u /\ r \in rs /\ Holds(st, u, r)
  <2>1. st.lockMap[r][u] \in Seq(Ages) /\ st.lockMap[r][u] # <<>>
    BY <1>1, CellFacts DEF Holds
  <2>2. Len(Tail(st.lockMap[r][u])) = Len(st.lockMap[r][u]) - 1
    BY <2>1, HeadTailProperties
  <2> QED
    BY Zenon, <1>1, <2>2, RemoveCells DEF Entries
<1>2. CASE ~ (v = u /\ r \in rs /\ Holds(st, u, r))
  <2>1. removeEntry(st, u, rs).lockMap[r][v] = st.lockMap[r][v]
    BY <1>2, RemoveCells
  <2> QED
    BY <1>2, <2>1 DEF Entries
<1> QED
  BY <1>1, <1>2

\* removeEntry keeps what the table promises: dropping an entry drops its key.
LEMMA RemoveKeeps ==
    ASSUME NEW st, TableOK(st), NEW u \in UIDs, NEW rs, rs \subseteq Resources
    PROVE  TableOK(removeEntry(st, u, rs))
<1> DEFINE new == removeEntry(st, u, rs)
<1> USE DEF TableOK
<1>1. new \in LockTable
  BY RemoveCells
<1>2. \A r \in Resources, v \in UIDs :
         new.lockMap[r][v] = IF v = u /\ r \in rs /\ Holds(st, u, r)
                             THEN Tail(st.lockMap[r][v]) ELSE st.lockMap[r][v]
  BY RemoveCells
<1>3. OldestFirst(new)
  <2> SUFFICES ASSUME NEW r \in Resources, NEW v \in UIDs,
                      NEW i \in DOMAIN new.lockMap[r][v], NEW j \in DOMAIN new.lockMap[r][v],
                      i < j
               PROVE  new.lockMap[r][v][i] >= new.lockMap[r][v][j]
    BY DEF OldestFirst
  <2>1. CASE v = u /\ r \in rs /\ Holds(st, u, r)
    <3>1. st.lockMap[r][u] \in Seq(Ages) /\ st.lockMap[r][u] # <<>>
      BY <2>1, CellFacts DEF Holds
    <3>2. /\ Len(Tail(st.lockMap[r][u])) = Len(st.lockMap[r][u]) - 1
          /\ Tail(st.lockMap[r][u]) \in Seq(Ages)
          /\ \A n \in 1 .. Len(Tail(st.lockMap[r][u])) :
               Tail(st.lockMap[r][u])[n] = st.lockMap[r][u][n + 1]
      BY <3>1, HeadTailProperties
    <3>3. /\ DOMAIN Tail(st.lockMap[r][u]) = 1 .. Len(Tail(st.lockMap[r][u]))
          /\ DOMAIN st.lockMap[r][u] = 1 .. Len(st.lockMap[r][u])
          /\ Len(st.lockMap[r][u]) \in Nat
      BY <3>1, <3>2, LenProperties
    <3>4. new.lockMap[r][v] = Tail(st.lockMap[r][u])
      BY <2>1, <1>2
    <3>5. /\ i \in 1 .. Len(Tail(st.lockMap[r][u])) /\ j \in 1 .. Len(Tail(st.lockMap[r][u]))
          /\ i + 1 \in DOMAIN st.lockMap[r][u] /\ j + 1 \in DOMAIN st.lockMap[r][u]
          /\ i + 1 < j + 1
      BY <3>2, <3>3, <3>4
    <3>6. st.lockMap[r][u][i + 1] >= st.lockMap[r][u][j + 1]
      BY <3>5 DEF OldestFirst
    <3> QED
      BY <3>2, <3>4, <3>5, <3>6
  <2>2. CASE ~ (v = u /\ r \in rs /\ Holds(st, u, r))
    <3>1. new.lockMap[r][v] = st.lockMap[r][v]
      BY <2>2, <1>2
    <3> QED
      BY <3>1 DEF OldestFirst
  <2> QED
    BY <2>1, <2>2
<1>4. \A r \in Resources, v \in UIDs :
         /\ Entries(new, v, r) <= Entries(st, v, r)
         /\ Holds(new, v, r) => Holds(st, v, r)
         /\ Holds(new, v, r) <=> Entries(new, v, r) > 0
  <2> SUFFICES ASSUME NEW r \in Resources, NEW v \in UIDs
               PROVE  /\ Entries(new, v, r) <= Entries(st, v, r)
                      /\ Holds(new, v, r) => Holds(st, v, r)
                      /\ Holds(new, v, r) <=> Entries(new, v, r) > 0
    OBVIOUS
  <2>1. /\ Entries(st, v, r) \in Nat /\ Entries(new, v, r) \in Nat
        /\ Holds(st, v, r) <=> Entries(st, v, r) > 0
        /\ Holds(new, v, r) <=> Entries(new, v, r) > 0
    BY <1>1, CellFacts
  <2>2. Entries(new, v, r) = Entries(st, v, r) \/ Entries(new, v, r) = Entries(st, v, r) - 1
    BY RemoveEntries
  <2> QED
    BY <2>1, <2>2
<1>5. WriterAlone(new)
  <2> SUFFICES ASSUME NEW r \in Resources, NEW v \in UIDs, Writer(v), Holds(new, v, r)
               PROVE  /\ Len(new.lockMap[r][v]) = 1
                      /\ \A w \in UIDs \ {v} : ~ Holds(new, w, r)
    BY DEF WriterAlone
  <2>1. Entries(st, v, r) = 1 /\ \A w \in UIDs \ {v} : ~ Holds(st, w, r)
    BY <1>4 DEF WriterAlone, Entries
  <2>2. Entries(new, v, r) \in Nat /\ Entries(new, v, r) > 0 /\ Entries(new, v, r) <= 1
    BY <1>1, <1>4, <2>1, CellFacts
  <2>3. Entries(new, v, r) = 1
    BY <2>2
  <2>4. \A w \in UIDs \ {v} : ~ Holds(new, w, r)
    BY <2>1, <1>4
  <2> QED
    BY <2>3, <2>4 DEF Entries
<1>6. IndexBacked(new)
  <2> SUFFICES ASSUME NEW k \in new.lockUID
               PROVE  Holds(new, k[1], KeyResource(k))
    BY DEF IndexBacked
  <2>1. k \in st.lockUID /\ k \in Keys
    BY RemoveCells DEF LockTable
  <2>2. k[1] \in UIDs /\ KeyResource(k) \in Resources
    BY <2>1, KeyFacts
  <2>3. Holds(st, k[1], KeyResource(k))
    BY <2>1 DEF IndexBacked
  <2>4. new.lockMap[KeyResource(k)][k[1]] = st.lockMap[KeyResource(k)][k[1]]
    BY <2>2, <1>2, RemoveCells
  <2> QED
    BY <2>3, <2>4 DEF Holds
<1> QED
  BY <1>1, <1>3, <1>5, <1>6

\* Taking entries and keys away, but no entry of a key that stays, keeps a table
\* in order.
LEMMA PrunedOK ==
    ASSUME NEW st, TableOK(st), NEW new, new \in LockTable, OldestFirst(new),
           \A r \in Resources, v \in UIDs : Entries(new, v, r) <= Entries(st, v, r),
           new.lockUID \subseteq st.lockUID,
           \A k \in new.lockUID : Entries(new, k[1], KeyResource(k)) > 0
    PROVE  TableOK(new)
<1> USE DEF TableOK
<1>1. \A r \in Resources, v \in UIDs :
         /\ Entries(st, v, r) \in Nat /\ Entries(new, v, r) \in Nat
         /\ Holds(st, v, r) <=> Entries(st, v, r) > 0
         /\ Holds(new, v, r) <=> Entries(new, v, r) > 0
  BY CellFacts
<1>2. \A r \in Resources, v \in UIDs : Holds(new, v, r) => Holds(st, v, r)
  BY <1>1
<1>3. WriterAlone(new)
  <2> SUFFICES ASSUME NEW r \in Resources, NEW v \in UIDs, Writer(v), Holds(new, v, r)
               PROVE  /\ Len(new.lockMap[r][v]) = 1
                      /\ \A w \in UIDs \ {v} : ~ Holds(new, w, r)
    BY DEF WriterAlone
  <2>1. Entries(st, v, r) = 1 /\ \A w \in UIDs \ {v} : ~ Holds(st, w, r)
    BY <1>2 DEF WriterAlone, Entries
  <2>2. Entries(new, v, r) = 1
    BY <1>1, <2>1
  <2>3. \A w \in UIDs \ {v} : ~ Holds(new, w, r)
    BY <2>1, <1>2
  <2> QED
    BY <2>2, <2>3 DEF Entries
<1>4. IndexBacked(new)
  <2> SUFFICES ASSUME NEW k \in new.lockUID
               PROVE  Holds(new, k[1], KeyResource(k))
    BY DEF IndexBacked
  <2>1. k \in Keys
    BY DEF LockTable
  <2>2. k[1] \in UIDs /\ KeyResource(k) \in Resources
    BY <2>1, KeyFacts
  <2> QED
    BY <2>2, <1>1
<1> QED
  BY <1>3, <1>4

\* Unlock keeps what the table promises and takes at most one entry, of the
\* releasing request, from a resource.
LEMMA UnlockKeeps ==
    ASSUME NEW st, TableOK(st), NEW u \in UIDs
    PROVE  /\ TableOK(Unlock(st, u).st)
           /\ Unlock(st, u).reply \in BOOLEAN /\ Unlock(st, u).err \in BOOLEAN
           /\ \A v \in UIDs, r \in Resources :
                Entries(Unlock(st, u).st, v, r) >=
                  Entries(st, v, r) - (IF v = u THEN 1 ELSE 0)
<1> DEFINE open == {r \in ResourcesOf(u) : canTakeUnlock(st, r)}
<1>1. open \subseteq Resources
  BY SizeFacts
<1>2. Unlock(st, u).st = st \/ Unlock(st, u).st = removeEntry(st, u, open)
  BY DEF Unlock, Result
<1>3. Unlock(st, u).reply \in BOOLEAN /\ Unlock(st, u).err \in BOOLEAN
  BY Zenon DEF Unlock, Result
<1>4. TableOK(Unlock(st, u).st)
  BY <1>1, <1>2, RemoveKeeps
<1>5. ASSUME NEW v \in UIDs, NEW r \in Resources
      PROVE  Entries(Unlock(st, u).st, v, r) >= Entries(st, v, r) - (IF v = u THEN 1 ELSE 0)
  <2>1. Entries(st, v, r) \in Nat
    BY CellFacts DEF TableOK
  <2>2. \/ Entries(Unlock(st, u).st, v, r) = Entries(st, v, r)
        \/ v = u /\ Entries(Unlock(st, u).st, v, r) = Entries(st, v, r) - 1
    BY <1>1, <1>2, RemoveEntries DEF TableOK
  <2> QED
    BY <2>1, <2>2
<1> QED
  BY <1>3, <1>4, <1>5

\* RUnlock keeps what the table promises and takes at most one entry, of the
\* releasing request, from a resource.
LEMMA RUnlockKeeps ==
    ASSUME NEW st, TableOK(st), NEW u \in UIDs
    PROVE  /\ TableOK(RUnlock(st, u).st)
           /\ RUnlock(st, u).reply \in BOOLEAN /\ RUnlock(st, u).err \in BOOLEAN
           /\ \A v \in UIDs, r \in Resources :
                Entries(RUnlock(st, u).st, v, r) >=
                  Entries(st, v, r) - (IF v = u THEN 1 ELSE 0)
<1> DEFINE open == {ResourceAt(u, 0)}
<1>1. open \subseteq Resources
  BY SizeFacts
<1>2. RUnlock(st, u).st = st \/ RUnlock(st, u).st = removeEntry(st, u, open)
  BY DEF RUnlock, Result
<1>3. RUnlock(st, u).reply \in BOOLEAN /\ RUnlock(st, u).err \in BOOLEAN
  BY DEF RUnlock, Result
<1>4. TableOK(RUnlock(st, u).st)
  BY <1>1, <1>2, RemoveKeeps
<1>5. ASSUME NEW v \in UIDs, NEW r \in Resources
      PROVE  Entries(RUnlock(st, u).st, v, r) >= Entries(st, v, r) - (IF v = u THEN 1 ELSE 0)
  <2>1. Entries(st, v, r) \in Nat
    BY CellFacts DEF TableOK
  <2>2. \/ Entries(RUnlock(st, u).st, v, r) = Entries(st, v, r)
        \/ v = u /\ Entries(RUnlock(st, u).st, v, r) = Entries(st, v, r) - 1
    BY <1>1, <1>2, RemoveEntries DEF TableOK
  <2> QED
    BY <2>1, <2>2
<1> QED
  BY <1>3, <1>4, <1>5

-----------------------------------------------------------------------------
(* RLock. *)

\* An RLock that is refused changes nothing.
LEMMA RLockRefused ==
    ASSUME NEW st, NEW u \in UIDs, ~ RLock(st, u).reply
    PROVE  RLock(st, u).st = st
BY DEF RLock, Result

\* A granted RLock appends one entry of u to its resource.
LEMMA RLockGranted ==
    ASSUME NEW st, st \in LockTable, NEW u \in UIDs, RLock(st, u).reply
    PROVE  LET new == RLock(st, u).st
               r0  == ResourceAt(u, 0)
           IN  /\ ~ isWriteLock(st, r0)
               /\ ResourcesOf(u) = {r0}
               /\ \A r \in Resources, v \in UIDs :
                    new.lockMap[r][v] = IF r = r0 /\ v = u
                                        THEN Append(st.lockMap[r][v], 0) ELSE st.lockMap[r][v]
               /\ new.lockUID = st.lockUID \cup {<<u, 0>>}
               /\ new \in LockTable
<1> DEFINE new == RLock(st, u).st
           r0  == ResourceAt(u, 0)
<1>1. /\ ~ isWriteLock(st, r0)
      /\ ~ (Size(u) > 1)
      /\ new = [lockMap |-> [st.lockMap EXCEPT ![r0][u] = Append(@, 0)],
                lockUID |-> st.lockUID \cup {<<u, 0>>}]
  BY DEF RLock, Result
<1>2. Size(u) = 1 /\ r0 \in Resources /\ ResourcesOf(u) = {r0}
  BY <1>1, SizeFacts DEF ResourcesOf
<1>3. st.lockMap \in [Resources -> [UIDs -> Seq(Ages)]] /\ st.lockUID \subseteq Keys
  BY DEF LockTable
<1>4. Append(st.lockMap[r0][u], 0) \in Seq(Ages)
  <2>1. 0 \in Ages /\ st.lockMap[r0][u] \in Seq(Ages)
    BY <1>2, <1>3, BoundsAssumption DEF Ages
  <2> QED
    BY <2>1, AppendProperties
<1>5. <<u, 0>> \in Keys
  BY <1>2, KeyOf
<1>6. new.lockMap \in [Resources -> [UIDs -> Seq(Ages)]]
  BY <1>1, <1>2, <1>3, <1>4
<1>7. new \in LockTable
  <2>3. new.lockUID = st.lockUID \cup {<<u, 0>>}
    BY <1>1
  <2>1. new.lockUID \subseteq Keys
    BY <2>3, <1>3, <1>5, Zenon
  <2>2. new = [lockMap |-> new.lockMap, lockUID |-> new.lockUID]
    BY <1>1
  <2> QED
    BY <1>6, <2>1, <2>2 DEF LockTable
<1>8. \A r \in Resources, v \in UIDs :
         new.lockMap[r][v] = IF r = r0 /\ v = u
                             THEN Append(st.lockMap[r][v], 0) ELSE st.lockMap[r][v]
  BY <1>1, <1>2, <1>3
<1> QED
  BY <1>1, <1>2, <1>7, <1>8

\* A granted RLock adds one entry, also when the request has one already.
LEMMA RLockEntries ==
    ASSUME NEW st, st \in LockTable, NEW u \in UIDs, RLock(st, u).reply,
           NEW v \in UIDs, NEW r \in Resources
    PROVE  Entries(RLock(st, u).st, v, r) =
             IF v = u /\ r \in ResourcesOf(u) THEN Entries(st, v, r) + 1 ELSE Entries(st, v, r)
<1>1. st.lockMap[r][v] \in Seq(Ages) /\ 0 \in Ages
  BY CellFacts, BoundsAssumption DEF Ages
<1>2. Len(Append(st.lockMap[r][v], 0)) = Len(st.lockMap[r][v]) + 1
  BY <1>1, AppendProperties
<1>3. RLock(st, u).st.lockMap[r][v] = IF v = u /\ r \in ResourcesOf(u)
                                      THEN Append(st.lockMap[r][v], 0) ELSE st.lockMap[r][v]
  BY RLockGranted
<1> QED
  BY <1>2, <1>3 DEF Entries

\* RLock of a reader, granted or not, keeps what the table promises.
LEMMA RLockKeeps ==
    ASSUME NEW st, TableOK(st), NEW u \in UIDs, ~ Writer(u)
    PROVE  /\ TableOK(RLock(st, u).st)
           /\ RLock(st, u).reply \in BOOLEAN /\ RLock(st, u).err \in BOOLEAN
<1> DEFINE new == RLock(st, u).st
           r0  == ResourceAt(u, 0)
<1>0. RLock(st, u).reply \in BOOLEAN /\ RLock(st, u).err \in BOOLEAN
  BY DEF RLock, Result
<1>1. CASE ~ RLock(st, u).reply
  BY <1>0, <1>1, RLockRefused
<1>2. CASE RLock(st, u).reply
  <2> USE DEF TableOK
  <2>1. /\ ~ isWriteLock(st, r0)
        /\ new.lockUID = st.lockUID \cup {<<u, 0>>}
        /\ new \in LockTable
        /\ r0 \in Resources /\ ResourcesOf(u) = {r0}
        /\ <<u, 0>> \in Keys /\ KeyResource(<<u, 0>>) = r0
    BY <1>2, RLockGranted, SizeFacts, KeyOf
  <2>2. \A r \in Resources, v \in UIDs :
           new.lockMap[r][v] = IF r = r0 /\ v = u
                               THEN Append(st.lockMap[r][v], 0) ELSE st.lockMap[r][v]
    BY <1>2, RLockGranted
  <2>3. OldestFirst(new)
    <3> SUFFICES ASSUME NEW r \in Resources, NEW v \in UIDs,
                        NEW i \in DOMAIN new.lockMap[r][v], NEW j \in DOMAIN new.lockMap[r][v],
                        i < j
                 PROVE  new.lockMap[r][v][i] >= new.lockMap[r][v][j]
      BY DEF OldestFirst
    <3>1. CASE r = r0 /\ v = u
      <4> DEFINE s == st.lockMap[r][v]
      <4>1. s \in Seq(Ages) /\ 0 \in Ages
        BY CellFacts, BoundsAssumption DEF Ages
      <4>7. new.lockMap[r][v] = Append(s, 0)
        BY Zenon, <3>1, <2>2
      <4> HIDE DEF s
      <4>2. /\ Len(Append(s, 0)) = Len(s) + 1 /\ Append(s, 0) \in Seq(Ages)
            /\ \A n \in 1 .. Len(s) : Append(s, 0)[n] = s[n]
            /\ Append(s, 0)[Len(s) + 1] = 0
        BY <4>1, AppendProperties
      <4>3. Len(s) \in Nat /\ DOMAIN s = 1 .. Len(s) /\ DOMAIN Append(s, 0) = 1 .. Len(s) + 1
        BY <4>1, <4>2, LenProperties
      <4>8. i \in 1 .. Len(s) + 1 /\ j \in 1 .. Len(s) + 1
        BY <4>3, <4>7
      <4>4. i \in 1 .. Len(s)
        BY <4>3, <4>8
      <4>5. CASE j = Len(s) + 1
        <5>1. s[i] \in Nat
          BY <4>1, <4>4, AgeAt
        <5>2. new.lockMap[r][v][i] = s[i]
          BY <4>2, <4>4, <4>7
        <5>3. new.lockMap[r][v][j] = 0
          BY <4>2, <4>5, <4>7
        <5> QED
          BY <5>1, <5>2, <5>3
      <4>6. CASE j \in 1 .. Len(s)
        <5>1. s[i] >= s[j]
          BY <4>3, <4>4, <4>6 DEF OldestFirst, s
        <5> QED
          BY <4>2, <4>4, <4>6, <4>7, <5>1
      <4> QED
        BY <4>3, <4>5, <4>6, <4>8
    <3>2. CASE ~ (r = r0 /\ v = u)
      BY <3>2, <2>2 DEF OldestFirst
    <3> QED
      BY <3>1, <3>2
  <2>4. \A r \in Resources, v \in UIDs :
           /\ Holds(new, v, r) <=> Holds(st, v, r) \/ (r = r0 /\ v = u)
           /\ v # u => new.lockMap[r][v] = st.lockMap[r][v]
    <3> SUFFICES ASSUME NEW r \in Resources, NEW v \in UIDs
                 PROVE  /\ Holds(new, v, r) <=> Holds(st, v, r) \/ (r = r0 /\ v = u)
                        /\ v # u => new.lockMap[r][v] = st.lockMap[r][v]
      OBVIOUS
    <3>1. st.lockMap[r][v] \in Seq(Ages) /\ 0 \in Ages
      BY CellFacts, BoundsAssumption DEF Ages
    <3>2. Append(st.lockMap[r][v], 0) # <<>>
      BY <3>1, AppendProperties
    <3> QED
      BY Zenon, <3>2, <2>2 DEF Holds
  <2>5. WriterAlone(new)
    <3> SUFFICES ASSUME NEW r \in Resources, NEW v \in UIDs, Writer(v), Holds(new, v, r)
                 PROVE  /\ Len(new.lockMap[r][v]) = 1
                        /\ \A w \in UIDs \ {v} : ~ Holds(new, w, r)
      BY DEF WriterAlone
    <3>1. v # u
      OBVIOUS
    <3>2. Holds(st, v, r) /\ new.lockMap[r][v] = st.lockMap[r][v]
      BY <3>1, <2>4
    <3>3. Len(st.lockMap[r][v]) = 1 /\ \A w \in UIDs \ {v} : ~ Holds(st, w, r)
      BY <3>2 DEF WriterAlone
    <3>4. r # r0
      BY <3>3, <2>1 DEF isWriteLock
    <3> QED
      BY <3>2, <3>3, <3>4, <2>4
  <2>6. IndexBacked(new)
    <3> SUFFICES ASSUME NEW k \in new.lockUID
                 PROVE  Holds(new, k[1], KeyResource(k))
      BY DEF IndexBacked
    <3>1. CASE k \in st.lockUID
      <4>1. k \in Keys /\ Holds(st, k[1], KeyResource(k))
        BY <3>1 DEF LockTable, IndexBacked
      <4>2. k[1] \in UIDs /\ KeyResource(k) \in Resources
        BY <4>1, KeyFacts
      <4> QED
        BY <4>1, <4>2, <2>4
    <3>2. CASE k = <<u, 0>>
      BY <3>2, <2>1, <2>4
    <3> QED
      BY <3>1, <3>2, <2>1
  <2> QED
    BY <1>0, <2>1, <2>3, <2>5, <2>6
<1> QED
  BY <1>0, <1>1, <1>2

-----------------------------------------------------------------------------
(* Forced release. *)

\* ForceUnlock of u leaves the entries of the others alone.
LEMMA ForceKeeps ==
    ASSUME NEW st, TableOK(st), NEW u \in UIDs
    PROVE  /\ TableOK(ForceUnlock(st, u).st)
           /\ ForceUnlock(st, u).reply \in BOOLEAN /\ ForceUnlock(st, u).err \in BOOLEAN
           /\ \A v \in UIDs \ {u}, r \in Resources :
                Entries(ForceUnlock(st, u).st, v, r) = Entries(st, v, r)
<1> DEFINE run   == IndexRun(st, u)
           rs    == {ResourceAt(u, i) : i \in run}
           after == removeEntry(st, u, rs)
           stray == {<<u, i>> : i \in {j \in run : ~ Taken(st, ResourceAt(u, j))}}
           new   == ForceUnlock(st, u).st
<1>1. new = [after EXCEPT !.lockUID = @ \ stray]
  BY DEF ForceUnlock, Result
<1>2. run \subseteq 0 .. Size(u) - 1 /\ rs \subseteq Resources
  BY SizeFacts DEF IndexRun
<1>3. TableOK(after)
  BY <1>2, RemoveKeeps
<1> HIDE DEF after, stray
<1>4. new.lockMap = after.lockMap /\ new.lockUID = after.lockUID \ stray /\ new \in LockTable
  BY Zenon, <1>1, <1>3 DEF LockTable, TableOK
<1>5. OldestFirst(new)
  BY <1>3, <1>4 DEF OldestFirst, TableOK
<1>6. \A r \in Resources, v \in UIDs :
         Entries(new, v, r) = Entries(after, v, r) /\ Entries(after, v, r) \in Nat
  BY <1>3, <1>4, CellFacts DEF Entries, TableOK
<1>7. \A k \in new.lockUID : Entries(new, k[1], KeyResource(k)) > 0
  <2> SUFFICES ASSUME NEW k \in new.lockUID
               PROVE  Entries(new, k[1], KeyResource(k)) > 0
    OBVIOUS
  <2>1. k \in after.lockUID /\ k \in Keys
    BY <1>4 DEF LockTable
  <2>2. Holds(after, k[1], KeyResource(k))
    BY <2>1, <1>3 DEF IndexBacked, TableOK
  <2>3. k[1] \in UIDs /\ KeyResource(k) \in Resources
    BY <2>1, KeyFacts
  <2> QED
    BY <2>2, <2>3, <1>3, <1>6, CellFacts DEF TableOK
<1>8. TableOK(new)
  BY <1>3, <1>4, <1>5, <1>6, <1>7, PrunedOK
<1>9. \A v \in UIDs \ {u}, r \in Resources : Entries(after, v, r) = Entries(st, v, r)
  BY <1>2, RemoveEntries DEF after, TableOK
<1>10. ForceUnlock(st, u).reply \in BOOLEAN /\ ForceUnlock(st, u).err \in BOOLEAN
  BY DEF ForceUnlock, Result
<1> QED
  BY <1>6, <1>8, <1>9, <1>10

\* The admin's ForceUnlock drops the entries of a resource with their keys.
LEMMA ForceResourcesKeeps ==
    ASSUME NEW st, TableOK(st), NEW rs, rs \subseteq Resources
    PROVE  /\ TableOK(ForceUnlockResources(st, rs).st)
           /\ ForceUnlockResources(st, rs).reply \in BOOLEAN
           /\ ForceUnlockResources(st, rs).err \in BOOLEAN
<1> DEFINE new == ForceUnlockResources(st, rs).st
<1> USE DEF TableOK
<1>1. new = [lockMap |-> [r \in Resources |->
                            IF r \in rs THEN [u \in UIDs |-> <<>>] ELSE st.lockMap[r]],
             lockUID |-> {k \in st.lockUID :
                            KeyResource(k) \in rs => ~ Holds(st, k[1], KeyResource(k))}]
  BY DEF ForceUnlockResources, Result
<1>2. \A r \in Resources, v \in UIDs :
         new.lockMap[r][v] = IF r \in rs THEN <<>> ELSE st.lockMap[r][v]
  BY <1>1
<1>3. new \in LockTable
  BY <1>1, EmptySeq DEF LockTable
<1>4. OldestFirst(new)
  BY <1>2 DEF OldestFirst
<1>5. \A r \in Resources, v \in UIDs : Entries(new, v, r) <= Entries(st, v, r)
  <2> SUFFICES ASSUME NEW r \in Resources, NEW v \in UIDs
               PROVE  Entries(new, v, r) <= Entries(st, v, r)
    OBVIOUS
  <2>1. Entries(st, v, r) \in Nat /\ Len(<<>>) = 0
    BY CellFacts
  <2>2. Entries(new, v, r) = IF r \in rs THEN 0 ELSE Entries(st, v, r)
    BY <1>2, <2>1 DEF Entries
  <2> QED
    BY <2>1, <2>2
<1>6. new.lockUID \subseteq st.lockUID
  BY <1>1
<1>7. \A k \in new.lockUID : Entries(new, k[1], KeyResource(k)) > 0
  <2> SUFFICES ASSUME NEW k \in new.lockUID
               PROVE  Entries(new, k[1], KeyResource(k)) > 0
    OBVIOUS
  <2>1. k \in Keys /\ Holds(st, k[1], KeyResource(k)) /\ KeyResource(k) \notin rs
    BY <1>1, <1>3 DEF LockTable, IndexBacked
  <2>2. k[1] \in UIDs /\ KeyResource(k) \in Resources
    BY <2>1, KeyFacts
  <2>3. Entries(new, k[1], KeyResource(k)) = Entries(st, k[1], KeyResource(k))
    BY <1>2, <2>1, <2>2 DEF Entries
  <2> QED
    BY <2>1, <2>2, <2>3, CellFacts
<1>8. TableOK(new)
  BY <1>3, <1>4, <1>5, <1>6, <1>7, PrunedOK
<1> QED
  BY <1>8 DEF ForceUnlockResources, Result

-----------------------------------------------------------------------------
(* Refresh, expiry and the clock. *)

\* Refresh changes ages only, and drops a key at most.
LEMMA RefreshKeeps ==
    ASSUME NEW st, TableOK(st), NEW u \in UIDs
    PROVE  /\ TableOK(Refresh(st, u).st)
           /\ Refresh(st, u).reply \in BOOLEAN /\ Refresh(st, u).err \in BOOLEAN
           /\ \A v \in UIDs, r \in Resources :
                Entries(Refresh(st, u).st, v, r) = Entries(st, v, r)
<1> DEFINE run   == IndexRun(st, u)
           stop  == {i \in run : ~ Taken(st, ResourceAt(u, i))}
           fresh == {i \in run : \A j \in stop : i < j}
           rs    == {ResourceAt(u, i) : i \in fresh}
           first == {<<u, i>> : i \in {j \in stop : \A k \in stop : j <= k}}
           new   == Refresh(st, u).st
<1> USE DEF TableOK
<1>1. new = [lockMap |-> [r \in Resources |->
                            IF r \in rs
                            THEN [st.lockMap[r] EXCEPT ![u] = [k \in DOMAIN @ |-> 0]]
                            ELSE st.lockMap[r]],
             lockUID |-> st.lockUID \ first]
  BY DEF Refresh, Result
<1>2. Refresh(st, u).reply \in BOOLEAN /\ Refresh(st, u).err \in BOOLEAN
  BY DEF Refresh, Result
<1> HIDE DEF rs, first
<1>3. st.lockMap \in [Resources -> [UIDs -> Seq(Ages)]] /\ st.lockUID \subseteq Keys
  BY DEF LockTable
<1>4. ASSUME NEW r \in Resources
      PROVE  /\ [k \in DOMAIN st.lockMap[r][u] |-> 0] \in Seq(Ages)
             /\ Len([k \in DOMAIN st.lockMap[r][u] |-> 0]) = Entries(st, u, r)
             /\ DOMAIN [k \in DOMAIN st.lockMap[r][u] |-> 0] = 1 .. Entries(st, u, r)
  <2>1. Entries(st, u, r) \in Nat /\ DOMAIN st.lockMap[r][u] = 1 .. Entries(st, u, r)
    BY CellFacts
  <2>2. 0 \in Ages
    BY BoundsAssumption DEF Ages
  <2> QED
    BY <2>1, <2>2
<1>5. \A r \in Resources, v \in UIDs :
         new.lockMap[r][v] = IF v = u /\ r \in rs
                             THEN [k \in DOMAIN st.lockMap[r][u] |-> 0]
                             ELSE st.lockMap[r][v]
  BY <1>1, <1>3
<1>6. new.lockMap \in [Resources -> [UIDs -> Seq(Ages)]]
  BY <1>1, <1>3, <1>4
<1>7. new \in LockTable
  <2>1. new.lockUID \subseteq Keys
    BY <1>1, <1>3
  <2>2. new = [lockMap |-> new.lockMap, lockUID |-> new.lockUID]
    BY <1>1
  <2> QED
    BY <1>6, <2>1, <2>2 DEF LockTable
<1>8. \A v \in UIDs, r \in Resources : Entries(new, v, r) = Entries(st, v, r)
  BY Zenon, <1>4, <1>5 DEF Entries
<1>9. OldestFirst(new)
  <2> SUFFICES ASSUME NEW r \in Resources, NEW v \in UIDs,
                      NEW i \in DOMAIN new.lockMap[r][v], NEW j \in DOMAIN new.lockMap[r][v],
                      i < j
               PROVE  new.lockMap[r][v][i] >= new.lockMap[r][v][j]
    BY DEF OldestFirst
  <2>1. CASE v = u /\ r \in rs
    <3>1. new.lockMap[r][v] = [k \in DOMAIN st.lockMap[r][u] |-> 0]
      BY <1>5, <2>1
    <3>2. new.lockMap[r][v][i] = 0 /\ new.lockMap[r][v][j] = 0
      BY <3>1
    <3> QED
      BY <3>2
  <2>2. CASE ~ (v = u /\ r \in rs)
    BY Zenon, <1>5, <2>2 DEF OldestFirst
  <2> QED
    BY <2>1, <2>2
<1>10. \A k \in new.lockUID : Entries(new, k[1], KeyResource(k)) > 0
  <2> SUFFICES ASSUME NEW k \in new.lockUID
               PROVE  Entries(new, k[1], KeyResource(k)) > 0
    OBVIOUS
  <2>1. k \in Keys /\ Holds(st, k[1], KeyResource(k))
    BY <1>1, <1>3 DEF IndexBacked
  <2>2. k[1] \in UIDs /\ KeyResource(k) \in Resources
    BY <2>1, KeyFacts
  <2> QED
    BY <2>1, <2>2, <1>8, CellFacts
<1>11. \A v \in UIDs, r \in Resources : Entries(new, v, r) <= Entries(st, v, r)
  BY <1>8, CellFacts
<1>12. new.lockUID \subseteq st.lockUID
  BY <1>1
<1>13. TableOK(new)
  BY <1>7, <1>9, <1>10, <1>11, <1>12, PrunedOK
<1> QED
  BY <1>2, <1>8, <1>13

\* A tick changes ages only.
LEMMA OlderKeeps ==
    ASSUME NEW st, TableOK(st)
    PROVE  /\ TableOK(Older(st))
           /\ \A v \in UIDs, r \in Resources : Entries(Older(st), v, r) = Entries(st, v, r)
<1> DEFINE new == Older(st)
           aged(s) == [k \in DOMAIN s |-> IF s[k] > LockValidity THEN s[k] ELSE s[k] + 1]
<1> USE DEF TableOK
<1>1. ASSUME NEW r \in Resources, NEW v \in UIDs
      PROVE  /\ new.lockMap[r][v] = aged(st.lockMap[r][v])
             /\ new.lockMap[r][v] \in Seq(Ages)
             /\ Entries(new, v, r) = Entries(st, v, r)
             /\ DOMAIN new.lockMap[r][v] = 1 .. Entries(st, v, r)
             /\ DOMAIN st.lockMap[r][v] = 1 .. Entries(st, v, r)
  <2>1. new.lockMap[r][v] = aged(st.lockMap[r][v])
    BY DEF Older
  <2>2. /\ Entries(st, v, r) \in Nat
        /\ DOMAIN st.lockMap[r][v] = 1 .. Entries(st, v, r)
        /\ st.lockMap[r][v] \in Seq(Ages)
    BY CellFacts
  <2>3. \A k \in 1 .. Entries(st, v, r) : st.lockMap[r][v][k] \in Ages
    BY <2>2, AgeAt DEF Entries
  <2>4. \A k \in 1 .. Entries(st, v, r) : aged(st.lockMap[r][v])[k] \in Ages
    <3> TAKE k \in 1 .. Entries(st, v, r)
    <3>1. aged(st.lockMap[r][v])[k] = IF st.lockMap[r][v][k] > LockValidity
                                      THEN st.lockMap[r][v][k] ELSE st.lockMap[r][v][k] + 1
      BY <2>2
    <3>2. st.lockMap[r][v][k] \in Ages
      BY <2>3
    <3> QED
      BY Zenon, <3>1, <3>2, AgeFacts
  <2>5. aged(st.lockMap[r][v]) \in [1 .. Entries(st, v, r) -> Ages]
    BY <2>2, <2>4
  <2>6. aged(st.lockMap[r][v]) \in Seq(Ages) /\ Len(aged(st.lockMap[r][v])) = Entries(st, v, r)
    BY <2>2, <2>5
  <2> QED
    BY <2>1, <2>2, <2>6 DEF Entries
<1>2. new \in LockTable
  <2>1. new.lockMap \in [Resources -> [UIDs -> Seq(Ages)]]
    <3>1. new.lockMap = [r \in Resources |-> [v \in UIDs |-> new.lockMap[r][v]]]
      BY DEF Older
    <3> QED
      BY Zenon, <3>1, <1>1
  <2>2. new.lockUID \subseteq Keys /\ new = [lockMap |-> new.lockMap, lockUID |-> new.lockUID]
    BY DEF Older, LockTable
  <2> QED
    BY <2>1, <2>2 DEF LockTable
<1>3. OldestFirst(new)
  <2> SUFFICES ASSUME NEW r \in Resources, NEW v \in UIDs,
                      NEW i \in DOMAIN new.lockMap[r][v], NEW j \in DOMAIN new.lockMap[r][v],
                      i < j
               PROVE  new.lockMap[r][v][i] >= new.lockMap[r][v][j]
    BY DEF OldestFirst
  <2>1. i \in DOMAIN st.lockMap[r][v] /\ j \in DOMAIN st.lockMap[r][v]
    BY Zenon, <1>1
  <2>2. st.lockMap[r][v][i] >= st.lockMap[r][v][j]
    BY <2>1 DEF OldestFirst
  <2>3. st.lockMap[r][v][i] \in Ages /\ st.lockMap[r][v][j] \in Ages
    BY <2>1, CellFacts, ElementOfSeq DEF Entries
  <2>4. aged(st.lockMap[r][v])[i] >= aged(st.lockMap[r][v])[j]
    BY <2>1, <2>2, <2>3, BoundsAssumption DEF Ages
  <2> QED
    BY Zenon, <1>1, <2>4
<1>4. new.lockUID = st.lockUID
  BY DEF Older
<1>5. \A k \in new.lockUID : Entries(new, k[1], KeyResource(k)) > 0
  <2> SUFFICES ASSUME NEW k \in new.lockUID
               PROVE  Entries(new, k[1], KeyResource(k)) > 0
    OBVIOUS
  <2>1. k \in Keys /\ Holds(st, k[1], KeyResource(k))
    BY <1>4 DEF IndexBacked, LockTable
  <2>2. k[1] \in UIDs /\ KeyResource(k) \in Resources
    BY <2>1, KeyFacts
  <2> QED
    BY Zenon, <2>1, <2>2, <1>1, CellFacts
<1>6. \A v \in UIDs, r \in Resources : Entries(new, v, r) <= Entries(st, v, r)
  <2> TAKE v \in UIDs, r \in Resources
  <2>1. Entries(st, v, r) \in Nat /\ Entries(new, v, r) = Entries(st, v, r)
    BY Zenon, <1>1, CellFacts
  <2> QED
    BY <2>1
<1>7. TableOK(new)
  BY <1>2, <1>3, <1>4, <1>5, <1>6, PrunedOK
<1> QED
  BY Zenon, <1>1, <1>7

\* How many entries a pass of expireOldLocks drops, whichever of those at the
\* limit it comes too late for.
LEMMA ExpiredCount ==
    ASSUME NEW st, NEW late, NEW r, NEW u, st.lockMap[r][u] \in Seq(Ages)
    PROVE  Expired(st, late, r, u) \in 0 .. Len(st.lockMap[r][u])
<1> DEFINE s == st.lockMap[r][u]
           old == {k \in DOMAIN s : s[k] > LockValidity \/ <<r, u, k>> \in late}
<1>1. Len(s) \in Nat /\ DOMAIN s = 1 .. Len(s)
  BY LenProperties
<1>2. IsFiniteSet(1 .. Len(s)) /\ Cardinality(1 .. Len(s)) = Len(s)
  BY <1>1, FS_Interval
<1>3. old \subseteq 1 .. Len(s)
  BY <1>1
<1>4. Expired(st, late, r, u) = Cardinality(old)
  BY DEF Expired
<1> HIDE DEF s, old
<1>5. Cardinality(old) \in Nat /\ Cardinality(old) <= Len(s)
  BY <1>2, <1>3, FS_Subset, FS_CardinalityType
<1>6. Expired(st, late, r, u) \in 0 .. Len(s)
  BY <1>1, <1>4, <1>5
<1> QED
  BY <1>6 DEF s

\* A pass of expireOldLocks keeps the youngest entries of each request, and only
\* the keys of requests none of whose entries it dropped.
LEMMA ExpireKeeps ==
    ASSUME NEW st, TableOK(st), NEW late
    PROVE  TableOK(expireOldLocks(st, late))
<1> DEFINE new == expireOldLocks(st, late)
           cell(r, v) == st.lockMap[r][v]
           drop(r, v) == Expired(st, late, r, v)
<1> USE DEF TableOK
<1>1. ASSUME NEW r \in Resources, NEW v \in UIDs
      PROVE  /\ drop(r, v) \in Nat
             /\ new.lockMap[r][v] \in Seq(Ages)
             /\ Entries(new, v, r) = Entries(st, v, r) - drop(r, v)
             /\ Entries(new, v, r) \in Nat
             /\ \A i \in 1 .. Entries(new, v, r) :
                   /\ new.lockMap[r][v][i] = cell(r, v)[drop(r, v) + i]
                   /\ drop(r, v) + i \in 1 .. Entries(st, v, r)
  <2>1. new.lockMap[r][v] = SubSeq(cell(r, v), drop(r, v) + 1, Len(cell(r, v)))
    BY Zenon DEF expireOldLocks
  <2>2. /\ Entries(st, v, r) \in Nat
        /\ DOMAIN cell(r, v) = 1 .. Entries(st, v, r)
        /\ cell(r, v) \in Seq(Ages)
        /\ Entries(st, v, r) = Len(cell(r, v))
    BY CellFacts DEF Entries
  <2>3. drop(r, v) \in 0 .. Entries(st, v, r)
    BY <2>2, ExpiredCount
  <2> HIDE DEF cell, drop, new
  <2>4. \A k \in drop(r, v) + 1 .. Len(cell(r, v)) : cell(r, v)[k] \in Ages
    BY <2>2, <2>3, ElementOfSeq
  <2>5. /\ new.lockMap[r][v] \in Seq(Ages)
        /\ Len(new.lockMap[r][v]) = IF drop(r, v) + 1 <= Len(cell(r, v))
                                    THEN Len(cell(r, v)) - (drop(r, v) + 1) + 1 ELSE 0
        /\ \A i \in 1 .. Len(cell(r, v)) - (drop(r, v) + 1) + 1 :
              new.lockMap[r][v][i] = cell(r, v)[drop(r, v) + 1 + i - 1]
    BY <2>1, <2>2, <2>3, <2>4, SubSeqProperties
  <2>6. Len(new.lockMap[r][v]) = Entries(st, v, r) - drop(r, v)
    BY <2>2, <2>3, <2>5
  <2>7. /\ Entries(new, v, r) = Entries(st, v, r) - drop(r, v)
        /\ Entries(new, v, r) \in Nat /\ drop(r, v) \in Nat
    BY <2>2, <2>3, <2>6 DEF Entries
  <2>8. ASSUME NEW i \in 1 .. Entries(new, v, r)
        PROVE  /\ new.lockMap[r][v][i] = cell(r, v)[drop(r, v) + i]
               /\ drop(r, v) + i \in 1 .. Entries(st, v, r)
    <3>1. i \in 1 .. Len(cell(r, v)) - (drop(r, v) + 1) + 1
      BY <2>2, <2>3, <2>7
    <3>2. drop(r, v) + 1 + i - 1 = drop(r, v) + i
      BY <2>7
    <3>3. new.lockMap[r][v][i] = cell(r, v)[drop(r, v) + 1 + i - 1]
      BY <2>5, <3>1
    <3> QED
      BY <2>2, <2>7, <3>2, <3>3
  <2> QED
    BY <2>5, <2>7, <2>8
<1>2. new \in LockTable
  <2>1. new.lockMap \in [Resources -> [UIDs -> Seq(Ages)]]
    <3>1. new.lockMap = [r \in Resources |-> [v \in UIDs |-> new.lockMap[r][v]]]
      BY Zenon DEF expireOldLocks
    <3> QED
      BY <3>1, <1>1
  <2>2. new.lockUID \subseteq Keys /\ new = [lockMap |-> new.lockMap, lockUID |-> new.lockUID]
    BY DEF expireOldLocks, LockTable
  <2> QED
    BY <2>1, <2>2 DEF LockTable
<1> HIDE DEF cell, drop
<1>3. OldestFirst(new)
  <2> SUFFICES ASSUME NEW r \in Resources, NEW v \in UIDs,
                      NEW i \in DOMAIN new.lockMap[r][v], NEW j \in DOMAIN new.lockMap[r][v],
                      i < j
               PROVE  new.lockMap[r][v][i] >= new.lockMap[r][v][j]
    BY DEF OldestFirst
  <2>1. i \in 1 .. Entries(new, v, r) /\ j \in 1 .. Entries(new, v, r)
    BY <1>2, CellFacts
  <2>2. drop(r, v) + i \in DOMAIN cell(r, v) /\ drop(r, v) + j \in DOMAIN cell(r, v)
    BY <1>1, <2>1, CellFacts DEF cell
  <2>3. drop(r, v) + i < drop(r, v) + j
    BY <1>1, <2>1
  <2>4. cell(r, v)[drop(r, v) + i] >= cell(r, v)[drop(r, v) + j]
    BY <2>2, <2>3 DEF OldestFirst, cell
  <2> QED
    BY <1>1, <2>1, <2>4
<1>4. new.lockUID \subseteq st.lockUID /\ \A k \in new.lockUID : drop(KeyResource(k), k[1]) = 0
  BY DEF expireOldLocks, drop
<1> HIDE DEF new
<1>5. \A k \in new.lockUID : Entries(new, k[1], KeyResource(k)) > 0
  <2> SUFFICES ASSUME NEW k \in new.lockUID
               PROVE  Entries(new, k[1], KeyResource(k)) > 0
    OBVIOUS
  <2>1. k \in Keys /\ Holds(st, k[1], KeyResource(k)) /\ drop(KeyResource(k), k[1]) = 0
    BY <1>4 DEF IndexBacked, LockTable
  <2>2. k[1] \in UIDs /\ KeyResource(k) \in Resources
    BY <2>1, KeyFacts
  <2>3. Entries(st, k[1], KeyResource(k)) \in Nat /\ Entries(st, k[1], KeyResource(k)) > 0
    BY <2>1, <2>2, CellFacts
  <2> QED
    BY <2>1, <2>2, <2>3, <1>1
<1>6. \A v \in UIDs, r \in Resources : Entries(new, v, r) <= Entries(st, v, r)
  BY <1>1, CellFacts
<1>7. TableOK(new)
  BY <1>2, <1>3, <1>4, <1>5, <1>6, PrunedOK
<1> QED
  BY <1>7 DEF new
=============================================================================
