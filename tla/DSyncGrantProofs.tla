-------------------------- MODULE DSyncGrantProofs --------------------------
(***************************************************************************)
(* Every grant of the distributed mutex that is not released yet is backed *)
(* by an entry of its own (GrantsBacked).  It is inductive only with       *)
(* everything that may still be released, by this or an earlier attempt,   *)
(* on the other side of the scale: that is Owed.                           *)
(***************************************************************************)
EXTENDS DSyncTypeProofs

-----------------------------------------------------------------------------
(* Grants are backed: both sides of the scale. *)

\* What Owed adds up: answers waiting in ch, releases under way, and the mark
\* of a locker that is counted or about to be released.
Granted(u, l) == {a \in Attempts : call[u][a][l] = "granted"}
Late(u, l) == {a \in Attempts : <<u, a, l>> \in releases}
Mark(u, l) == IF l \in Counted(u) THEN 1 ELSE 0

Trying == {"idle", "acquire", "abort", "backoff", "held"}

\* How sets of attempts are counted.
LEMMA AttemptSets ==
    ASSUME NEW S, S \subseteq Attempts
    PROVE  /\ Cardinality(S) \in Nat
           /\ \A T : T \subseteq S => Cardinality(T) <= Cardinality(S)
           /\ \A a : Cardinality(S \cup {a}) <= Cardinality(S) + 1
           /\ \A a \in S : Cardinality(S \ {a}) = Cardinality(S) - 1
<1>1. IsFiniteSet(Attempts)
  BY DSyncAssumption, FS_Interval DEF Attempts
<1>2. IsFiniteSet(S) /\ Cardinality(S) \in Nat
  BY <1>1, FS_Subset, FS_CardinalityType
<1>3. \A T : T \subseteq S => Cardinality(T) <= Cardinality(S)
  BY <1>2, FS_Subset
<1>4. \A a : Cardinality(S \cup {a}) <= Cardinality(S) + 1
  <2>1. \A a : Cardinality(S \cup {a}) = IF a \in S THEN Cardinality(S) ELSE Cardinality(S) + 1
    BY <1>2, FS_AddElement
  <2> QED
    BY <1>2, <2>1
<1>5. \A a \in S : Cardinality(S \ {a}) = Cardinality(S) - 1
  BY Zenon, <1>2, FS_RemoveElement
<1> QED
  BY Zenon, <1>2, <1>3, <1>4, <1>5

\* The sum, before and after a step.
LEMMA OwedSum ==
    ASSUME NEW u \in UIDs, NEW l \in Lockers
    PROVE  /\ Owed(u, l) = Cardinality(Granted(u, l)) + Cardinality(Late(u, l)) + Mark(u, l)
           /\ Owed(u, l)' = Cardinality(Granted(u, l)') + Cardinality(Late(u, l)') + Mark(u, l)'
           /\ Granted(u, l) \subseteq Attempts /\ Granted(u, l)' \subseteq Attempts
           /\ Late(u, l) \subseteq Attempts /\ Late(u, l)' \subseteq Attempts
           /\ Cardinality(Granted(u, l)) \in Nat /\ Cardinality(Granted(u, l)') \in Nat
           /\ Cardinality(Late(u, l)) \in Nat /\ Cardinality(Late(u, l)') \in Nat
           /\ Mark(u, l) \in {0, 1} /\ Mark(u, l)' \in {0, 1}
<1>1. /\ Owed(u, l) = Cardinality(Granted(u, l)) + Cardinality(Late(u, l)) + Mark(u, l)
      /\ Owed(u, l)' = Cardinality(Granted(u, l)') + Cardinality(Late(u, l)') + Mark(u, l)'
  BY DEF Owed, Granted, Late, Mark, Attempts
<1>2. /\ Granted(u, l) \subseteq Attempts /\ Granted(u, l)' \subseteq Attempts
      /\ Late(u, l) \subseteq Attempts /\ Late(u, l)' \subseteq Attempts
  BY DEF Granted, Late, Attempts
<1>3. Mark(u, l) \in {0, 1} /\ Mark(u, l)' \in {0, 1}
  BY DEF Mark
<1> QED
  BY <1>1, <1>2, <1>3, AttemptSets

\* A step that leaves the calls, releases and marks of u alone, or takes some
\* away, does not raise what it is owed.
LEMMA OwedShrinks ==
    ASSUME NEW u \in UIDs, NEW l \in Lockers,
           Granted(u, l)' \subseteq Granted(u, l), Late(u, l)' \subseteq Late(u, l),
           Mark(u, l)' <= Mark(u, l)
    PROVE  Owed(u, l)' <= Owed(u, l)
<1>1. /\ Cardinality(Granted(u, l)') <= Cardinality(Granted(u, l))
      /\ Cardinality(Late(u, l)') <= Cardinality(Late(u, l))
  BY OwedSum, AttemptSets
<1> QED
  BY <1>1, OwedSum

\* What a step does not touch of u.
Untouched(u) ==
    /\ pc'[u] = pc[u] /\ locks'[u] = locks[u] /\ todo'[u] = todo[u]
    /\ call'[u] = call[u]
    /\ \A a \in Attempts, l \in Lockers : <<u, a, l>> \in releases' => <<u, a, l>> \in releases

\* A step that does not touch u does not raise what it is owed.
LEMMA OwedUntouched ==
    ASSUME NEW u \in UIDs, NEW l \in Lockers, Untouched(u)
    PROVE  Owed(u, l)' <= Owed(u, l)
<1>1. Granted(u, l)' \subseteq Granted(u, l) /\ Late(u, l)' \subseteq Late(u, l)
  BY DEF Untouched, Granted, Late, Attempts
<1>2. Mark(u, l)' <= Mark(u, l)
  BY DEF Untouched, Mark, Counted
<1> QED
  BY <1>1, <1>2, OwedShrinks

\* The grants of u at l are backed.
Backed(u, l) == \A r \in ResourcesOf(u) : Entries(tables[l], u, r) >= Owed(u, l)

\* GrantsBacked, a caller and a locker at a time.
LEMMA BackedDef ==
    /\ GrantsBacked <=> \A u \in UIDs \ lapsed : pc[u] \in Trying =>
                           \A l \in Lockers : Backed(u, l)
    /\ GrantsBacked' <=> \A u \in UIDs \ lapsed' : pc'[u] \in Trying =>
                           \A l \in Lockers : Backed(u, l)'
<1>1. GrantsBacked <=> \A u \in UIDs \ lapsed : pc[u] \in Trying =>
                           \A l \in Lockers : Backed(u, l)
  BY DEF GrantsBacked, Backed, Trying, Entries
<1>2. GrantsBacked' <=> \A u \in UIDs \ lapsed' : pc'[u] \in Trying =>
                           \A l \in Lockers : Backed(u, l)'
  BY DEF GrantsBacked, Backed, Trying, Entries, ResourcesOf, Size, ResourceAt
<1> QED
  BY <1>1, <1>2

\* Entries can be counted, before and after a step.
LEMMA EntriesNat ==
    ASSUME Tables, Tables', NEW l \in Lockers, NEW u \in UIDs, NEW r \in Resources
    PROVE  Entries(tables[l], u, r) \in Nat /\ Entries(tables[l], u, r)' \in Nat
<1>1. tables[l] \in LockTable /\ tables'[l] \in LockTable
  BY DEF Tables, LockTable
<1>2. Entries(tables[l], u, r) \in Nat /\ Entries(tables'[l], u, r) \in Nat
  BY <1>1, CellFacts
<1> QED
  BY <1>2 DEF Entries

\* What u is owed at l changes by no more than its entries there.
LEMMA BackedKept ==
    ASSUME Tables, Tables', NEW u \in UIDs, NEW l \in Lockers, Backed(u, l), NEW d \in Int,
           Owed(u, l)' <= Owed(u, l) + d,
           \A r \in ResourcesOf(u) : Entries(tables[l], u, r)' >= Entries(tables[l], u, r) + d
    PROVE  Backed(u, l)'
<1>1. Owed(u, l) \in Nat /\ Owed(u, l)' \in Nat
  BY OwedSum
<1>2. \A r \in ResourcesOf(u) : Entries(tables[l], u, r) \in Nat /\ Entries(tables[l], u, r)' \in Nat
  BY SizeFacts, EntriesNat
<1>3. \A r \in ResourcesOf(u) : Entries(tables[l], u, r)' >= Owed(u, l)'
  BY <1>1, <1>2 DEF Backed
<1> QED
  BY <1>3 DEF Backed, ResourcesOf, Size, ResourceAt

\* A locker whose table is not touched.
LEMMA BackedUntouched ==
    ASSUME Tables, Tables', NEW u \in UIDs, NEW l \in Lockers, Backed(u, l),
           tables'[l] = tables[l], Owed(u, l)' <= Owed(u, l)
    PROVE  Backed(u, l)'
<1>1. \A r \in ResourcesOf(u) : Entries(tables[l], u, r)' >= Entries(tables[l], u, r) + 0
  BY SizeFacts, EntriesNat DEF Entries
<1>2. Owed(u, l)' <= Owed(u, l) + 0
  BY OwedSum
<1> QED
  BY <1>1, <1>2, BackedKept

-----------------------------------------------------------------------------
(* Acquiring. *)

\* The hypotheses every step starts from.
Before == Control /\ Tables /\ Tables' /\ GrantsBacked

\* A new attempt is owed nothing yet.
LEMMA AttemptBacked ==
    ASSUME Before, NEW u \in UIDs, Attempt(u)
    PROVE  GrantsBacked'
<1> SUFFICES ASSUME NEW v \in UIDs \ lapsed', pc'[v] \in Trying, NEW l \in Lockers
             PROVE  Backed(v, l)'
  BY BackedDef
<1>1. tables'[l] = tables[l] /\ lapsed' = lapsed
  BY DEF Attempt
<1>2. pc[v] \in Trying
  BY DEF Before, Control, TypeOK, Attempt, Trying
<1>3. Backed(v, l)
  BY <1>1, <1>2, BackedDef DEF Before
<1>4. CASE v # u
  <2>1. Untouched(v)
    BY <1>4 DEF Before, Control, TypeOK, Attempt, Untouched
  <2> QED
    BY <1>1, <1>3, <2>1, OwedUntouched, BackedUntouched DEF Before
<1>5. CASE v = u
  <2>1. attempt[u] + 1 \in Attempts
    BY DSyncAssumption DEF Before, Control, Attempt, TypeOK, Attempts
  <2>2. Granted(u, l)' \subseteq Granted(u, l)
    BY <2>1 DEF Before, Control, TypeOK, Attempt, Granted, Attempts
  <2>3. Late(u, l)' \subseteq Late(u, l)
    BY DEF Attempt, Late, Attempts
  <2>4. Counted(u)' = {}
    BY DEF Before, Control, TypeOK, Attempt, Counted
  <2>5. Mark(u, l)' <= Mark(u, l)
    BY <2>4 DEF Mark
  <2> QED
    BY Zenon, <1>1, <1>3, <1>5, <2>2, <2>3, <2>5, OwedShrinks, BackedUntouched DEF Before
<1> QED
  BY <1>4, <1>5

\* A grant comes with an entry.
LEMMA ServeLockBacked ==
    ASSUME Before, NEW u \in UIDs, NEW a \in Attempts, NEW k \in Lockers, ServeLock(u, a, k)
    PROVE  GrantsBacked'
<1> SUFFICES ASSUME NEW v \in UIDs \ lapsed', pc'[v] \in Trying, NEW l \in Lockers
             PROVE  Backed(v, l)'
  BY Zenon, BackedDef
<1> DEFINE res == IF Writer(u) THEN Lock(tables[k], u) ELSE RLock(tables[k], u)
<1>1. /\ tables' = [tables EXCEPT ![k] = res.st]
      /\ call' = IF call[u][a][k] # "sent" THEN call
                 ELSE [call EXCEPT ![u][a][k] = IF res.reply THEN "granted" ELSE Refusal(u, a)]
      /\ UNCHANGED <<clientVars, releases, lapsed>>
  BY DEF ServeLock
<1>2. Backed(v, l)
  BY <1>1, BackedDef DEF Before, clientVars
<1>3. TableOK(tables[k])
  BY DEF Before, Tables, TablesOK
<1>4. /\ res.reply \in BOOLEAN
      /\ ~ res.reply => res.st = tables[k]
      /\ res.reply => \A w \in UIDs, r \in Resources :
                    Entries(res.st, w, r) =
                      IF w = u /\ r \in ResourcesOf(u)
                      THEN Entries(tables[k], w, r) + 1 ELSE Entries(tables[k], w, r)
  BY Zenon, <1>3, AcquireKeeps
<1> HIDE DEF res
<1>5. Late(v, l)' \subseteq Late(v, l) /\ Mark(v, l)' = Mark(v, l)
  BY <1>1 DEF Late, Mark, Counted, clientVars, Attempts
<1>6. Refusal(u, a) # "granted"
  BY DEF Refusal
<1>7. CASE ~ res.reply
  <2>1. Granted(v, l)' \subseteq Granted(v, l)
    BY <1>1, <1>6, <1>7 DEF Before, Control, TypeOK, Granted, Attempts
  <2>2. tables'[l] = tables[l]
    BY <1>1, <1>4, <1>7 DEF Before, Tables
  <2>3. Owed(v, l)' <= Owed(v, l)
    BY <1>5, <2>1, OwedShrinks, OwedSum
  <2> QED
    BY SMTT(30), <1>2, <2>2, <2>3, BackedUntouched DEF Before
<1>8. CASE res.reply /\ l # k
  <2>1. Granted(v, l)' \subseteq Granted(v, l)
    BY <1>1, <1>8 DEF Before, Control, TypeOK, Granted, Attempts
  <2>2. tables'[l] = tables[l]
    BY <1>1, <1>8 DEF Before, Tables
  <2>3. Owed(v, l)' <= Owed(v, l)
    BY <1>5, <2>1, OwedShrinks, OwedSum
  <2> QED
    BY ZenonT(40), <1>2, <2>2, <2>3, BackedUntouched DEF Before
<1>9. CASE res.reply /\ l = k /\ v # u
  <2>1. Granted(v, l)' \subseteq Granted(v, l)
    BY <1>1, <1>9 DEF Before, Control, TypeOK, Granted, Attempts
  <2>2. Owed(v, l)' <= Owed(v, l) + 0
    BY <1>5, <2>1, OwedShrinks, OwedSum
  <2>3. tables'[l] = res.st
    BY <1>1, <1>9 DEF Before, Tables
  <2>4. \A r \in ResourcesOf(v) : Entries(tables[l], v, r)' >= Entries(tables[l], v, r) + 0
    <3> TAKE r \in ResourcesOf(v)
    <3>1. Entries(tables'[l], v, r) = Entries(tables[l], v, r) /\ Entries(tables[l], v, r) \in Nat
      BY <1>4, <1>9, <2>3, SizeFacts, EntriesNat DEF Before
    <3> QED
      BY <3>1 DEF Entries
  <2> QED
    BY <1>2, <2>2, <2>4, BackedKept DEF Before
<1>10. CASE res.reply /\ l = k /\ v = u
  <2>1. Granted(v, l)' \subseteq Granted(v, l) \cup {a}
    BY <1>1, <1>10 DEF Before, Control, TypeOK, Granted, Attempts
  <2>2. Granted(v, l) \cup {a} \subseteq Attempts
    BY OwedSum
  <2>3. Cardinality(Granted(v, l)') <= Cardinality(Granted(v, l) \cup {a})
    BY <2>1, <2>2, AttemptSets
  <2>4. Cardinality(Granted(v, l) \cup {a}) <= Cardinality(Granted(v, l)) + 1
    BY Zenon, OwedSum, AttemptSets
  <2>5. Cardinality(Late(v, l)') <= Cardinality(Late(v, l))
    BY <1>5, OwedSum, AttemptSets
  <2>6. Cardinality(Granted(v, l) \cup {a}) \in Nat
    BY <2>2, AttemptSets
  <2>7. Owed(v, l)' <= Owed(v, l) + 1
    BY SMTT(30), <1>5, <2>3, <2>4, <2>5, <2>6, OwedSum
  <2>8. tables'[l] = res.st
    BY <1>1, <1>10 DEF Before, Tables
  <2>9. \A r \in ResourcesOf(v) : Entries(tables[l], v, r)' >= Entries(tables[l], v, r) + 1
    <3> TAKE r \in ResourcesOf(v)
    <3>1. Entries(tables'[l], v, r) = Entries(tables[l], v, r) + 1 /\ Entries(tables[l], v, r) \in Nat
      BY ZenonT(40), <1>4, <1>10, <2>8, SizeFacts, EntriesNat DEF Before
    <3> QED
      BY <3>1 DEF Entries
  <2> QED
    BY SMTT(30), <1>2, <2>7, <2>9, BackedKept DEF Before
<1> QED
  BY Zenon, <1>4, <1>7, <1>8, <1>9, <1>10

\* A failed call is no grant.
LEMMA CallErrorBacked ==
    ASSUME Before, NEW u \in UIDs, NEW a \in Attempts, NEW k \in Lockers, CallError(u, a, k)
    PROVE  GrantsBacked'
<1> SUFFICES ASSUME NEW v \in UIDs \ lapsed', pc'[v] \in Trying, NEW l \in Lockers
             PROVE  Backed(v, l)'
  BY BackedDef
<1>1. /\ call' = [call EXCEPT ![u][a][k] = Refusal(u, a)]
      /\ UNCHANGED <<tables, clientVars, releases, lapsed>>
  BY DEF CallError
<1>2. Backed(v, l)
  BY <1>1, BackedDef DEF Before, clientVars
<1>3. Late(v, l)' \subseteq Late(v, l) /\ Mark(v, l)' = Mark(v, l)
  BY <1>1 DEF Late, Mark, Counted, clientVars, Attempts
<1>4. Refusal(u, a) # "granted"
  BY DEF Refusal
<1>5. Granted(v, l)' \subseteq Granted(v, l)
  BY <1>1, <1>4 DEF Before, Control, TypeOK, Granted, Attempts
<1>6. Owed(v, l)' <= Owed(v, l)
  BY <1>3, <1>5, OwedShrinks, OwedSum
<1> QED
  BY <1>1, <1>2, <1>6, BackedUntouched DEF Before

\* The end of an iteration counts, or releases, no locker but those marked.
LEMMA IteratedCounted ==
    ASSUME Control, NEW u \in UIDs, NEW ls, NEW f, NEW row, Iterated(u, ls, f, row)
    PROVE  /\ Counted(u)' \subseteq ls
           /\ \A v \in UIDs \ {u} : /\ pc'[v] = pc[v] /\ locks'[v] = locks[v]
                                    /\ todo'[v] = todo[v] /\ call'[v] = call[v]
<1> DEFINE over == f > tolerance(u) \/ Cardinality(ls) + f = N
           won  == Cardinality(ls) >= quorum(u) /\ f <= tolerance(u)
<1>1. /\ pc' = [pc EXCEPT ![u] = IF ~ over THEN "acquire"
                                   ELSE IF won THEN "held"
                                   ELSE IF ls = {} THEN "backoff" ELSE "abort"]
      /\ locks' = [locks EXCEPT ![u] = ls]
      /\ todo' = [todo EXCEPT ![u] = IF over /\ ~ won THEN ls ELSE {}]
      /\ call' = [call EXCEPT ![u][attempt[u]] = [l \in Lockers |->
                    IF over /\ row[l] = "refused" THEN "none" ELSE row[l]]]
  BY DEF Iterated
<1> HIDE DEF over, won
<1>2. locks'[u] = ls /\ todo'[u] \subseteq ls
  BY Zenon, <1>1 DEF Control, TypeOK
<1>3. Counted(u)' \subseteq ls
  BY <1>2 DEF Counted
<1>4. \A v \in UIDs \ {u} : /\ pc'[v] = pc[v] /\ locks'[v] = locks[v]
                            /\ todo'[v] = todo[v] /\ call'[v] = call[v]
  BY <1>1 DEF Control, TypeOK
<1> QED
  BY Zenon, <1>3, <1>4

\* An iteration that adds no locker.
LEMMA IteratedBacked ==
    ASSUME Before, NEW u \in UIDs, NEW ls, NEW f, NEW row,
           pc[u] = "acquire", ls = locks[u],
           \A l \in Lockers : row[l] = "granted" => call[u][attempt[u]][l] = "granted",
           Iterated(u, ls, f, row), UNCHANGED <<tables, attempt, releases, lapsed>>
    PROVE  GrantsBacked'
<1> SUFFICES ASSUME NEW v \in UIDs \ lapsed', pc'[v] \in Trying, NEW l \in Lockers
             PROVE  Backed(v, l)'
  BY Zenon, BackedDef
<1> USE DEF Before
<1>1. CASE v # u
  <2>1. Untouched(v)
    BY <1>1, IteratedCounted DEF Untouched
  <2>2. Backed(v, l)
    BY Zenon, <2>1, BackedDef DEF Untouched
  <2> QED
    BY <2>1, <2>2, OwedUntouched, BackedUntouched
<1>2. CASE v = u
  <2>1. Backed(u, l)
    BY Zenon, <1>2, BackedDef DEF Trying
  <2>2. attempt[u] \in Attempts
    BY DEF Control, Started
  <2>3. Granted(u, l)' \subseteq Granted(u, l)
    BY <2>2 DEF Iterated, Control, TypeOK, Granted, Attempts
  <2>4. Late(u, l)' \subseteq Late(u, l)
    BY DEF Late, Attempts
  <2>5. Counted(u)' \subseteq Counted(u)
    BY IteratedCounted DEF Counted
  <2>6. Mark(u, l)' <= Mark(u, l)
    BY <2>5 DEF Mark
  <2> QED
    BY Zenon, <1>2, <2>1, <2>3, <2>4, <2>6, OwedShrinks, BackedUntouched
<1> QED
  BY Zenon, <1>1, <1>2

\* An answer taken from ch moves from the answers to the marks.
LEMMA CollectBacked ==
    ASSUME Before, NEW u \in UIDs, NEW k \in Lockers, Collect(u, k)
    PROVE  GrantsBacked'
<1> DEFINE row  == call[u][attempt[u]]
           rest == [row EXCEPT ![k] = "none"]
<1> USE DEF Before
<1>1. pc[u] = "acquire" /\ UNCHANGED <<tables, attempt, releases, lapsed>>
  BY DEF Collect
<1>2. attempt[u] \in Attempts
  BY <1>1 DEF Control, Started
<1>3. row \in [Lockers -> {"none", "sent", "granted", "refused"}]
  BY <1>2 DEF Control, TypeOK
<1>4. CASE Iterated(u, locks[u], failed[u] + 1, rest)
  <2>1. \A l \in Lockers : rest[l] = "granted" => row[l] = "granted"
    BY <1>3
  <2> HIDE DEF rest
  <2> QED
    BY Zenon, <1>1, <1>4, <2>1, IteratedBacked
<1>5. CASE row[k] = "granted" /\ Iterated(u, locks[u] \cup {k}, failed[u], rest)
  <2> SUFFICES ASSUME NEW v \in UIDs \ lapsed', pc'[v] \in Trying, NEW l \in Lockers
               PROVE  Backed(v, l)'
    BY BackedDef
  <2>1. CASE v # u
    <3>1. Untouched(v)
      BY ZenonT(40), <1>1, <1>5, <2>1, IteratedCounted DEF Untouched
    <3>2. Backed(v, l)
      BY Zenon, <1>1, <3>1, BackedDef DEF Untouched
    <3> QED
      BY ZenonT(40), <1>1, <3>1, <3>2, OwedUntouched, BackedUntouched
  <2>2. CASE v = u
    <3>1. Backed(u, l)
      BY Zenon, <1>1, <2>2, BackedDef DEF Trying
    <3>2. Late(u, l)' \subseteq Late(u, l)
      BY <1>1 DEF Late, Attempts
    <3>3. Counted(u)' \subseteq Counted(u) \cup {k}
      BY <1>1, <1>5, IteratedCounted DEF Counted
    <3>4. Granted(u, l)' \subseteq Granted(u, l) \ (IF l = k THEN {attempt[u]} ELSE {})
      BY Zenon, <1>2, <1>3, <1>5 DEF Iterated, Control, TypeOK, Granted, Attempts
    <3>5. CASE l # k
      <4>1. Mark(u, l)' <= Mark(u, l)
        BY <3>3, <3>5 DEF Mark
      <4>2. Granted(u, l)' \subseteq Granted(u, l)
        BY <3>4
      <4> QED
        BY Zenon, <1>1, <2>2, <3>1, <3>2, <4>1, <4>2, OwedShrinks, BackedUntouched
    <3>6. CASE l = k
      <4>1. attempt[u] \in Granted(u, l)
        BY Zenon, <1>2, <1>5, <3>6 DEF Granted
      <4>2. Granted(u, l) \ {attempt[u]} \subseteq Attempts
        BY OwedSum
      <4>3. /\ Cardinality(Granted(u, l)') <= Cardinality(Granted(u, l) \ {attempt[u]})
            /\ Cardinality(Granted(u, l) \ {attempt[u]}) = Cardinality(Granted(u, l)) - 1
        BY ZenonT(40), <3>4, <3>6, <4>1, <4>2, OwedSum, AttemptSets
      <4>4. Cardinality(Late(u, l)') <= Cardinality(Late(u, l))
        BY <3>2, OwedSum, AttemptSets
      <4>5. Owed(u, l)' <= Owed(u, l)
        BY <4>3, <4>4, OwedSum
      <4> QED
        BY Zenon, <1>1, <2>2, <3>1, <4>5, BackedUntouched
    <3> QED
      BY <3>5, <3>6
  <2> QED
    BY <2>1, <2>2
<1> QED
  BY <1>4, <1>5 DEF Collect

\* The acquire timeout adds no locker.
LEMMA TimeoutBacked ==
    ASSUME Before, NEW u \in UIDs, AcquireTimeout(u)
    PROVE  GrantsBacked'
BY Zenon, IteratedBacked DEF AcquireTimeout

-----------------------------------------------------------------------------
(* Releasing. *)

\* A caller that gives up, unlocks or dies leaves the others alone, and nothing
\* is claimed about itself any more.
LEMMA EndBacked ==
    ASSUME Before, NEW u \in UIDs, GiveUp(u) \/ BeginUnlock(u) \/ Crash(u)
    PROVE  GrantsBacked'
<1> SUFFICES ASSUME NEW v \in UIDs \ lapsed', pc'[v] \in Trying, NEW l \in Lockers
             PROVE  Backed(v, l)'
  BY BackedDef
<1> USE DEF Before
<1>1. v # u
  BY DEF GiveUp, BeginUnlock, Crash, Control, TypeOK, Trying
<1>2. UNCHANGED <<tables, releases, lapsed>>
  BY Zenon DEF GiveUp, BeginUnlock, Crash, netVars
<1>3. Untouched(v)
  <2>1. CASE GiveUp(u)
    BY <1>1, <2>1 DEF GiveUp, netVars, Control, TypeOK, Untouched
  <2>2. CASE BeginUnlock(u)
    BY <1>1, <2>2 DEF BeginUnlock, netVars, Control, TypeOK, Untouched
  <2>3. CASE Crash(u)
    BY <1>1, <2>3 DEF Crash, Control, TypeOK, Untouched
  <2> QED
    BY <2>1, <2>2, <2>3
<1>4. Backed(v, l)
  BY Zenon, <1>2, <1>3, BackedDef DEF Untouched
<1> QED
  BY <1>2, <1>3, <1>4, OwedUntouched, BackedUntouched

\* A release that returned: the locker is no longer counted.
LEMMA ReleasedCounted ==
    ASSUME Control, NEW u \in UIDs, NEW k \in Lockers, NEW ls, Released(u, k, ls),
           pc[u] \in {"abort", "unlock"}
    PROVE  /\ pc'[u] \in Trying => pc[u] = "abort" /\ Counted(u)' \subseteq Counted(u) \ {k}
           /\ \A v \in UIDs \ {u} : /\ pc'[v] = pc[v] /\ locks'[v] = locks[v]
                                    /\ todo'[v] = todo[v]
<1> DEFINE rest == todo[u] \ {k}
           again == pc[u] = "unlock" /\ checkFailedUnlocks(ls, halfTolerance)
<1>1. /\ locks' = [locks EXCEPT ![u] = IF rest # {} \/ again THEN ls ELSE {}]
      /\ todo' = [todo EXCEPT ![u] = IF rest = {} /\ again THEN ls ELSE rest]
      /\ pc' = [pc EXCEPT ![u] = IF rest # {} \/ again THEN @
                                   ELSE IF @ = "abort" THEN "backoff" ELSE "done"]
  BY DEF Released
<1>2. \A v \in UIDs \ {u} : pc'[v] = pc[v] /\ locks'[v] = locks[v] /\ todo'[v] = todo[v]
  BY <1>1 DEF Control, TypeOK
<1>3. ASSUME pc'[u] \in Trying
      PROVE  pc[u] = "abort" /\ Counted(u)' \subseteq Counted(u) \ {k}
  <2>1. pc[u] = "abort"
    BY <1>1, <1>3 DEF Control, TypeOK, Trying
  <2>2. todo'[u] = rest /\ pc'[u] \in {"abort", "backoff"}
    BY <1>1, <2>1 DEF Control, TypeOK
  <2> QED
    BY <2>1, <2>2 DEF Counted
<1> QED
  BY Zenon, <1>2, <1>3

\* releaseAll gives up one mark for one entry.
LEMMA ReleaseOneBacked ==
    ASSUME Before, NEW u \in UIDs, NEW k \in Lockers, ReleaseOne(u, k)
    PROVE  GrantsBacked'
<1> SUFFICES ASSUME NEW v \in UIDs \ lapsed', pc'[v] \in Trying, NEW l \in Lockers
             PROVE  Backed(v, l)'
  BY BackedDef
<1> USE DEF Before
<1> DEFINE ls == IF Release(u, tables[k]).err THEN locks[u] ELSE locks[u] \ {k}
<1>1. /\ tables' = [tables EXCEPT ![k] = Release(u, tables[k]).st]
      /\ Released(u, k, ls)
      /\ pc[u] \in {"abort", "unlock"} /\ k \in todo[u]
      /\ UNCHANGED <<call, releases, lapsed>>
  BY DEF ReleaseOne, netVars
<1> HIDE DEF ls
<1>2. pc[v] \in Trying
  <2>1. CASE v = u
    BY <1>1, <2>1, ReleasedCounted DEF Trying
  <2>2. CASE v # u
    BY <1>1, <2>2, ReleasedCounted
  <2> QED
    BY <2>1, <2>2
<1>3. Backed(v, l)
  BY Zenon, <1>1, <1>2, BackedDef
<1>4. Granted(v, l)' \subseteq Granted(v, l) /\ Late(v, l)' \subseteq Late(v, l)
  BY Zenon, <1>1 DEF Granted, Late, Attempts
<1>5. TableOK(tables[k])
  BY DEF Tables, TablesOK
<1>6. Counted(v)' \subseteq Counted(v) \ (IF v = u THEN {k} ELSE {})
  <2>1. CASE v = u
    BY Zenon, <1>1, <2>1, ReleasedCounted
  <2>2. CASE v # u
    BY <1>1, <2>2, ReleasedCounted DEF Counted
  <2> QED
    BY <2>1, <2>2
<1>7. CASE l # k
  <2>1. tables'[l] = tables[l]
    BY Zenon, <1>1, <1>7 DEF Tables
  <2>2. Mark(v, l)' <= Mark(v, l)
    BY <1>6, <1>7 DEF Mark
  <2> QED
    BY Zenon, <1>3, <1>4, <2>1, <2>2, OwedShrinks, BackedUntouched
<1>8. CASE l = k
  <2>1. tables'[l] = Release(u, tables[k]).st
    BY Zenon, <1>1, <1>8 DEF Tables
  <2>2. \A r \in Resources : Entries(tables'[l], v, r) >=
                                Entries(tables[l], v, r) - (IF v = u THEN 1 ELSE 0)
    BY ZenonT(40), <1>5, <1>8, <2>1, ReleaseKeeps
  <2>3. /\ Cardinality(Granted(v, l)') <= Cardinality(Granted(v, l))
        /\ Cardinality(Late(v, l)') <= Cardinality(Late(v, l))
    BY SMTT(30), <1>4, OwedSum, AttemptSets
  <2>4. CASE v # u
    <3>1. Mark(v, l)' <= Mark(v, l)
      BY <1>6 DEF Mark
    <3>2. Owed(v, l)' <= Owed(v, l) + 0
      BY SMTT(30), <1>4, <3>1, OwedShrinks, OwedSum
    <3>3. \A r \in ResourcesOf(v) : Entries(tables[l], v, r)' >= Entries(tables[l], v, r) + 0
      BY SMTT(30), <2>2, <2>4, SizeFacts, EntriesNat DEF Entries
    <3> QED
      BY <1>3, <3>2, <3>3, BackedKept
  <2>5. CASE v = u
    <3>1. Counted(u) = todo[u]
      BY <1>1, <2>5, ReleasedCounted DEF Counted
    <3>2. Mark(v, l)' = 0 /\ Mark(v, l) = 1
      BY ZenonT(40), <1>1, <1>6, <1>8, <2>5, <3>1 DEF Mark
    <3>3. Owed(v, l)' <= Owed(v, l) + (-1)
      BY <2>3, <3>2, OwedSum
    <3>4. \A r \in ResourcesOf(v) : Entries(tables[l], v, r)' >= Entries(tables[l], v, r) + (-1)
      BY <2>2, <2>5, SizeFacts, EntriesNat DEF Entries
    <3> QED
      BY <1>3, <3>3, <3>4, BackedKept
  <2> QED
    BY <2>4, <2>5
<1> QED
  BY <1>7, <1>8

\* A release that failed at the client stays owed: it may still be served.
LEMMA ReleaseErrorBacked ==
    ASSUME Before, NEW u \in UIDs, NEW k \in Lockers, ReleaseError(u, k)
    PROVE  GrantsBacked'
<1> SUFFICES ASSUME NEW v \in UIDs \ lapsed', pc'[v] \in Trying, NEW l \in Lockers
             PROVE  Backed(v, l)'
  BY BackedDef
<1> USE DEF Before
<1>1. /\ Released(u, k, locks[u])
      /\ pc[u] \in {"abort", "unlock"} /\ k \in todo[u]
      /\ releases' \subseteq releases \cup {<<u, attempt[u], k>>}
      /\ UNCHANGED <<tables, call, lapsed>>
  BY DEF ReleaseError
<1>2. pc[v] \in Trying
  <2>1. CASE v = u
    BY Zenon, <1>1, <2>1, ReleasedCounted DEF Trying
  <2>2. CASE v # u
    BY <1>1, <2>2, ReleasedCounted
  <2> QED
    BY <2>1, <2>2
<1>3. Backed(v, l)
  BY Zenon, <1>1, <1>2, BackedDef
<1>4. Granted(v, l)' \subseteq Granted(v, l)
  BY <1>1 DEF Granted, Attempts
<1>5. CASE v # u \/ l # k
  <2>1. Late(v, l)' \subseteq Late(v, l)
    BY Zenon, <1>1, <1>5 DEF Late, Attempts
  <2>2. Mark(v, l)' <= Mark(v, l)
    <3>1. CASE v # u
      BY <1>1, <3>1, ReleasedCounted DEF Mark, Counted
    <3>2. CASE v = u
      BY <1>1, <3>2, ReleasedCounted DEF Mark
    <3> QED
      BY <3>1, <3>2
  <2> QED
    BY ZenonT(40), <1>1, <1>3, <1>4, <2>1, <2>2, OwedShrinks, BackedUntouched
<1>6. CASE v = u /\ l = k
  <2>1. Counted(u) = todo[u] /\ Counted(u)' \subseteq Counted(u) \ {k}
    BY <1>1, <1>6, ReleasedCounted DEF Counted
  <2>2. Mark(v, l)' = 0 /\ Mark(v, l) = 1
    BY Zenon, <1>1, <1>6, <2>1 DEF Mark
  <2>3. Late(v, l)' \subseteq Late(v, l) \cup {attempt[u]}
    BY Zenon, <1>1, <1>6 DEF Late, Attempts
  <2>4. attempt[u] \in Attempts
    BY Zenon, <1>1 DEF Control, Started
  <2>5. Late(v, l) \cup {attempt[u]} \subseteq Attempts
    BY <2>4, OwedSum
  <2>6. /\ Cardinality(Late(v, l)') <= Cardinality(Late(v, l) \cup {attempt[u]})
        /\ Cardinality(Late(v, l) \cup {attempt[u]}) \in Nat
    BY Zenon, <2>3, <2>5, AttemptSets
  <2>7. Cardinality(Late(v, l) \cup {attempt[u]}) <= Cardinality(Late(v, l)) + 1
    BY Zenon, OwedSum, AttemptSets
  <2>8. Cardinality(Granted(v, l)') <= Cardinality(Granted(v, l))
    BY SMTT(30), <1>4, OwedSum, AttemptSets
  <2>9. Owed(v, l)' <= Owed(v, l)
    BY SMTT(30), <2>2, <2>6, <2>7, <2>8, OwedSum
  <2> QED
    BY Zenon, <1>1, <1>3, <2>9, BackedUntouched
<1> QED
  BY <1>5, <1>6

\* A release of u served at k for one that is no longer owed: whether it was
\* under way (served late) or an answer nobody waited for (handed back).
LEMMA HandBackBacked ==
    ASSUME Before, NEW u \in UIDs, NEW k \in Lockers,
           tables' = [tables EXCEPT ![k] = Release(u, tables[k]).st],
           UNCHANGED <<clientVars, lapsed>>,
           \A v \in UIDs, l \in Lockers :
             Granted(v, l)' \subseteq Granted(v, l) /\ Late(v, l)' \subseteq Late(v, l),
           Owed(u, k)' <= Owed(u, k) - 1
    PROVE  GrantsBacked'
<1> SUFFICES ASSUME NEW v \in UIDs \ lapsed', pc'[v] \in Trying, NEW l \in Lockers
             PROVE  Backed(v, l)'
  BY BackedDef
<1> USE DEF Before
<1>1. Backed(v, l)
  BY BackedDef DEF clientVars
<1>2. Mark(v, l)' <= Mark(v, l)
  BY DEF Mark, Counted, clientVars
<1>3. Owed(v, l)' <= Owed(v, l)
  BY <1>2, OwedShrinks
<1>4. CASE l # k
  <2>1. tables'[l] = tables[l]
    BY <1>4 DEF Tables
  <2> QED
    BY <1>1, <1>3, <2>1, BackedUntouched
<1>5. CASE l = k
  <2>1. TableOK(tables[k]) /\ tables'[l] = Release(u, tables[k]).st
    BY <1>5 DEF Tables, TablesOK
  <2>2. \A r \in Resources : Entries(tables'[l], v, r) >=
                                Entries(tables[l], v, r) - (IF v = u THEN 1 ELSE 0)
    BY <1>5, <2>1, ReleaseKeeps
  <2>3. CASE v # u
    <3>1. \A r \in ResourcesOf(v) : Entries(tables[l], v, r)' >= Entries(tables[l], v, r) + 0
      BY SMTT(30), <2>2, <2>3, SizeFacts, EntriesNat DEF Entries
    <3>2. Owed(v, l)' <= Owed(v, l) + 0
      BY <1>3, OwedSum
    <3> QED
      BY SMTT(30), <1>1, <3>1, <3>2, BackedKept
  <2>4. CASE v = u
    <3>1. \A r \in ResourcesOf(v) : Entries(tables[l], v, r)' >= Entries(tables[l], v, r) + (-1)
      BY SMTT(30), <2>2, <2>4, SizeFacts, EntriesNat DEF Entries
    <3>2. Owed(v, l)' <= Owed(v, l) + (-1)
      BY <1>5, <2>4, OwedSum
    <3> QED
      BY SMTT(30), <1>1, <3>1, <3>2, BackedKept
  <2> QED
    BY <2>3, <2>4
<1> QED
  BY <1>4, <1>5

\* A release served late was still owed.
LEMMA ServeReleaseBacked ==
    ASSUME Before, NEW u \in UIDs, NEW a \in Attempts, NEW k \in Lockers, ServeRelease(u, a, k)
    PROVE  GrantsBacked'
<1> USE DEF Before
<1>1. /\ tables' = [tables EXCEPT ![k] = Release(u, tables[k]).st]
      /\ releases' = releases \ {<<u, a, k>>} /\ <<u, a, k>> \in releases
      /\ UNCHANGED <<clientVars, call, lapsed>>
  BY DEF ServeRelease, Tables
<1>2. \A v \in UIDs, l \in Lockers :
        Granted(v, l)' \subseteq Granted(v, l) /\ Late(v, l)' \subseteq Late(v, l)
  BY Zenon, <1>1 DEF Granted, Late, Attempts
<1>3. Late(u, k)' = Late(u, k) \ {a} /\ a \in Late(u, k)
  BY <1>1 DEF Late, Attempts
<1>4. Mark(u, k)' = Mark(u, k)
  BY <1>1 DEF Mark, Counted, clientVars
<1>5. Cardinality(Late(u, k)') = Cardinality(Late(u, k)) - 1
  BY SMTT(30), <1>3, OwedSum, AttemptSets
<1>6. Cardinality(Granted(u, k)') <= Cardinality(Granted(u, k))
  BY <1>2, OwedSum, AttemptSets
<1>7. Owed(u, k)' <= Owed(u, k) - 1
  BY SMTT(30), <1>4, <1>5, <1>6, OwedSum
<1> QED
  BY ZenonT(40), <1>1, <1>2, <1>7, HandBackBacked

\* An answer nobody waited for is handed back.
LEMMA DrainBacked ==
    ASSUME Before, NEW u \in UIDs, NEW a \in Attempts, NEW k \in Lockers, Drain(u, a, k)
    PROVE  GrantsBacked'
<1> USE DEF Before
<1>1. /\ call[u][a][k] = "granted" /\ call' = [call EXCEPT ![u][a][k] = "none"]
      /\ UNCHANGED <<clientVars, lapsed>>
  BY DEF Drain
<1>2. \A v \in UIDs, l \in Lockers :
        /\ Granted(v, l)' \subseteq Granted(v, l)
        /\ Mark(v, l)' <= Mark(v, l)
  BY <1>1 DEF Granted, Mark, Counted, clientVars, Attempts, Control, TypeOK
<1>3. Granted(u, k)' = Granted(u, k) \ {a} /\ a \in Granted(u, k)
  BY ZenonT(40), <1>1 DEF Granted, Attempts, Control, TypeOK
<1>4. Cardinality(Granted(u, k)') = Cardinality(Granted(u, k)) - 1
  BY <1>3, OwedSum, AttemptSets
<1>5. CASE tables' = [tables EXCEPT ![k] = Release(u, @).st] /\ UNCHANGED releases
  <2>1. tables' = [tables EXCEPT ![k] = Release(u, tables[k]).st]
    BY <1>5 DEF Tables
  <2>2. \A v \in UIDs, l \in Lockers : Late(v, l)' \subseteq Late(v, l)
    BY <1>5 DEF Late, Attempts
  <2>3. Cardinality(Late(u, k)') <= Cardinality(Late(u, k))
    BY SMTT(30), <2>2, OwedSum, AttemptSets
  <2>4. Owed(u, k)' <= Owed(u, k) - 1
    BY <1>2, <1>4, <2>3, OwedSum
  <2> QED
    BY Zenon, <1>1, <1>2, <2>1, <2>2, <2>4, HandBackBacked
<1>6. CASE releases' \subseteq releases \cup {<<u, a, k>>} /\ UNCHANGED tables
  <2> SUFFICES ASSUME NEW v \in UIDs \ lapsed', pc'[v] \in Trying, NEW l \in Lockers
               PROVE  Backed(v, l)'
    BY BackedDef
  <2>1. Backed(v, l)
    BY <1>1, BackedDef DEF clientVars
  <2>2. CASE v # u \/ l # k
    <3>1. Late(v, l)' \subseteq Late(v, l)
      BY <1>6, <2>2 DEF Late, Attempts
    <3> QED
      BY <1>2, <1>6, <2>1, <3>1, OwedShrinks, BackedUntouched
  <2>3. CASE v = u /\ l = k
    <3>1. Late(u, k)' \subseteq Late(u, k) \cup {a}
      BY <1>6 DEF Late, Attempts
    <3>2. Late(u, k) \cup {a} \subseteq Attempts
      BY OwedSum
    <3>3. /\ Cardinality(Late(u, k)') <= Cardinality(Late(u, k) \cup {a})
          /\ Cardinality(Late(u, k) \cup {a}) \in Nat
      BY <3>1, <3>2, AttemptSets
    <3>4. Cardinality(Late(u, k) \cup {a}) <= Cardinality(Late(u, k)) + 1
      BY ZenonT(40), OwedSum, AttemptSets
    <3>5. Owed(u, k)' <= Owed(u, k)
      BY SMTT(30), <1>2, <1>4, <3>3, <3>4, OwedSum
    <3> QED
      BY SMTT(30), <1>6, <2>1, <2>3, <3>5, BackedUntouched
  <2> QED
    BY <2>2, <2>3
<1> QED
  BY <1>5, <1>6 DEF Drain

-----------------------------------------------------------------------------
(* Refreshing, losing and time. *)

\* A step that changes no client and no message, and no number of entries.
LEMMA QuietBacked ==
    ASSUME Before, UNCHANGED <<clientVars, netVars, lapsed>>,
           \A l \in Lockers, v \in UIDs, r \in Resources :
             Entries(tables'[l], v, r) = Entries(tables[l], v, r)
    PROVE  GrantsBacked'
<1> SUFFICES ASSUME NEW v \in UIDs \ lapsed', pc'[v] \in Trying, NEW l \in Lockers
             PROVE  Backed(v, l)'
  BY Zenon, BackedDef
<1> USE DEF Before
<1>1. Backed(v, l) /\ Untouched(v)
  BY ZenonT(40), BackedDef DEF clientVars, netVars, Untouched
<1>2. Owed(v, l)' <= Owed(v, l) + 0
  BY SMTT(30), <1>1, OwedUntouched, OwedSum
<1>3. \A r \in ResourcesOf(v) : Entries(tables[l], v, r)' >= Entries(tables[l], v, r) + 0
  <2> TAKE r \in ResourcesOf(v)
  <2>1. Entries(tables'[l], v, r) = Entries(tables[l], v, r) /\ Entries(tables[l], v, r) \in Nat
    BY Zenon, SizeFacts, EntriesNat
  <2> QED
    BY <2>1 DEF Entries
<1>4. Tables /\ Tables' /\ 0 \in Int
  OBVIOUS
<1> HIDE DEF Before
<1> QED
  BY Zenon, <1>1, <1>2, <1>3, <1>4, BackedKept

\* Refreshes change ages only.
LEMMA RefreshBacked ==
    ASSUME Before, NEW u \in UIDs, NEW k \in Lockers, RefreshOne(u, k)
    PROVE  GrantsBacked'
<1> USE DEF Before
<1>1. TableOK(tables[k])
  BY DEF Tables, TablesOK
<1>2. tables' \in {tables, [tables EXCEPT ![k] = Refresh(tables[k], u).st]}
  BY Zenon DEF RefreshOne
<1>3. \A l \in Lockers, v \in UIDs, r \in Resources :
        Entries(tables'[l], v, r) = Entries(tables[l], v, r)
  BY <1>1, <1>2, RefreshKeeps DEF Tables
<1> QED
  BY Zenon, <1>3, QuietBacked DEF RefreshOne

\* Time changes ages only.
LEMMA TickBacked ==
    ASSUME Before, Tick
    PROVE  GrantsBacked'
<1> USE DEF Before
<1>1. \A l \in Lockers : TableOK(tables[l]) /\ tables'[l] = Older(tables[l])
  BY DEF Tables, TablesOK, Tick
<1>2. \A l \in Lockers, v \in UIDs, r \in Resources :
        Entries(tables'[l], v, r) = Entries(tables[l], v, r)
  BY Zenon, <1>1, OlderKeeps
<1> QED
  BY <1>2, QuietBacked DEF Tick

\* Who loses an entry that is owed becomes suspect.
LEMMA TakeAwayBacked ==
    ASSUME Before, NEW k \in Lockers, NEW st, TakeAway(k, st), UNCHANGED <<clientVars, netVars>>
    PROVE  GrantsBacked'
<1> SUFFICES ASSUME NEW v \in UIDs \ lapsed', pc'[v] \in Trying, NEW l \in Lockers
             PROVE  Backed(v, l)'
  BY BackedDef
<1> USE DEF Before
<1>1. v \notin lapsed
  BY DEF TakeAway
<1>2. Backed(v, l) /\ Untouched(v)
  BY Zenon, <1>1, BackedDef DEF clientVars, netVars, Untouched
<1>3. Owed(v, l)' <= Owed(v, l)
  BY <1>2, OwedUntouched
<1>4. CASE l # k
  <2>1. tables'[l] = tables[l]
    BY <1>4 DEF TakeAway, Tables
  <2> QED
    BY ZenonT(40), <1>2, <1>3, <2>1, BackedUntouched
<1>5. CASE l = k
  <2>1. tables'[l] = st
    BY <1>5 DEF TakeAway, Tables
  <2>2. \A r \in ResourcesOf(v) : ~ (/\ Entries(st, v, r) < Entries(tables[l], v, r)
                                     /\ Entries(st, v, r) < Owed(v, l))
    BY <1>5 DEF TakeAway, Entries
  <2>3. \A r \in ResourcesOf(v) : Entries(tables[l], v, r) \in Nat /\ Entries(st, v, r) \in Nat
    BY <2>1, SizeFacts, EntriesNat DEF Entries
  <2>4. Owed(v, l) \in Nat /\ Owed(v, l)' \in Nat
    BY OwedSum
  <2>5. \A r \in ResourcesOf(v) : Entries(st, v, r) >= Owed(v, l)'
    BY SMTT(30), <1>2, <1>3, <2>2, <2>3, <2>4 DEF Backed
  <2> QED
    BY <2>1, <2>5 DEF Backed, Entries, ResourcesOf, Size, ResourceAt
<1> QED
  BY <1>4, <1>5

\* Every step keeps grants backed.
LEMMA GrantsStep == Before /\ [Next]_vars => GrantsBacked'
<1> SUFFICES ASSUME Before, [Next]_vars
             PROVE  GrantsBacked'
  OBVIOUS
<1>1. ASSUME UNCHANGED <<tables, clientVars, netVars, lapsed>>
      PROVE  GrantsBacked'
  BY <1>1, QuietBacked
<1>2. ASSUME NEW u \in UIDs,
             \/ Attempt(u) \/ AcquireTimeout(u) \/ GiveUp(u)
             \/ BeginUnlock(u) \/ StartRefresh(u) \/ Crash(u)
      PROVE  GrantsBacked'
  <2>1. CASE StartRefresh(u)
    BY <1>1, <2>1 DEF StartRefresh
  <2> QED
    BY SMTT(30), <1>2, <2>1, AttemptBacked, TimeoutBacked, EndBacked
<1>3. ASSUME NEW u \in UIDs, NEW l \in Lockers,
             \/ Collect(u, l) \/ ReleaseOne(u, l) \/ ReleaseError(u, l)
             \/ RefreshOne(u, l) \/ ForceOne(u, l)
      PROVE  GrantsBacked'
  <2>1. CASE ForceOne(u, l)
    BY <1>1, <2>1, TakeAwayBacked DEF ForceOne
  <2> QED
    BY SMTT(30), <1>3, <2>1, CollectBacked, ReleaseOneBacked, ReleaseErrorBacked, RefreshBacked
<1>4. ASSUME NEW u \in UIDs, NEW l \in Lockers, NEW a \in Attempts,
             \/ ServeLock(u, a, l) \/ CallError(u, a, l)
             \/ ServeRelease(u, a, l) \/ Drain(u, a, l)
      PROVE  GrantsBacked'
  BY <1>4, ServeLockBacked, CallErrorBacked, ServeReleaseBacked, DrainBacked
<1>5. ASSUME NEW l \in Lockers, Expire(l) \/ Restart(l) \/ \E r \in Resources : AdminForceUnlock(l, r)
      PROVE  GrantsBacked'
  BY Zenon, <1>5, TakeAwayBacked DEF Expire, Restart, AdminForceUnlock
<1>6. CASE Tick
  BY <1>6, TickBacked
<1>7. CASE UNCHANGED vars
  BY <1>1, <1>7 DEF vars
<1> QED
  BY <1>2, <1>3, <1>4, <1>5, <1>6, <1>7 DEF Next
=============================================================================
