-------------------------- MODULE MemoryStoreProofs --------------------------
(***************************************************************************)
(* What holds of the memory store for every set of keys, rules, cap and    *)
(* lag: its types, its cap, and the answers it gives over time.            *)
(***************************************************************************)
EXTENDS MemoryStoreHistory, MemoryStoreEviction, AlgorithmLemmas, FiniteSetTheorems,
        WellFoundedInduction

USE KeysFinite, RuleType, MaxEntriesType, IntervalType, MaxLagType, MaxClockType

LEMMA NowsNat ==
    ASSUME TypeOK, NEW k \in Keys, NEW now \in Nows(k)
    PROVE  now \in Nat /\ now <= clock
  BY SMT DEF TypeOK, Nows

\* hit() and algorithmHit() leave a record of the key's own kind.
LEMMA OutcomeType ==
    ASSUME TypeOK, NEW k \in Keys, NEW now \in Nat
    PROVE  NewEntry(Outcome(k, now)) \in Entries(k)
  <1> DEFINE r == Rule[k]
             s == StateOf(k)
  <1>1. r \in Rules
    OBVIOUS
  <1>2. s \in StatesOf(r) \cup {NoState}
    BY DEF StateOf, TypeOK, Entries
  <1>3. CASE r.algorithm = "fixed-window"
    <2>1. s \in FixedStates \cup {NoState}
      BY <1>2, <1>3 DEF StatesOf
    <2>2. InlineHit(r, now, s).state \in FixedStates /\ InlineHit(r, now, s).expiresAt \in Nat
      BY <1>1, <2>1, SMT DEF InlineHit, InlineHitHolding, FixedStates, NoState, Rules, Larger
    <2>3. StatesOf(r) = FixedStates
      BY <1>3 DEF StatesOf
    <2> QED
      BY <1>3, <2>2, <2>3 DEF Outcome, NewEntry, Entries
  <1>4. CASE r.algorithm # "fixed-window"
    <2>1. EvaluateAlgorithmHit(r, now, s).state \in StatesOf(r)
              /\ EvaluateAlgorithmHit(r, now, s).expiresAt \in Nat
      BY <1>1, <1>2, EvaluateType
    <2> QED
      BY <1>4, <2>1 DEF Outcome, NewEntry, Entries
  <1> QED
    BY <1>3, <1>4

LEMMA WriteType ==
    ASSUME TypeOK, NEW k \in Keys, NEW now \in Nat, NEW entry \in Entries(k),
           Write(k, now, entry)
    PROVE  TypeOK'
  <1> DEFINE m    == Put(k, entry)
             left == DOMAIN m \ Evicted(m, MovedToEnd(k), now)
  <1>1. DOMAIN m = Tracked \cup {k} /\ \A j \in DOMAIN m : m[j] \in Entries(j)
    BY DEF Put, TypeOK
  <1>2. map' = [j \in left |-> m[j]] /\ older' \subseteq left \X left
    BY DEF Write
  <1>3. Tracked' = left /\ left \subseteq Keys
    BY <1>1, <1>2 DEF Tracked, TypeOK
  <1>4. \A j \in left : map'[j] \in Entries(j)
    BY <1>1, <1>2
  <1>5. nextEvictionSweepAt' \in Nat /\ clock' \in 0 .. MaxClock
    BY SMT DEF Write, TypeOK
  <1> QED
    BY <1>2, <1>3, <1>4, <1>5 DEF TypeOK, Entries

LEMMA TypeInvariant ==
    ASSUME TypeOK, [Next]_vars
    PROVE  TypeOK'
  <1>1. ASSUME NEW k \in Keys, NEW now \in Nows(k), Hit(k, now) \/ AlgorithmHit(k, now)
        PROVE  TypeOK'
    BY <1>1, NowsNat, OutcomeType, WriteType DEF Hit, AlgorithmHit
  <1>2. CASE Cleanup
    <2>1. Tracked' = Kept /\ Kept \subseteq Tracked
      BY <1>2 DEF Cleanup, Tracked, Kept
    <2>2. \A j \in Kept : map'[j] = map[j]
      BY <1>2 DEF Cleanup
    <2>3. map' = [j \in Kept |-> map'[j]] /\ older' \subseteq Kept \X Kept
      BY <1>2 DEF Cleanup
    <2> QED
      BY <1>2, <2>1, <2>2, <2>3 DEF Cleanup, TypeOK, Entries
  <1>3. CASE Tick
    BY <1>3, SMT DEF Tick, TypeOK, Tracked, Entries
  <1>4. CASE UNCHANGED vars
    BY <1>4 DEF vars, TypeOK, Tracked, Entries
  <1> QED
    BY <1>1, <1>2, <1>3, <1>4 DEF Next

LEMMA TypeInit == Init => TypeOK
  BY SMT DEF Init, TypeOK, Tracked

\* Every record the store keeps is a record its key's rule can leave, for every
\* interleaving of hits (stale ones included), cleanups and evictions: token
\* counts stay within the bucket, times and counters are natural numbers.
THEOREM TypeCorrect == Spec => []TypeOK
  <1>1. Init => TypeOK
    BY TypeInit
  <1>2. TypeOK /\ [Next]_vars => TypeOK'
    BY TypeInvariant
  <1> QED
    BY <1>1, <1>2, PTL DEF Spec

-----------------------------------------------------------------------------
(* The cap, the insertion order it relies on and what a step drops.  A hit *)
(* adds one key, so at most one has to go; the insertion order is strict,  *)
(* so there is always a first key to evict, and it was hit longest ago.    *)

LEMMA ProperSubsetSmaller ==
    ASSUME NEW S, IsFiniteSet(S), NEW T \in SUBSET S, NEW x \in S, x \notin T
    PROVE  Cardinality(T) < Cardinality(S)
  <1>1. Cardinality(T) <= Cardinality(S) /\ Cardinality(S) # Cardinality(T) /\ IsFiniteSet(T)
    BY FS_Subset
  <1>2. Cardinality(S) \in Nat /\ Cardinality(T) \in Nat
    BY <1>1, FS_CardinalityType
  <1> QED
    BY <1>1, <1>2, SMT

\* A finite non-empty set has a first element in any strict order: one with the
\* fewest predecessors.
LEMMA FirstExists ==
    ASSUME NEW S, IsFiniteSet(S), S # {}, NEW R,
           \A j \in S : <<j, j>> \notin R,
           \A i, j, k \in S : <<i, j>> \in R /\ <<j, k>> \in R => <<i, k>> \in R
    PROVE  \E k \in S : {j \in S : <<j, k>> \in R} = {}
  <1> DEFINE Before(k) == {j \in S : <<j, k>> \in R}
             Counts    == {Cardinality(Before(k)) : k \in S}
  <1>1. \A k \in S : IsFiniteSet(Before(k)) /\ Cardinality(Before(k)) \in Nat
    BY FS_Subset, FS_CardinalityType
  <1>2. Counts \subseteq Nat /\ Counts # {}
    <2>1. PICK k \in S : TRUE
      OBVIOUS
    <2>2. Cardinality(Before(k)) \in Counts
      OBVIOUS
    <2>3. ASSUME NEW n \in Counts PROVE n \in Nat
      <3>1. PICK j \in S : n = Cardinality(Before(j))
        BY <2>3
      <3> HIDE DEF Before
      <3> QED
        BY <1>1, <3>1
    <2> HIDE DEF Counts
    <2> QED
      BY <2>2, <2>3
  <1>3. PICK n \in Counts : \A i \in Counts : ~(<<i, n>> \in OpToRel(<, Nat))
    BY <1>2, WFMin, NatLessThanWellFounded
  <1>4. PICK k \in S : Cardinality(Before(k)) = n
    BY <1>3
  <1>5. ASSUME NEW j \in Before(k) PROVE FALSE
    <2>1. Before(j) \subseteq Before(k) /\ j \notin Before(j)
      BY <1>5
    <2>2. Cardinality(Before(j)) < Cardinality(Before(k))
      BY <1>1, <1>5, <2>1, ProperSubsetSmaller
    <2>3. Cardinality(Before(j)) \in Counts
      BY <1>5
    <2> QED
      BY <1>2, <1>3, <1>4, <2>2, <2>3 DEF OpToRel
  <1> QED
    BY <1>5

\* The order after a hit of k: as before, with k last.
LEMMA MovedToEndOrder ==
    ASSUME InsertionOrder, TypeOK, NEW k \in Keys
    PROVE  LET D   == Tracked \cup {k}
               ord == MovedToEnd(k)
           IN  /\ \A i, j \in D : i # j => (<<i, j>> \in ord <=> <<j, i>> \notin ord)
               /\ \A j \in D : <<j, j>> \notin ord
               /\ \A h, i, j \in D : <<h, i>> \in ord /\ <<i, j>> \in ord => <<h, j>> \in ord
  <1>1. \A i, j \in Tracked \cup {k} :
            <<i, j>> \in MovedToEnd(k) <=>
                \/ <<i, j>> \in older /\ i # k /\ j # k
                \/ j = k /\ i \in Tracked /\ i # k
    BY DEF MovedToEnd
  <1> QED
    BY <1>1 DEF InsertionOrder

\* Eviction brings a map that is one over the cap back within it.
LEMMA EvictionSuffices ==
    ASSUME NEW m, NEW ord, NEW now, MaxEntries > 0,
           IsFiniteSet(DOMAIN m), Cardinality(DOMAIN m) <= MaxEntries + 1,
           \A j \in DOMAIN m : <<j, j>> \notin ord,
           \A i, j, k \in DOMAIN m : <<i, j>> \in ord /\ <<j, k>> \in ord => <<i, k>> \in ord
    PROVE  Cardinality(DOMAIN m \ Evicted(m, ord, now)) <= MaxEntries
  <1> DEFINE rest == DOMAIN m \ Swept(m, ord, now)
             left == DOMAIN m \ Evicted(m, ord, now)
  <1>1. left = rest \ EvictedOldest(rest, ord) /\ left \subseteq rest /\ rest \subseteq DOMAIN m
    BY DEF Evicted
  <1>2. IsFiniteSet(rest) /\ Cardinality(rest) <= Cardinality(DOMAIN m)
            /\ IsFiniteSet(left) /\ Cardinality(left) <= Cardinality(rest)
    BY <1>1, FS_Subset
  <1>3. Cardinality(rest) \in Nat /\ Cardinality(left) \in Nat /\ Cardinality(DOMAIN m) \in Nat
    BY <1>2, FS_CardinalityType
  <1>4. CASE Cardinality(rest) <= MaxEntries
    BY <1>2, <1>3, <1>4, SMT
  <1>5. CASE ~(Cardinality(rest) <= MaxEntries)
    <2>1. Overflow(rest) = 1
      BY <1>2, <1>3, <1>5, SMT DEF Overflow
    <2>2. rest # {}
      <3>1. Cardinality(rest) # 0
        BY <1>3, <1>5, SMT
      <3> QED
        BY <3>1, FS_EmptySet
    <2>3. PICK k \in rest : {j \in rest : <<j, k>> \in ord} = {}
      <3>1. /\ \A j \in rest : <<j, j>> \notin ord
            /\ \A i, j, k \in rest : <<i, j>> \in ord /\ <<j, k>> \in ord => <<i, k>> \in ord
        BY <1>1
      <3> HIDE DEF rest
      <3> QED
        BY <1>2, <2>2, <3>1, FirstExists
    <2>4. Cardinality({j \in rest : <<j, k>> \in ord}) = 0
      BY <2>3, FS_EmptySet
    <2>5. k \in EvictedOldest(rest, ord)
      BY <2>1, <2>3, <2>4, SMT DEF EvictedOldest, Earliest
    <2>6. k \notin left
      BY <1>1, <2>5
    <2>7. Cardinality(left) < Cardinality(rest)
      BY <1>1, <1>2, <2>3, <2>6, ProperSubsetSmaller
    <2> QED
      BY <1>2, <1>3, <2>7, SMT
  <1> QED
    BY <1>4, <1>5

CapInvariant ==
    /\ TypeOK
    /\ lastHit \in [Keys -> 0 .. clock]
    /\ OrderIsRecency
    /\ WithinCapacity

LEMMA HitKeepsCap ==
    ASSUME CapInvariant, NEW k \in Keys, NEW now \in Nat, NEW entry \in Entries(k),
           Write(k, now, entry), lastHit' = [lastHit EXCEPT ![k] = clock], TypeOK'
    PROVE  CapInvariant'
  <1> USE DEF CapInvariant
  <1> DEFINE m    == Put(k, entry)
             ord  == MovedToEnd(k)
             left == DOMAIN m \ Evicted(m, ord, now)
  <1>1. DOMAIN m = Tracked \cup {k}
    BY DEF Put
  <1>2. Tracked' = left /\ left \subseteq DOMAIN m /\ older' = ord \cap (left \X left)
            /\ clock' = clock
    BY DEF Write, Tracked
  <1>3. /\ \A i, j \in DOMAIN m : i # j => (<<i, j>> \in ord <=> <<j, i>> \notin ord)
        /\ \A j \in DOMAIN m : <<j, j>> \notin ord
        /\ \A h, i, j \in DOMAIN m : <<h, i>> \in ord /\ <<i, j>> \in ord => <<h, j>> \in ord
    BY <1>1, MovedToEndOrder DEF OrderIsRecency
  <1>4. lastHit' \in [Keys -> 0 .. clock']
    BY <1>2, SMT DEF TypeOK
  <1>5. InsertionOrder'
    BY <1>2, <1>3 DEF InsertionOrder
  <1>6. ASSUME NEW i \in Tracked', NEW j \in Tracked', <<i, j>> \in older'
        PROVE  lastHit'[i] <= lastHit'[j]
    <2>1. \/ <<i, j>> \in older /\ i # k /\ j # k
          \/ j = k /\ i \in Tracked /\ i # k
      BY <1>2, <1>6 DEF MovedToEnd
    <2>2. i \in Keys /\ j \in Keys
      BY <1>1, <1>2, <1>6 DEF TypeOK
    <2>3. CASE <<i, j>> \in older /\ i # k /\ j # k
      <3>1. i \in Tracked /\ j \in Tracked
        BY <2>3 DEF TypeOK
      <3> QED
        BY <2>2, <2>3, <3>1 DEF OrderIsRecency
    <2>4. CASE j = k /\ i \in Tracked /\ i # k
      BY <2>2, <2>4, SMT DEF TypeOK
    <2> QED
      BY <2>1, <2>3, <2>4
  <1>7. WithinCapacity'
    <2>1. SUFFICES ASSUME MaxEntries > 0 PROVE Cardinality(left) <= MaxEntries
      BY <1>2 DEF WithinCapacity
    <2>2. IsFiniteSet(Tracked) /\ IsFiniteSet(DOMAIN m)
      BY <1>1, FS_Subset, FS_AddElement DEF TypeOK
    <2>3. Cardinality(DOMAIN m) <= Cardinality(Tracked) + 1 /\ Cardinality(Tracked) \in Nat
              /\ Cardinality(DOMAIN m) \in Nat
      <3>1. Cardinality(Tracked) \in Nat /\ Cardinality(DOMAIN m) \in Nat
        BY <2>2, FS_CardinalityType
      <3>2. Cardinality(DOMAIN m) = IF k \in Tracked THEN Cardinality(Tracked)
                                                     ELSE Cardinality(Tracked) + 1
        BY <1>1, <2>2, FS_AddElement
      <3> QED
        BY <3>1, <3>2, SMT
    <2>4. Cardinality(DOMAIN m) <= MaxEntries + 1
      BY <2>1, <2>3, SMT DEF WithinCapacity
    <2> QED
      BY <1>3, <2>1, <2>2, <2>4, EvictionSuffices
  <1> QED
    BY <1>4, <1>5, <1>6, <1>7 DEF OrderIsRecency

LEMMA CleanupKeepsCap ==
    ASSUME CapInvariant, Cleanup, UNCHANGED lastHit, TypeOK'
    PROVE  CapInvariant'
  <1> USE DEF CapInvariant
  <1>1. Tracked' = Kept /\ Kept \subseteq Tracked /\ older' = older \cap (Kept \X Kept)
            /\ clock' = clock
    BY DEF Cleanup, Tracked, Kept
  <1>2. OrderIsRecency'
    BY <1>1 DEF OrderIsRecency, InsertionOrder
  <1>3. WithinCapacity'
    <2>1. IsFiniteSet(Tracked)
      BY FS_Subset DEF TypeOK
    <2>2. Cardinality(Kept) <= Cardinality(Tracked)
            /\ Cardinality(Kept) \in Nat /\ Cardinality(Tracked) \in Nat
      BY <1>1, <2>1, FS_Subset, FS_CardinalityType
    <2> QED
      BY <1>1, <2>2, SMT DEF WithinCapacity
  <1> QED
    BY <1>1, <1>2, <1>3

LEMMA CapInductive ==
    ASSUME CapInvariant, [EvictionNext]_evictionVars
    PROVE  CapInvariant'
  <1>1. [Next]_vars
    BY DEF EvictionNext, Next, evictionVars, vars
  <1>2. TypeOK'
    BY <1>1, TypeInvariant DEF CapInvariant
  <1>3. ASSUME NEW k \in Keys, NEW now \in Nows(k), Hit(k, now) \/ AlgorithmHit(k, now),
               lastHit' = [lastHit EXCEPT ![k] = clock]
        PROVE  CapInvariant'
    BY <1>2, <1>3, NowsNat, OutcomeType, HitKeepsCap DEF Hit, AlgorithmHit, CapInvariant
  <1>4. CASE Cleanup /\ UNCHANGED lastHit
    BY <1>2, <1>4, CleanupKeepsCap
  <1>5. CASE Tick /\ UNCHANGED lastHit
    <2>1. Tracked' = Tracked /\ older' = older /\ clock' = clock + 1
      BY <1>5 DEF Tick, Tracked
    <2>2. lastHit' \in [Keys -> 0 .. clock']
      BY <1>5, <2>1, SMT DEF CapInvariant, TypeOK
    <2> QED
      BY <1>2, <1>5, <2>1, <2>2
         DEF CapInvariant, OrderIsRecency, InsertionOrder, WithinCapacity
  <1>6. CASE UNCHANGED evictionVars
    BY <1>2, <1>6
       DEF evictionVars, vars, CapInvariant, OrderIsRecency, InsertionOrder, WithinCapacity, Tracked
  <1> QED
    BY <1>3, <1>4, <1>5, <1>6 DEF EvictionNext

LEMMA CapInit == EvictionInit => CapInvariant
  <1> SUFFICES ASSUME EvictionInit PROVE CapInvariant
    OBVIOUS
  <1>1. Tracked = {} /\ older = {} /\ clock = 0
    BY DEF EvictionInit, Init, Tracked
  <1>2. TypeOK
    BY TypeInit DEF EvictionInit
  <1>3. lastHit \in [Keys -> 0 .. clock]
    BY <1>1, SMT DEF EvictionInit
  <1> QED
    BY <1>1, <1>2, <1>3, FS_EmptySet, SMT
       DEF CapInvariant, OrderIsRecency, InsertionOrder, WithinCapacity

LEMMA CapAlways == EvictionSpec => []CapInvariant
  <1>1. EvictionInit => CapInvariant
    BY CapInit
  <1>2. CapInvariant /\ [EvictionNext]_evictionVars => CapInvariant'
    BY CapInductive
  <1> QED
    BY <1>1, <1>2, PTL DEF EvictionSpec

\* No hit ever leaves more than maxEntries records, for any cap and any keys:
\* evictIfNeeded always finds a record to drop.
THEOREM CapHolds == EvictionSpec => []WithinCapacity
  <1>1. CapInvariant => WithinCapacity
    BY DEF CapInvariant
  <1> QED
    BY <1>1, CapAlways, PTL

\* The order the Map is evicted in is the order of the keys' last hits.
THEOREM EvictionOrderIsRecency == EvictionSpec => []OrderIsRecency
  <1>1. CapInvariant => OrderIsRecency
    BY DEF CapInvariant
  <1> QED
    BY <1>1, CapAlways, PTL

-----------------------------------------------------------------------------
(* What a step drops.                                                      *)

\* Whatever is evicted oldest-first, a record over the cap, is the first in order.
LEMMA EvictsFirst ==
    ASSUME NEW rest, NEW ord, IsFiniteSet(rest), Cardinality(rest) <= MaxEntries + 1,
           \A i, j \in rest : i # j => (<<i, j>> \in ord <=> <<j, i>> \notin ord),
           NEW j \in EvictedOldest(rest, ord)
    PROVE  /\ MaxEntries > 0 /\ Cardinality(rest) = MaxEntries + 1
           /\ j \in rest /\ EvictedOldest(rest, ord) = {j}
           /\ \A i \in rest \ {j} : <<j, i>> \in ord
  <1> DEFINE Before(i) == {h \in rest : <<h, i>> \in ord}
  <1>1. \A i \in rest : IsFiniteSet(Before(i)) /\ Cardinality(Before(i)) \in Nat
    BY FS_Subset, FS_CardinalityType
  <1>2. EvictedOldest(rest, ord) = {i \in rest : Cardinality(Before(i)) < Overflow(rest)}
    BY DEF EvictedOldest, Earliest
  <1> HIDE DEF Before
  <1>3. Cardinality(rest) \in Nat
    BY FS_CardinalityType
  <1>4. j \in rest /\ Overflow(rest) > 0
    <2>1. j \in rest /\ Cardinality(Before(j)) < Overflow(rest) /\ Cardinality(Before(j)) \in Nat
      BY <1>1, <1>2
    <2>2. Overflow(rest) \in Nat
      BY <1>3, SMT DEF Overflow
    <2> QED
      BY <2>1, <2>2, SMT
  <1>5. MaxEntries > 0 /\ Cardinality(rest) = MaxEntries + 1 /\ Overflow(rest) = 1
    BY <1>3, <1>4, SMT DEF Overflow
  <1>6. ASSUME NEW i \in EvictedOldest(rest, ord) PROVE i \in rest /\ Before(i) = {}
    <2>1. i \in rest /\ Cardinality(Before(i)) < 1
      BY <1>2, <1>5
    <2>2. Cardinality(Before(i)) = 0
      BY <1>1, <2>1, SMT
    <2> QED
      BY <1>1, <2>1, <2>2, FS_EmptySet
  <1>7. ASSUME NEW i \in rest \ {j} PROVE <<j, i>> \in ord
    BY <1>4, <1>6 DEF Before
  <1>8. ASSUME NEW i \in EvictedOldest(rest, ord) PROVE i = j
    BY <1>4, <1>6, <1>7 DEF Before
  <1> QED
    BY <1>4, <1>5, <1>7, <1>8

\* The map a hit evicts from: at most one over the cap, and only if its key is new.
LEMMA HitCounts ==
    ASSUME CapInvariant, NEW k \in Keys
    PROVE  /\ IsFiniteSet(Tracked \cup {k})
           /\ MaxEntries > 0 => Cardinality(Tracked \cup {k}) <= MaxEntries + 1
           /\ MaxEntries > 0 /\ k \in Tracked => Cardinality(Tracked \cup {k}) <= MaxEntries
  <1>1. IsFiniteSet(Tracked) /\ IsFiniteSet(Tracked \cup {k})
    BY FS_Subset, FS_AddElement DEF CapInvariant, TypeOK
  <1>2. Cardinality(Tracked) \in Nat /\ Cardinality(Tracked \cup {k}) \in Nat
    BY <1>1, FS_CardinalityType
  <1>3. Cardinality(Tracked \cup {k}) = IF k \in Tracked THEN Cardinality(Tracked)
                                                       ELSE Cardinality(Tracked) + 1
    BY <1>1, FS_AddElement
  <1>4. MaxEntries > 0 => Cardinality(Tracked) <= MaxEntries
    BY DEF CapInvariant, WithinCapacity
  <1> QED
    BY <1>1, <1>2, <1>3, <1>4, SMT

LEMMA HitDrops ==
    ASSUME CapInvariant, NEW k \in Keys, NEW now \in Nat, now <= clock,
           NEW entry, entry.expiresAt \in Nat, Write(k, now, entry)
    PROVE  /\ lastHit' = [lastHit EXCEPT ![k] = clock] =>
                \A j \in Forgotten :
                    /\ MaxEntries > 0 /\ Cardinality(DOMAIN map') = MaxEntries
                    /\ \A i \in DOMAIN map' : lastHit[j] <= lastHit'[i]
           /\ entry.expiresAt > now => k \in DOMAIN map'
  <1> DEFINE m    == Put(k, entry)
             ord  == MovedToEnd(k)
             rest == DOMAIN m \ Swept(m, ord, now)
             left == DOMAIN m \ Evicted(m, ord, now)
  <1>1. /\ DOMAIN m = Tracked \cup {k}
        /\ m[k] = entry
        /\ \A j \in Tracked \ {k} : m[j] = map[j]
    BY DEF Put
  <1>2. DOMAIN map' = left /\ left = rest \ EvictedOldest(rest, ord) /\ rest \subseteq DOMAIN m
    BY DEF Write, Evicted
  <1>3. /\ \A i, j \in Tracked \cup {k} : i # j => (<<i, j>> \in ord <=> <<j, i>> \notin ord)
        /\ \A i, j \in Tracked \cup {k} : <<i, j>> \in ord => i # k
    <2>1. \A i, j \in Tracked \cup {k} : i # j => (<<i, j>> \in ord <=> <<j, i>> \notin ord)
      BY MovedToEndOrder DEF CapInvariant, OrderIsRecency
    <2>2. \A i, j \in Tracked \cup {k} : <<i, j>> \in ord => i # k
      BY DEF MovedToEnd
    <2> QED
      BY <2>1, <2>2
  <1>4. \A j \in Swept(m, ord, now) : j \in DOMAIN m /\ m[j].expiresAt <= now
    BY DEF Swept, Earliest, ExpiredIn
  <1>5. clock \in Nat /\ Tracked \subseteq Keys /\ lastHit \in [Keys -> 0 .. clock]
    BY SMT DEF CapInvariant, TypeOK
  <1>6. /\ IsFiniteSet(rest) /\ Cardinality(rest) \in Nat
        /\ MaxEntries > 0 => Cardinality(rest) <= MaxEntries + 1
    <2>1. /\ IsFiniteSet(DOMAIN m)
          /\ MaxEntries > 0 => Cardinality(DOMAIN m) <= MaxEntries + 1
      BY <1>1, HitCounts
    <2>2. /\ IsFiniteSet(rest) /\ Cardinality(rest) <= Cardinality(DOMAIN m)
      BY <1>2, <2>1, FS_Subset
    <2>3. Cardinality(rest) \in Nat /\ Cardinality(DOMAIN m) \in Nat
      BY <2>1, <2>2, FS_CardinalityType
    <2> QED
      BY <2>1, <2>2, <2>3, SMT
  <1>7. MaxEntries > 0 \/ (Swept(m, ord, now) = {} /\ EvictedOldest(rest, ord) = {})
    <2>1. ASSUME ~(MaxEntries > 0) PROVE Swept(m, ord, now) = {} /\ EvictedOldest(rest, ord) = {}
      <3>1. \A S : Overflow(S) = 0
        BY <2>1 DEF Overflow
      <3>2. Swept(m, ord, now) = {}
        BY <3>1, SMT DEF Swept, SweepDue
      <3>3. \A i \in rest : Cardinality({h \in rest : <<h, i>> \in ord}) \in Nat
        BY <1>6, FS_Subset, FS_CardinalityType
      <3>4. EvictedOldest(rest, ord) = {}
        BY <3>1, <3>3, SMT DEF EvictedOldest, Earliest
      <3> QED
        BY <3>2, <3>4
    <2> QED
      BY <2>1
  <1> HIDE DEF m, ord, rest, left
  <1>8. ASSUME NEW j \in EvictedOldest(rest, ord)
        PROVE  /\ MaxEntries > 0 /\ Cardinality(rest) = MaxEntries + 1
               /\ j \in rest /\ EvictedOldest(rest, ord) = {j}
               /\ \A i \in rest \ {j} : <<j, i>> \in ord
    <2>1. MaxEntries > 0
      BY <1>7, <1>8
    <2>2. \A g, h \in rest : g # h => (<<g, h>> \in ord <=> <<h, g>> \notin ord)
      BY <1>1, <1>2, <1>3
    <2> QED
      BY <1>6, <1>8, <2>1, <2>2, EvictsFirst
  <1>9. ASSUME lastHit' = [lastHit EXCEPT ![k] = clock], NEW j \in Forgotten
        PROVE  /\ MaxEntries > 0 /\ Cardinality(DOMAIN map') = MaxEntries
               /\ \A i \in DOMAIN map' : lastHit[j] <= lastHit'[i]
    <2>1. j \in Keys /\ j \in Tracked /\ map[j].expiresAt > clock /\ j \notin left
      BY <1>2, <1>9 DEF Forgotten, Live
    <2>2. j # k
      <3>1. SUFFICES ASSUME j = k PROVE FALSE
        OBVIOUS
      <3>2. k \in Tracked
        BY <2>1, <3>1
      <3>3. MaxEntries > 0 => Overflow(DOMAIN m) = 0
        <4>1. MaxEntries > 0 => Cardinality(DOMAIN m) <= MaxEntries
          BY <1>1, <3>2, HitCounts
        <4>2. Cardinality(DOMAIN m) \in Nat
          BY <1>1, HitCounts, FS_CardinalityType
        <4> QED
          BY <4>1, <4>2, SMT DEF Overflow
      <3>4. Swept(m, ord, now) = {}
        BY <1>7, <3>3, SMT DEF Swept, SweepDue
      <3>5. rest = DOMAIN m
        BY <3>4 DEF rest
      <3>6. MaxEntries > 0 => Cardinality(rest) # MaxEntries + 1
        <4>1. MaxEntries > 0 => Cardinality(rest) <= MaxEntries
          BY <1>1, <3>2, <3>5, HitCounts
        <4> QED
          BY <1>6, <4>1, SMT
      <3>7. EvictedOldest(rest, ord) = {}
        BY <1>8, <3>6
      <3> QED
        BY <1>1, <1>2, <2>1, <3>5, <3>7
    <2>3. j \notin Swept(m, ord, now)
      <3>1. SUFFICES ASSUME j \in Swept(m, ord, now) PROVE FALSE
        OBVIOUS
      <3>2. m[j].expiresAt <= now /\ m[j] = map[j]
        BY <1>1, <1>4, <2>1, <2>2, <3>1
      <3>3. map[j].expiresAt \in Int
        <4>1. map[j] \in Entries(j)
          BY <2>1 DEF CapInvariant, TypeOK, Tracked
        <4> QED
          BY <4>1 DEF Entries
      <3> QED
        BY <1>5, <2>1, <3>2, <3>3, SMT
    <2>4. j \in EvictedOldest(rest, ord)
      BY <1>1, <1>2, <2>1, <2>3 DEF rest
    <2>5. /\ MaxEntries > 0 /\ Cardinality(rest) = MaxEntries + 1
          /\ j \in rest /\ left = rest \ {j}
          /\ \A i \in rest \ {j} : <<j, i>> \in ord
      BY <1>2, <1>8, <2>4
    <2>6. Cardinality(left) = MaxEntries
      <3>1. Cardinality(rest \ {j}) = Cardinality(rest) - 1
        BY <1>6, <2>5, FS_RemoveElement
      <3> QED
        BY <2>5, <3>1, SMT
    <2>7. ASSUME NEW i \in left PROVE lastHit[j] <= lastHit'[i]
      <3>1. i \in Tracked \cup {k} /\ <<j, i>> \in ord
        BY <1>1, <1>2, <2>5
      <3>2. CASE i = k
        <4>1. lastHit'[i] = clock /\ lastHit[j] \in 0 .. clock
          BY <1>5, <1>9, <2>1, <3>2
        <4> QED
          BY <1>5, <4>1, SMT
      <3>3. CASE i # k
        <4>1. <<j, i>> \in older /\ i \in Tracked /\ lastHit'[i] = lastHit[i]
          BY <1>5, <1>9, <3>1, <3>3 DEF ord, MovedToEnd
        <4> QED
          BY <2>1, <4>1 DEF CapInvariant, OrderIsRecency
      <3> QED
        BY <3>2, <3>3
    <2> QED
      BY <1>2, <2>5, <2>6, <2>7
  <1>10. ASSUME entry.expiresAt > now PROVE k \in DOMAIN map'
    <2>1. SUFFICES ASSUME k \notin left PROVE FALSE
      BY <1>2
    <2>2. ~(entry.expiresAt <= now)
      BY <1>10, SMT
    <2>3. k \in rest
      BY <1>1, <1>4, <1>10, <2>2 DEF rest
    <2>4. k \in EvictedOldest(rest, ord)
      BY <1>2, <2>1, <2>3
    <2>5. /\ MaxEntries > 0 /\ Cardinality(rest) = MaxEntries + 1
          /\ \A i \in rest \ {k} : <<k, i>> \in ord
      BY <1>8, <2>4
    <2>6. rest = {k}
      <3>1. ASSUME NEW i \in rest \ {k} PROVE FALSE
        <4>1. i \in Tracked \cup {k} /\ <<k, i>> \in ord
          BY <1>1, <1>2, <2>5
        <4> QED
          BY <1>3, <4>1
      <3> QED
        BY <2>3, <3>1
    <2>7. Cardinality(rest) = 1
      BY <2>6, FS_Singleton
    <2> QED
      BY <2>5, <2>7, SMT
  <1> QED
    BY <1>9, <1>10

\* What DropsLeastRecentOnly says of a step.
DropStep ==
    /\ \A j \in Forgotten :
         /\ MaxEntries > 0 /\ Cardinality(DOMAIN map') = MaxEntries
         /\ \A i \in DOMAIN map' : lastHit[j] <= lastHit'[i]
    /\ \A k \in Keys : \A now \in Nows(k) :
         Hit(k, now) \/ AlgorithmHit(k, now) =>
             k \in DOMAIN map' \/ Outcome(k, now).expiresAt <= now

\* Cleanup, tick and stutter drop no live record.
LEMMA OthersDropNothing ==
    ASSUME Cleanup \/ map' = map
    PROVE  Forgotten = {}
  <1>1. CASE Cleanup
    BY <1>1 DEF Cleanup, Kept, Forgotten, Live
  <1>2. CASE map' = map
    BY <1>2 DEF Forgotten, Live, Tracked
  <1> QED
    BY <1>1, <1>2

\* No step drops a live record but the one hit longest ago, and that only from a
\* full map; a hit's own record goes only if it is over at once.
THEOREM OnlyLeastRecentGoes == EvictionSpec => DropsLeastRecentOnly
  <1>1. CapInvariant /\ [EvictionNext]_evictionVars => [DropStep]_evictionVars
    <2> SUFFICES ASSUME CapInvariant, EvictionNext PROVE DropStep
      OBVIOUS
    <2>1. ASSUME NEW k \in Keys, NEW now \in Nows(k), Hit(k, now) \/ AlgorithmHit(k, now)
          PROVE  /\ Write(k, now, NewEntry(Outcome(k, now))) /\ now \in Nat /\ now <= clock
                 /\ NewEntry(Outcome(k, now)).expiresAt = Outcome(k, now).expiresAt
                 /\ Outcome(k, now).expiresAt \in Nat
      <3>1. NewEntry(Outcome(k, now)).expiresAt = Outcome(k, now).expiresAt
        BY DEF NewEntry
      <3>2. now \in Nat /\ now <= clock
        BY NowsNat DEF CapInvariant
      <3>3. NewEntry(Outcome(k, now)) \in Entries(k)
        BY <3>2, OutcomeType DEF CapInvariant
      <3>4. Outcome(k, now).expiresAt \in Nat
        BY <3>1, <3>3 DEF Entries
      <3> QED
        BY <2>1, <3>1, <3>2, <3>4 DEF Hit, AlgorithmHit
    <2>2. ASSUME NEW j \in Forgotten
          PROVE  /\ MaxEntries > 0 /\ Cardinality(DOMAIN map') = MaxEntries
                 /\ \A i \in DOMAIN map' : lastHit[j] <= lastHit'[i]
      <3>1. CASE Cleanup \/ Tick
        BY <2>2, <3>1, OthersDropNothing DEF Tick
      <3>2. ASSUME NEW k \in Keys, NEW now \in Nows(k), Hit(k, now) \/ AlgorithmHit(k, now),
                   lastHit' = [lastHit EXCEPT ![k] = clock]
            PROVE  /\ MaxEntries > 0 /\ Cardinality(DOMAIN map') = MaxEntries
                   /\ \A i \in DOMAIN map' : lastHit[j] <= lastHit'[i]
        BY <2>1, <2>2, <3>2, HitDrops
      <3> QED
        BY <3>1, <3>2 DEF EvictionNext
    <2>3. ASSUME NEW k \in Keys, NEW now \in Nows(k), Hit(k, now) \/ AlgorithmHit(k, now)
          PROVE  k \in DOMAIN map' \/ Outcome(k, now).expiresAt <= now
      <3>1. Outcome(k, now).expiresAt > now => k \in DOMAIN map'
        BY <2>1, <2>3, HitDrops
      <3> QED
        BY <2>1, <2>3, <3>1, SMT
    <2> QED
      BY <2>2, <2>3 DEF DropStep
  <1>2. [][DropStep]_evictionVars => DropsLeastRecentOnly
    BY PTL DEF DropStep, DropsLeastRecentOnly
  <1> QED
    BY <1>1, <1>2, CapAlways, CapInductive, CapInit, PTL DEF EvictionSpec

-----------------------------------------------------------------------------
(* What the memory store told its callers stays true, for every set of     *)
(* keys, rules and lag: hit() agrees with the shared fixed window,         *)
(* `remaining` is what the next hit can use, waiting `retryAfter` is       *)
(* enough, and a cleanup changes no answer but that of a hit older than    *)
(* the expiry of the record it took.  When no cap evicts records, a        *)
(* reported ban is honoured until it ends, token-bucket and gcra keys      *)
(* implement the AllowanceMeter, and every algorithm admits no more than   *)
(* its rate.                                                               *)

LEMMA HistoryTypes == HistorySpec => []TypeOK
  <1>1. HistoryInit => TypeOK
    BY TypeInit DEF HistoryInit
  <1>2. TypeOK /\ [HistoryNext]_historyVars => TypeOK'
    <2>1. [HistoryNext]_historyVars => [Next]_vars
      BY DEF HistoryNext, HistoryQuiet, HistoryHit, Next, historyVars, vars
    <2> QED
      BY <2>1, TypeInvariant
  <1> QED
    BY <1>1, <1>2, PTL DEF HistorySpec

LEMMA StateType ==
    ASSUME TypeOK, NEW k \in Keys
    PROVE  StateOf(k) \in StatesOf(Rule[k]) \cup {NoState}
  BY DEF StateOf, TypeOK, Entries

LEMMA InlineHitEqual ==
    ASSUME NEW r \in Rules, NEW now \in Nat, NEW s \in FixedStates \cup {NoState}
    PROVE  InlineHit(r, now, s) = FixedWindowHit(r, now, s)
  <1>1. SameState(s, "fixed-window") = s
    BY DEF SameState, FixedStates, NoState
  <1> DEFINE next == FixedState(r, now, s)
             blocked == next.banUntil > now \/ next.count > r.limit
  <1>2. FixedWindowHit(r, now, s) =
            [state |-> next, expiresAt |-> Larger(next.resetAt, next.banUntil),
             hit |-> HitResult(next.count, Larger(r.limit - next.count, 0), next.resetAt, blocked,
                         IF blocked THEN Larger(next.resetAt, next.banUntil) - now ELSE 0,
                         next.banUntil)]
    BY <1>1 DEF FixedWindowHit, ExpiryFor
  <1>3. next = [algorithm |-> "fixed-window", count |-> next.count, resetAt |-> next.resetAt,
                banUntil |-> next.banUntil]
    BY DEF FixedState
  <1>4. InlineHit(r, now, s) =
            [state |-> [algorithm |-> "fixed-window", count |-> next.count,
                        resetAt |-> next.resetAt, banUntil |-> next.banUntil],
             expiresAt |-> Larger(next.resetAt, next.banUntil),
             hit |-> HitResult(next.count, Larger(r.limit - next.count, 0), next.resetAt, blocked,
                         IF blocked THEN Larger(next.resetAt, next.banUntil) - now ELSE 0,
                         next.banUntil)]
    BY DEF InlineHit, InlineHitHolding, FixedState, WindowOpen, ActiveBanUntil, ArmBan
  <1> HIDE DEF next
  <1> QED
    BY <1>2, <1>3, <1>4

\* The copy of the fixed window inside hit() never disagrees with
\* evaluateFixedWindowHit, which the SQLite and Redis stores are built on.
THEOREM CopiesAgree == HistorySpec => []InlineHitMatchesReference
  <1>1. TypeOK => InlineHitMatchesReference
    <2> SUFFICES ASSUME TypeOK, NEW k \in Keys, Rule[k].algorithm = "fixed-window",
                        NEW now \in Nows(k)
                 PROVE  InlineHit(Rule[k], now, StateOf(k))
                            = FixedWindowHit(Rule[k], now, StateOf(k))
      BY DEF InlineHitMatchesReference
    <2>1. StateOf(k) \in FixedStates \cup {NoState}
      BY StateType DEF StatesOf
    <2> QED
      BY <2>1, NowsNat, InlineHitEqual
  <1> QED
    BY <1>1, HistoryTypes, PTL

-----------------------------------------------------------------------------
(* Bans.  The inductive invariant ties the reported ban to the record: it  *)
(* is stored, and the record does not expire before it.                    *)

BanStored(k) ==
    /\ k \in Tracked
    /\ map[k].state.banUntil >= promisedBan[k]
    /\ map[k].expiresAt >= map[k].state.banUntil

BanInvariant ==
    /\ TypeOK
    /\ promisedBan \in [Keys -> Nat]
    /\ \A k \in Keys : promisedBan[k] > clock => BanStored(k)

LEMMA OutcomeBan ==
    ASSUME TypeOK, NEW k \in Keys, NEW now \in Nat
    PROVE  BanKept(Outcome(k, now), StateOf(k), now)
  <1>1. CASE Rule[k].algorithm = "fixed-window"
    <2>1. StateOf(k) \in FixedStates \cup {NoState}
      BY <1>1, StateType DEF StatesOf
    <2> QED
      BY <1>1, <2>1, InlineHitEqual, FixedWindowBan DEF Outcome
  <1>2. CASE Rule[k].algorithm # "fixed-window"
    BY <1>2, StateType, EvaluateBan DEF Outcome
  <1> QED
    BY <1>1, <1>2

\* Without a cap a hit drops no record.
LEMMA NothingEvicted ==
    ASSUME MaxEntries = 0, TypeOK, NEW k \in Keys, NEW now \in Nat, NEW entry \in Entries(k),
           Write(k, now, entry)
    PROVE  /\ Tracked' = Tracked \cup {k}
           /\ map'[k] = entry
           /\ \A j \in Tracked \ {k} : map'[j] = map[j]
           /\ clock' = clock
  <1> DEFINE m == Put(k, entry)
  <1>1. DOMAIN m = Tracked \cup {k} /\ m[k] = entry /\ \A j \in Tracked \ {k} : m[j] = map[j]
    BY DEF Put
  <1>2. ASSUME NEW S \in SUBSET Keys, NEW ord PROVE Earliest(S, 0, ord) = {}
    <2>1. ASSUME NEW i \in S PROVE ~(Cardinality({j \in S : <<j, i>> \in ord}) < 0)
      <3>1. IsFiniteSet({j \in S : <<j, i>> \in ord})
        BY FS_Subset
      <3>2. Cardinality({j \in S : <<j, i>> \in ord}) \in Nat
        BY <3>1, FS_CardinalityType
      <3> QED
        BY <3>2, SMT
    <2> QED
      BY <2>1 DEF Earliest
  <1>3. \A S : Overflow(S) = 0
    BY SMT DEF Overflow
  <1>4. Evicted(m, MovedToEnd(k), now) = {}
    <2>1. Swept(m, MovedToEnd(k), now) = {}
      BY <1>3, SMT DEF Swept, SweepDue
    <2>2. DOMAIN m \ {} \in SUBSET Keys
      BY <1>1 DEF TypeOK
    <2>3. EvictedOldest(DOMAIN m \ {}, MovedToEnd(k)) = {}
      BY <1>2, <1>3, <2>2 DEF EvictedOldest
    <2> QED
      BY <2>1, <2>3 DEF Evicted
  <1>5. map' = [j \in DOMAIN m |-> m[j]] /\ clock' = clock
    BY <1>4 DEF Write
  <1> HIDE DEF m
  <1> QED
    BY <1>1, <1>5 DEF Tracked

LEMMA HitKeepsBans ==
    ASSUME MaxEntries = 0, BanInvariant, TypeOK', NEW k \in Keys, NEW now \in Nows(k),
           HistoryHit(k, now)
    PROVE  BanInvariant'
  <1> USE DEF BanInvariant
  <1> DEFINE out == Outcome(k, now)
  <1>1. now \in Nat /\ now <= clock /\ clock \in Nat
    BY NowsNat, SMT DEF TypeOK
  <1>2. BanKept(out, StateOf(k), now) /\ NewEntry(out) \in Entries(k)
    BY <1>1, OutcomeBan, OutcomeType
  <1>3. out.state.banUntil \in Nat /\ out.expiresAt \in Nat
    <2>1. out.state \in StatesOf(Rule[k]) /\ out.expiresAt \in Nat
      BY <1>2 DEF NewEntry, Entries
    <2> QED
      BY <2>1, BanUntilNat
  <1>4. Write(k, now, NewEntry(out))
    BY DEF HistoryHit, Hit, AlgorithmHit
  <1>5. /\ Tracked' = Tracked \cup {k}
        /\ map'[k] = NewEntry(out)
        /\ \A j \in Tracked \ {k} : map'[j] = map[j]
        /\ clock' = clock
    BY <1>1, <1>2, <1>4, NothingEvicted
  <1>6. promisedBan' = [promisedBan EXCEPT ![k] = Larger(@, out.hit.banUntil)]
    BY DEF HistoryHit
  <1>7. out.hit.banUntil = out.state.banUntil /\ out.expiresAt >= out.state.banUntil
            /\ (StateOf(k).banUntil > now => out.state.banUntil = StateOf(k).banUntil)
    BY <1>2 DEF BanKept
  <1>8. promisedBan' \in [Keys -> Nat]
    BY <1>3, <1>6, <1>7, SMT DEF Larger
  <1>9. ASSUME NEW j \in Keys, promisedBan'[j] > clock'
        PROVE  BanStored(j)'
    <2>1. CASE j # k
      <3>1. promisedBan'[j] = promisedBan[j]
        BY <1>6, <2>1
      <3> QED
        BY <1>5, <1>9, <2>1, <3>1 DEF BanStored
    <2>2. CASE j = k
      <3>1. promisedBan'[k] = Larger(promisedBan[k], out.state.banUntil)
        BY <1>6, <1>7
      <3>2. map'[k].state = out.state /\ map'[k].expiresAt = out.expiresAt /\ k \in Tracked'
        BY <1>5 DEF NewEntry
      <3>3. CASE promisedBan[k] > clock
        <4>1. StateOf(k).banUntil >= promisedBan[k] /\ StateOf(k).banUntil \in Nat
          BY <3>3, StateType, BanUntilNat DEF BanStored, StateOf
        <4>2. StateOf(k).banUntil > now
          BY <1>1, <3>3, <4>1, SMT
        <4> QED
          BY <1>3, <1>7, <2>2, <3>1, <3>2, <4>1, <4>2, SMT DEF BanStored, Larger
      <3>4. CASE ~(promisedBan[k] > clock)
        BY <1>1, <1>3, <1>5, <1>7, <1>9, <2>2, <3>1, <3>2, <3>4, SMT DEF BanStored, Larger
      <3> QED
        BY <3>3, <3>4
    <2> QED
      BY <2>1, <2>2
  <1> QED
    BY <1>8, <1>9

LEMMA BanInductive ==
    ASSUME MaxEntries = 0, BanInvariant, [HistoryNext]_historyVars
    PROVE  BanInvariant'
  <1> USE DEF BanInvariant
  <1>1. TypeOK'
    <2>1. [Next]_vars
      BY DEF HistoryNext, HistoryQuiet, HistoryHit, Next, historyVars, vars
    <2> QED
      BY <2>1, TypeInvariant
  <1>2. ASSUME NEW k \in Keys, NEW now \in Nows(k), HistoryHit(k, now)
        PROVE  BanInvariant'
    BY <1>1, <1>2, HitKeepsBans
  <1>3. CASE Cleanup /\ UNCHANGED promisedBan
    <2>1. clock' = clock /\ clock \in Nat
      BY <1>3 DEF Cleanup, TypeOK
    <2>2. ASSUME NEW k \in Keys, promisedBan[k] > clock PROVE BanStored(k)'
      <3>1. BanStored(k)
        BY <2>2
      <3>2. map[k].state.banUntil \in Nat /\ map[k].expiresAt \in Nat
        <4>1. map[k] \in Entries(k)
          BY <3>1 DEF BanStored, TypeOK
        <4> QED
          BY <4>1, BanUntilNat DEF Entries
      <3>3. k \in Kept
        BY <2>1, <2>2, <3>1, <3>2, SMT DEF BanStored, Kept
      <3>4. map'[k] = map[k] /\ k \in Tracked'
        BY <1>3, <3>3 DEF Cleanup, Tracked
      <3> QED
        BY <1>3, <3>1, <3>4 DEF BanStored
    <2> QED
      BY <1>1, <1>3, <2>1, <2>2
  <1>4. CASE Tick /\ UNCHANGED promisedBan
    <2>1. clock' = clock + 1 /\ map' = map /\ clock \in Nat
      BY <1>4, SMT DEF Tick, TypeOK
    <2>2. ASSUME NEW k \in Keys, promisedBan'[k] > clock' PROVE BanStored(k)'
      <3>1. promisedBan[k] > clock
        BY <1>4, <2>1, <2>2, SMT
      <3> QED
        BY <1>4, <2>1, <3>1 DEF BanStored, Tracked
    <2> QED
      BY <1>1, <1>4, <2>2
  <1>5. CASE UNCHANGED historyVars
    BY <1>1, <1>5 DEF historyVars, vars, BanStored, Tracked
  <1> QED
    BY <1>2, <1>3, <1>4, <1>5 DEF HistoryNext, HistoryQuiet

\* While a reported ban runs, every hit is blocked, however late its `now`.
LEMMA BanBlocks == BanInvariant => BanHonoured
  <1> SUFFICES ASSUME BanInvariant, NEW k \in Keys, promisedBan[k] > clock, NEW now \in Nows(k)
               PROVE  Outcome(k, now).hit.blocked
    BY DEF BanHonoured
  <1>1. TypeOK /\ BanStored(k) /\ promisedBan[k] \in Nat
    BY DEF BanInvariant
  <1>2. now \in Nat /\ now <= clock /\ clock \in Nat
    BY <1>1, NowsNat, SMT DEF TypeOK
  <1>3. StateOf(k).banUntil >= promisedBan[k] /\ StateOf(k).banUntil \in Nat
    BY <1>1, StateType, BanUntilNat DEF BanStored, StateOf
  <1>4. StateOf(k).banUntil > now
    BY <1>1, <1>2, <1>3, SMT
  <1> QED
    BY <1>1, <1>2, <1>4, OutcomeBan DEF BanKept

\* A ban that a hit reported holds until it ends, through window rollovers,
\* cleanups and hits out of order, in every store without a cap.
THEOREM BansHold == ASSUME MaxEntries = 0 PROVE HistorySpec => []BanHonoured
  <1>1. HistoryInit => BanInvariant
    <2> SUFFICES ASSUME HistoryInit PROVE BanInvariant
      OBVIOUS
    <2>1. TypeOK /\ clock = 0
      BY TypeInit DEF HistoryInit, Init
    <2>2. promisedBan = [k \in Keys |-> 0]
      BY DEF HistoryInit
    <2> QED
      BY <2>1, <2>2, SMT DEF BanInvariant
  <1>2. BanInvariant /\ [HistoryNext]_historyVars => BanInvariant'
    BY BanInductive
  <1> QED
    BY <1>1, <1>2, BanBlocks, PTL DEF HistorySpec
-----------------------------------------------------------------------------
(* What one answer says of the next.                                       *)

\* callStore's two entry points evaluate a hit the same way.
LEMMA EntryPointsAgree ==
    ASSUME NEW r \in Rules, NEW now \in Nat, NEW s \in StatesOf(r) \cup {NoState}
    PROVE  (IF r.algorithm = "fixed-window" THEN InlineHit(r, now, s)
            ELSE EvaluateAlgorithmHit(r, now, s)) = EvaluateAlgorithmHit(r, now, s)
  <1>1. CASE r.algorithm = "fixed-window"
    <2>1. s \in FixedStates \cup {NoState}
      BY <1>1 DEF StatesOf
    <2>2. InlineHit(r, now, s) = FixedWindowHit(r, now, s)
      BY <2>1, InlineHitEqual
    <2> QED
      BY <1>1, <2>2 DEF EvaluateAlgorithmHit
  <1>2. CASE r.algorithm # "fixed-window"
    BY <1>2
  <1> QED
    BY <1>1, <1>2

LEMMA OutcomeEvaluates ==
    ASSUME TypeOK, NEW k \in Keys, NEW now \in Nat
    PROVE  Outcome(k, now) = EvaluateAlgorithmHit(Rule[k], now, StateOf(k))
  BY StateType, EntryPointsAgree DEF Outcome

\* The `remaining` a caller is told is exact, for every algorithm and whatever
\* calls came before: of two hits at one time the second is admitted if and only
\* if its cost is within the remaining that the first reported.
THEOREM RemainingIsExact == HistorySpec => []RemainingExact
  <1>1. TypeOK => RemainingExact
    <2> SUFFICES ASSUME TypeOK, NEW k \in Keys
                 PROVE  ExactAfter(Rule[k], clock, Outcome(k, clock),
                            EvaluateAlgorithmHit(Rule[k], clock, Outcome(k, clock).state))
      BY DEF RemainingExact, ExactAfter
    <2>1. clock \in Nat
      BY SMT DEF TypeOK
    <2>2. StateOf(k) \in StatesOf(Rule[k]) \cup {NoState}
      BY StateType
    <2> QED
      BY <2>1, <2>2, OutcomeEvaluates, EvaluateExact
  <1> QED
    BY <1>1, HistoryTypes, PTL

-----------------------------------------------------------------------------
(* Records.  The inductive invariant ties each record to its expiry: from   *)
(* then on the record means nothing.  It holds under evictions too, which   *)
(* only drop records.                                                      *)

RecordKept(k) ==
    LET s == map[k].state IN
    /\ Outlives(Rule[k], s, map[k].expiresAt)
    /\ Rule[k].algorithm = "token-bucket" => s.updatedAt <= clock
    /\ Rule[k].algorithm = "gcra" /\ Rule[k].ban = 0 => s.banUntil = 0

RecordInvariant == TypeOK /\ \A k \in Tracked : RecordKept(k)

\* A hit changes the record of its own key only.
LEMMA WriteKeeps ==
    ASSUME NEW k \in Keys, NEW now, NEW entry, Write(k, now, entry)
    PROVE  /\ clock' = clock
           /\ \A j \in Tracked' : \/ j = k /\ map'[j] = entry
                                  \/ j # k /\ j \in Tracked /\ map'[j] = map[j]
  <1> DEFINE m    == Put(k, entry)
             left == DOMAIN m \ Evicted(m, MovedToEnd(k), now)
  <1>1. map' = [j \in left |-> m[j]] /\ clock' = clock
    BY DEF Write
  <1>2. Tracked' = left
    BY <1>1 DEF Tracked
  <1>3. \A j \in DOMAIN m : \/ j = k /\ m[j] = entry
                            \/ j # k /\ j \in Tracked /\ m[j] = map[j]
    BY DEF Put
  <1> HIDE DEF m
  <1>4. \A j \in left : j \in DOMAIN m /\ map'[j] = m[j]
    BY <1>1
  <1> QED
    BY <1>1, <1>2, <1>3, <1>4

\* The record a hit stores is kept, in the sense above.
LEMMA OutcomeKept ==
    ASSUME RecordInvariant, NEW k \in Keys, NEW now \in Nows(k)
    PROVE  LET out == Outcome(k, now) IN
           /\ Outlives(Rule[k], out.state, out.expiresAt)
           /\ Rule[k].algorithm = "token-bucket" => out.state.updatedAt <= clock
           /\ Rule[k].algorithm = "gcra" /\ Rule[k].ban = 0 => out.state.banUntil = 0
  <1> DEFINE r == Rule[k]
             s == StateOf(k)
             out == EvaluateAlgorithmHit(r, now, s)
  <1>1. TypeOK /\ now \in Nat /\ now <= clock
    BY NowsNat DEF RecordInvariant
  <1>2. s \in StatesOf(r) \cup {NoState} /\ r \in Rules
    BY <1>1, StateType
  <1>3. Outcome(k, now) = out
    BY <1>1, OutcomeEvaluates
  <1>4. Outlives(r, out.state, out.expiresAt)
    BY <1>1, <1>2, EvaluateOutlives
  <1>5. r.algorithm = "token-bucket" => out.state.updatedAt <= clock
    BY <1>1 DEF EvaluateAlgorithmHit, TokenBucketHit
  <1>6. ASSUME r.algorithm = "gcra", r.ban = 0 PROVE out.state.banUntil = 0
    <2>1. s.banUntil = 0
      BY <1>6 DEF RecordInvariant, RecordKept, StateOf, NoState
    <2>2. s \in GcraStates \cup {NoState}
      BY <1>2, <1>6 DEF StatesOf
    <2> QED
      BY <1>1, <1>2, <1>6, <2>1, <2>2, GcraUnbanned DEF EvaluateAlgorithmHit
  <1> QED
    BY <1>3, <1>4, <1>5, <1>6

LEMMA RecordsInductive ==
    ASSUME RecordInvariant, [HistoryNext]_historyVars
    PROVE  RecordInvariant'
  <1>1. TypeOK'
    <2>1. TypeOK /\ [Next]_vars
      BY DEF RecordInvariant, HistoryNext, HistoryQuiet, HistoryHit, Next, historyVars, vars
    <2> QED
      BY <2>1, TypeInvariant
  <1>2. ASSUME NEW k \in Keys, NEW now \in Nows(k), HistoryHit(k, now)
        PROVE  RecordInvariant'
    <2> DEFINE out == Outcome(k, now)
    <2>1. Write(k, now, NewEntry(out))
      BY <1>2 DEF HistoryHit, Hit, AlgorithmHit
    <2>2. /\ Outlives(Rule[k], out.state, out.expiresAt)
          /\ Rule[k].algorithm = "token-bucket" => out.state.updatedAt <= clock
          /\ Rule[k].algorithm = "gcra" /\ Rule[k].ban = 0 => out.state.banUntil = 0
      BY OutcomeKept
    <2>3. /\ clock' = clock
          /\ \A j \in Tracked' : \/ j = k /\ map'[j] = NewEntry(out)
                                 \/ j # k /\ j \in Tracked /\ map'[j] = map[j]
      BY <2>1, WriteKeeps
    <2>4. NewEntry(out).state = out.state /\ NewEntry(out).expiresAt = out.expiresAt
      BY DEF NewEntry
    <2> HIDE DEF out
    <2>5. ASSUME NEW j \in Tracked' PROVE RecordKept(j)'
      <3>1. CASE j = k /\ map'[j] = NewEntry(out)
        BY <2>2, <2>3, <2>4, <3>1 DEF RecordKept
      <3>2. CASE j \in Tracked /\ map'[j] = map[j]
        BY <2>3, <3>2 DEF RecordInvariant, RecordKept
      <3> QED
        BY <2>3, <2>5, <3>1, <3>2
    <2> QED
      BY <1>1, <2>5 DEF RecordInvariant
  <1>3. CASE Cleanup
    <2>1. Tracked' = Kept /\ Kept \subseteq Tracked
      BY <1>3 DEF Cleanup, Tracked, Kept
    <2>2. \A j \in Kept : map'[j] = map[j]
      BY <1>3 DEF Cleanup
    <2>3. clock' = clock
      BY <1>3 DEF Cleanup
    <2> QED
      BY <1>1, <2>1, <2>2, <2>3 DEF RecordInvariant, RecordKept
  <1>4. CASE Tick
    <2>1. map' = map /\ clock' = clock + 1 /\ clock \in Nat /\ Tracked' = Tracked
      BY <1>4, SMT DEF Tick, RecordInvariant, TypeOK, Tracked
    <2>2. ASSUME NEW k \in Tracked, Rule[k].algorithm = "token-bucket"
          PROVE  map[k].state.updatedAt <= clock'
      <3>1. map[k].state.updatedAt <= clock
        BY <2>2 DEF RecordInvariant, RecordKept
      <3>2. map[k].state \in TokenStates(Rule[k])
        BY <2>2 DEF RecordInvariant, TypeOK, Entries, StatesOf
      <3>3. map[k].state.updatedAt \in Nat
        BY <3>2 DEF TokenStates
      <3> QED
        BY <2>1, <3>1, <3>3, SMT
    <2> QED
      BY <1>1, <2>1, <2>2 DEF RecordInvariant, RecordKept
  <1>5. CASE UNCHANGED historyVars
    BY <1>1, <1>5 DEF historyVars, vars, RecordInvariant, RecordKept, Tracked
  <1> QED
    BY <1>2, <1>3, <1>4, <1>5 DEF HistoryNext, HistoryQuiet

LEMMA RecordsKept == HistorySpec => []RecordInvariant
  <1>1. HistoryInit => RecordInvariant
    BY TypeInit DEF HistoryInit, Init, RecordInvariant, Tracked
  <1>2. RecordInvariant /\ [HistoryNext]_historyVars => RecordInvariant'
    BY RecordsInductive
  <1> QED
    BY <1>1, <1>2, PTL DEF HistorySpec

\* A client that waits the retryAfter of a blocked hit is admitted, in the cases
\* where the code computes the wait from the state it stores.
THEOREM RetryAfterIsHonest == HistorySpec => []RetryAfterHonestWhereExact
  <1>1. RecordInvariant => RetryAfterHonestWhereExact
    <2> SUFFICES ASSUME RecordInvariant, NEW k \in Keys,
                        \/ Rule[k].algorithm \in {"fixed-window", "token-bucket"}
                        \/ Rule[k].algorithm = "gcra" /\ Rule[k].ban = 0,
                        Outcome(k, clock).hit.blocked, Rule[k].cost <= Rule[k].limit,
                        NEW later, later = clock + Outcome(k, clock).hit.retryAfter
                 PROVE  ~EvaluateAlgorithmHit(Rule[k], later, Outcome(k, clock).state).hit.blocked
      BY DEF RetryAfterHonestWhereExact, HonestFor
    <2>1. TypeOK /\ clock \in Nat
      BY SMT DEF RecordInvariant, TypeOK
    <2>2. Outcome(k, clock) = EvaluateAlgorithmHit(Rule[k], clock, StateOf(k))
      BY <2>1, OutcomeEvaluates
    <2>3. StateOf(k) \in StatesOf(Rule[k]) \cup {NoState}
      BY <2>1, StateType
    <2>4. CASE Rule[k].algorithm = "fixed-window"
      BY <2>1, <2>2, <2>3, <2>4, FixedWindowHonest DEF EvaluateAlgorithmHit, StatesOf
    <2>5. CASE Rule[k].algorithm = "token-bucket"
      BY <2>1, <2>2, <2>3, <2>5, TokenBucketHonest DEF EvaluateAlgorithmHit, StatesOf
    <2>6. CASE Rule[k].algorithm = "gcra" /\ Rule[k].ban = 0
      <3>1. StateOf(k).banUntil = 0
        BY <2>6 DEF RecordInvariant, RecordKept, StateOf, NoState
      <3> QED
        BY <2>1, <2>2, <2>3, <2>6, <3>1, GcraHonest DEF EvaluateAlgorithmHit, StatesOf
    <2> QED
      BY <2>4, <2>5, <2>6
  <1> QED
    BY <1>1, RecordsKept, PTL
-----------------------------------------------------------------------------
(* A key's first hit is never refused more strictly than the same hit would *)
(* be on any record of the key.                                            *)

LEMMA FixedWindowFirst ==
    ASSUME NEW r \in Rules, NEW now \in Nat, NEW s \in FixedStates
    PROVE  NoStricter(FixedWindowHit(r, now, s).hit, FixedWindowHit(r, now, NoState).hit)
  <1> DEFINE count(x) == FixedState(r, now, x).count
  <1>1. count(NoState) = r.cost
    BY DEF FixedState, WindowOpen, NoState
  <1>2. count(s) \in Nat /\ r.cost <= count(s) /\ r.cost \in Nat /\ r.limit \in Nat
    BY SMT DEF FixedState, WindowOpen, FixedStates, Rules
  <1>3. ASSUME NEW x \in {s, NoState}
        PROVE  FixedWindowHit(r, now, x).hit.remaining = Larger(r.limit - count(x), 0)
    <2>1. SameState(x, "fixed-window") = x
      BY DEF SameState, FixedStates, NoState
    <2> QED
      BY <2>1 DEF FixedWindowHit, HitResult
  <1>4. ~(NoState.banUntil > now)
    BY SMT DEF NoState
  <1>5. FixedWindowHit(r, now, NoState).hit.blocked <=> count(NoState) > r.limit
    BY <1>4, FixedWindowBlocks
  <1>6. FixedWindowHit(r, now, s).hit.blocked <=> s.banUntil > now \/ count(s) > r.limit
    BY FixedWindowBlocks
  <1> HIDE DEF count
  <1>7. Larger(r.limit - r.cost, 0) >= Larger(r.limit - count(s), 0)
    BY <1>2, SMT DEF Larger
  <1>8. r.cost > r.limit => count(s) > r.limit
    BY <1>2, SMT
  <1> QED
    BY <1>1, <1>3, <1>5, <1>6, <1>7, <1>8 DEF NoStricter

LEMMA SlidingWindowFirst ==
    ASSUME NEW r \in Rules, NEW now \in Nat, NEW s \in SlidingStates
    PROVE  NoStricter(SlidingWindowHit(r, now, s).hit, SlidingWindowHit(r, now, NoState).hit)
  <1> DEFINE left == r.window - (now - WindowStart(r, now))
  <1>1. left \in Nat /\ r.window \in Nat \ {0} /\ r.cost \in Nat /\ r.limit \in Nat
    BY WindowStartNat, SMT DEF Rules
  <1>2. SlidingPrevious(r, now, NoState) = 0 /\ SlidingCurrent(r, now, NoState) = r.cost
    BY <1>1, SMT DEF SlidingPrevious, SlidingCurrent, NoState
  <1>3. /\ SlidingPrevious(r, now, s) \in Nat
        /\ SlidingCurrent(r, now, s) \in Nat /\ r.cost <= SlidingCurrent(r, now, s)
    BY WindowStartNat, SMT DEF SlidingPrevious, SlidingCurrent, SlidingStates, Rules
  <1>4. ASSUME NEW p \in Nat PROVE (p * left) \div r.window \in Nat /\ (0 * left) \div r.window = 0
    <2>1. p * left \in Nat /\ 0 * left = 0
      BY <1>1, SMT
    <2> HIDE DEF left
    <2> QED
      BY <1>1, <2>1, SMT
  <1>5. \A p, c : Estimated(r, now, p, c) = c + (p * left) \div r.window
    BY DEF Estimated
  <1> HIDE DEF left
  <1>6. SlidingCount(r, now, NoState) = r.cost
    BY <1>1, <1>2, <1>4, <1>5, SMT DEF SlidingCount
  <1>7. SlidingCount(r, now, s) \in Nat /\ r.cost <= SlidingCount(r, now, s)
    BY <1>1, <1>3, <1>4, <1>5, SMT DEF SlidingCount
  <1>8. ASSUME NEW x \in {s, NoState}
        PROVE  SlidingWindowHit(r, now, x).hit.remaining
                   = Larger(r.limit - SlidingCount(r, now, x), 0)
    <2>1. SameState(x, "sliding-window") = x
      BY DEF SameState, SlidingStates, NoState
    <2> QED
      BY <2>1 DEF SlidingWindowHit, HitResult, SlidingCount
  <1>9. ~(NoState.banUntil > now)
    BY SMT DEF NoState
  <1>10. SlidingWindowHit(r, now, NoState).hit.blocked
             <=> SlidingCount(r, now, NoState) > r.limit
    BY <1>9, SlidingWindowBlocks
  <1>11. SlidingWindowHit(r, now, s).hit.blocked
             <=> s.banUntil > now \/ SlidingCount(r, now, s) > r.limit
    BY SlidingWindowBlocks
  <1>12. Larger(r.limit - r.cost, 0) >= Larger(r.limit - SlidingCount(r, now, s), 0)
    BY <1>1, <1>7, SMT DEF Larger
  <1>13. r.cost > r.limit => SlidingCount(r, now, s) > r.limit
    BY <1>1, <1>7, SMT
  <1> QED
    BY <1>6, <1>8, <1>10, <1>11, <1>12, <1>13 DEF NoStricter

LEMMA DivMonotone ==
    ASSUME NEW a \in Int, NEW b \in Int, NEW c \in Nat \ {0}, a <= b
    PROVE  a \div c <= b \div c
  BY SMT

LEMMA TokenBucketFirst ==
    ASSUME NEW r \in Rules, NEW now \in Nat, NEW s \in TokenStates(r)
    PROVE  NoStricter(TokenBucketHit(r, now, s).hit, TokenBucketHit(r, now, NoState).hit)
  <1> DEFINE price == r.cost * r.window
             Admits(x) == ~(x.banUntil > now) /\ ~(Refilled(r, now, x) < price)
  <1>1. price \in Nat /\ Capacity(r) \in Nat /\ r.window \in Nat \ {0}
    BY CapacityNat DEF Rules
  <1>2. Refilled(r, now, NoState) = Capacity(r) /\ Refilled(r, now, s) \in 0 .. Capacity(r)
    BY RefilledRange DEF Refilled, NoState
  <1>3. ~(NoState.banUntil > now)
    BY SMT DEF NoState
  <1>4. ASSUME NEW x \in {s, NoState}
        PROVE  /\ ~TokenBucketHit(r, now, x).hit.blocked <=> Admits(x)
               /\ Admits(x) => TokenBucketHit(r, now, x).hit.remaining
                                   = (Refilled(r, now, x) - price) \div r.window
    <2>1. ~TokenBucketHit(r, now, x).hit.blocked <=> Admits(x)
      BY TokenBucketBlocks
    <2>2. SameState(x, "token-bucket") = x
      BY DEF SameState, TokenStates, NoState
    <2>3. ASSUME Admits(x) PROVE ActiveBanUntil(x, now) = 0
      BY <2>3 DEF ActiveBanUntil
    <2>4. ~(0 > now)
      BY SMT
    <2>5. ASSUME Admits(x)
          PROVE  TokenBucketHit(r, now, x).hit.remaining
                     = (Refilled(r, now, x) - price) \div r.window
      BY <2>2, <2>3, <2>4, <2>5 DEF TokenBucketHit, HitResult
    <2> QED
      BY <2>1, <2>5
  <1>5. SUFFICES ASSUME Admits(s)
                 PROVE  /\ Admits(NoState)
                        /\ (Capacity(r) - price) \div r.window
                               >= (Refilled(r, now, s) - price) \div r.window
    BY <1>2, <1>4 DEF NoStricter
  <1>6. Admits(NoState)
    <2> HIDE DEF price
    <2> QED
      BY <1>1, <1>2, <1>3, <1>5, SMT
  <1>7. /\ Refilled(r, now, s) - price \in Int /\ Capacity(r) - price \in Int
        /\ Refilled(r, now, s) - price <= Capacity(r) - price
    <2> HIDE DEF price
    <2> QED
      BY <1>1, <1>2, SMT
  <1>8. (Refilled(r, now, s) - price) \div r.window <= (Capacity(r) - price) \div r.window
    BY <1>1, <1>7, DivMonotone
  <1>9. (Refilled(r, now, s) - price) \div r.window \in Int
            /\ (Capacity(r) - price) \div r.window \in Int
    BY <1>1, <1>7, SMT
  <1> QED
    <2>1. \A a, b \in Int : a <= b => b >= a
      BY SMT
    <2> QED
      BY <1>6, <1>8, <1>9, <2>1

LEMMA GcraFirst ==
    ASSUME NEW r \in Rules, NEW now \in Nat, NEW s \in GcraStates
    PROVE  NoStricter(GcraHit(r, now, s).hit, GcraHit(r, now, NoState).hit)
  <1> DEFINE present == now * r.limit
             next(x) == NextTat(r, now, Tat(r, now, x))
             Admits(x) == ~(x.banUntil > now) /\ ~(present < next(x) - Capacity(r))
             left(t) == Larger((Capacity(r) - Larger(t - present, 0)) \div r.window, 0)
  <1>1. /\ present \in Nat /\ Capacity(r) \in Nat /\ r.window \in Nat \ {0}
        /\ r.window * r.cost \in Nat
    BY CapacityNat, SMT DEF Rules
  <1>2. ~(NoState.banUntil > now)
    BY SMT DEF NoState
  <1>3. next(NoState) \in Nat /\ next(s) \in Nat /\ next(NoState) <= next(s)
    <2> DEFINE hop == r.window * r.cost
    <2>1. Tat(r, now, NoState) = present /\ Tat(r, now, s) = s.tat /\ s.tat \in Nat
      BY DEF Tat, GcraStates, NoState
    <2>2. next(NoState) = Larger(present, present) + hop /\ next(s) = Larger(s.tat, present) + hop
      BY <2>1 DEF NextTat
    <2> HIDE DEF present, next, hop
    <2>3. hop \in Nat
      BY <1>1 DEF hop
    <2>4. /\ Larger(present, present) = present
          /\ Larger(s.tat, present) \in Nat /\ present <= Larger(s.tat, present)
      BY <1>1, <2>1, SMT DEF Larger
    <2> QED
      BY <1>1, <2>2, <2>3, <2>4, SMT
  <1>4. ASSUME NEW x \in {s, NoState}
        PROVE  /\ ~GcraHit(r, now, x).hit.blocked <=> Admits(x)
               /\ Admits(x) => GcraHit(r, now, x).hit.remaining = left(next(x))
    <2>1. ~GcraHit(r, now, x).hit.blocked <=> Admits(x)
      BY GcraBlocks
    <2>2. SameState(x, "gcra") = x
      BY DEF SameState, GcraStates, NoState
    <2>3. ASSUME Admits(x) PROVE ActiveBanUntil(x, now) = 0
      BY <2>3 DEF ActiveBanUntil
    <2>4. ~(0 > now)
      BY SMT
    <2>5. ASSUME Admits(x) PROVE GcraHit(r, now, x).hit.remaining = left(next(x))
      BY <2>2, <2>3, <2>4, <2>5 DEF GcraHit, HitResult
    <2> QED
      BY <2>1, <2>5
  <1>5. SUFFICES ASSUME Admits(s)
                 PROVE  Admits(NoState) /\ left(next(NoState)) >= left(next(s))
    BY <1>4 DEF NoStricter
  <1> HIDE DEF next, present
  <1>6. Admits(NoState)
    BY <1>1, <1>2, <1>3, <1>5, SMT
  <1> DEFINE room(t) == Capacity(r) - Larger(t - present, 0)
  <1>7. room(next(s)) \in Int /\ room(next(NoState)) \in Int
            /\ room(next(s)) <= room(next(NoState))
    BY <1>1, <1>3, SMT DEF Larger
  <1>8. left(next(s)) = Larger(room(next(s)) \div r.window, 0)
            /\ left(next(NoState)) = Larger(room(next(NoState)) \div r.window, 0)
    OBVIOUS
  <1> HIDE DEF room, left
  <1>9. room(next(s)) \div r.window <= room(next(NoState)) \div r.window
    BY <1>1, <1>7, DivMonotone
  <1>10. room(next(s)) \div r.window \in Int /\ room(next(NoState)) \div r.window \in Int
    BY <1>1, <1>7, SMT
  <1>11. \A a, b \in Int : a <= b => Larger(b, 0) >= Larger(a, 0)
    BY SMT DEF Larger
  <1> QED
    BY <1>6, <1>8, <1>9, <1>10, <1>11

LEMMA EvaluateFirst ==
    ASSUME NEW r \in Rules, NEW now \in Nat, NEW s \in StatesOf(r)
    PROVE  NoStricter(EvaluateAlgorithmHit(r, now, s).hit,
                      EvaluateAlgorithmHit(r, now, NoState).hit)
  <1>1. CASE r.algorithm = "fixed-window"
    BY <1>1, FixedWindowFirst DEF EvaluateAlgorithmHit, StatesOf
  <1>2. CASE r.algorithm = "sliding-window"
    BY <1>2, SlidingWindowFirst DEF EvaluateAlgorithmHit, StatesOf
  <1>3. CASE r.algorithm = "token-bucket"
    BY <1>3, TokenBucketFirst DEF EvaluateAlgorithmHit, StatesOf
  <1>4. CASE r.algorithm = "gcra"
    BY <1>4, GcraFirst DEF EvaluateAlgorithmHit, StatesOf
  <1> QED
    BY <1>1, <1>2, <1>3, <1>4 DEF Rules, AlgorithmNames

\* A cleanup drops expired records only.  From its expiry on a record gets the
\* answer that no record gets; a hit whose `now` is before the expiry finds no
\* record where it would have found one, and no record is never the stricter.
\* The store may have a cap or none.
THEOREM CleanupIsInvisible == HistorySpec => CleanupInvisible
  <1>1. ASSUME RecordInvariant, [HistoryNext]_historyVars, Cleanup,
               NEW k \in Keys, NEW now \in Nows(k)
        PROVE  IF Overtaken(k, now)
               THEN NoStricter(Outcome(k, now).hit, Outcome(k, now)'.hit)
               ELSE Outcome(k, now)'.hit = Outcome(k, now).hit
    <2>1. TypeOK /\ now \in Nat /\ now <= clock /\ clock \in Nat
      BY <1>1, NowsNat, SMT DEF RecordInvariant, TypeOK
    <2>2. TypeOK'
      BY <1>1, RecordsInductive DEF RecordInvariant
    <2>3. Outcome(k, now) = EvaluateAlgorithmHit(Rule[k], now, StateOf(k))
      BY <2>1, OutcomeEvaluates
    <2>4. Outcome(k, now)' = EvaluateAlgorithmHit(Rule[k], now, StateOf(k)')
      <3>1. StateOf(k)' \in StatesOf(Rule[k]) \cup {NoState}
        BY <2>2 DEF StateOf, TypeOK, Entries
      <3> QED
        BY <2>1, <3>1, EntryPointsAgree DEF Outcome
    <2>5. Tracked' = Kept /\ Kept \subseteq Tracked /\ \A j \in Kept : map'[j] = map[j]
      BY <1>1 DEF Cleanup, Tracked, Kept
    <2>6. CASE k \in Kept \/ k \notin Tracked
      <3>1. StateOf(k)' = StateOf(k)
        BY <2>5, <2>6 DEF StateOf
      <3>2. ~Overtaken(k, now)
        <4>1. CASE k \notin Tracked
          BY <4>1 DEF Overtaken
        <4>2. CASE k \in Kept
          <5>1. map[k].expiresAt \in Nat /\ map[k].expiresAt > clock
            BY <2>1, <4>2 DEF Kept, TypeOK, Entries
          <5> QED
            BY <2>1, <5>1, SMT DEF Overtaken
        <4> QED
          BY <2>6, <4>1, <4>2
      <3> QED
        BY <2>3, <2>4, <3>1, <3>2
    <2>7. CASE k \in Tracked /\ k \notin Kept
      <3>1. StateOf(k)' = NoState /\ StateOf(k) = map[k].state
        BY <2>5, <2>7 DEF StateOf
      <3>2. map[k].state \in StatesOf(Rule[k]) /\ map[k].expiresAt \in Nat
        BY <2>1, <2>7 DEF TypeOK, Entries
      <3>3. map[k].expiresAt <= clock
        BY <2>1, <2>7, <3>2, SMT DEF Kept
      <3>4. CASE Overtaken(k, now)
        BY <2>1, <2>3, <2>4, <3>1, <3>2, <3>4, EvaluateFirst
      <3>5. CASE ~Overtaken(k, now)
        <4>1. map[k].expiresAt <= now
          BY <2>1, <2>7, <3>2, <3>3, <3>5, SMT DEF Overtaken
        <4>2. Outlives(Rule[k], map[k].state, map[k].expiresAt)
          BY <1>1, <2>7 DEF RecordInvariant, RecordKept
        <4> QED
          BY <2>1, <2>3, <2>4, <3>1, <3>2, <3>5, <4>1, <4>2, EvaluateLapsed
      <3> QED
        BY <3>4, <3>5
    <2> QED
      BY <2>6, <2>7
  <1>2. RecordInvariant /\ [HistoryNext]_historyVars
            => [Cleanup => \A k \in Keys : \A now \in Nows(k) :
                   IF Overtaken(k, now)
                   THEN NoStricter(Outcome(k, now).hit, Outcome(k, now)'.hit)
                   ELSE Outcome(k, now)'.hit = Outcome(k, now).hit]_historyVars
    BY <1>1
  <1> QED
    BY <1>2, RecordsKept, PTL DEF HistorySpec, CleanupInvisible
-----------------------------------------------------------------------------
(* The refinement: without a cap, every step of the store is a step of the *)
(* allowance meter or leaves it alone.                                     *)

LEMMA MeteredRules ==
    ASSUME NEW k \in MeteredKeys
    PROVE  k \in Keys /\ Rule[k] \in Rules /\ Metered(Rule[k]) /\ MaxLag[k] = 0
  BY DEF MeteredKeys, Metered

LEMMA InUseIsLevel ==
    ASSUME NEW k \in MeteredKeys
    PROVE  /\ InUse(k) = Level(Rule[k], clock, StateOf(k))
           /\ InUse(k)' = Level(Rule[k], clock', StateOf(k)')
  BY DEF InUse, Level

LEMMA MeterStarts == HistoryInit => Meter!MeterInit
  <1> SUFFICES ASSUME HistoryInit PROVE Meter!MeterInit
    OBVIOUS
  <1>1. clock = 0 /\ 0 \in Nat
    BY DEF HistoryInit, Init
  <1>2. \A k \in MeteredKeys : StateOf(k) = NoState
    BY DEF HistoryInit, Init, StateOf, Tracked
  <1>3. \A k \in MeteredKeys : InUse(k) = 0
    BY <1>1, <1>2, MeteredRules, InUseIsLevel, LevelEmpty
  <1> QED
    BY <1>1, <1>3 DEF Meter!MeterInit

\* A hit is Admit of its key if the key is metered and the hit is admitted.
LEMMA HitRefines ==
    ASSUME MaxEntries = 0, RecordInvariant, NEW h \in Keys, NEW now \in Nows(h),
           HistoryHit(h, now)
    PROVE  [Meter!MeterNext]_(Meter!meterVars)
  <1> DEFINE out == Outcome(h, now)
             levels == [k \in MeteredKeys |-> InUse(k)]
             price == Rule[h].cost * Rule[h].window
  <1>1. TypeOK /\ now \in Nat /\ now <= clock /\ clock \in Nat
    BY NowsNat, SMT DEF RecordInvariant, TypeOK
  <1>2. Write(h, now, NewEntry(out)) /\ NewEntry(out) \in Entries(h)
    BY <1>1, OutcomeType DEF HistoryHit, Hit, AlgorithmHit
  <1>3. /\ Tracked' = Tracked \cup {h}
        /\ map'[h] = NewEntry(out)
        /\ \A j \in Tracked \ {h} : map'[j] = map[j]
        /\ clock' = clock
    BY <1>1, <1>2, NothingEvicted
  <1>4. StateOf(h)' = out.state
    BY <1>3 DEF StateOf, NewEntry
  <1>5. \A k \in Keys \ {h} : StateOf(k)' = StateOf(k)
    BY <1>3 DEF StateOf
  <1>6. \A k \in MeteredKeys \ {h} : InUse(k)' = InUse(k)
    BY <1>3, <1>5, MeteredRules, InUseIsLevel
  <1>7. CASE h \notin MeteredKeys
    <2>1. \A k \in MeteredKeys : InUse(k)' = InUse(k)
      BY <1>6, <1>7
    <2>2. [k \in MeteredKeys |-> InUse(k)'] = [k \in MeteredKeys |-> InUse(k)]
      BY <2>1
    <2> QED
      BY <1>3, <2>2 DEF Meter!meterVars
  <1>8. CASE h \in MeteredKeys
    <2>1. Rule[h] \in Rules /\ Metered(Rule[h]) /\ now = clock
      BY <1>1, <1>8, MeteredRules, SMT DEF Nows
    <2>2. out = EvaluateAlgorithmHit(Rule[h], clock, StateOf(h))
      BY <1>1, <2>1, OutcomeEvaluates
    <2>3. StateOf(h) \in StatesOf(Rule[h]) \cup {NoState}
      BY <1>1, StateType
    <2>4. MeteredStep(Rule[h], clock, StateOf(h), out)
      BY <1>1, <2>1, <2>2, <2>3, EvaluateMetered
    <2>5. InUse(h) = Level(Rule[h], clock, StateOf(h))
              /\ InUse(h)' = Level(Rule[h], clock, out.state)
      BY <1>3, <1>4, <1>8, InUseIsLevel
    <2>6. CASE out.hit.blocked
      <3>1. InUse(h)' = InUse(h)
        BY <2>4, <2>5, <2>6 DEF MeteredStep
      <3>2. \A k \in MeteredKeys : InUse(k)' = InUse(k)
        BY <1>6, <3>1
      <3>3. [k \in MeteredKeys |-> InUse(k)'] = [k \in MeteredKeys |-> InUse(k)]
        BY <3>2
      <3> QED
        BY <1>3, <3>3 DEF Meter!meterVars
    <2>7. CASE ~out.hit.blocked
      <3>1. InUse(h)' = InUse(h) + price /\ InUse(h) + price <= Capacity(Rule[h])
        BY <2>4, <2>5, <2>7 DEF MeteredStep
      <3>2. levels[h] = InUse(h)
        BY <1>8
      <3>3. [k \in MeteredKeys |-> InUse(k)'] = [levels EXCEPT ![h] = @ + price]
        BY <1>6, <1>8, <3>1, <3>2
      <3>4. Meter!Admit(h)
        BY <1>3, <3>1, <3>2, <3>3 DEF Meter!Admit, Meter!Capacity, Capacity
      <3> QED
        BY <1>8, <3>4 DEF Meter!MeterNext
    <2> QED
      BY <2>6, <2>7
  <1> QED
    BY <1>7, <1>8

\* A cleanup leaves every level alone: what it drops had drained.
LEMMA CleanupRefines ==
    ASSUME RecordInvariant, Cleanup
    PROVE  UNCHANGED Meter!meterVars
  <1>1. TypeOK /\ clock \in Nat /\ clock' = clock
    BY SMT DEF RecordInvariant, TypeOK, Cleanup
  <1>2. Tracked' = Kept /\ Kept \subseteq Tracked /\ \A j \in Kept : map'[j] = map[j]
    BY DEF Cleanup, Tracked, Kept
  <1>3. ASSUME NEW k \in MeteredKeys PROVE InUse(k)' = InUse(k)
    <2>1. k \in Keys /\ Rule[k] \in Rules /\ Metered(Rule[k])
      BY MeteredRules
    <2>2. InUse(k) = Level(Rule[k], clock, StateOf(k))
              /\ InUse(k)' = Level(Rule[k], clock, StateOf(k)')
      BY <1>1, InUseIsLevel
    <2>3. CASE k \in Kept \/ k \notin Tracked
      <3>1. StateOf(k)' = StateOf(k)
        BY <1>2, <2>3 DEF StateOf
      <3> QED
        BY <2>2, <3>1
    <2>4. CASE k \in Tracked /\ k \notin Kept
      <3>1. StateOf(k)' = NoState /\ StateOf(k) = map[k].state
        BY <1>2, <2>4 DEF StateOf
      <3>2. map[k].state \in StatesOf(Rule[k]) /\ map[k].expiresAt \in Nat
        BY <1>1, <2>4 DEF TypeOK, Entries
      <3>3. map[k].expiresAt <= clock
        BY <1>1, <2>4, <3>2, SMT DEF Kept
      <3>4. Outlives(Rule[k], map[k].state, map[k].expiresAt)
        BY <2>4 DEF RecordInvariant, RecordKept
      <3>5. Level(Rule[k], clock, map[k].state) = 0
        BY <1>1, <2>1, <3>2, <3>3, <3>4, LevelLapsed
      <3>6. Level(Rule[k], clock, NoState) = 0
        BY <1>1, <2>1, LevelEmpty
      <3> QED
        BY <2>2, <3>1, <3>5, <3>6
    <2> QED
      BY <2>3, <2>4
  <1>4. [k \in MeteredKeys |-> InUse(k)'] = [k \in MeteredKeys |-> InUse(k)]
    BY <1>3
  <1> QED
    BY <1>1, <1>4 DEF Meter!meterVars

\* A tick drains every level by its rule's limit.
LEMMA TickRefines ==
    ASSUME RecordInvariant, Tick
    PROVE  Meter!Elapse
  <1>1. TypeOK /\ clock \in Nat /\ clock' = clock + 1 /\ Tracked' = Tracked /\ map' = map
    BY SMT DEF RecordInvariant, TypeOK, Tick, Tracked
  <1> DEFINE levels == [k \in MeteredKeys |-> InUse(k)]
  <1>2. ASSUME NEW k \in MeteredKeys
        PROVE  InUse(k)' = Larger(levels[k] - Rule[k].limit, 0)
    <2>1. k \in Keys /\ Rule[k] \in Rules /\ Metered(Rule[k])
      BY MeteredRules
    <2>2. StateOf(k)' = StateOf(k)
      BY <1>1 DEF StateOf
    <2>3. InUse(k) = Level(Rule[k], clock, StateOf(k))
              /\ InUse(k)' = Level(Rule[k], clock + 1, StateOf(k))
      BY <1>1, <2>2, InUseIsLevel
    <2>4. StateOf(k) \in StatesOf(Rule[k]) \cup {NoState}
      BY <1>1, <2>1, StateType
    <2>5. Rule[k].algorithm = "token-bucket" /\ StateOf(k) # NoState
              => StateOf(k).updatedAt <= clock
      BY DEF RecordInvariant, RecordKept, StateOf
    <2>6. levels[k] = InUse(k)
      OBVIOUS
    <2> HIDE DEF levels
    <2> QED
      BY <1>1, <2>1, <2>3, <2>4, <2>5, <2>6, LevelDrains
  <1>3. [k \in MeteredKeys |-> InUse(k)']
            = [k \in MeteredKeys |-> Larger(levels[k] - Rule[k].limit, 0)]
    BY <1>2
  <1> QED
    BY <1>1, <1>3 DEF Meter!Elapse, Meter!Larger, Larger

\* The store implements the meter that docs/algorithm.md promises, for every set
\* of keys and rules: token buckets and gcra keys whose hits carry the present
\* time admit only what the meter admits, refused hits, bans and cleanups leave
\* it alone, and time drains it at limit / window.
THEOREM StoreImplementsMeter == ASSUME MaxEntries = 0 PROVE HistorySpec => ImplementsMeter
  <1>1. HistoryInit => Meter!MeterInit
    BY MeterStarts
  <1>2. RecordInvariant /\ [HistoryNext]_historyVars => [Meter!MeterNext]_(Meter!meterVars)
    <2> SUFFICES ASSUME RecordInvariant, [HistoryNext]_historyVars
                 PROVE  [Meter!MeterNext]_(Meter!meterVars)
      OBVIOUS
    <2>1. ASSUME NEW h \in Keys, NEW now \in Nows(h), HistoryHit(h, now)
          PROVE  [Meter!MeterNext]_(Meter!meterVars)
      BY <2>1, HitRefines
    <2>2. CASE Cleanup
      BY <2>2, CleanupRefines
    <2>3. CASE Tick
      BY <2>3, TickRefines DEF Meter!MeterNext
    <2>4. CASE UNCHANGED historyVars
      <3>1. clock' = clock /\ map' = map
        BY <2>4 DEF historyVars, vars
      <3>2. \A k \in MeteredKeys : InUse(k)' = InUse(k)
        BY <3>1 DEF InUse, StateOf, Tracked
      <3>3. [k \in MeteredKeys |-> InUse(k)'] = [k \in MeteredKeys |-> InUse(k)]
        BY <3>2
      <3> QED
        BY <3>1, <3>3 DEF Meter!meterVars
    <2> QED
      BY <2>1, <2>2, <2>3, <2>4 DEF HistoryNext, HistoryQuiet
  <1> QED
    BY <1>1, <1>2, RecordsKept, PTL DEF HistorySpec, ImplementsMeter, Meter!MeterSpec

-----------------------------------------------------------------------------
(* How much the store admits: the rate docs/algorithm.md states for each    *)
(* algorithm holds over every interval, for all keys, rules and clocks.     *)
(* Each algorithm has an account that ties what a key's ledger says was     *)
(* admitted to what its record remembers; a hit, the passing of time and    *)
(* the dropping of an expired record keep the account.                      *)

-----------------------------------------------------------------------------
(* Ledgers: running totals of the admitted cost.                           *)

LedgerOK(a, t) ==
    /\ a \in [0 .. MaxClock -> Nat]
    /\ \A i, j \in 0 .. MaxClock : i <= j => a[i] <= a[j]
    /\ \A i \in t .. MaxClock : a[i] = a[t]

LEMMA UpToNat ==
    ASSUME NEW t \in 0 .. MaxClock, NEW a, LedgerOK(a, t), NEW u \in Int, u <= MaxClock
    PROVE  /\ UpTo(a, u) \in Nat
           /\ \A v \in Int : u <= v /\ v <= MaxClock => UpTo(a, u) <= UpTo(a, v)
  BY MaxClockType, SMT DEF UpTo, LedgerOK

\* What was admitted in an interval is a natural number, the larger the longer
\* the interval.
LEMMA SpentNat ==
    ASSUME NEW t \in 0 .. MaxClock, NEW a, LedgerOK(a, t),
           NEW s \in Int, NEW u \in Int, s <= u + 1, u <= MaxClock
    PROVE  /\ Spent(a, s, u) \in Nat
           /\ \A v \in Int : s <= v /\ v <= u + 1 => Spent(a, v, u) <= Spent(a, s, u)
  <1>1. UpTo(a, u) \in Nat /\ UpTo(a, s - 1) \in Nat /\ UpTo(a, s - 1) <= UpTo(a, u)
    BY MaxClockType, UpToNat, SMT
  <1>2. ASSUME NEW v \in Int, s <= v, v <= u + 1
        PROVE  UpTo(a, v - 1) \in Nat /\ UpTo(a, s - 1) <= UpTo(a, v - 1)
    BY <1>2, MaxClockType, UpToNat, SMT
  <1> QED
    BY <1>1, <1>2, SMT DEF Spent

\* The ledger after a hit at t that is charged c.
LEMMA ChargedLedger ==
    ASSUME NEW t \in 0 .. MaxClock, NEW a, LedgerOK(a, t), NEW c \in Nat
    PROVE  /\ LedgerOK(Charged(a, t, c), t)
           /\ \A s \in 0 .. t : Spent(Charged(a, t, c), s, t) = Spent(a, s, t) + c
           /\ \A s \in 0 .. t : \A u \in Int :
                  u < t => Spent(Charged(a, t, c), s, u) = Spent(a, s, u)
  <1> DEFINE b == Charged(a, t, c)
  <1>1. \A i \in 0 .. MaxClock : b[i] = a[i] + IF i >= t THEN c ELSE 0
    BY DEF Charged
  <1>2. b \in [0 .. MaxClock -> Nat]
    BY SMT DEF Charged, LedgerOK
  <1> HIDE DEF b
  <1>3. LedgerOK(b, t)
    BY <1>1, <1>2, MaxClockType, SMT DEF LedgerOK
  <1>4. UpTo(b, t) = UpTo(a, t) + c
    BY <1>1, <1>2, MaxClockType, SMT DEF UpTo, LedgerOK
  <1>5. \A u \in Int : u < t => UpTo(b, u) = UpTo(a, u)
    BY <1>1, <1>2, MaxClockType, SMT DEF UpTo, LedgerOK
  <1>6. ASSUME NEW s \in 0 .. t
        PROVE  /\ Spent(b, s, t) = Spent(a, s, t) + c
               /\ \A u \in Int : u < t => Spent(b, s, u) = Spent(a, s, u)
    <2>1. UpTo(b, s - 1) = UpTo(a, s - 1)
      BY <1>5, SMT
    <2>2. UpTo(a, t) \in Nat /\ UpTo(a, s - 1) \in Nat
      BY MaxClockType, UpToNat, SMT
    <2> QED
      BY <1>4, <1>5, <2>1, <2>2, SMT DEF Spent
  <1> QED
    BY <1>3, <1>6 DEF b

\* Nothing is admitted by the passing of time.
LEMMA ElapsedLedger ==
    ASSUME NEW t \in 0 .. MaxClock, t < MaxClock, NEW a, LedgerOK(a, t)
    PROVE  /\ t + 1 \in 0 .. MaxClock /\ LedgerOK(a, t + 1)
           /\ \A s \in 0 .. t : Spent(a, s, t + 1) = Spent(a, s, t)
           /\ Spent(a, t + 1, t + 1) = 0
  <1>1. UpTo(a, t + 1) = UpTo(a, t) /\ UpTo(a, t) \in Nat
    BY MaxClockType, SMT DEF UpTo, LedgerOK
  <1>2. t + 1 \in 0 .. MaxClock /\ LedgerOK(a, t + 1)
    BY MaxClockType, SMT DEF LedgerOK
  <1>3. (t + 1) - 1 = t
    BY SMT
  <1>4. Spent(a, t + 1, t + 1) = 0
    BY <1>1, <1>3, SMT DEF Spent
  <1> QED
    BY <1>1, <1>2, <1>4 DEF Spent

LEMMA EmptyLedger ==
    ASSUME NEW a, a = [i \in 0 .. MaxClock |-> 0]
    PROVE  LedgerOK(a, 0) /\ Spent(a, 0, 0) = 0
  <1>1. LedgerOK(a, 0) /\ 0 \in 0 .. MaxClock
    BY MaxClockType, SMT DEF LedgerOK
  <1>2. UpTo(a, 0) = 0 /\ UpTo(a, 0 - 1) = 0
    BY <1>1, SMT DEF UpTo
  <1> QED
    BY <1>1, <1>2, SMT DEF Spent
-----------------------------------------------------------------------------
(* fixed-window.  In an interval shorter than the window, what was admitted *)
(* belongs to the present window, or to it and the one before, and then    *)
(* the present window was opened in the interval and outlasts it.          *)

InOneWindow(r, spent, s) ==
    spent <= r.limit /\ (s # NoState => spent <= s.count)

InTwoWindows(r, lag, i, spent, s) ==
    /\ s # NoState
    /\ s.resetAt >= i + (r.window - lag)
    /\ spent <= r.limit + Smaller(s.count, r.limit)

FixedAccount(r, lag, a, t, s) ==
    \A i \in 0 .. t : t - i < r.window - lag =>
        InOneWindow(r, Spent(a, i, t), s) \/ InTwoWindows(r, lag, i, Spent(a, i, t), s)

\* What a hit makes of the counter.
LEMMA FixedWindowCounts ==
    ASSUME NEW r \in Rules, NEW now \in Nat, NEW s \in FixedStates \cup {NoState}
    PROVE  LET out == FixedWindowHit(r, now, s) IN
           /\ out.state \in FixedStates
           /\ ~out.hit.blocked => out.state.count <= r.limit
           /\ \/ /\ s # NoState
                 /\ out.state.count = s.count + r.cost
                 /\ out.state.resetAt = s.resetAt
              \/ /\ s # NoState => s.resetAt <= now
                 /\ out.state.count = r.cost
                 /\ out.state.resetAt = now + r.window
  <1> DEFINE out == FixedWindowHit(r, now, s)
  <1>1. SameState(s, "fixed-window") = s
    BY DEF SameState, FixedStates, NoState
  <1>2. out.state = FixedState(r, now, s)
    BY <1>1 DEF FixedWindowHit
  <1>3. out.state \in FixedStates
    BY FixedWindowType
  <1>4. ~out.hit.blocked => out.state.count <= r.limit
    <2>1. ~out.hit.blocked => ~(FixedState(r, now, s).count > r.limit)
      BY FixedWindowBlocks
    <2>2. out.state.count \in Nat /\ r.limit \in Nat
      BY <1>3 DEF FixedStates, Rules
    <2> HIDE DEF out
    <2>3. ~(out.state.count > r.limit) => out.state.count <= r.limit
      BY <2>2, SMT
    <2> QED
      BY <1>2, <2>1, <2>3
  <1>5. CASE WindowOpen(s, now)
    <2>1. s # NoState
      BY <1>5 DEF WindowOpen, NoState
    <2> QED
      BY <1>2, <1>3, <1>4, <1>5, <2>1 DEF FixedState
  <1>6. CASE ~WindowOpen(s, now)
    <2>1. s # NoState => s.resetAt <= now
      BY <1>6, SMT DEF WindowOpen, FixedStates
    <2> QED
      BY <1>2, <1>3, <1>4, <1>6, <2>1 DEF FixedState
  <1> QED
    BY <1>5, <1>6

LEMMA FixedHitKept ==
    ASSUME NEW r \in Rules, r.algorithm = "fixed-window", NEW lag \in Nat,
           NEW t \in 0 .. MaxClock, NEW now \in Nat, now <= t, t - now <= lag,
           NEW s \in FixedStates \cup {NoState}, NEW a, LedgerOK(a, t),
           FixedAccount(r, lag, a, t, s)
    PROVE  LET out == FixedWindowHit(r, now, s) IN
           FixedAccount(r, lag, Charged(a, t, IF out.hit.blocked THEN 0 ELSE r.cost), t, out.state)
  <1> DEFINE out == FixedWindowHit(r, now, s)
             n == out.state
             c == IF out.hit.blocked THEN 0 ELSE r.cost
             b == Charged(a, t, c)
  <1>1. c \in Nat /\ r.cost \in Nat /\ r.limit \in Nat /\ r.window \in Nat /\ t \in Nat
    BY MaxClockType, SMT DEF Rules
  <1>2. /\ n \in FixedStates
        /\ ~out.hit.blocked => n.count <= r.limit
        /\ \/ s # NoState /\ n.count = s.count + r.cost /\ n.resetAt = s.resetAt
           \/ /\ s # NoState => s.resetAt <= now
              /\ n.count = r.cost /\ n.resetAt = now + r.window
    BY FixedWindowCounts
  <1>3. c = 0 \/ (c = r.cost /\ n.count <= r.limit)
    BY <1>2
  <1> HIDE DEF c, n, out
  <1>4. n # NoState /\ n.count \in Nat /\ n.resetAt \in Nat
    BY <1>2 DEF FixedStates, NoState
  <1> SUFFICES ASSUME NEW i \in 0 .. t, t - i < r.window - lag
               PROVE  InOneWindow(r, Spent(b, i, t), n) \/ InTwoWindows(r, lag, i, Spent(b, i, t), n)
    BY DEF FixedAccount, c, n, out
  <1> DEFINE spent == Spent(a, i, t)
  <1>5. spent \in Nat
    BY <1>1, MaxClockType, SpentNat, SMT
  <1>6. Spent(b, i, t) = spent + c
    BY <1>1, ChargedLedger
  <1>7. InOneWindow(r, spent, s) \/ InTwoWindows(r, lag, i, spent, s)
    BY DEF FixedAccount
  <1> HIDE DEF spent
  <1>8. s # NoState => s.count \in Nat /\ s.resetAt \in Nat
    BY DEF FixedStates
  <1>9. CASE s # NoState /\ n.count = s.count + r.cost /\ n.resetAt = s.resetAt
    BY <1>1, <1>3, <1>4, <1>5, <1>6, <1>7, <1>8, <1>9, SMT DEF InOneWindow, InTwoWindows, Smaller
  <1>10. CASE /\ s # NoState => s.resetAt <= now
              /\ n.count = r.cost /\ n.resetAt = now + r.window
    <2>1. spent <= r.limit
      <3>1. ~InTwoWindows(r, lag, i, spent, s)
        BY <1>1, <1>8, <1>10, SMT DEF InTwoWindows
      <3> QED
        BY <1>7, <3>1 DEF InOneWindow
    <2>2. InTwoWindows(r, lag, i, spent + c, n)
      BY <1>1, <1>3, <1>4, <1>5, <1>10, <2>1, SMT DEF InTwoWindows, Smaller
    <2> QED
      BY <1>6, <2>2
  <1> QED
    BY <1>2, <1>9, <1>10

LEMMA FixedDropKept ==
    ASSUME NEW r \in Rules, r.algorithm = "fixed-window", NEW lag \in Nat,
           NEW t \in 0 .. MaxClock, NEW s \in FixedStates, NEW a, LedgerOK(a, t),
           NEW e \in Nat, Outlives(r, s, e), e <= t, FixedAccount(r, lag, a, t, s)
    PROVE  FixedAccount(r, lag, a, t, NoState)
  <1> SUFFICES ASSUME NEW i \in 0 .. t, t - i < r.window - lag
               PROVE  InOneWindow(r, Spent(a, i, t), NoState)
    BY DEF FixedAccount
  <1>1. s.resetAt \in Nat /\ s.resetAt <= t
    BY MaxClockType, SMT DEF FixedStates, Outlives
  <1>2. ~InTwoWindows(r, lag, i, Spent(a, i, t), s)
    BY <1>1, MaxClockType, SMT DEF InTwoWindows, Rules
  <1> QED
    BY <1>2 DEF FixedAccount, InOneWindow

LEMMA FixedTickKept ==
    ASSUME NEW r \in Rules, NEW lag \in Nat, NEW t \in 0 .. MaxClock, t < MaxClock,
           NEW s \in FixedStates \cup {NoState}, NEW a, LedgerOK(a, t),
           FixedAccount(r, lag, a, t, s)
    PROVE  FixedAccount(r, lag, a, t + 1, s)
  <1> SUFFICES ASSUME NEW i \in 0 .. (t + 1), (t + 1) - i < r.window - lag
               PROVE  \/ InOneWindow(r, Spent(a, i, t + 1), s)
                      \/ InTwoWindows(r, lag, i, Spent(a, i, t + 1), s)
    BY DEF FixedAccount
  <1>1. CASE i = t + 1
    <2>1. Spent(a, i, t + 1) = 0
      BY <1>1, ElapsedLedger
    <2>2. s # NoState => s.count \in Nat
      BY DEF FixedStates
    <2> QED
      BY <2>1, <2>2, SMT DEF InOneWindow, Rules
  <1>2. CASE i # t + 1
    <2>1. i \in 0 .. t /\ t - i < r.window - lag
      BY <1>2, MaxClockType, SMT DEF Rules
    <2>2. Spent(a, i, t + 1) = Spent(a, i, t)
      BY <2>1, ElapsedLedger
    <2> QED
      BY <2>1, <2>2 DEF FixedAccount
  <1> QED
    BY <1>1, <1>2

LEMMA FixedAccountRate ==
    ASSUME NEW r \in Rules, NEW lag \in Nat, NEW t \in 0 .. MaxClock,
           NEW s \in FixedStates \cup {NoState}, NEW a, LedgerOK(a, t),
           FixedAccount(r, lag, a, t, s)
    PROVE  FixedRate(r, lag, a, t)
  <1> SUFFICES ASSUME NEW i \in 0 .. t, t - i < r.window - lag
               PROVE  Spent(a, i, t) <= 2 * r.limit
    BY DEF FixedRate
  <1> DEFINE spent == Spent(a, i, t)
  <1>1. spent \in Nat /\ r.limit \in Nat
    BY MaxClockType, SpentNat, SMT DEF Rules
  <1>2. InOneWindow(r, spent, s) \/ InTwoWindows(r, lag, i, spent, s)
    BY DEF FixedAccount
  <1>3. s # NoState => s.count \in Nat
    BY DEF FixedStates
  <1> HIDE DEF spent
  <1>4. spent <= 2 * r.limit
    BY <1>1, <1>2, <1>3, SMT DEF InOneWindow, InTwoWindows, Smaller
  <1> QED
    BY <1>4 DEF spent

-----------------------------------------------------------------------------
(* token-bucket, hits on time.  What was admitted in an interval is in use *)
(* or was refilled since.                                                  *)

TokenAccount(r, a, t, s) ==
    \A i \in 0 .. t : Spent(a, i, t) * r.window <= Level(r, t, s) + (t - i) * r.limit

LEMMA TokenHitKept ==
    ASSUME NEW r \in Rules, r.algorithm = "token-bucket", NEW t \in 0 .. MaxClock,
           NEW s \in TokenStates(r) \cup {NoState}, NEW a, LedgerOK(a, t),
           TokenAccount(r, a, t, s)
    PROVE  LET out == TokenBucketHit(r, t, s) IN
           TokenAccount(r, Charged(a, t, IF out.hit.blocked THEN 0 ELSE r.cost), t, out.state)
  <1> DEFINE out == TokenBucketHit(r, t, s)
             c == IF out.hit.blocked THEN 0 ELSE r.cost
             b == Charged(a, t, c)
  <1>1. c \in Nat /\ r.cost \in Nat /\ r.window \in Nat /\ r.limit \in Nat /\ t \in Nat
    BY MaxClockType, SMT DEF Rules
  <1>2. MeteredStep(r, t, s, out)
    BY <1>1, TokenBucketMetered
  <1>3. Level(r, t, s) \in Nat
    BY <1>1, LevelNat DEF Metered, StatesOf
  <1>4. Level(r, t, out.state) = Level(r, t, s) + c * r.window
    <2>1. CASE out.hit.blocked
      BY <1>1, <1>2, <1>3, <2>1, SMT DEF MeteredStep
    <2>2. CASE ~out.hit.blocked
      BY <1>2, <2>2 DEF MeteredStep
    <2> QED
      BY <2>1, <2>2
  <1> HIDE DEF c
  <1> SUFFICES ASSUME NEW i \in 0 .. t
               PROVE  Spent(b, i, t) * r.window <= Level(r, t, out.state) + (t - i) * r.limit
    BY DEF TokenAccount, c
  <1>5. Spent(b, i, t) = Spent(a, i, t) + c
    BY <1>1, ChargedLedger
  <1>6. Spent(a, i, t) * r.window <= Level(r, t, s) + (t - i) * r.limit
    BY DEF TokenAccount
  <1>7. Spent(a, i, t) \in Nat /\ t - i \in Nat
    BY <1>1, MaxClockType, SpentNat, SMT
  <1> DEFINE spent == Spent(a, i, t)
             level == Level(r, t, s)
             refill == (t - i) * r.limit
  <1>8. (spent + c) * r.window = spent * r.window + c * r.window
    <2> HIDE DEF spent
    <2> QED
      BY <1>1, <1>7, SMT DEF spent
  <1>9. spent * r.window \in Nat /\ c * r.window \in Nat /\ refill \in Nat
    <2>1. \A x, y \in Nat : x * y \in Nat
      BY SMT
    <2> QED
      BY <1>1, <1>7, <2>1
  <1>10. \A w, x, l, f \in Nat : w <= l + f => w + x <= (l + x) + f
    BY SMT
  <1> QED
    BY <1>3, <1>4, <1>5, <1>6, <1>8, <1>9, <1>10

LEMMA TokenDropKept ==
    ASSUME NEW r \in Rules, r.algorithm = "token-bucket", NEW t \in 0 .. MaxClock,
           NEW s \in TokenStates(r), NEW a, NEW e \in Nat, Outlives(r, s, e), e <= t,
           TokenAccount(r, a, t, s)
    PROVE  TokenAccount(r, a, t, NoState)
  <1>1. t \in Nat /\ Metered(r)
    BY MaxClockType, SMT DEF Metered
  <1>2. Level(r, t, s) = 0 /\ Level(r, t, NoState) = 0
    BY <1>1, LevelLapsed, LevelEmpty DEF StatesOf
  <1> QED
    BY <1>2 DEF TokenAccount

LEMMA TokenTickKept ==
    ASSUME NEW r \in Rules, r.algorithm = "token-bucket", NEW t \in 0 .. MaxClock, t < MaxClock,
           NEW s \in TokenStates(r) \cup {NoState}, s # NoState => s.updatedAt <= t,
           NEW a, LedgerOK(a, t), TokenAccount(r, a, t, s)
    PROVE  TokenAccount(r, a, t + 1, s)
  <1>1. t \in Nat /\ t + 1 \in Nat /\ Metered(r) /\ r.limit \in Nat /\ r.window \in Nat
    BY MaxClockType, SMT DEF Metered, Rules
  <1>2. Level(r, t, s) \in Nat /\ Level(r, t + 1, s) \in Nat
    BY <1>1, LevelNat DEF StatesOf
  <1>3. Level(r, t + 1, s) = Larger(Level(r, t, s) - r.limit, 0)
    BY <1>1, LevelDrains DEF StatesOf
  <1> SUFFICES ASSUME NEW i \in 0 .. (t + 1)
               PROVE  Spent(a, i, t + 1) * r.window
                          <= Level(r, t + 1, s) + ((t + 1) - i) * r.limit
    BY DEF TokenAccount
  <1>4. CASE i = t + 1
    <2>1. Spent(a, i, t + 1) = 0
      BY <1>4, ElapsedLedger
    <2> QED
      BY <1>1, <1>2, <1>4, <2>1, SMT
  <1>5. CASE i # t + 1
    <2>1. i \in 0 .. t
      BY <1>1, <1>5, SMT
    <2>2. Spent(a, i, t + 1) = Spent(a, i, t)
      BY <2>1, ElapsedLedger
    <2>3. Spent(a, i, t) * r.window <= Level(r, t, s) + (t - i) * r.limit
      BY <2>1 DEF TokenAccount
    <2>4. Spent(a, i, t) \in Nat /\ t - i \in Nat
      BY <1>1, <2>1, MaxClockType, SpentNat, SMT
    <2>5. ((t + 1) - i) * r.limit = (t - i) * r.limit + r.limit
      BY <1>1, <2>1, SMT
    <2>6. (t - i) * r.limit \in Nat /\ Spent(a, i, t) * r.window \in Nat
      <3>1. \A x, y \in Nat : x * y \in Nat
        BY SMT
      <3> QED
        BY <1>1, <2>4, <3>1
    <2>7. \A w, f, v, l \in Nat : w <= v + f => w <= Larger(v - l, 0) + (f + l)
      BY SMT DEF Larger
    <2> QED
      BY <1>1, <1>2, <1>3, <2>2, <2>3, <2>5, <2>6, <2>7
  <1> QED
    BY <1>4, <1>5

LEMMA TokenAccountRate ==
    ASSUME NEW r \in Rules, r.algorithm = "token-bucket", NEW t \in 0 .. MaxClock,
           NEW s \in TokenStates(r) \cup {NoState}, NEW a, LedgerOK(a, t),
           TokenAccount(r, a, t, s)
    PROVE  MeteredRate(r, 0, a, t)
  <1> SUFFICES ASSUME NEW i \in 0 .. t
               PROVE  Spent(a, i, t) * r.window <= Capacity(r) + ((t - i) + 0) * r.limit
    BY DEF MeteredRate
  <1>1. t \in Nat /\ r.limit \in Nat /\ r.window \in Nat
    BY MaxClockType, SMT DEF Rules
  <1>2. Level(r, t, s) \in Nat /\ Capacity(r) \in Nat /\ Level(r, t, s) <= Capacity(r)
    <2>1. Refilled(r, t, s) \in 0 .. Capacity(r) /\ Capacity(r) \in Nat
      BY <1>1, RefilledRange, CapacityNat
    <2>2. Level(r, t, s) = Capacity(r) - Refilled(r, t, s)
      BY DEF Level
    <2> QED
      BY <2>1, <2>2, SMT
  <1>3. Spent(a, i, t) * r.window <= Level(r, t, s) + (t - i) * r.limit
    BY DEF TokenAccount
  <1>4. (t - i) + 0 = t - i /\ t - i \in Nat /\ Spent(a, i, t) \in Nat
    BY <1>1, MaxClockType, SpentNat, SMT
  <1>5. (t - i) * r.limit \in Nat /\ Spent(a, i, t) * r.window \in Nat
    <2>1. \A x, y \in Nat : x * y \in Nat
      BY SMT
    <2> QED
      BY <1>1, <1>4, <2>1
  <1>6. \A w, v, f, p \in Nat : w <= v + f /\ v <= p => w <= p + f
    BY SMT
  <1> QED
    BY <1>2, <1>3, <1>4, <1>5, <1>6
-----------------------------------------------------------------------------
(* gcra, hits at most a window late.  The stored arrival time has moved by  *)
(* what was admitted since the start of the interval, less the lag; a key  *)
(* without a record is no further ahead than one whose record was dropped. *)

Front(r, t, s) == IF s = NoState THEN t * r.limit - Capacity(r) ELSE s.tat

GcraAccount(r, lag, a, t, s) ==
    /\ s # NoState => s.tat <= t * r.limit + Capacity(r)
    /\ \A i \in 0 .. t : Spent(a, i, t) > 0 =>
           Spent(a, i, t) * r.window + i * r.limit <= Front(r, t, s) + lag * r.limit

\* What a hit makes of the arrival time.
LEMMA GcraMoves ==
    ASSUME NEW r \in Rules, NEW now \in Nat, NEW s \in GcraStates \cup {NoState}
    PROVE  LET out == GcraHit(r, now, s)
               from == Tat(r, now, s)
               present == now * r.limit
           IN  /\ out.state \in GcraStates /\ from \in Nat
               /\ out.hit.blocked => out.state.tat = from
               /\ ~out.hit.blocked =>
                      /\ out.state.tat = Larger(from, present) + r.cost * r.window
                      /\ out.state.tat <= present + Capacity(r)
  <1> DEFINE out == GcraHit(r, now, s)
             from == Tat(r, now, s)
             present == now * r.limit
             price == r.cost * r.window
  <1>1. SameState(s, "gcra") = s
    BY DEF SameState, GcraStates, NoState
  <1>2. out.state \in GcraStates
    BY GcraType
  <1>3. /\ present \in Nat /\ from \in Nat /\ Capacity(r) \in Nat /\ price \in Nat
        /\ r.window * r.cost = price
    BY CapacityNat, SMT DEF Tat, GcraStates, NoState, Rules
  <1>4. NextTat(r, now, from) = Larger(from, present) + price
    BY <1>3 DEF NextTat
  <1>5. out.hit.blocked <=> s.banUntil > now \/ present < NextTat(r, now, from) - Capacity(r)
    BY GcraBlocks
  <1>6. ActiveBanUntil(s, now) > now <=> s.banUntil > now
    BY SMT DEF ActiveBanUntil, GcraStates, NoState
  <1>7. out.hit.blocked => out.state.tat = from
    BY <1>1, <1>5, <1>6 DEF GcraHit
  <1>8. ~out.hit.blocked => /\ out.state.tat = NextTat(r, now, from)
                            /\ ~(present < NextTat(r, now, from) - Capacity(r))
    BY <1>1, <1>5, <1>6 DEF GcraHit
  <1>9. \A n \in Nat : ~(present < n - Capacity(r)) => n <= present + Capacity(r)
    <2> HIDE DEF present
    <2> QED
      BY <1>3, SMT
  <1>10. NextTat(r, now, from) \in Nat
    <2> HIDE DEF present, from, price
    <2> QED
      BY <1>3, <1>4, SMT DEF Larger
  <1> QED
    BY <1>2, <1>3, <1>4, <1>7, <1>8, <1>9, <1>10

LEMMA GcraHitKept ==
    ASSUME NEW r \in Rules, NEW lag \in Nat, lag <= r.window,
           NEW t \in 0 .. MaxClock, NEW now \in Nat, now <= t, t - now <= lag,
           NEW s \in GcraStates \cup {NoState}, NEW a, LedgerOK(a, t),
           GcraAccount(r, lag, a, t, s)
    PROVE  LET out == GcraHit(r, now, s) IN
           GcraAccount(r, lag, Charged(a, t, IF out.hit.blocked THEN 0 ELSE r.cost), t, out.state)
  <1> DEFINE out == GcraHit(r, now, s)
             n == out.state
             c == IF out.hit.blocked THEN 0 ELSE r.cost
             b == Charged(a, t, c)
             present == now * r.limit
             clocked == t * r.limit
             late == lag * r.limit
             from == Tat(r, now, s)
             front == Front(r, t, s)
  <1>1. c \in Nat /\ r.cost \in Nat /\ r.window \in Nat /\ r.limit \in Nat /\ t \in Nat
    BY MaxClockType, SMT DEF Rules
  <1>2. /\ n \in GcraStates /\ from \in Nat
        /\ out.hit.blocked => n.tat = from
        /\ ~out.hit.blocked => /\ n.tat = Larger(from, present) + r.cost * r.window
                               /\ n.tat <= present + Capacity(r)
    BY GcraMoves
  <1>3. \A x, y \in Nat : x * y \in Nat
    BY SMT
  <1>4. present \in Nat /\ clocked \in Nat /\ late \in Nat /\ Capacity(r) \in Nat
            /\ c * r.window \in Nat
    BY <1>1, <1>3, CapacityNat
  <1>5. present <= clocked /\ clocked <= present + late /\ late <= Capacity(r)
    <2>1. \A x, y, l \in Nat : x <= y => x * l <= y * l
      BY SMT
    <2>2. \A x, y, l \in Nat : (x + y) * l = x * l + y * l
      BY SMT
    <2>3. Capacity(r) = r.window * r.limit
      BY SMT DEF Capacity, Rules
    <2>4. t <= now + lag /\ now + lag \in Nat
      BY <1>1, SMT
    <2> QED
      BY <1>1, <2>1, <2>2, <2>3, <2>4
  <1>6. c = 0 \/ (c = r.cost /\ ~out.hit.blocked)
    OBVIOUS
  <1>7. n # NoState /\ n.tat \in Nat /\ Front(r, t, n) = n.tat
    BY <1>2 DEF GcraStates, NoState, Front
  <1>8. /\ s = NoState  => from = present /\ front = clocked - Capacity(r)
        /\ s # NoState => from = s.tat /\ front = s.tat /\ s.tat <= clocked + Capacity(r)
    BY DEF Tat, GcraStates, NoState, Front, GcraAccount
  <1>9. out.hit.blocked => c = 0
    OBVIOUS
  <1>10. front \in Int
    BY <1>2, <1>4, <1>8, SMT
  <1> HIDE DEF c, n, out, present, clocked, late, from, front
  <1>11. front + c * r.window <= n.tat
    <2>1. front <= from
      <3>1. CASE s = NoState
        BY <1>4, <1>5, <1>8, <3>1, SMT
      <3>2. CASE s # NoState
        BY <1>2, <1>8, <3>2, SMT
      <3> QED
        BY <3>1, <3>2
    <2>2. CASE out.hit.blocked
      <3>1. c * r.window = 0
        BY <1>1, <1>9, <2>2, SMT
      <3> QED
        BY <1>2, <1>10, <2>1, <2>2, <3>1, SMT
    <2>3. CASE ~out.hit.blocked
      <3>1. n.tat = Larger(from, present) + c * r.window
        BY <1>2, <2>3 DEF c
      <3>2. from <= Larger(from, present) /\ Larger(from, present) \in Nat
        BY <1>2, <1>4, SMT DEF Larger
      <3> QED
        BY <1>2, <1>4, <1>10, <2>1, <3>1, <3>2, SMT
    <2> QED
      BY <2>2, <2>3
  <1>12. n.tat <= clocked + Capacity(r)
    <2>1. CASE out.hit.blocked
      <3>1. CASE s = NoState
        BY <1>2, <1>4, <1>5, <1>8, <2>1, <3>1, SMT
      <3>2. CASE s # NoState
        BY <1>2, <1>8, <2>1, <3>2
      <3> QED
        BY <3>1, <3>2
    <2>2. CASE ~out.hit.blocked
      BY <1>2, <1>4, <1>5, <1>7, <2>2, SMT
    <2> QED
      BY <2>1, <2>2
  <1>13. c > 0 => present + c * r.window <= n.tat
    <2>1. c > 0 => c = r.cost /\ ~out.hit.blocked
      BY <1>6, SMT
    <2>2. present <= Larger(from, present) /\ Larger(from, present) \in Nat
      BY <1>2, <1>4, SMT DEF Larger
    <2> QED
      BY <1>2, <1>4, <2>1, <2>2, SMT
  <1>14. ASSUME NEW i \in 0 .. t, Spent(b, i, t) > 0
         PROVE  Spent(b, i, t) * r.window + i * r.limit <= Front(r, t, n) + lag * r.limit
    <2> DEFINE spent == Spent(a, i, t)
               begin == i * r.limit
    <2>1. spent \in Nat /\ i \in Nat
      BY <1>1, MaxClockType, SpentNat, SMT
    <2>2. Spent(b, i, t) = spent + c
      BY <1>1, ChargedLedger
    <2>3. (spent + c) * r.window = spent * r.window + c * r.window /\ spent * r.window \in Nat
      <3> HIDE DEF spent
      <3> QED
        BY <1>1, <2>1, SMT
    <2>4. begin \in Nat /\ begin <= clocked
      <3>1. i <= t
        BY <1>1, SMT
      <3>2. \A x, y, l \in Nat : x <= y => x * l <= y * l
        BY SMT
      <3> QED
        BY <1>1, <1>3, <2>1, <3>1, <3>2 DEF clocked
    <2>5. spent > 0 => spent * r.window + begin <= front + late
      BY DEF GcraAccount, front, late
    <2> HIDE DEF begin, spent
    <2>6. (spent + c) * r.window + begin <= n.tat + late
      <3>1. CASE spent > 0
        BY <1>4, <1>7, <1>10, <1>11, <2>1, <2>3, <2>4, <2>5, <3>1, SMT
      <3>2. CASE ~(spent > 0)
        <4>1. spent = 0 /\ c > 0
          BY <1>1, <1>14, <2>1, <2>2, <3>2, SMT
        <4>2. spent * r.window = 0
          BY <1>1, <4>1, SMT
        <4> QED
          BY <1>4, <1>5, <1>7, <1>13, <2>3, <2>4, <4>1, <4>2, SMT
      <3> QED
        BY <3>1, <3>2
    <2> QED
      BY <1>7, <2>2, <2>6 DEF begin, late, spent
  <1>15. n # NoState => n.tat <= t * r.limit + Capacity(r)
    BY <1>12 DEF clocked
  <1> QED
    BY <1>14, <1>15 DEF GcraAccount, c, n, out

LEMMA GcraDropKept ==
    ASSUME NEW r \in Rules, r.algorithm = "gcra", NEW lag \in Nat, NEW t \in 0 .. MaxClock,
           NEW s \in GcraStates, NEW a, LedgerOK(a, t), NEW e \in Nat, Outlives(r, s, e), e <= t,
           GcraAccount(r, lag, a, t, s)
    PROVE  GcraAccount(r, lag, a, t, NoState)
  <1>1. t \in Nat /\ r.limit \in Nat /\ r.window \in Nat /\ Capacity(r) \in Nat
    BY MaxClockType, CapacityNat, SMT DEF Rules
  <1>2. s # NoState /\ s.tat \in Nat /\ s.tat + Capacity(r) <= e * r.limit
    BY DEF GcraStates, NoState, Outlives
  <1>3. e * r.limit <= t * r.limit /\ e * r.limit \in Nat /\ t * r.limit \in Nat
    BY <1>1, SMT
  <1>4. Front(r, t, s) <= Front(r, t, NoState) /\ Front(r, t, s) \in Int /\ Front(r, t, NoState) \in Int
    BY <1>1, <1>2, <1>3, SMT DEF Front
  <1>5. ASSUME NEW i \in 0 .. t, Spent(a, i, t) > 0
        PROVE  Spent(a, i, t) * r.window + i * r.limit <= Front(r, t, NoState) + lag * r.limit
    <2>1. Spent(a, i, t) * r.window + i * r.limit <= Front(r, t, s) + lag * r.limit
      BY <1>5 DEF GcraAccount
    <2>2. Spent(a, i, t) \in Nat /\ i \in Nat
      BY <1>1, MaxClockType, SpentNat, SMT
    <2>3. \A x, y \in Nat : x * y \in Nat
      BY SMT
    <2>4. Spent(a, i, t) * r.window \in Nat /\ i * r.limit \in Nat /\ lag * r.limit \in Nat
      BY <1>1, <2>2, <2>3
    <2>5. \A w, b, l \in Nat : \A f, g \in Int : w + b <= f + l /\ f <= g => w + b <= g + l
      BY SMT
    <2> QED
      BY <1>4, <2>1, <2>4, <2>5
  <1> QED
    BY <1>5 DEF GcraAccount

LEMMA GcraTickKept ==
    ASSUME NEW r \in Rules, NEW lag \in Nat, NEW t \in 0 .. MaxClock, t < MaxClock,
           NEW s \in GcraStates \cup {NoState}, NEW a, LedgerOK(a, t),
           GcraAccount(r, lag, a, t, s)
    PROVE  GcraAccount(r, lag, a, t + 1, s)
  <1>1. t \in Nat /\ r.limit \in Nat /\ r.window \in Nat /\ Capacity(r) \in Nat
    BY MaxClockType, CapacityNat, SMT DEF Rules
  <1>2. (t + 1) * r.limit = t * r.limit + r.limit /\ t * r.limit \in Nat
    BY <1>1, SMT
  <1>3. s # NoState => s.tat \in Nat /\ s.tat <= t * r.limit + Capacity(r)
    BY DEF GcraStates, GcraAccount
  <1>4. s # NoState => s.tat <= (t + 1) * r.limit + Capacity(r)
    BY <1>1, <1>2, <1>3, SMT
  <1>5. /\ Front(r, t, s) <= Front(r, t + 1, s)
        /\ Front(r, t, s) \in Int /\ Front(r, t + 1, s) \in Int
    BY <1>1, <1>2, <1>3, SMT DEF Front
  <1>6. ASSUME NEW i \in 0 .. (t + 1), Spent(a, i, t + 1) > 0
        PROVE  Spent(a, i, t + 1) * r.window + i * r.limit <= Front(r, t + 1, s) + lag * r.limit
    <2>1. i \in 0 .. t
      <3>1. i # t + 1
        BY <1>6, ElapsedLedger, SMT
      <3> QED
        BY <1>1, <3>1, SMT
    <2>2. Spent(a, i, t + 1) = Spent(a, i, t)
      BY <2>1, ElapsedLedger
    <2>3. Spent(a, i, t) * r.window + i * r.limit <= Front(r, t, s) + lag * r.limit
      BY <1>6, <2>1, <2>2 DEF GcraAccount
    <2>4. Spent(a, i, t) \in Nat /\ i \in Nat
      BY <1>1, <2>1, MaxClockType, SpentNat, SMT
    <2>5. \A x, y \in Nat : x * y \in Nat
      BY SMT
    <2>6. Spent(a, i, t) * r.window \in Nat /\ i * r.limit \in Nat /\ lag * r.limit \in Nat
      BY <1>1, <2>4, <2>5
    <2>7. \A w, b, l \in Nat : \A f, g \in Int : w + b <= f + l /\ f <= g => w + b <= g + l
      BY SMT
    <2> QED
      BY <1>5, <2>2, <2>3, <2>6, <2>7
  <1> QED
    BY <1>4, <1>6 DEF GcraAccount

LEMMA GcraAccountRate ==
    ASSUME NEW r \in Rules, NEW lag \in Nat, NEW t \in 0 .. MaxClock,
           NEW s \in GcraStates \cup {NoState}, NEW a, LedgerOK(a, t),
           GcraAccount(r, lag, a, t, s)
    PROVE  MeteredRate(r, lag, a, t)
  <1>1. t \in Nat /\ r.limit \in Nat /\ r.window \in Nat /\ Capacity(r) \in Nat
    BY MaxClockType, CapacityNat, SMT DEF Rules
  <1>2. \A x, y \in Nat : x * y \in Nat
    BY SMT
  <1>3. Front(r, t, s) <= t * r.limit + Capacity(r) /\ Front(r, t, s) \in Int
    <2>1. s # NoState => s.tat \in Nat /\ s.tat <= t * r.limit + Capacity(r)
      BY DEF GcraStates, GcraAccount
    <2>2. t * r.limit \in Nat
      BY <1>1, <1>2
    <2> QED
      BY <1>1, <2>1, <2>2, SMT DEF Front
  <1> SUFFICES ASSUME NEW i \in 0 .. t
               PROVE  Spent(a, i, t) * r.window <= Capacity(r) + ((t - i) + lag) * r.limit
    BY DEF MeteredRate
  <1> DEFINE spent == Spent(a, i, t)
  <1>4. spent \in Nat /\ i \in Nat /\ t - i \in Nat
    BY <1>1, MaxClockType, SpentNat, SMT
  <1>5. spent * r.window \in Nat /\ i * r.limit \in Nat /\ lag * r.limit \in Nat
            /\ t * r.limit \in Nat /\ ((t - i) + lag) * r.limit \in Nat
    <2>1. (t - i) + lag \in Nat
      BY <1>4, SMT
    <2> QED
      BY <1>1, <1>2, <1>4, <2>1
  <1>6. ((t - i) + lag) * r.limit + i * r.limit = t * r.limit + lag * r.limit
    <2>1. ASSUME NEW x \in Nat, NEW y \in Nat, NEW z \in Nat, NEW l \in Nat
          PROVE  ((x - y) + z) * l + y * l = x * l + z * l
      BY SMT
    <2> QED
      BY <1>1, <1>4, <2>1
  <1>7. CASE spent > 0
    <2>1. spent * r.window + i * r.limit <= Front(r, t, s) + lag * r.limit
      BY <1>7 DEF GcraAccount
    <2>2. ASSUME NEW w \in Nat, NEW b \in Nat, NEW l \in Nat, NEW f \in Int, NEW k \in Nat,
                 NEW p \in Nat, NEW g \in Nat,
                 w + b <= f + l, f <= k + p, g + b = k + l
          PROVE  w <= p + g
      BY <2>2, SMT
    <2> QED
      BY <1>1, <1>3, <1>5, <1>6, <2>1, <2>2
  <1>8. CASE ~(spent > 0)
    <2>1. spent = 0
      BY <1>4, <1>8, SMT
    <2>2. spent * r.window = 0
      BY <1>1, <2>1, SMT
    <2>3. \A p, g \in Nat : 0 <= p + g
      BY SMT
    <2> QED
      BY <1>1, <1>5, <2>2, <2>3
  <1> QED
    BY <1>7, <1>8
-----------------------------------------------------------------------------
(* sliding-window, hits on time.  The record's two counters are no less than *)
(* what was admitted in its window and in the one before; after its window *)
(* nothing was admitted.                                                   *)

\* Windows are aligned: they start at multiples of their length.
Aligned(r, u) == WindowStart(r, u) = u

LEMMA WindowStartAligned ==
    ASSUME NEW r \in Rules, NEW now \in Nat
    PROVE  Aligned(r, WindowStart(r, now))
  <1> DEFINE w == r.window
             q == now \div w
  <1>1. w \in Nat \ {0}
    BY DEF Rules
  <1> HIDE DEF w
  <1>2. q \in Nat
    BY <1>1, SMT
  <1> HIDE DEF q
  <1>3. (q * w) \div w = q
    BY <1>1, <1>2, SMT
  <1> QED
    BY <1>3 DEF Aligned, WindowStart, q, w

\* Window u begins n windows before v at the latest, if they are so far apart.
LEMMA AlignedBefore ==
    ASSUME NEW r \in Rules, NEW u \in Nat, Aligned(r, u), NEW v \in Nat, NEW n \in {0, 1, 2},
           u + n * r.window <= v
    PROVE  u + n * r.window <= WindowStart(r, v)
  <1> DEFINE w == r.window
             p == u \div w
             q == v \div w
  <1>1. w \in Nat \ {0} /\ n \in Nat
    BY DEF Rules
  <1> HIDE DEF w
  <1>2. p \in Nat /\ q \in Nat /\ v < (q + 1) * w
    BY <1>1, SMT
  <1>3. u = p * w /\ WindowStart(r, v) = q * w
    BY DEF Aligned, WindowStart, w
  <1> HIDE DEF p, q
  <1>4. (p + n) * w = u + n * w
    BY <1>1, <1>2, <1>3, SMT
  <1>5. (p + n) * w < (q + 1) * w
    <2>1. n * w \in Nat /\ (q + 1) * w \in Nat
      BY <1>1, <1>2, SMT
    <2>2. u + n * w <= v
      BY DEF w
    <2> QED
      BY <1>2, <1>4, <2>1, <2>2, SMT
  <1>6. p + n <= q
    <2>1. ASSUME NEW x \in Nat, NEW y \in Nat, y <= x PROVE y * w <= x * w
      BY <1>1, <2>1, SMT
    <2>2. CASE q + 1 <= p + n
      <3>1. (q + 1) * w <= (p + n) * w
        BY <1>1, <1>2, <2>1, <2>2, SMT
      <3>2. (q + 1) * w \in Nat /\ (p + n) * w \in Nat
        BY <1>1, <1>2, SMT
      <3> QED
        BY <1>5, <3>1, <3>2, SMT
    <2> QED
      BY <1>1, <1>2, <2>2, SMT
  <1>7. (p + n) * w <= q * w
    BY <1>1, <1>2, <1>6, SMT
  <1> QED
    BY <1>3, <1>4, <1>7 DEF w

\* Aligned windows that are more than n lengths apart are n + 1 apart.
LEMMA AlignedApart ==
    ASSUME NEW r \in Rules, NEW u \in Nat, Aligned(r, u), NEW v \in Nat, Aligned(r, v),
           NEW n \in {0, 1}, u + n * r.window < v
    PROVE  u + (n + 1) * r.window <= v
  <1> DEFINE w == r.window
             p == u \div w
             q == v \div w
  <1>1. w \in Nat \ {0} /\ n \in Nat
    BY DEF Rules
  <1> HIDE DEF w
  <1>2. p \in Nat /\ q \in Nat
    BY <1>1, SMT
  <1>3. u = p * w /\ v = q * w
    BY DEF Aligned, WindowStart, w
  <1> HIDE DEF p, q
  <1>4. (p + n) * w = u + n * w /\ (p + (n + 1)) * w = u + (n + 1) * w
    BY <1>1, <1>2, <1>3, SMT
  <1>5. (p + n) * w < q * w
    BY <1>3, <1>4 DEF w
  <1>6. p + (n + 1) <= q
    <2>1. CASE q <= p + n
      <3>1. q * w <= (p + n) * w
        BY <1>1, <1>2, <2>1, SMT
      <3>2. q * w \in Nat /\ (p + n) * w \in Nat
        BY <1>1, <1>2, SMT
      <3> QED
        BY <1>5, <3>1, <3>2, SMT
    <2> QED
      BY <1>1, <1>2, <2>1, SMT
  <1>7. (p + (n + 1)) * w <= q * w
    BY <1>1, <1>2, <1>6, SMT
  <1> QED
    BY <1>3, <1>4, <1>7 DEF w

LEMMA EstimatedMonotone ==
    ASSUME NEW r \in Rules, NEW t \in Nat, NEW p \in Nat, NEW pp \in Nat, NEW c \in Nat,
           NEW cc \in Nat, p <= pp, c <= cc
    PROVE  Estimated(r, t, p, c) <= Estimated(r, t, pp, cc) /\ Estimated(r, t, pp, cc) \in Nat
  <1> DEFINE left == r.window - (t - WindowStart(r, t))
  <1>1. left \in Nat /\ r.window \in Nat \ {0}
    BY WindowStartNat, SMT DEF Rules
  <1> HIDE DEF left
  <1>2. p * left <= pp * left /\ p * left \in Nat /\ pp * left \in Nat
    BY <1>1, SMT
  <1>3. ASSUME NEW x \in Nat, NEW y \in Nat, NEW w \in Nat \ {0}, x <= y
        PROVE  x \div w <= y \div w /\ x \div w \in Nat /\ y \div w \in Nat
    BY <1>3, SMT
  <1>4. /\ (p * left) \div r.window <= (pp * left) \div r.window
        /\ (p * left) \div r.window \in Nat /\ (pp * left) \div r.window \in Nat
    BY <1>1, <1>2, <1>3
  <1>5. \A x, y \in Nat : x <= y => c + x <= cc + y /\ cc + y \in Nat
    BY SMT
  <1> QED
    BY <1>4, <1>5 DEF Estimated, left

Before(r, u) == Larger(u - r.window, 0)

SlidingAccount(r, a, t, s) ==
    /\ s = NoState => Spent(a, Before(r, WindowStart(r, t)), t) = 0
    /\ s # NoState =>
           /\ s.windowStart <= t
           /\ Aligned(r, s.windowStart)
           /\ s.windowStart + r.window <= t => Spent(a, s.windowStart + r.window, t) = 0
           /\ Spent(a, s.windowStart, t) <= s.currentCount
           /\ Spent(a, Before(r, s.windowStart), s.windowStart - 1) <= s.previousCount
    /\ SlidingRate(r, a, t)

\* What was admitted before the present window and in it is within the counters
\* the next hit works with.
LEMMA SlidingCounts ==
    ASSUME NEW r \in Rules, NEW t \in 0 .. MaxClock, NEW s \in SlidingStates \cup {NoState},
           NEW a, LedgerOK(a, t), SlidingAccount(r, a, t, s), NEW start, start = WindowStart(r, t)
    PROVE  /\ SlidingPrevious(r, t, s) \in Nat /\ SlidingCurrent(r, t, s) \in Nat
           /\ Spent(a, Before(r, start), start - 1) <= SlidingPrevious(r, t, s)
           /\ Spent(a, start, t) + r.cost <= SlidingCurrent(r, t, s)
  <1> DEFINE p == Before(r, start)
  <1>1. /\ t \in Nat /\ start \in Nat /\ start <= t /\ t < start + r.window /\ t <= MaxClock
        /\ r.window \in Nat \ {0} /\ r.cost \in Nat /\ Aligned(r, start)
    BY WindowStartNat, WindowStartAligned, MaxClockType, SMT DEF Rules
  <1>2. p \in Nat /\ p <= start
    BY <1>1, SMT DEF Before, Larger
  <1>3. /\ Spent(a, p, t) \in Nat /\ Spent(a, start, t) \in Nat
        /\ Spent(a, start, t) <= Spent(a, p, t)
    BY <1>1, <1>2, MaxClockType, SpentNat, SMT
  <1>4. /\ Spent(a, p, start - 1) \in Nat /\ Spent(a, p, start - 1) <= Spent(a, p, t)
    <2>1. UpTo(a, start - 1) <= UpTo(a, t) /\ UpTo(a, start - 1) \in Nat /\ UpTo(a, t) \in Nat
              /\ UpTo(a, p - 1) \in Nat /\ UpTo(a, p - 1) <= UpTo(a, start - 1)
      BY <1>1, <1>2, MaxClockType, UpToNat, SMT
    <2> HIDE DEF p
    <2> QED
      BY <2>1, SMT DEF Spent
  <1>5. CASE s = NoState
    <2>1. Spent(a, p, t) = 0
      BY <1>5 DEF SlidingAccount
    <2>2. SlidingPrevious(r, t, s) = 0 /\ SlidingCurrent(r, t, s) = r.cost + 0
      BY <1>5 DEF SlidingPrevious, SlidingCurrent, NoState
    <2> HIDE DEF p
    <2> QED
      BY <1>1, <1>3, <1>4, <2>1, <2>2, SMT DEF p
  <1>6. CASE s # NoState
    <2> DEFINE ws == s.windowStart
    <2>1. /\ s.algorithm = "sliding-window" /\ ws \in Nat
          /\ s.previousCount \in Nat /\ s.currentCount \in Nat
      BY <1>6 DEF SlidingStates
    <2>2. /\ ws <= t
          /\ Aligned(r, ws)
          /\ ws + r.window <= t => Spent(a, ws + r.window, t) = 0
          /\ Spent(a, ws, t) <= s.currentCount
          /\ Spent(a, Before(r, ws), ws - 1) <= s.previousCount
      BY <1>6 DEF SlidingAccount
    <2>3. CASE ws = start
      <3>1. start # start - r.window
        BY <1>1, SMT
      <3>2. SlidingPrevious(r, t, s) = s.previousCount /\ SlidingCurrent(r, t, s) = r.cost + s.currentCount
        BY <2>1, <2>3, <3>1 DEF SlidingPrevious, SlidingCurrent
      <3>3. Spent(a, p, start - 1) <= s.previousCount /\ Spent(a, start, t) <= s.currentCount
        BY <2>2, <2>3
      <3> HIDE DEF p, ws
      <3> QED
        BY <1>1, <1>3, <2>1, <3>2, <3>3, SMT DEF p
    <2>4. CASE ws # start
      <3>1. ws <= start /\ ws < start
        <4>1. ws + 0 * r.window <= t
          BY <1>1, <2>1, <2>2, SMT
        <4>2. ws + 0 * r.window <= start
          BY <1>1, <2>1, <2>2, <4>1, AlignedBefore
        <4> QED
          BY <1>1, <2>1, <2>4, <4>2, SMT
      <3>2. ws + r.window <= start
        <4>1. ws + 0 * r.window < start
          BY <1>1, <2>1, <3>1, SMT
        <4>2. ws + (0 + 1) * r.window <= start
          BY <1>1, <2>1, <2>2, <4>1, AlignedApart
        <4> QED
          BY <1>1, <2>1, <4>2, SMT
      <3>3. Spent(a, ws + r.window, t) = 0
        BY <1>1, <2>1, <2>2, <3>2, SMT
      <3>4. Spent(a, start, t) = 0
        <4>1. Spent(a, start, t) <= Spent(a, ws + r.window, t)
          BY <1>1, <2>1, <3>2, MaxClockType, SpentNat, SMT
        <4> QED
          BY <1>3, <3>3, <4>1, SMT
      <3>5. SlidingCurrent(r, t, s) = r.cost + 0
        BY <2>4 DEF SlidingCurrent
      <3>6. CASE ws = start - r.window
        <4>1. SlidingPrevious(r, t, s) = s.currentCount
          BY <2>1, <2>4, <3>6 DEF SlidingPrevious
        <4>2. p = ws
          BY <1>1, <2>1, <3>6, SMT DEF Before, Larger
        <4>3. Spent(a, p, t) <= s.currentCount
          BY <2>2, <4>2
        <4> HIDE DEF p, ws
        <4> QED
          BY <1>1, <1>3, <1>4, <2>1, <3>4, <3>5, <4>1, <4>3, SMT DEF p
      <3>7. CASE ws # start - r.window
        <4>1. SlidingPrevious(r, t, s) = 0
          BY <2>1, <2>4, <3>7 DEF SlidingPrevious
        <4>2. ws + 2 * r.window <= start
          <5>1. ws + 1 * r.window < start
            BY <1>1, <2>1, <3>2, <3>7, SMT
          <5>2. ws + (1 + 1) * r.window <= start
            BY <1>1, <2>1, <2>2, <5>1, AlignedApart
          <5> QED
            BY <1>1, <2>1, <5>2, SMT
        <4>3. p = start - r.window /\ ws + r.window <= p
          BY <1>1, <2>1, <4>2, SMT DEF Before, Larger
        <4>4. Spent(a, p, t) <= Spent(a, ws + r.window, t)
          BY <1>1, <1>2, <2>1, <3>2, <4>3, MaxClockType, SpentNat, SMT
        <4> HIDE DEF p, ws
        <4> QED
          BY <1>1, <1>3, <1>4, <3>3, <3>4, <3>5, <4>1, <4>4, SMT DEF p
      <3> QED
        BY <3>6, <3>7
    <2> QED
      BY <2>3, <2>4
  <1> QED
    BY <1>5, <1>6
LEMMA SlidingHitKept ==
    ASSUME NEW r \in Rules, NEW t \in 0 .. MaxClock, NEW s \in SlidingStates \cup {NoState},
           NEW a, LedgerOK(a, t), SlidingAccount(r, a, t, s)
    PROVE  LET out == SlidingWindowHit(r, t, s) IN
           SlidingAccount(r, Charged(a, t, IF out.hit.blocked THEN 0 ELSE r.cost), t, out.state)
  <1> DEFINE out == SlidingWindowHit(r, t, s)
             n == out.state
             c == IF out.hit.blocked THEN 0 ELSE r.cost
             b == Charged(a, t, c)
             start == WindowStart(r, t)
             p == Before(r, start)
             previous == SlidingPrevious(r, t, s)
             current == SlidingCurrent(r, t, s)
  <1>1. /\ t \in Nat /\ t <= MaxClock /\ start \in Nat /\ start <= t /\ t < start + r.window
        /\ Aligned(r, start) /\ r.cost \in Nat /\ r.limit \in Nat /\ r.window \in Nat \ {0}
    BY WindowStartNat, WindowStartAligned, MaxClockType, SMT DEF Rules
  <1>2. c \in Nat /\ c <= r.cost /\ (out.hit.blocked => c = 0)
    BY <1>1, SMT
  <1>3. SameState(s, "sliding-window") = s
    BY DEF SameState, SlidingStates, NoState
  <1>4. /\ n.windowStart = start /\ n.previousCount = previous /\ n.currentCount = current
        /\ n # NoState
    <2>1. n \in SlidingStates
      BY <1>1, SlidingWindowType
    <2>2. n # NoState
      BY <2>1 DEF SlidingStates, NoState
    <2> QED
      BY <1>3, <2>2 DEF SlidingWindowHit
  <1>5. /\ previous \in Nat /\ current \in Nat
        /\ Spent(a, p, start - 1) <= previous
        /\ Spent(a, start, t) + r.cost <= current
    BY SlidingCounts
  <1>6. ~out.hit.blocked => Estimated(r, t, previous, current) <= r.limit
    <2>1. ~out.hit.blocked => ~(Estimated(r, t, previous, current) > r.limit)
      BY <1>1, SlidingWindowBlocks DEF SlidingCount
    <2>2. Estimated(r, t, previous, current) \in Nat
      BY <1>1, <1>5, EstimatedMonotone, SMT
    <2>3. \A e \in Nat : ~(e > r.limit) => e <= r.limit
      BY <1>1, SMT
    <2> QED
      BY <2>1, <2>2, <2>3
  <1> HIDE DEF c, n, out, start, previous, current
  <1>7. p \in Nat /\ p <= start
    BY <1>1, SMT DEF Before, Larger
  <1> HIDE DEF p
  <1>8. /\ Spent(b, start, t) = Spent(a, start, t) + c
        /\ Spent(b, t, t) = Spent(a, t, t) + c
        /\ Spent(b, p, start - 1) = Spent(a, p, start - 1)
    <2>1. start \in 0 .. t /\ t \in 0 .. t /\ p \in 0 .. t /\ start - 1 \in Int /\ start - 1 < t
      BY <1>1, <1>7, SMT
    <2> QED
      BY <1>2, <2>1, ChargedLedger
  <1>9. /\ Spent(a, start, t) \in Nat /\ Spent(a, t, t) \in Nat
        /\ Spent(a, p, start - 1) \in Nat
    BY <1>1, <1>7, MaxClockType, SpentNat, SMT
  <1>10. Spent(b, start, t) <= current /\ Spent(b, start, t) \in Nat
    BY <1>1, <1>2, <1>5, <1>8, <1>9, SMT
  <1>11. SlidingRate(r, b, t)
    <2> SUFFICES ASSUME Spent(b, t, t) > 0
                 PROVE  Estimated(r, t, Spent(b, p, start - 1), Spent(b, start, t)) <= r.limit
      BY DEF SlidingRate, Before, p, start
    <2>1. CASE out.hit.blocked
      <3>1. Spent(b, start, t) = Spent(a, start, t) /\ Spent(b, t, t) = Spent(a, t, t)
        BY <1>2, <1>8, <1>9, <2>1, SMT
      <3>2. Estimated(r, t, Spent(a, p, start - 1), Spent(a, start, t)) <= r.limit
        BY <3>1 DEF SlidingAccount, SlidingRate, Before, p, start
      <3> QED
        BY <1>8, <3>1, <3>2
    <2>2. CASE ~out.hit.blocked
      <3>1. Estimated(r, t, Spent(b, p, start - 1), Spent(b, start, t))
                <= Estimated(r, t, previous, current)
        BY <1>1, <1>5, <1>8, <1>9, <1>10, EstimatedMonotone
      <3>2. Estimated(r, t, previous, current) \in Nat
                /\ Estimated(r, t, Spent(b, p, start - 1), Spent(b, start, t)) \in Nat
        BY <1>1, <1>5, <1>8, <1>9, <1>10, EstimatedMonotone, SMT
      <3>3. \A x, y \in Nat : x <= y /\ y <= r.limit => x <= r.limit
        BY <1>1, SMT
      <3> QED
        BY <1>6, <2>2, <3>1, <3>2, <3>3
    <2> QED
      BY <2>1, <2>2
  <1>12. ~(n.windowStart + r.window <= t)
    BY <1>1, <1>4, SMT
  <1> QED
    BY <1>1, <1>4, <1>5, <1>8, <1>10, <1>11, <1>12 DEF SlidingAccount, c, n, out, p

LEMMA SlidingDropKept ==
    ASSUME NEW r \in Rules, r.algorithm = "sliding-window", NEW t \in 0 .. MaxClock,
           NEW s \in SlidingStates, NEW a, LedgerOK(a, t), NEW e \in Nat, Outlives(r, s, e), e <= t,
           SlidingAccount(r, a, t, s)
    PROVE  SlidingAccount(r, a, t, NoState)
  <1> DEFINE ws == s.windowStart
             start == WindowStart(r, t)
             p == Before(r, start)
  <1>1. /\ t \in Nat /\ t <= MaxClock /\ start \in Nat /\ start <= t /\ r.window \in Nat \ {0}
    BY WindowStartNat, MaxClockType, SMT DEF Rules
  <1>2. s # NoState /\ ws \in Nat
    BY DEF SlidingStates, NoState
  <1>3. Aligned(r, ws) /\ (ws + r.window <= t => Spent(a, ws + r.window, t) = 0)
    BY <1>2 DEF SlidingAccount
  <1>4. ws + 2 * r.window <= t
    BY <1>1, <1>2, SMT DEF Outlives
  <1>5. ws + 2 * r.window <= start
    BY <1>1, <1>2, <1>3, <1>4, AlignedBefore
  <1> HIDE DEF start, ws
  <1>6. p \in Nat /\ ws + r.window <= p /\ p <= t /\ ws + r.window <= t
    BY <1>1, <1>2, <1>5, SMT DEF Before, Larger
  <1>7. Spent(a, ws + r.window, t) = 0
    BY <1>3, <1>6
  <1>8. Spent(a, p, t) \in Nat /\ Spent(a, p, t) <= Spent(a, ws + r.window, t)
    BY <1>1, <1>2, <1>6, MaxClockType, SpentNat, SMT
  <1>9. Spent(a, p, t) = 0
    BY <1>7, <1>8, SMT
  <1> QED
    BY <1>9 DEF SlidingAccount, start

LEMMA SlidingTickKept ==
    ASSUME NEW r \in Rules, NEW t \in 0 .. MaxClock, t < MaxClock,
           NEW s \in SlidingStates \cup {NoState}, NEW a, LedgerOK(a, t), SlidingAccount(r, a, t, s)
    PROVE  SlidingAccount(r, a, t + 1, s)
  <1>1. t \in Nat /\ t + 1 \in Nat /\ t + 1 <= MaxClock /\ r.window \in Nat \ {0}
    BY MaxClockType, SMT DEF Rules
  <1>2. \A i \in 0 .. t : Spent(a, i, t + 1) = Spent(a, i, t)
    BY ElapsedLedger
  <1>3. Spent(a, t + 1, t + 1) = 0
    BY ElapsedLedger
  <1>4. SlidingRate(r, a, t + 1)
    <2>1. ~(Spent(a, t + 1, t + 1) > 0)
      BY <1>3, SMT
    <2> QED
      BY <2>1 DEF SlidingRate
  <1>5. CASE s = NoState
    <2> DEFINE start == WindowStart(r, t)
               next == WindowStart(r, t + 1)
               p == Before(r, start)
               q == Before(r, next)
    <2>1. /\ start \in Nat /\ start <= t /\ Aligned(r, start)
          /\ next \in Nat /\ next <= t + 1
      BY <1>1, WindowStartNat, WindowStartAligned
    <2>2. start <= next
      <3>1. start + 0 * r.window <= t + 1
        BY <1>1, <2>1, SMT
      <3>2. start + 0 * r.window <= next
        BY <1>1, <2>1, <3>1, AlignedBefore
      <3> QED
        BY <1>1, <2>1, <3>2, SMT
    <2> HIDE DEF start, next
    <2>3. p \in Nat /\ q \in 0 .. t /\ p <= q
      BY <1>1, <2>1, <2>2, SMT DEF Before, Larger
    <2>4. Spent(a, p, t) = 0
      BY <1>5 DEF SlidingAccount, start
    <2>5. Spent(a, q, t) \in Nat /\ Spent(a, q, t) <= Spent(a, p, t)
      BY <1>1, <2>3, MaxClockType, SpentNat, SMT
    <2>6. Spent(a, q, t + 1) = 0
      BY <1>2, <2>3, <2>4, <2>5, SMT
    <2> QED
      BY <1>4, <1>5, <2>6 DEF SlidingAccount, next
  <1>6. CASE s # NoState
    <2> DEFINE ws == s.windowStart
    <2>1. ws \in Nat
      BY <1>6 DEF SlidingStates
    <2>2. /\ ws <= t
          /\ Aligned(r, ws)
          /\ ws + r.window <= t => Spent(a, ws + r.window, t) = 0
          /\ Spent(a, ws, t) <= s.currentCount
          /\ Spent(a, Before(r, ws), ws - 1) <= s.previousCount
      BY <1>6 DEF SlidingAccount
    <2> HIDE DEF ws
    <2>3. ws <= t + 1 /\ ws \in 0 .. t
      BY <1>1, <2>1, <2>2, SMT
    <2>4. Spent(a, ws, t + 1) <= s.currentCount
      BY <1>2, <2>2, <2>3
    <2>5. ASSUME ws + r.window <= t + 1 PROVE Spent(a, ws + r.window, t + 1) = 0
      <3>1. CASE ws + r.window = t + 1
        BY <1>3, <3>1
      <3>2. CASE ws + r.window # t + 1
        <4>1. ws + r.window <= t /\ ws + r.window \in 0 .. t
          BY <1>1, <2>1, <2>5, <3>2, SMT
        <4> QED
          BY <1>2, <2>2, <4>1
      <3> QED
        BY <3>1, <3>2
    <2> QED
      BY <1>4, <1>6, <2>2, <2>3, <2>4, <2>5 DEF SlidingAccount, ws
  <1> QED
    BY <1>5, <1>6

-----------------------------------------------------------------------------
(* The invariant of the store: every key's ledger and account are kept.    *)

\* The rules and lags for which the rates are stated: a gcra hit is at most a
\* window late, sliding-window and token-bucket hits are on time.  (Late hits of
\* those two are admitted beyond their rate.)
OnTime ==
    \A k \in Keys :
        /\ Rule[k].algorithm \in {"sliding-window", "token-bucket"} => MaxLag[k] = 0
        /\ Rule[k].algorithm = "gcra" => MaxLag[k] <= Rule[k].window

Account(r, lag, a, t, s) ==
    /\ r.algorithm = "fixed-window"   => FixedAccount(r, lag, a, t, s)
    /\ r.algorithm = "sliding-window" => SlidingAccount(r, a, t, s)
    /\ r.algorithm = "token-bucket"   => TokenAccount(r, a, t, s)
    /\ r.algorithm = "gcra"           => GcraAccount(r, lag, a, t, s)

KeyAccount(k) ==
    /\ LedgerOK(admitted[k], clock)
    /\ Account(Rule[k], MaxLag[k], admitted[k], clock, StateOf(k))

RateInvariant ==
    /\ RecordInvariant
    /\ admitted \in [Keys -> [0 .. MaxClock -> Nat]]
    /\ \A k \in Keys : KeyAccount(k)

LEMMA AccountHit ==
    ASSUME NEW r \in Rules, NEW lag \in Nat, NEW t \in 0 .. MaxClock, NEW now \in Nat,
           now <= t, t - now <= lag,
           r.algorithm \in {"sliding-window", "token-bucket"} => now = t,
           r.algorithm = "gcra" => lag <= r.window,
           NEW s \in StatesOf(r) \cup {NoState}, NEW a, LedgerOK(a, t), Account(r, lag, a, t, s),
           NEW out, out = EvaluateAlgorithmHit(r, now, s)
    PROVE  Account(r, lag, Charged(a, t, IF out.hit.blocked THEN 0 ELSE r.cost), t, out.state)
  <1>1. CASE r.algorithm = "fixed-window"
    BY <1>1, FixedHitKept DEF EvaluateAlgorithmHit, StatesOf, Account
  <1>2. CASE r.algorithm = "sliding-window"
    BY <1>2, SlidingHitKept DEF EvaluateAlgorithmHit, StatesOf, Account
  <1>3. CASE r.algorithm = "token-bucket"
    BY <1>3, TokenHitKept DEF EvaluateAlgorithmHit, StatesOf, Account
  <1>4. CASE r.algorithm = "gcra"
    BY <1>4, GcraHitKept DEF EvaluateAlgorithmHit, StatesOf, Account
  <1> QED
    BY <1>1, <1>2, <1>3, <1>4 DEF Rules, AlgorithmNames

LEMMA AccountDrop ==
    ASSUME NEW r \in Rules, NEW lag \in Nat, NEW t \in 0 .. MaxClock, NEW s \in StatesOf(r),
           NEW a, LedgerOK(a, t), NEW e \in Nat, Outlives(r, s, e), e <= t,
           Account(r, lag, a, t, s)
    PROVE  Account(r, lag, a, t, NoState)
  <1>1. CASE r.algorithm = "fixed-window"
    BY <1>1, FixedDropKept DEF StatesOf, Account
  <1>2. CASE r.algorithm = "sliding-window"
    BY <1>2, SlidingDropKept DEF StatesOf, Account
  <1>3. CASE r.algorithm = "token-bucket"
    BY <1>3, TokenDropKept DEF StatesOf, Account
  <1>4. CASE r.algorithm = "gcra"
    BY <1>4, GcraDropKept DEF StatesOf, Account
  <1> QED
    BY <1>1, <1>2, <1>3, <1>4 DEF Rules, AlgorithmNames

LEMMA AccountTick ==
    ASSUME NEW r \in Rules, NEW lag \in Nat, NEW t \in 0 .. MaxClock, t < MaxClock,
           NEW s \in StatesOf(r) \cup {NoState},
           r.algorithm = "token-bucket" /\ s # NoState => s.updatedAt <= t,
           NEW a, LedgerOK(a, t), Account(r, lag, a, t, s)
    PROVE  Account(r, lag, a, t + 1, s)
  <1>1. CASE r.algorithm = "fixed-window"
    BY <1>1, FixedTickKept DEF StatesOf, Account
  <1>2. CASE r.algorithm = "sliding-window"
    BY <1>2, SlidingTickKept DEF StatesOf, Account
  <1>3. CASE r.algorithm = "token-bucket"
    BY <1>3, TokenTickKept DEF StatesOf, Account
  <1>4. CASE r.algorithm = "gcra"
    BY <1>4, GcraTickKept DEF StatesOf, Account
  <1> QED
    BY <1>1, <1>2, <1>3, <1>4 DEF Rules, AlgorithmNames

\* A key nothing was admitted for and that has no record.
LEMMA AccountStarts ==
    ASSUME NEW r \in Rules, NEW lag \in Nat, NEW a, a = [i \in 0 .. MaxClock |-> 0]
    PROVE  Account(r, lag, a, 0, NoState)
  <1>1. LedgerOK(a, 0) /\ Spent(a, 0, 0) = 0 /\ 0 .. 0 = {0}
    BY EmptyLedger, SMT
  <1>2. /\ r.limit \in Nat /\ r.window \in Nat \ {0}
    BY DEF Rules
  <1>3. FixedAccount(r, lag, a, 0, NoState)
    <2>1. InOneWindow(r, Spent(a, 0, 0), NoState)
      BY <1>1, <1>2, SMT DEF InOneWindow
    <2> QED
      BY <1>1, <2>1 DEF FixedAccount
  <1>4. SlidingAccount(r, a, 0, NoState)
    <2>1. WindowStart(r, 0) = 0
      <3>1. WindowStart(r, 0) \in Nat /\ WindowStart(r, 0) <= 0
        BY WindowStartNat
      <3> QED
        BY <3>1, SMT
    <2>2. Before(r, 0) = 0
      BY <1>2, SMT DEF Before, Larger
    <2>3. ~(Spent(a, 0, 0) > 0)
      BY <1>1, SMT
    <2> QED
      BY <1>1, <2>1, <2>2, <2>3 DEF SlidingAccount, SlidingRate
  <1>5. r.algorithm = "token-bucket" => TokenAccount(r, a, 0, NoState)
    <2> SUFFICES ASSUME r.algorithm = "token-bucket" PROVE TokenAccount(r, a, 0, NoState)
      OBVIOUS
    <2>1. Level(r, 0, NoState) = 0
      BY LevelEmpty DEF Metered
    <2>2. 0 * r.window <= 0 + (0 - 0) * r.limit
      BY <1>2, SMT
    <2> QED
      BY <1>1, <2>1, <2>2 DEF TokenAccount
  <1>6. GcraAccount(r, lag, a, 0, NoState)
    <2>1. ~(Spent(a, 0, 0) > 0)
      BY <1>1, SMT
    <2> QED
      BY <1>1, <2>1 DEF GcraAccount
  <1> QED
    BY <1>3, <1>4, <1>5, <1>6 DEF Account


LEMMA HitKeepsRates ==
    ASSUME MaxEntries = 0, OnTime, RateInvariant, RecordInvariant',
           NEW h \in Keys, NEW now \in Nows(h), HistoryHit(h, now)
    PROVE  RateInvariant'
  <1> DEFINE out == Outcome(h, now)
             c == IF out.hit.blocked THEN 0 ELSE Rule[h].cost
  <1>1. /\ RecordInvariant /\ TypeOK /\ clock \in 0 .. MaxClock /\ now \in Nat /\ now <= clock
        /\ clock - now <= MaxLag[h] /\ clock \in Nat
    <2>1. TypeOK
      BY DEF RateInvariant, RecordInvariant
    <2> QED
      BY <2>1, NowsNat, SMT DEF RateInvariant, TypeOK, Nows
  <1>2. Write(h, now, NewEntry(out)) /\ NewEntry(out) \in Entries(h)
    BY <1>1, OutcomeType DEF HistoryHit, Hit, AlgorithmHit
  <1>3. /\ Tracked' = Tracked \cup {h}
        /\ map'[h] = NewEntry(out)
        /\ \A j \in Tracked \ {h} : map'[j] = map[j]
        /\ clock' = clock
    BY <1>1, <1>2, NothingEvicted
  <1>4. StateOf(h)' = out.state
    BY <1>3 DEF StateOf, NewEntry
  <1>5. \A k \in Keys \ {h} : StateOf(k)' = StateOf(k)
    BY <1>3 DEF StateOf
  <1>6. admitted' = [admitted EXCEPT ![h] = Charged(@, clock, c)]
    BY DEF HistoryHit
  <1>7. admitted \in [Keys -> [0 .. MaxClock -> Nat]] /\ \A k \in Keys : KeyAccount(k)
    BY DEF RateInvariant
  <1>8. c \in Nat /\ Rule[h] \in Rules /\ MaxLag[h] \in Nat
    BY DEF Rules
  <1> HIDE DEF c
  <1>9. LedgerOK(Charged(admitted[h], clock, c), clock)
    BY <1>1, <1>7, <1>8, ChargedLedger DEF KeyAccount
  <1>10. /\ admitted'[h] = Charged(admitted[h], clock, c)
         /\ \A k \in Keys \ {h} : admitted'[k] = admitted[k]
    BY <1>6, <1>7
  <1>11. admitted' \in [Keys -> [0 .. MaxClock -> Nat]]
    BY <1>6, <1>7, <1>9 DEF LedgerOK
  <1>12. Account(Rule[h], MaxLag[h], Charged(admitted[h], clock, c), clock, out.state)
    <2>1. Rule[h].algorithm \in {"sliding-window", "token-bucket"} => now = clock
      BY <1>1, SMT DEF OnTime
    <2>2. Rule[h].algorithm = "gcra" => MaxLag[h] <= Rule[h].window
      BY DEF OnTime
    <2>3. out = EvaluateAlgorithmHit(Rule[h], now, StateOf(h))
      BY <1>1, OutcomeEvaluates
    <2>4. StateOf(h) \in StatesOf(Rule[h]) \cup {NoState}
      BY <1>1, StateType
    <2>5. LedgerOK(admitted[h], clock)
              /\ Account(Rule[h], MaxLag[h], admitted[h], clock, StateOf(h))
      BY <1>7 DEF KeyAccount
    <2> HIDE DEF out
    <2> QED
      BY <1>1, <1>8, <2>1, <2>2, <2>3, <2>4, <2>5, AccountHit DEF c
  <1>13. ASSUME NEW k \in Keys PROVE KeyAccount(k)'
    <2>1. CASE k = h
      BY <1>3, <1>4, <1>9, <1>10, <1>12, <2>1 DEF KeyAccount
    <2>2. CASE k # h
      <3>1. StateOf(k)' = StateOf(k) /\ admitted'[k] = admitted[k]
        BY <1>5, <1>10, <2>2
      <3>2. KeyAccount(k)
        BY <1>7
      <3> QED
        BY <1>3, <3>1, <3>2 DEF KeyAccount
    <2> QED
      BY <2>1, <2>2
  <1> QED
    BY <1>11, <1>13 DEF RateInvariant

LEMMA RatesInductive ==
    ASSUME MaxEntries = 0, OnTime, RateInvariant, [HistoryNext]_historyVars
    PROVE  RateInvariant'
  <1>1. /\ RecordInvariant /\ TypeOK /\ clock \in 0 .. MaxClock
        /\ admitted \in [Keys -> [0 .. MaxClock -> Nat]] /\ \A k \in Keys : KeyAccount(k)
    BY DEF RateInvariant, RecordInvariant, TypeOK
  <1>2. RecordInvariant'
    BY <1>1, RecordsInductive
  <1>3. ASSUME NEW k \in Keys, NEW now \in Nows(k), HistoryHit(k, now)
        PROVE  RateInvariant'
    BY <1>2, <1>3, HitKeepsRates
  <1>4. CASE Cleanup /\ UNCHANGED admitted
    <2>1. /\ Tracked' = Kept /\ Kept \subseteq Tracked /\ \A j \in Kept : map'[j] = map[j]
          /\ clock' = clock
      BY <1>4 DEF Cleanup, Tracked, Kept
    <2>2. ASSUME NEW k \in Keys PROVE KeyAccount(k)'
      <3>1. KeyAccount(k)
        BY <1>1
      <3>2. CASE k \in Kept \/ k \notin Tracked
        <4>1. StateOf(k)' = StateOf(k)
          BY <2>1, <3>2 DEF StateOf
        <4> QED
          BY <1>4, <2>1, <3>1, <4>1 DEF KeyAccount
      <3>3. CASE k \in Tracked /\ k \notin Kept
        <4>1. StateOf(k)' = NoState /\ StateOf(k) = map[k].state
          BY <2>1, <3>3 DEF StateOf
        <4>2. map[k].state \in StatesOf(Rule[k]) /\ map[k].expiresAt \in Nat
          BY <1>1, <3>3 DEF TypeOK, Entries
        <4>3. map[k].expiresAt <= clock
          BY <1>1, <3>3, <4>2, SMT DEF Kept
        <4>4. Outlives(Rule[k], map[k].state, map[k].expiresAt)
          BY <1>1, <3>3 DEF RecordInvariant, RecordKept
        <4>5. Account(Rule[k], MaxLag[k], admitted[k], clock, NoState)
          BY <1>1, <3>1, <4>1, <4>2, <4>3, <4>4, AccountDrop DEF KeyAccount
        <4> QED
          BY <1>4, <2>1, <3>1, <4>1, <4>5 DEF KeyAccount
      <3> QED
        BY <3>2, <3>3
    <2> QED
      BY <1>1, <1>2, <1>4, <2>2 DEF RateInvariant
  <1>5. CASE Tick /\ UNCHANGED admitted
    <2>1. /\ clock' = clock + 1 /\ clock < MaxClock /\ map' = map /\ Tracked' = Tracked
      BY <1>5 DEF Tick, Tracked
    <2>2. ASSUME NEW k \in Keys PROVE KeyAccount(k)'
      <3>1. LedgerOK(admitted[k], clock)
                /\ Account(Rule[k], MaxLag[k], admitted[k], clock, StateOf(k))
        BY <1>1 DEF KeyAccount
      <3>2. StateOf(k)' = StateOf(k)
        BY <2>1 DEF StateOf
      <3>3. StateOf(k) \in StatesOf(Rule[k]) \cup {NoState}
        BY <1>1, StateType
      <3>4. Rule[k].algorithm = "token-bucket" /\ StateOf(k) # NoState
                => StateOf(k).updatedAt <= clock
        BY <1>1 DEF RecordInvariant, RecordKept, StateOf
      <3>5. LedgerOK(admitted[k], clock + 1)
        BY <1>1, <2>1, <3>1, ElapsedLedger
      <3>6. Account(Rule[k], MaxLag[k], admitted[k], clock + 1, StateOf(k))
        BY <1>1, <2>1, <3>1, <3>3, <3>4, AccountTick
      <3> QED
        BY <1>5, <2>1, <3>2, <3>5, <3>6 DEF KeyAccount
    <2> QED
      BY <1>1, <1>2, <1>5, <2>2 DEF RateInvariant
  <1>6. CASE UNCHANGED historyVars
    <2>1. clock' = clock /\ map' = map /\ admitted' = admitted /\ Tracked' = Tracked
      BY <1>6 DEF historyVars, vars, Tracked
    <2>2. \A k \in Keys : StateOf(k)' = StateOf(k)
      BY <2>1 DEF StateOf
    <2> QED
      BY <1>1, <1>2, <2>1, <2>2 DEF RateInvariant, KeyAccount
  <1> QED
    BY <1>3, <1>4, <1>5, <1>6 DEF HistoryNext, HistoryQuiet

LEMMA AccountsBound == OnTime /\ RateInvariant => RateLimited
  <1> SUFFICES ASSUME OnTime, RateInvariant, NEW k \in Keys
               PROVE  LET r == Rule[k] IN
                      /\ r.algorithm = "fixed-window" => FixedRate(r, MaxLag[k], admitted[k], clock)
                      /\ r.algorithm = "sliding-window" => SlidingRate(r, admitted[k], clock)
                      /\ r.algorithm \in {"token-bucket", "gcra"}
                              => MeteredRate(r, MaxLag[k], admitted[k], clock)
    BY DEF RateLimited
  <1> DEFINE r == Rule[k]
             a == admitted[k]
             s == StateOf(k)
  <1>1. /\ r \in Rules /\ MaxLag[k] \in Nat /\ clock \in 0 .. MaxClock
        /\ LedgerOK(a, clock) /\ Account(r, MaxLag[k], a, clock, s)
    BY DEF RateInvariant, RecordInvariant, TypeOK, KeyAccount
  <1>2. s \in StatesOf(r) \cup {NoState}
    BY StateType DEF RateInvariant, RecordInvariant
  <1>3. CASE r.algorithm = "fixed-window"
    <2>1. FixedRate(r, MaxLag[k], a, clock)
      BY <1>1, <1>2, <1>3, FixedAccountRate DEF Account, StatesOf
    <2> QED
      BY <1>3, <2>1
  <1>4. CASE r.algorithm = "sliding-window"
    BY <1>1, <1>4 DEF Account, SlidingAccount
  <1>5. CASE r.algorithm = "token-bucket"
    <2>1. MaxLag[k] = 0
      BY <1>5 DEF OnTime
    <2>2. MeteredRate(r, 0, a, clock)
      BY <1>1, <1>2, <1>5, TokenAccountRate DEF Account, StatesOf
    <2> QED
      BY <1>5, <2>1, <2>2
  <1>6. CASE r.algorithm = "gcra"
    <2>1. MeteredRate(r, MaxLag[k], a, clock)
      BY <1>1, <1>2, <1>6, GcraAccountRate DEF Account, StatesOf
    <2> QED
      BY <1>6, <2>1
  <1> QED
    BY <1>1, <1>3, <1>4, <1>5, <1>6 DEF Rules, AlgorithmNames

\* The store never admits more than docs/algorithm.md states for the algorithm,
\* in any interval, however hits, cleanups and bans interleave: without a cap, for
\* fixed windows with hits as late as may be, gcra with hits up to a window late,
\* and sliding windows and token buckets with hits on time.
THEOREM RatesHold ==
    ASSUME MaxEntries = 0, OnTime
    PROVE  HistorySpec => []RateLimited
  <1>1. HistoryInit => RateInvariant
    <2> SUFFICES ASSUME HistoryInit PROVE RateInvariant
      OBVIOUS
    <2>1. TypeOK /\ clock = 0 /\ Tracked = {}
      BY TypeInit DEF HistoryInit, Init, Tracked
    <2>2. RecordInvariant
      BY <2>1 DEF RecordInvariant
    <2> DEFINE zero == [t \in 0 .. MaxClock |-> 0]
    <2>3. admitted = [k \in Keys |-> zero]
      BY DEF HistoryInit
    <2>4. zero \in [0 .. MaxClock -> Nat] /\ LedgerOK(zero, 0)
      BY EmptyLedger
    <2>5. \A k \in Keys : Account(Rule[k], MaxLag[k], zero, 0, NoState)
      BY AccountStarts
    <2> HIDE DEF zero
    <2>6. \A k \in Keys : KeyAccount(k)
      BY <2>1, <2>3, <2>4, <2>5 DEF KeyAccount, StateOf
    <2> QED
      BY <2>2, <2>3, <2>4, <2>6 DEF RateInvariant
  <1>2. RateInvariant /\ [HistoryNext]_historyVars => RateInvariant'
    BY RatesInductive
  <1>3. RateInvariant => RateLimited
    BY AccountsBound
  <1> QED
    BY <1>1, <1>2, <1>3, PTL DEF HistorySpec
=============================================================================
