------------------------ MODULE MemoryStoreEviction ------------------------
(***************************************************************************)
(* MemoryStore with a history of when each key was last hit, and the       *)
(* properties of its cap, its sweeps and its cleanup.                      *)
(***************************************************************************)
EXTENDS MemoryStore

VARIABLE lastHit   \* per key, the clock at its last hit

evictionVars == <<vars, lastHit>>

EvictionInit == Init /\ lastHit = [k \in Keys |-> 0]

EvictionNext ==
    \/ \E k \in Keys : \E now \in Nows(k) :
          /\ Hit(k, now) \/ AlgorithmHit(k, now)
          /\ lastHit' = [lastHit EXCEPT ![k] = clock]
    \/ (Cleanup \/ Tick) /\ UNCHANGED lastHit

EvictionSpec == EvictionInit /\ [][EvictionNext]_evictionVars /\ Fairness

Live(j) == j \in Tracked /\ map[j].expiresAt > clock

\* The keys whose live record the current step drops.
Forgotten == {j \in Keys : Live(j)} \ DOMAIN map'

-----------------------------------------------------------------------------
\* A hit of a new key always leaves the map within maxEntries, whatever the
\* sweep for expired records did or did not remove first (evictIfNeeded).
WithinCapacity == MaxEntries > 0 => Cardinality(Tracked) <= MaxEntries

\* `older` lists the tracked keys in one strict order.
InsertionOrder ==
    /\ \A j, k \in Tracked : j # k => (<<j, k>> \in older <=> <<k, j>> \notin older)
    /\ \A j \in Tracked : <<j, j>> \notin older
    /\ \A i, j, k \in Tracked : <<i, j>> \in older /\ <<j, k>> \in older => <<i, k>> \in older

\* The Map's iteration order stays a strict total order of the tracked keys, and
\* it is the order of their last hits: delete-then-set in hit() and
\* algorithmHit() makes eviction least-recently-hit, not first-in-first-out.
OrderIsRecency ==
    /\ InsertionOrder
    /\ \A j, k \in Tracked : <<j, k>> \in older => lastHit[j] <= lastHit[k]

\* No step drops a live record while it keeps one that was hit longer ago,
\* or while the map had room: sweep, oldest-first eviction and cleanup together.
\* And the key that a hit just counted is never the one to go, unless its record
\* is over at once (a bucket that stays full, as the hit cost more than the limit).
DropsLeastRecentOnly ==
    [][/\ \A j \in Forgotten :
             /\ MaxEntries > 0 /\ Cardinality(DOMAIN map') = MaxEntries
             /\ \A i \in DOMAIN map' : lastHit[j] <= lastHit'[i]
       /\ \A k \in Keys : \A now \in Nows(k) :
             Hit(k, now) \/ AlgorithmHit(k, now) =>
                 k \in DOMAIN map' \/ Outcome(k, now).expiresAt <= now]_evictionVars

\* docs/stores.md: "Eviction removes expired rows first, then oldest keys."
\* A step that drops a live record leaves no expired record behind.
ExpiredEvictedFirst ==
    [][Forgotten # {} => \A i \in DOMAIN map' : map'[i].expiresAt > clock]_evictionVars

\* The interval timer gets rid of every expired record unless a hit revives its
\* key first: no record outlives its window forever under the cap.
ExpiredPurged ==
    \A k \in Keys : (k \in Tracked /\ ~Live(k)) ~> (k \notin Tracked \/ Live(k))
=============================================================================
