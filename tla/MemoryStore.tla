---------------------------- MODULE MemoryStore ----------------------------
(***************************************************************************)
(* MemoryRateLimitStore of src/plugins/memoryStore.ts: a Map of records in *)
(* insertion order, capped at maxEntries, with a cleanup the registry's    *)
(* timer calls.  Each call is synchronous and so one action.               *)
(*                                                                         *)
(* A hit's `now` is not read by the store: evaluateRequest takes Date.now() *)
(* before it awaits rule.skip, the key resolvers and earlier rules'        *)
(* stores, so a hit may reach the store with a `now` of the past, and two  *)
(* requests may reach it in the opposite order of their `now`.  MaxLag     *)
(* bounds how far in the past, key by key; it is 0 for a rule that is hit  *)
(* right after the clock is read (the fast path of src/index.ts).          *)
(***************************************************************************)
EXTENDS Algorithms, FiniteSets

CONSTANTS
    Keys,           \* storage keys  namespace:ruleId:baseKey
    Rule,           \* the rule each key belongs to (the rule's id is in the key)
    MaxEntries,     \* maxEntries; 0 is no cap
    SweepInterval,  \* EVICTION_SWEEP_INTERVAL
    MaxLag,         \* how old a hit's `now` may be, per key
    MaxCount,       \* bound: no hit would raise a window's counter above this
    MaxClock        \* bound: the clock stops here

ASSUME KeysFinite       == IsFiniteSet(Keys)
ASSUME RuleType         == Rule \in [Keys -> Rules]
ASSUME MaxEntriesType   == MaxEntries \in Nat
ASSUME IntervalType     == SweepInterval \in Nat
ASSUME MaxLagType       == MaxLag \in [Keys -> Nat]
ASSUME MaxCountType     == MaxCount \in Nat
ASSUME MaxClockType     == MaxClock \in Nat

VARIABLES
    map,                  \* tracked key -> [state, expiresAt]
    older,                \* <<j, k>>: the Map lists j before k
    nextEvictionSweepAt,  \* no sweep for expired records before this time
    clock                 \* Date.now()

vars == <<map, older, nextEvictionSweepAt, clock>>

Tracked == DOMAIN map

Entries(k) == [state : StatesOf(Rule[k]), expiresAt : Nat]

TypeOK ==
    /\ Tracked \subseteq Keys
    /\ map = [k \in Tracked |-> map[k]]
    /\ \A k \in Tracked : map[k] \in Entries(k)
    /\ older \subseteq Tracked \X Tracked
    /\ nextEvictionSweepAt \in Nat
    /\ clock \in 0 .. MaxClock

StateOf(k) == IF k \in Tracked THEN map[k].state ELSE NoState

\* The values of `now` a hit of k may carry.
Nows(k) == {t \in 0 .. clock : clock - t <= MaxLag[k]}

Init ==
    /\ map = [k \in {} |-> NoState]
    /\ older = {}
    /\ nextEvictionSweepAt = 0
    /\ clock = 0

-----------------------------------------------------------------------------
(* Eviction.  It works on the map as it stands after the hit's own         *)
(* insertion: m is that map and ord its insertion order.                   *)

\* Bug: one record more than the cap is left.
Overflow_OffByOne(S) ==
    IF MaxEntries > 0 /\ Cardinality(S) > MaxEntries + 1
    THEN Cardinality(S) - MaxEntries - 1 ELSE 0

\* By how many records the keys S are over the cap.
Overflow(S) ==
    IF MaxEntries > 0 /\ Cardinality(S) > MaxEntries THEN Cardinality(S) - MaxEntries ELSE 0

\* Bug: the newest keys go.
Latest(S, n, ord) == {k \in S : Cardinality({j \in S : <<k, j>> \in ord}) < n}

\* The first n of the keys S in insertion order.
Earliest(S, n, ord) == {k \in S : Cardinality({j \in S : <<j, k>> \in ord}) < n}

ExpiredIn(m, now) == {k \in DOMAIN m : m[k].expiresAt <= now}

SweepDue(m, now) == Overflow(DOMAIN m) > 0 /\ now >= nextEvictionSweepAt

\* evictExpiredDown: expired records in insertion order, until the cap holds.
Swept(m, ord, now) ==
    IF SweepDue(m, now)
    THEN Earliest(ExpiredIn(m, now), Overflow(DOMAIN m), ord)
    ELSE {}

\* evictOldestDown: then the oldest records, live or not.
EvictedOldest(rest, ord) == Earliest(rest, Overflow(rest), ord)

Evicted(m, ord, now) ==
    LET swept == Swept(m, ord, now)
    IN  swept \cup EvictedOldest(DOMAIN m \ swept, ord)

-----------------------------------------------------------------------------
(* Hits.                                                                   *)

\* Map.delete then Map.set: k becomes the newest key.
Put(k, entry) == [j \in Tracked \cup {k} |-> IF j = k THEN entry ELSE map[j]]

\* Bug: Map.set without Map.delete leaves a tracked key in its old place.
MovedToEnd_KeepPlace(k) ==
    IF k \in Tracked THEN older ELSE older \cup (Tracked \X {k})

MovedToEnd(k) ==
    {p \in older : p[1] # k /\ p[2] # k} \cup ((Tracked \ {k}) \X {k})

\* Stores k's new record and evicts down to the cap.
Write(k, now, entry) ==
    LET m    == Put(k, entry)
        ord  == MovedToEnd(k)
        left == DOMAIN m \ Evicted(m, ord, now)
    IN  /\ map' = [j \in left |-> m[j]]
        /\ older' = ord \cap (left \X left)
        /\ nextEvictionSweepAt' =
               IF SweepDue(m, now) THEN now + SweepInterval ELSE nextEvictionSweepAt
        /\ UNCHANGED clock

\* hit() carries its own copy of the fixed window, here with the ban it takes
\* over as a parameter.  It stores no expiresAt: cleanup and the sweep take the
\* later of resetAt and banUntil instead.
InlineHitHolding(r, now, s, held) ==
    LET open     == s.algorithm = "fixed-window" /\ s.resetAt > now
        count    == IF open THEN s.count + r.cost ELSE r.cost
        resetAt  == IF open THEN s.resetAt ELSE now + r.window
        banUntil == IF count > r.limit /\ r.ban > 0 /\ held <= now THEN now + r.ban ELSE held
        blocked  == banUntil > now \/ count > r.limit
    IN  [state     |-> [algorithm |-> "fixed-window", count |-> count, resetAt |-> resetAt,
                        banUntil |-> banUntil],
         expiresAt |-> Larger(resetAt, banUntil),
         hit       |-> HitResult(count, Larger(r.limit - count, 0), resetAt, blocked,
                           IF blocked THEN Larger(resetAt, banUntil) - now ELSE 0, banUntil)]

\* Bug: the ban is forgotten when a new window starts.
InlineHit_BanLostOnReset(r, now, s) ==
    InlineHitHolding(r, now, s,
        IF WindowOpen(s, now) /\ s.banUntil > now THEN s.banUntil ELSE 0)

InlineHit(r, now, s) ==
    InlineHitHolding(r, now, s, IF s.banUntil > now THEN s.banUntil ELSE 0)

\* What a hit of k at `now` evaluates to: callStore sends fixed-window rules
\* to hit() and the others to algorithmHit().
Outcome(k, now) ==
    IF Rule[k].algorithm = "fixed-window"
    THEN InlineHit(Rule[k], now, StateOf(k))
    ELSE EvaluateAlgorithmHit(Rule[k], now, StateOf(k))

NewEntry(out) == [state |-> out.state, expiresAt |-> out.expiresAt]

Hit(k, now) ==
    /\ Rule[k].algorithm = "fixed-window"
    /\ Outcome(k, now).state.count <= MaxCount
    /\ Write(k, now, NewEntry(Outcome(k, now)))

AlgorithmHit(k, now) ==
    /\ Rule[k].algorithm # "fixed-window"
    /\ Rule[k].algorithm = "sliding-window" => Outcome(k, now).state.currentCount <= MaxCount
    /\ Write(k, now, NewEntry(Outcome(k, now)))

-----------------------------------------------------------------------------
(* cleanup(), called with the timer's own Date.now().                      *)

\* Bug: cleanup also takes records that expire within the next tick.
Kept_Eager == {k \in Tracked : map[k].expiresAt > clock + 1}

\* Bug: cleanup takes nothing.
Kept_All == Tracked

Kept == {k \in Tracked : map[k].expiresAt > clock}

Cleanup ==
    /\ map' = [k \in Kept |-> map[k]]
    /\ older' = older \cap (Kept \X Kept)
    /\ UNCHANGED <<nextEvictionSweepAt, clock>>

Tick ==
    /\ clock < MaxClock
    /\ clock' = clock + 1
    /\ UNCHANGED <<map, older, nextEvictionSweepAt>>

Next ==
    \/ \E k \in Keys : \E now \in Nows(k) : Hit(k, now)
    \/ \E k \in Keys : \E now \in Nows(k) : AlgorithmHit(k, now)
    \/ Cleanup
    \/ Tick

\* The registry's interval timer keeps calling cleanup, and time passes.
Fairness == WF_vars(Cleanup) /\ WF_vars(Tick)

Spec == Init /\ [][Next]_vars /\ Fairness
=============================================================================
