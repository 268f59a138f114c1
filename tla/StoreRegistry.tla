---------------------------- MODULE StoreRegistry ----------------------------
(***************************************************************************)
(* createStoreRegistry of src/core/storeRegistry.ts and the factory of     *)
(* src/core/storeFactory.ts, as operators on one limiter's registry.  All  *)
(* calls are synchronous; RequestLifecycle makes them when the code does.  *)
(*                                                                         *)
(* A store is an object: a custom one (SQLite, Redis or the user's own),   *)
(* or a memory store <<owner, n>>, the n-th one built by its limiter.      *)
(***************************************************************************)
EXTENDS Integers, SequencesExt

CONSTANTS
    CustomStores,
    WithCleanup,     \* the custom stores that have a cleanup()
    WithClose,       \* ... a close()
    CloseThrows,     \* ... a close() that throws
    WithAlgorithmHit \* ... an algorithmHit()

ASSUME CustomParts == WithCleanup \cup WithClose \cup CloseThrows \cup WithAlgorithmHit
                          \subseteq CustomStores

\* No custom store is a memory store.
ASSUME CustomObjects == CustomStores \cap (Nat \X Nat) = {}

HasCleanup(s) == s \in WithCleanup \/ s \notin CustomStores

HasAlgorithmHit(s) == s \in WithAlgorithmHit \/ s \notin CustomStores

-----------------------------------------------------------------------------
(* Configurations: what a user may write for a store.                      *)

UndefinedStore  == [kind |-> "undefined"]
MemoryConfig(n) == [kind |-> "memory", maxEntries |-> n]
CustomConfig(s) == [kind |-> "custom", store |-> s]

\* fallbackStore may also be false and true.
NoFallback     == [kind |-> "false"]
MemoryFallback == [kind |-> "true"]

\* What a rule's store or the default store may be; both may also be undefined.
StoreConfigs == [kind : {"memory"}, maxEntries : Nat] \cup [kind : {"custom"}, store : CustomStores]

NoStore == <<0, 0>>

\* Bug: every rule's own memory store is taken for the same.
RuleStoreCacheKey_IgnoresCap(config) ==
    IF config.kind = "memory" THEN MemoryConfig(0) ELSE config

\* Typed configurations are equal when their fields are, custom stores when they
\* are the same object, and no configuration is the default store's.
RuleStoreCacheKey(config) == config

\* The store a configuration stands for: an object given, or a new memory store.
BuildStore(r, config) ==
    IF config.kind = "custom" THEN config.store ELSE <<r.owner, r.built + 1>>

-----------------------------------------------------------------------------
(* The registry of one limiter: the storeCache, the activeStores in the    *)
(* order they came, the cleanupTimers ever started and those that run.     *)

EmptyRegistry(owner) ==
    [owner |-> owner, built |-> 0, cache |-> [key \in {} |-> NoStore], fallback |-> NoStore,
     activeStores |-> <<>>, cleanupTimers |-> {}, running |-> <<>>, closed |-> <<>>]

AddNew(s, stores) == IF Contains(stores, s) THEN stores ELSE Append(stores, s)

\* Bug: a store that is registered again gets a second timer.
RegisterStore_TimerAgain(r, s, interval) ==
    LET timed == HasCleanup(s) /\ interval > 0 IN
    [r EXCEPT !.activeStores = AddNew(s, @),
              !.cleanupTimers = IF timed THEN @ \cup {s} ELSE @,
              !.running = IF timed THEN Append(@, s) ELSE @]

RegisterStore(r, s, interval) ==
    LET timed == HasCleanup(s) /\ interval > 0 /\ s \notin r.cleanupTimers IN
    [r EXCEPT !.activeStores = AddNew(s, @),
              !.cleanupTimers = IF timed THEN @ \cup {s} ELSE @,
              !.running = IF timed THEN Append(@, s) ELSE @]

\* A store is built, unless it is the user's own object.
Built(r, config) == [r EXCEPT !.built = IF config.kind = "custom" THEN @ ELSE @ + 1]

\* resolveFallbackStore builds its own store and leaves the cache alone.
CreateStoreRegistry(owner, options) ==
    LET r    == EmptyRegistry(owner)
        fall == BuildStore(r, options.fallbackStore)
    IN  IF options.fallbackStore = NoFallback THEN r
        ELSE [RegisterStore(Built(r, options.fallbackStore), fall, options.cleanupInterval)
                  EXCEPT !.fallback = fall]

\* getStore: the registry after it ...
WithStoreFor(r, config, options) ==
    LET key == RuleStoreCacheKey(config)
        own == IF config = UndefinedStore THEN options.store ELSE config
        s   == BuildStore(r, own)
        new == RegisterStore(Built(r, own), s, options.cleanupInterval)
    IN  IF key \in DOMAIN r.cache THEN r
        ELSE [new EXCEPT !.cache = [k \in DOMAIN @ \cup {key} |-> IF k = key THEN s ELSE @[k]]]

\* ... and the store it returned.
StoreFor(r, config) == r.cache[RuleStoreCacheKey(config)]

\* The elements of s that are in S, in order.
OnlyIn(s, S) ==
    LET kept[n \in 0 .. Len(s)] ==
            IF n = 0 THEN <<>>
            ELSE IF s[n] \in S THEN Append(kept[n - 1], s[n]) ELSE kept[n - 1]
    IN  kept[Len(s)]

\* Bug: the stores are closed and their timers left running.
Close_TimersLeft(r) ==
    [r EXCEPT !.closed = OnlyIn(r.activeStores, WithClose)]

\* Every timer is cleared; then the stores are closed in order, up to and
\* including the first whose close() throws.
Close(r) ==
    LET closable == OnlyIn(r.activeStores, WithClose)
        throwing == {n \in DOMAIN closable : closable[n] \in CloseThrows}
        last     == IF throwing = {} THEN Len(closable) ELSE Min(throwing)
    IN  [r EXCEPT !.running = <<>>, !.closed = SubSeq(closable, 1, last)]

CloseSucceeds(r) == \A n \in DOMAIN r.activeStores : r.activeStores[n] \notin CloseThrows
=============================================================================
