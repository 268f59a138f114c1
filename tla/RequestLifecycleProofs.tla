------------------------ MODULE RequestLifecycleProofs ------------------------
(***************************************************************************)
(* What holds of every application: of its registries from the first store *)
(* to the last close(), and of the requests it answers.                    *)
(***************************************************************************)
EXTENDS RequestLifecycle, HeaderDecisionProofs, FiniteSetTheorems, SequenceTheorems

(* Sequences.                                                              *)

LEMMA Appended ==
    ASSUME NEW S, NEW s \in Seq(S), NEW e \in S
    PROVE  /\ Append(s, e) \in Seq(S)
           /\ ToSet(Append(s, e)) = ToSet(s) \cup {e}
           /\ IsInjective(s) /\ e \notin ToSet(s) => IsInjective(Append(s, e))
  <1>1. /\ Len(s) \in Nat /\ DOMAIN s = 1 .. Len(s)
        /\ Append(s, e) \in Seq(S)
        /\ DOMAIN Append(s, e) = 1 .. Len(s) + 1
        /\ \A i \in 1 .. Len(s) : Append(s, e)[i] = s[i]
        /\ Append(s, e)[Len(s) + 1] = e
    BY AppendProperties
  <1> DEFINE t == Append(s, e)
             N == Len(s)
  <1>2. \A i \in 1 .. N + 1 : i \in 1 .. N \/ i = N + 1
    BY <1>1
  <1>3. 1 .. N \subseteq 1 .. N + 1 /\ N + 1 \in 1 .. N + 1
    BY <1>1
  <1> HIDE DEF t, N
  <1>4. ToSet(t) = ToSet(s) \cup {e}
    BY <1>1, <1>2, <1>3 DEF ToSet, t, N
  <1>5. IsInjective(s) /\ e \notin ToSet(s) => IsInjective(t)
    BY <1>1, <1>2, <1>3 DEF ToSet, IsInjective, t, N
  <1> QED
    BY <1>1, <1>4, <1>5 DEF t

\* The loop behind OnlyIn.
IsFiltering(kept, S, s, C) ==
    /\ kept \in [0 .. Len(s) -> Seq(S)]
    /\ kept[0] = <<>>
    /\ \A n \in 1 .. Len(s) :
          kept[n] = IF s[n] \in C THEN Append(kept[n - 1], s[n]) ELSE kept[n - 1]
    /\ OnlyIn(s, C) = kept[Len(s)]

LEMMA OnlyInRun ==
    ASSUME NEW S, NEW s \in Seq(S), NEW C
    PROVE  \E kept : IsFiltering(kept, S, s, C)
  <1> DEFINE N == Len(s)
             Q == Seq(S)
             Turn(k, n) == IF s[n] \in C THEN Append(k, s[n]) ELSE k
             step == [n \in 1 .. N |-> [k \in Q |-> Turn(k, n)]]
             Body(g) == [n \in 0 .. N |-> IF n = 0 THEN <<>>
                                          ELSE IF s[n] \in C THEN Append(g[n - 1], s[n]) ELSE g[n - 1]]
  <1>1. N \in Nat /\ <<>> \in Q /\ \A n \in 1 .. N : s[n] \in S
    OBVIOUS
  <1>2. \A n \in 1 .. N : \A k \in Q : Turn(k, n) \in Q
    BY <1>1, AppendProperties
  <1> HIDE DEF N, Q, Turn
  <1>3. step \in [1 .. N -> [Q -> Q]]
    BY <1>2
  <1>4. PICK f \in [0 .. N -> Q] :
            f[0] = <<>> /\ \A n \in 1 .. N : f[n] = step[n][f[n - 1]]
    <2> HIDE DEF step
    <2>1. \E f : IsRun(f, Q, <<>>, N, step)
      BY <1>1, <1>3, Iteration
    <2> QED
      BY <2>1 DEF IsRun
  <1>5. ASSUME NEW n \in 1 .. N PROVE n - 1 \in 0 .. N /\ f[n - 1] \in Q /\ f[n] = Turn(f[n - 1], n)
    <2>1. n - 1 \in 0 .. N
      BY <1>1
    <2>2. f[n - 1] \in Q
      BY <1>4, <2>1
    <2> QED
      BY <1>4, <2>1, <2>2
  <1>6. f = Body(f)
    <2>1. \A n \in 0 .. N : n = 0 \/ n \in 1 .. N
      BY <1>1
    <2>2. ASSUME NEW n \in 0 .. N
          PROVE  f[n] = IF n = 0 THEN <<>>
                        ELSE IF s[n] \in C THEN Append(f[n - 1], s[n]) ELSE f[n - 1]
      BY <1>4, <1>5, <2>1 DEF Turn
    <2> QED
      BY <1>4, <2>2
  <1>7. OnlyIn(s, C) = (CHOOSE g : g = Body(g))[N]
    BY DEF OnlyIn, N
  <1> DEFINE L == CHOOSE g : g = Body(g)
  <1>8. L = Body(L)
    <2> HIDE DEF Body
    <2> QED
      BY <1>6
  <1> HIDE DEF L
  <1>9. /\ DOMAIN L = 0 .. N /\ L[0] = <<>>
        /\ \A n \in 1 .. N : L[n] = Turn(L[n - 1], n)
    <2>1. ASSUME NEW g
          PROVE  /\ DOMAIN Body(g) = 0 .. N /\ Body(g)[0] = <<>>
                 /\ \A n \in 1 .. N : Body(g)[n] = Turn(g[n - 1], n)
      BY <1>1 DEF Turn
    <2> HIDE DEF Body
    <2> QED
      BY <1>8, <2>1
  <1>10. \A n \in 0 .. N : L[n] \in Q
    <2> DEFINE T == {n \in 0 .. N : L[n] \in Q}
    <2>1. 0 \in T
      BY <1>1, <1>9
    <2>2. ASSUME NEW n \in 0 .. N - 1, n \in T PROVE n + 1 \in T
      <3>1. n + 1 \in 1 .. N /\ n + 1 \in 0 .. N /\ (n + 1) - 1 = n
        BY <1>1
      <3>2. L[n + 1] = Turn(L[n], n + 1)
        BY <1>9, <3>1
      <3> QED
        BY <1>2, <2>2, <3>1, <3>2
    <2>3. \A n \in 0 .. N - 1 : n \in T => n + 1 \in T
      BY <2>2
    <2> HIDE DEF T
    <2>4. 0 .. N \subseteq T
      BY <1>1, <2>1, <2>3, Induction
    <2> QED
      BY <2>4 DEF T
  <1>11. L \in [0 .. N -> Q]
    <2>1. L = [n \in 0 .. N |-> L[n]]
      BY <1>8, <1>9
    <2> QED
      BY <1>10, <2>1
  <1>12. OnlyIn(s, C) = L[N]
    BY <1>7 DEF L
  <1>13. \A n \in 1 .. N : L[n] = IF s[n] \in C THEN Append(L[n - 1], s[n]) ELSE L[n - 1]
    BY <1>9 DEF Turn
  <1>14. IsFiltering(L, S, s, C)
    BY <1>9, <1>11, <1>12, <1>13 DEF IsFiltering, N, Q
  <1> QED
    BY <1>14

\* OnlyIn keeps exactly the elements of s that are in C, each as often as s has it.
LEMMA OnlyInKeeps ==
    ASSUME NEW S, NEW s \in Seq(S), NEW C
    PROVE  /\ OnlyIn(s, C) \in Seq(S)
           /\ ToSet(OnlyIn(s, C)) = ToSet(s) \cap C
           /\ IsInjective(s) => IsInjective(OnlyIn(s, C))
  <1>1. PICK kept : IsFiltering(kept, S, s, C)
    BY OnlyInRun
  <1> DEFINE N == Len(s)
             Kept(n) == {s[m] : m \in {i \in 1 .. N : i <= n /\ s[i] \in C}}
             T == {n \in 0 .. N : /\ ToSet(kept[n]) = Kept(n)
                                  /\ IsInjective(s) => IsInjective(kept[n])}
  <1>2. N \in Nat /\ DOMAIN s = 1 .. N /\ \A n \in 1 .. N : s[n] \in S
    OBVIOUS
  <1>3. kept \in [0 .. N -> Seq(S)] /\ kept[0] = <<>>
        /\ \A n \in 1 .. N :
              kept[n] = IF s[n] \in C THEN Append(kept[n - 1], s[n]) ELSE kept[n - 1]
    BY <1>1 DEF IsFiltering
  <1> HIDE DEF N
  <1>4. 0 \in T
    <2>1. ToSet(<<>>) = {} /\ IsInjective(<<>>)
      BY DEF ToSet, IsInjective
    <2>2. Kept(0) = {}
      BY <1>2
    <2> QED
      BY <1>2, <1>3, <2>1, <2>2
  <1>5. ASSUME NEW n \in 0 .. N - 1, n \in T PROVE n + 1 \in T
    <2> DEFINE k == n + 1
    <2>1. k \in 1 .. N /\ k \in 0 .. N /\ k - 1 = n /\ n \in 0 .. N
      BY <1>2
    <2>2. \A i \in 1 .. N : i <= k <=> i <= n \/ i = k
      BY <1>2
    <2>3. s[k] \in S /\ kept[n] \in Seq(S)
      BY <1>2, <1>3, <2>1
    <2>4. ToSet(kept[n]) = Kept(n) /\ (IsInjective(s) => IsInjective(kept[n]))
      BY <1>5
    <2>5. \A i \in 1 .. N : i <= n => i # k
      BY <1>2
    <2>6. kept[k] = IF s[k] \in C THEN Append(kept[n], s[k]) ELSE kept[n]
      BY <1>3, <2>1
    <2> HIDE DEF k
    <2>7. CASE s[k] \notin C
      <3>1. Kept(k) = Kept(n)
        BY <2>2, <2>7
      <3> QED
        BY <2>1, <2>4, <2>6, <2>7, <3>1 DEF k
    <2>8. CASE s[k] \in C
      <3>1. Kept(k) = Kept(n) \cup {s[k]}
        BY <2>1, <2>2, <2>8
      <3>2. IsInjective(s) => s[k] \notin Kept(n)
        BY <1>2, <2>1, <2>5 DEF IsInjective
      <3>3. /\ ToSet(Append(kept[n], s[k])) = ToSet(kept[n]) \cup {s[k]}
            /\ IsInjective(kept[n]) /\ s[k] \notin ToSet(kept[n]) => IsInjective(Append(kept[n], s[k]))
        BY <2>3, Appended
      <3> HIDE DEF Kept
      <3> QED
        BY <2>1, <2>4, <2>6, <2>8, <3>1, <3>2, <3>3 DEF k
    <2> QED
      BY <2>7, <2>8
  <1>6. \A n \in 0 .. N - 1 : n \in T => n + 1 \in T
    BY <1>5
  <1> HIDE DEF T
  <1>7. N \in T
    <2>1. 0 .. N \subseteq T
      BY <1>2, <1>4, <1>6, Induction
    <2> QED
      BY <1>2, <2>1
  <1>8. OnlyIn(s, C) = kept[N] /\ kept[N] \in Seq(S)
    BY <1>1, <1>2, <1>3 DEF IsFiltering, N
  <1>9. Kept(N) = ToSet(s) \cap C
    BY <1>2 DEF ToSet
  <1> QED
    BY <1>7, <1>8, <1>9 DEF T

-----------------------------------------------------------------------------
(* Registries.                                                             *)

Stores == CustomStores \cup (Nat \X Nat)

StoreKeys == StoreConfigs \cup {UndefinedStore}

Registries ==
    [owner : Nat, built : Nat, cache : UNION {[K -> Stores] : K \in SUBSET StoreKeys},
     fallback : Stores, activeStores : Seq(Stores), cleanupTimers : SUBSET Stores,
     running : Seq(Stores), closed : Seq(Stores)]

\* What ApplicationsType says of a limiter's options, and of the stores of rules.
HasStoreOptions(o) ==
    /\ o.store \in StoreKeys
    /\ o.fallbackStore \in StoreConfigs \cup {NoFallback, MemoryFallback}
    /\ o.cleanupInterval \in Nat

\* The stores in use are custom ones or memory stores that the registry has built.
Tracks(r) ==
    /\ IsInjective(r.activeStores)
    /\ \A s \in ToSet(r.activeStores) \ CustomStores : \E m \in 1 .. r.built : s = <<r.owner, m>>

ConfigFor(key, o) == IF key = UndefinedStore THEN o.store ELSE key

\* Each key has its configuration's custom store, or a memory store of its own.
Caches(r, o) ==
    /\ r.fallback # NoStore => r.fallback \in ToSet(r.activeStores)
    /\ \A k \in DOMAIN r.cache :
        /\ r.cache[k] \in ToSet(r.activeStores)
        /\ ConfigFor(k, o).kind = "custom" => r.cache[k] = ConfigFor(k, o).store
        /\ ConfigFor(k, o).kind # "custom" =>
              /\ r.cache[k] \notin CustomStores /\ r.cache[k] # r.fallback
              /\ \A j \in DOMAIN r.cache \ {k} : r.cache[j] # r.cache[k]

\* One timer for each store in use that can be cleaned up, and no other.
Timed(r, o) ==
    /\ IsInjective(r.running)
    /\ ToSet(r.running) = r.cleanupTimers
    /\ r.cleanupTimers = {s \in ToSet(r.activeStores) : HasCleanup(s) /\ o.cleanupInterval > 0}

\* The registry of the l-th limiter, with options o, before it is closed.
Sound(r, l, o) ==
    /\ r \in Registries /\ r.owner = l /\ r.closed = <<>>
    /\ Tracks(r) /\ Caches(r, o) /\ Timed(r, o)

LEMMA MemoryStoresAreStores ==
    ASSUME NEW l \in Nat, NEW n \in Nat
    PROVE  <<l, n>> \in Stores /\ <<l, n>> \notin CustomStores /\ NoStore \in Stores
  BY CustomObjects DEF Stores, NoStore

LEMMA AddsNew ==
    ASSUME NEW s \in Stores, NEW stores \in Seq(Stores), IsInjective(stores)
    PROVE  /\ AddNew(s, stores) \in Seq(Stores) /\ IsInjective(AddNew(s, stores))
           /\ ToSet(AddNew(s, stores)) = ToSet(stores) \cup {s}
  <1>1. Contains(stores, s) <=> s \in ToSet(stores)
    BY DEF Contains, ToSet
  <1> QED
    BY <1>1, Appended DEF AddNew

\* n is r with s in use.
Registered(n, r, s, o) ==
    /\ n \in Registries /\ n.owner = r.owner /\ n.built = r.built /\ n.cache = r.cache
    /\ n.fallback = r.fallback /\ n.closed = r.closed
    /\ IsInjective(n.activeStores)
    /\ ToSet(n.activeStores) = ToSet(r.activeStores) \cup {s}
    /\ Timed(n, o)

LEMMA Registers ==
    ASSUME NEW r \in Registries, NEW s \in Stores, NEW o, o.cleanupInterval \in Nat,
           IsInjective(r.activeStores), Timed(r, o)
    PROVE  Registered(RegisterStore(r, s, o.cleanupInterval), r, s, o)
  <1> DEFINE n == RegisterStore(r, s, o.cleanupInterval)
             timed == HasCleanup(s) /\ o.cleanupInterval > 0 /\ s \notin r.cleanupTimers
             active == AddNew(s, r.activeStores)
             timers == IF timed THEN r.cleanupTimers \cup {s} ELSE r.cleanupTimers
             run    == IF timed THEN Append(r.running, s) ELSE r.running
  <1>1. n = [r EXCEPT !.activeStores = active, !.cleanupTimers = timers, !.running = run]
    BY DEF RegisterStore
  <1> HIDE DEF n
  <1>2. r.activeStores \in Seq(Stores) /\ r.running \in Seq(Stores) /\ r.cleanupTimers \subseteq Stores
    BY DEF Registries
  <1>3. active \in Seq(Stores) /\ IsInjective(active) /\ ToSet(active) = ToSet(r.activeStores) \cup {s}
    BY <1>2, AddsNew
  <1>4. timers \in SUBSET Stores
    BY <1>2
  <1>5. run \in Seq(Stores) /\ IsInjective(run) /\ ToSet(run) = timers
    <2>1. IsInjective(r.running) /\ ToSet(r.running) = r.cleanupTimers
      BY DEF Timed
    <2>2. CASE timed
      <3>1. s \notin ToSet(r.running)
        BY <2>1, <2>2
      <3>2. /\ Append(r.running, s) \in Seq(Stores) /\ IsInjective(Append(r.running, s))
            /\ ToSet(Append(r.running, s)) = ToSet(r.running) \cup {s}
        BY <1>2, <2>1, <3>1, Appended
      <3> QED
        BY <2>1, <2>2, <3>2
    <2>3. CASE ~timed
      BY <1>2, <2>1, <2>3
    <2> QED
      BY <2>2, <2>3
  <1>6. timers = {t \in ToSet(active) : HasCleanup(t) /\ o.cleanupInterval > 0}
    BY <1>3 DEF Timed
  <1> HIDE DEF active, timers, run
  <1>7. /\ n \in Registries /\ n.owner = r.owner /\ n.built = r.built /\ n.cache = r.cache
        /\ n.fallback = r.fallback /\ n.closed = r.closed
        /\ n.activeStores = active /\ n.cleanupTimers = timers /\ n.running = run
    BY <1>1, <1>3, <1>4, <1>5 DEF Registries
  <1> QED
    BY <1>3, <1>5, <1>6, <1>7 DEF Timed, Registered, n

LEMMA BuildsAStore ==
    ASSUME NEW r \in Registries, NEW config, config.kind = "custom" => config \in StoreConfigs,
           Tracks(r), r.owner # 0,
           NEW s, s = BuildStore(r, config), NEW b, b = Built(r, config)
    PROVE  /\ b \in Registries
           /\ b = [r EXCEPT !.built = b.built] /\ b.built \in Nat /\ r.built <= b.built
           /\ s \in Stores
           /\ config.kind = "custom" => s = config.store /\ s \in CustomStores
           /\ config.kind # "custom" =>
                 /\ s = <<r.owner, b.built>> /\ b.built \in 1 .. b.built
                 /\ s \notin CustomStores /\ s # NoStore
                 /\ s \notin ToSet(r.activeStores)
  <1>1. r.owner \in Nat /\ r.built \in Nat
    BY DEF Registries
  <1>2. CASE config.kind = "custom"
    <2>1. config.store \in CustomStores
      BY <1>2 DEF StoreConfigs
    <2>2. b = r /\ s = config.store
      BY <1>2 DEF Built, BuildStore, Registries
    <2> QED
      BY <1>1, <1>2, <2>1, <2>2 DEF Stores, Registries
  <1>3. CASE config.kind # "custom"
    <2> DEFINE m == r.built + 1
    <2>1. b = [r EXCEPT !.built = m] /\ s = <<r.owner, m>>
      BY <1>3 DEF Built, BuildStore
    <2>2. m \in Nat /\ r.built <= m /\ m \in 1 .. m /\ ~(m \in 1 .. r.built)
      BY <1>1
    <2> HIDE DEF m
    <2>3. b \in Registries /\ b.built = m
      BY <2>1, <2>2 DEF Registries
    <2>4. s \in Stores /\ s \notin CustomStores /\ s # NoStore
      BY <1>1, <2>1, <2>2, MemoryStoresAreStores DEF NoStore
    <2>5. s \notin ToSet(r.activeStores)
      <3>1. ASSUME s \in ToSet(r.activeStores) PROVE FALSE
        <4>1. PICK k \in 1 .. r.built : s = <<r.owner, k>>
          BY <2>4, <3>1 DEF Tracks
        <4> QED
          BY <2>1, <2>2, <4>1
      <3> QED
        BY <3>1
    <2> QED
      BY <1>3, <2>1, <2>2, <2>3, <2>4, <2>5
  <1> QED
    BY <1>2, <1>3

LEMMA CreatesSound ==
    ASSUME NEW l \in Nat \ {0}, NEW o, HasStoreOptions(o)
    PROVE  Sound(CreateStoreRegistry(l, o), l, o)
  <1> DEFINE e == EmptyRegistry(l)
  <1>1. [key \in {} |-> NoStore] \in [{} -> Stores]
    OBVIOUS
  <1>2. [key \in {} |-> NoStore] \in UNION {[K -> Stores] : K \in SUBSET StoreKeys}
    BY <1>1
  <1>3. e \in Registries
    BY <1>2, MemoryStoresAreStores DEF EmptyRegistry, Registries, NoStore
  <1>4. /\ e.owner = l /\ e.built = 0 /\ DOMAIN e.cache = {} /\ e.fallback = NoStore
        /\ e.activeStores = <<>> /\ e.cleanupTimers = {} /\ e.running = <<>> /\ e.closed = <<>>
    BY DEF EmptyRegistry
  <1> HIDE DEF e
  <1>5. ToSet(<<>>) = {} /\ IsInjective(<<>>)
    BY DEF ToSet, IsInjective
  <1>6. Tracks(e) /\ Timed(e, o)
    BY <1>4, <1>5 DEF Tracks, Timed
  <1>7. Caches(e, o)
    BY <1>4 DEF Caches
  <1>8. CASE o.fallbackStore = NoFallback
    <2>1. CreateStoreRegistry(l, o) = e
      BY <1>8 DEF CreateStoreRegistry, e
    <2> QED
      BY <1>3, <1>4, <1>6, <1>7, <2>1 DEF Sound
  <1>9. CASE o.fallbackStore # NoFallback
    <2> DEFINE f == BuildStore(e, o.fallbackStore)
               b == Built(e, o.fallbackStore)
               n == RegisterStore(b, f, o.cleanupInterval)
               c == [n EXCEPT !.fallback = f]
    <2>1. o.fallbackStore.kind = "custom" => o.fallbackStore \in StoreConfigs
      BY DEF HasStoreOptions, MemoryFallback, NoFallback
    <2>2. /\ b \in Registries /\ b = [e EXCEPT !.built = b.built] /\ b.built \in Nat
          /\ f \in Stores
          /\ f \notin CustomStores => f = <<l, b.built>> /\ b.built \in 1 .. b.built
      BY <1>3, <1>4, <1>6, <2>1, BuildsAStore
    <2> HIDE DEF f, b
    <2>3. /\ b.owner = l /\ b.cache = e.cache /\ b.fallback = NoStore
          /\ b.activeStores = <<>> /\ b.cleanupTimers = {} /\ b.running = <<>> /\ b.closed = <<>>
      BY <1>3, <1>4, <2>2 DEF Registries
    <2>4. IsInjective(b.activeStores) /\ Timed(b, o) /\ o.cleanupInterval \in Nat
      BY <1>5, <2>3 DEF Timed, HasStoreOptions
    <2>10. Registered(n, b, f, o)
      BY <2>2, <2>4, Registers
    <2> HIDE DEF n
    <2>5. /\ n \in Registries /\ n.owner = l /\ n.built = b.built /\ n.cache = e.cache
          /\ n.closed = <<>> /\ IsInjective(n.activeStores)
          /\ ToSet(n.activeStores) = {f}
          /\ Timed(n, o)
      BY <1>5, <2>3, <2>10 DEF Registered
    <2>6. /\ c \in Registries /\ c.owner = l /\ c.built = b.built /\ c.cache = e.cache
          /\ c.closed = <<>> /\ c.activeStores = n.activeStores /\ c.fallback = f
          /\ c.running = n.running /\ c.cleanupTimers = n.cleanupTimers
      BY <2>2, <2>5 DEF Registries
    <2>7. CreateStoreRegistry(l, o) = c
      BY <1>9 DEF CreateStoreRegistry, c, n, b, f, e
    <2> HIDE DEF c
    <2>8. Tracks(c) /\ Timed(c, o)
      BY <2>2, <2>5, <2>6 DEF Tracks, Timed
    <2>9. Caches(c, o)
      BY <1>4, <2>5, <2>6 DEF Caches
    <2> QED
      BY <2>6, <2>7, <2>8, <2>9 DEF Sound
  <1> QED
    BY <1>8, <1>9

\* A later lookup leaves the stores that were handed out before in their places.
Extends(n, r) ==
    /\ n.fallback = r.fallback
    /\ DOMAIN r.cache \subseteq DOMAIN n.cache
    /\ \A k \in DOMAIN r.cache : n.cache[k] = r.cache[k]

LEMMA LooksUpSound ==
    ASSUME NEW l \in Nat \ {0}, NEW o, HasStoreOptions(o), NEW r, Sound(r, l, o),
           NEW config \in StoreKeys, NEW n, n = WithStoreFor(r, config, o)
    PROVE  Sound(n, l, o) /\ Extends(n, r) /\ config \in DOMAIN n.cache
  <1>1. CASE config \in DOMAIN r.cache
    BY <1>1 DEF WithStoreFor, RuleStoreCacheKey, Extends
  <1>2. CASE config \notin DOMAIN r.cache
    <2> DEFINE own == ConfigFor(config, o)
               s   == BuildStore(r, own)
               b   == Built(r, own)
               new == RegisterStore(b, s, o.cleanupInterval)
               cache == [k \in DOMAIN new.cache \cup {config} |->
                            IF k = config THEN s ELSE new.cache[k]]
    <2>1. n = [new EXCEPT !.cache = cache]
      BY <1>2 DEF WithStoreFor, RuleStoreCacheKey, ConfigFor
    <2>2. own.kind = "custom" => own \in StoreConfigs
      BY DEF ConfigFor, HasStoreOptions, StoreKeys, UndefinedStore
    <2>3. /\ r \in Registries /\ r.owner = l /\ r.closed = <<>> /\ Tracks(r) /\ Caches(r, o)
          /\ Timed(r, o)
      BY DEF Sound
    <2>4. /\ b \in Registries
          /\ b = [r EXCEPT !.built = b.built] /\ b.built \in Nat /\ r.built <= b.built
          /\ s \in Stores
          /\ own.kind = "custom" => s = own.store /\ s \in CustomStores
          /\ own.kind # "custom" =>
                /\ s = <<l, b.built>> /\ b.built \in 1 .. b.built
                /\ s \notin CustomStores /\ s # NoStore /\ s \notin ToSet(r.activeStores)
      BY <2>2, <2>3, BuildsAStore
    <2> HIDE DEF own, s, b
    <2>5. /\ b.owner = l /\ b.closed = <<>> /\ b.cache = r.cache /\ b.fallback = r.fallback
          /\ b.activeStores = r.activeStores /\ b.running = r.running
          /\ b.cleanupTimers = r.cleanupTimers
      BY <2>3, <2>4 DEF Registries
    <2>6. IsInjective(b.activeStores) /\ Timed(b, o) /\ o.cleanupInterval \in Nat
      BY <2>3, <2>5 DEF Timed, HasStoreOptions, Tracks
    <2>7. /\ new \in Registries /\ new.owner = l /\ new.built = b.built /\ new.cache = r.cache
          /\ new.fallback = r.fallback /\ new.closed = <<>>
          /\ IsInjective(new.activeStores)
          /\ ToSet(new.activeStores) = ToSet(r.activeStores) \cup {s}
          /\ Timed(new, o)
      <3>1. Registered(new, b, s, o)
        BY <2>4, <2>6, Registers
      <3> HIDE DEF new
      <3> QED
        BY <2>3, <2>5, <3>1 DEF Registered
    <2> HIDE DEF new
    <2>8. DOMAIN r.cache \subseteq StoreKeys /\ r.cache \in [DOMAIN r.cache -> Stores]
      BY <2>3 DEF Registries
    <2>9. cache \in [DOMAIN r.cache \cup {config} -> Stores]
      BY <2>4, <2>7, <2>8
    <2>10. cache \in UNION {[K -> Stores] : K \in SUBSET StoreKeys}
      <3>1. DOMAIN r.cache \cup {config} \in SUBSET StoreKeys
        BY <2>8
      <3> QED
        BY <2>9, <3>1
    <2>11. /\ DOMAIN cache = DOMAIN r.cache \cup {config} /\ cache[config] = s
           /\ \A k \in DOMAIN r.cache : k # config /\ cache[k] = r.cache[k]
      BY <1>2, <2>7
    <2> HIDE DEF cache
    <2>12. /\ n \in Registries /\ n.owner = l /\ n.built = b.built /\ n.cache = cache
           /\ n.fallback = r.fallback /\ n.closed = <<>> /\ n.activeStores = new.activeStores
           /\ n.running = new.running /\ n.cleanupTimers = new.cleanupTimers
      BY <2>1, <2>7, <2>10 DEF Registries
    <2>13. Tracks(n)
      <3>1. ASSUME NEW t \in ToSet(n.activeStores) \ CustomStores
            PROVE  \E m \in 1 .. n.built : t = <<n.owner, m>>
        <4>1. CASE t = s
          BY <2>4, <2>12, <3>1, <4>1
        <4>2. CASE t # s
          <5>1. t \in ToSet(r.activeStores) \ CustomStores
            BY <2>7, <2>12, <3>1, <4>2
          <5>2. PICK m \in 1 .. r.built : t = <<l, m>>
            BY <2>3, <5>1 DEF Tracks
          <5>3. r.built \in Nat
            BY <2>3 DEF Registries
          <5>4. m \in 1 .. b.built
            BY <2>4, <5>2, <5>3
          <5> QED
            BY <2>12, <5>2, <5>4
        <4> QED
          BY <4>1, <4>2
      <3> QED
        BY <2>7, <2>12, <3>1 DEF Tracks
    <2>14. Timed(n, o)
      BY <2>7, <2>12 DEF Timed
    <2>15. Caches(n, o)
      <3>1. n.fallback # NoStore => n.fallback \in ToSet(n.activeStores)
        BY <2>3, <2>7, <2>12 DEF Caches
      <3>2. ASSUME NEW k \in DOMAIN n.cache
            PROVE  /\ n.cache[k] \in ToSet(n.activeStores)
                   /\ ConfigFor(k, o).kind = "custom" => n.cache[k] = ConfigFor(k, o).store
                   /\ ConfigFor(k, o).kind # "custom" =>
                         /\ n.cache[k] \notin CustomStores /\ n.cache[k] # n.fallback
                         /\ \A j \in DOMAIN n.cache \ {k} : n.cache[j] # n.cache[k]
        <4>1. CASE k = config
          <5>1. n.cache[k] = s /\ ConfigFor(k, o) = own
            BY <2>11, <2>12, <4>1 DEF own
          <5>2. \A j \in DOMAIN n.cache \ {k} :
                    n.cache[j] \in ToSet(r.activeStores)
            BY <2>3, <2>11, <2>12, <4>1 DEF Caches
          <5> QED
            BY <2>3, <2>4, <2>7, <2>12, <5>1, <5>2 DEF Caches
        <4>2. CASE k # config
          <5>1. k \in DOMAIN r.cache /\ n.cache[k] = r.cache[k]
            BY <2>11, <2>12, <4>2
          <5>2. /\ r.cache[k] \in ToSet(r.activeStores)
                /\ ConfigFor(k, o).kind = "custom" => r.cache[k] = ConfigFor(k, o).store
                /\ ConfigFor(k, o).kind # "custom" =>
                     /\ r.cache[k] \notin CustomStores /\ r.cache[k] # r.fallback
                     /\ \A j \in DOMAIN r.cache \ {k} : r.cache[j] # r.cache[k]
            BY <2>3, <5>1 DEF Caches
          <5>3. ConfigFor(k, o).kind # "custom" => s # r.cache[k]
            BY <2>4, <5>2
          <5>4. \A j \in DOMAIN n.cache : n.cache[j] = s \/ (j \in DOMAIN r.cache /\ n.cache[j] = r.cache[j])
            BY <2>11, <2>12
          <5> QED
            BY <2>7, <2>12, <5>1, <5>2, <5>3, <5>4
        <4> QED
          BY <4>1, <4>2
      <3> QED
        BY <3>1, <3>2 DEF Caches
    <2>16. Extends(n, r) /\ config \in DOMAIN n.cache
      BY <2>11, <2>12 DEF Extends
    <2> QED
      BY <2>12, <2>13, <2>14, <2>15, <2>16 DEF Sound
  <1> QED
    BY <1>1, <1>2

\* The lookups for the rules of a limiter, or for those of the routes.
IsLookup(after, r, for, o) ==
    /\ DOMAIN after = 0 .. Len(for)
    /\ after[0] = [registry |-> r, threw |-> FALSE]
    /\ \A n \in 1 .. Len(for) :
          after[n] =
              IF after[n - 1].threw \/ ~IsValidRule(for[n])
              THEN [registry |-> after[n - 1].registry, threw |-> TRUE]
              ELSE [registry |-> WithStoreFor(after[n - 1].registry, for[n].store, o),
                    threw |-> ~Supported(WithStoreFor(after[n - 1].registry, for[n].store, o),
                                         for[n])]
    /\ WithStoresFor(r, for, o) = after[Len(for)]

SoundRegistries(l, o) == {r \in Registries : Sound(r, l, o)}

LEMMA LookupRun ==
    ASSUME NEW l \in Nat \ {0}, NEW o, HasStoreOptions(o), NEW r, Sound(r, l, o),
           NEW R, NEW for \in Seq(R), \A rule \in R : rule.store \in StoreKeys
    PROVE  \E after \in [0 .. Len(for) -> [registry : SoundRegistries(l, o), threw : BOOLEAN]] :
              IsLookup(after, r, for, o)
  <1> DEFINE N == Len(for)
             Q == [registry : SoundRegistries(l, o), threw : BOOLEAN]
             Start == [registry |-> r, threw |-> FALSE]
             Next1(b, n) == WithStoreFor(b.registry, for[n].store, o)
             Turn(b, n) == IF b.threw \/ ~IsValidRule(for[n])
                           THEN [registry |-> b.registry, threw |-> TRUE]
                           ELSE [registry |-> Next1(b, n), threw |-> ~Supported(Next1(b, n), for[n])]
             step == [n \in 1 .. N |-> [b \in Q |-> Turn(b, n)]]
             Body(g) == [n \in 0 .. N |-> IF n = 0 THEN Start ELSE Turn(g[n - 1], n)]
  <1>1. N \in Nat /\ DOMAIN for = 1 .. N /\ \A n \in 1 .. N : for[n].store \in StoreKeys
    OBVIOUS
  <1>2. Start \in Q
    BY DEF Sound, SoundRegistries
  <1>3. ASSUME NEW n \in 1 .. N, NEW b \in Q PROVE Turn(b, n) \in Q
    <2>1. b.registry \in SoundRegistries(l, o) /\ b.threw \in BOOLEAN
      OBVIOUS
    <2>2. Sound(b.registry, l, o)
      BY <2>1 DEF SoundRegistries
    <2>3. for[n].store \in StoreKeys
      BY <1>1
    <2>4. Sound(Next1(b, n), l, o)
      BY <2>2, <2>3, LooksUpSound
    <2>5. Next1(b, n) \in SoundRegistries(l, o)
      BY <2>4 DEF SoundRegistries, Sound
    <2> HIDE DEF Next1
    <2>6. (~Supported(Next1(b, n), for[n])) \in BOOLEAN
      OBVIOUS
    <2> QED
      BY <2>1, <2>5, <2>6
  <1> HIDE DEF N, Q, Turn, Start
  <1>4. step \in [1 .. N -> [Q -> Q]]
    BY <1>3
  <1>5. PICK f \in [0 .. N -> Q] :
            f[0] = Start /\ \A n \in 1 .. N : f[n] = step[n][f[n - 1]]
    <2> HIDE DEF step
    <2>1. \E f : IsRun(f, Q, Start, N, step)
      BY <1>1, <1>2, <1>4, Iteration
    <2> QED
      BY <2>1 DEF IsRun
  <1>6. ASSUME NEW n \in 1 .. N PROVE f[n] = Turn(f[n - 1], n)
    <2>1. n - 1 \in 0 .. N
      BY <1>1
    <2>2. f[n - 1] \in Q
      BY <1>5, <2>1
    <2> QED
      BY <1>5, <2>1, <2>2
  <1>7. f = Body(f)
    <2>1. \A n \in 0 .. N : n = 0 \/ n \in 1 .. N
      BY <1>1
    <2>2. \A n \in 0 .. N : f[n] = IF n = 0 THEN Start ELSE Turn(f[n - 1], n)
      BY <1>5, <1>6, <2>1
    <2> QED
      BY <1>5, <2>2
  <1> DEFINE L == CHOOSE g : g = Body(g)
  <1>8. WithStoresFor(r, for, o) = L[N]
    BY DEF WithStoresFor, N, Turn, Start
  <1>9. L = Body(L)
    <2> HIDE DEF Body
    <2> QED
      BY <1>7
  <1> HIDE DEF L
  <1>10. DOMAIN L = 0 .. N /\ L[0] = Start /\ \A n \in 1 .. N : L[n] = Turn(L[n - 1], n)
    <2>1. ASSUME NEW g
          PROVE  /\ DOMAIN Body(g) = 0 .. N /\ Body(g)[0] = Start
                 /\ \A n \in 1 .. N : Body(g)[n] = Turn(g[n - 1], n)
      BY <1>1
    <2> HIDE DEF Body
    <2> QED
      BY <1>9, <2>1
  <1>11. \A n \in 0 .. N : L[n] \in Q
    <2> DEFINE T == {n \in 0 .. N : L[n] \in Q}
    <2>1. 0 \in T
      BY <1>1, <1>2, <1>10
    <2>2. ASSUME NEW n \in 0 .. N - 1, n \in T PROVE n + 1 \in T
      <3>1. n + 1 \in 1 .. N /\ n + 1 \in 0 .. N /\ (n + 1) - 1 = n
        BY <1>1
      <3>2. L[n + 1] = Turn(L[n], n + 1)
        BY <1>10, <3>1
      <3> QED
        BY <1>3, <2>2, <3>1, <3>2
    <2>3. \A n \in 0 .. N - 1 : n \in T => n + 1 \in T
      BY <2>2
    <2> HIDE DEF T
    <2>4. 0 .. N \subseteq T
      BY <1>1, <2>1, <2>3, Induction
    <2> QED
      BY <2>4 DEF T
  <1>12. L \in [0 .. N -> Q]
    <2>1. L = [n \in 0 .. N |-> L[n]]
      BY <1>9, <1>10
    <2> QED
      BY <1>11, <2>1
  <1>13. IsLookup(L, r, for, o)
    BY <1>8, <1>10 DEF IsLookup, N, Turn, Start
  <1> QED
    BY <1>12, <1>13 DEF N, Q

\* The rule has a store in r that can count for it, and so can the fallback.
Stored(r, rule) ==
    rule.store \in DOMAIN r.cache /\ Supported(r, rule) /\ IsValidRule(rule)

LEMMA ExtendsKeepsStored ==
    ASSUME NEW n, NEW r, Extends(n, r), NEW rule, Stored(r, rule)
    PROVE  Stored(n, rule)
  <1>1. StoreFor(n, rule.store) = StoreFor(r, rule.store) /\ n.fallback = r.fallback
    BY DEF Extends, Stored, StoreFor, RuleStoreCacheKey
  <1>2. rule.store \in DOMAIN n.cache
    BY DEF Extends, Stored
  <1>3. Supported(n, rule)
    BY <1>1 DEF Stored, Supported
  <1> QED
    BY <1>2, <1>3 DEF Stored

LEMMA LookupsSound ==
    ASSUME NEW l \in Nat \ {0}, NEW o, HasStoreOptions(o), NEW r, Sound(r, l, o),
           NEW R, NEW for \in Seq(R), \A rule \in R : rule.store \in StoreKeys
    PROVE  /\ Sound(WithStoresFor(r, for, o).registry, l, o)
           /\ Extends(WithStoresFor(r, for, o).registry, r)
           /\ WithStoresFor(r, for, o).threw \in BOOLEAN
           /\ ~WithStoresFor(r, for, o).threw =>
                 \A i \in DOMAIN for : Stored(WithStoresFor(r, for, o).registry, for[i])
  <1> DEFINE N == Len(for)
  <1>1. PICK L \in [0 .. N -> [registry : SoundRegistries(l, o), threw : BOOLEAN]] :
            IsLookup(L, r, for, o)
    BY LookupRun
  <1>2. N \in Nat /\ DOMAIN for = 1 .. N /\ \A n \in 1 .. N : for[n].store \in StoreKeys
    OBVIOUS
  <1>3. \A n \in 0 .. N : Sound(L[n].registry, l, o) /\ L[n].threw \in BOOLEAN
    BY <1>1 DEF SoundRegistries
  <1> HIDE DEF N
  <1> DEFINE Good(n) == /\ Extends(L[n].registry, r)
                        /\ ~L[n].threw => \A i \in 1 .. n : Stored(L[n].registry, for[i])
             T == {n \in 0 .. N : Good(n)}
  <1>4. 0 \in T
    <2>1. L[0] = [registry |-> r, threw |-> FALSE]
      BY <1>1 DEF IsLookup
    <2>2. Extends(r, r)
      BY DEF Extends
    <2>3. 1 .. 0 = {} /\ 0 \in 0 .. N
      BY <1>2
    <2> QED
      BY <2>1, <2>2, <2>3
  <1>5. ASSUME NEW n \in 0 .. N - 1, n \in T PROVE n + 1 \in T
    <2> DEFINE k == n + 1
               x == L[n].registry
               y == WithStoreFor(x, for[k].store, o)
    <2>1. k \in 1 .. N /\ k \in 0 .. N /\ k - 1 = n /\ n \in 0 .. N
      BY <1>2
    <2>2. L[k] = IF L[n].threw \/ ~IsValidRule(for[k]) THEN [registry |-> x, threw |-> TRUE]
                 ELSE [registry |-> y, threw |-> ~Supported(y, for[k])]
      BY <1>1, <2>1 DEF IsLookup, N
    <2>3. Good(n)
      BY <1>5
    <2>4. Sound(x, l, o) /\ for[k].store \in StoreKeys
      BY <1>2, <1>3, <2>1
    <2>5. Extends(y, x) /\ for[k].store \in DOMAIN y.cache
      BY <2>4, LooksUpSound
    <2>6. \A i \in 1 .. k : i \in 1 .. n \/ i = k
      BY <1>2
    <2> HIDE DEF k, x, y
    <2>7. CASE L[n].threw \/ ~IsValidRule(for[k])
      <3>1. L[k].registry = x /\ L[k].threw
        BY <2>2, <2>7
      <3>2. Good(k)
        BY <2>3, <3>1 DEF x
      <3> QED
        BY <2>1, <3>2 DEF k
    <2>8. CASE ~L[n].threw /\ IsValidRule(for[k])
      <3>1. L[k].registry = y /\ (~L[k].threw => Supported(y, for[k]))
        <4>1. L[k] = [registry |-> y, threw |-> ~Supported(y, for[k])]
          BY <2>2, <2>8, Zenon
        <4>2. \A u : LET b == [registry |-> y, threw |-> u] IN b.registry = y /\ b.threw = u
          OBVIOUS
        <4> QED
          BY <4>1, <4>2, Zenon
      <3>2. Extends(y, r)
        BY <2>3, <2>5 DEF Extends, x
      <3>3. \A i \in 1 .. n : Stored(y, for[i])
        BY <2>3, <2>5, <2>8, ExtendsKeepsStored DEF x
      <3>4. Supported(y, for[k]) => Stored(y, for[k])
        BY <2>5, <2>8 DEF Stored
      <3>5. Good(k)
        BY <2>6, <3>1, <3>2, <3>3, <3>4
      <3> QED
        BY <2>1, <3>5 DEF k
    <2> QED
      BY <2>7, <2>8 DEF k
  <1>6. \A n \in 0 .. N - 1 : n \in T => n + 1 \in T
    BY <1>5
  <1> HIDE DEF T
  <1>7. N \in T
    <2>1. 0 .. N \subseteq T
      BY <1>2, <1>4, <1>6, Induction
    <2> QED
      BY <1>2, <2>1
  <1>8. Good(N) /\ N \in 0 .. N /\ WithStoresFor(r, for, o) = L[N]
    BY <1>1, <1>2, <1>7 DEF IsLookup, T, N
  <1> QED
    BY <1>2, <1>3, <1>8

-----------------------------------------------------------------------------
(* The stop of a registry.                                                 *)

\* A closed registry runs no timer and has closed each store once at most; it has
\* closed them all unless a close() threw.
Released(r) ==
    /\ r.running = <<>>
    /\ IsInjective(r.closed) /\ ToSet(r.closed) \subseteq WithClose
    /\ CloseSucceeds(r) => ToSet(r.closed) = ToSet(r.activeStores) \cap WithClose

LEMMA MinIsMember ==
    ASSUME NEW U \in SUBSET Nat, U # {}
    PROVE  Min(U) \in U
  <1>1. PICK x \in U : \A y \in U : ~(<<y, x>> \in OpToRel(<, Nat))
    BY NatLessThanWellFounded, WFMin
  <1>2. ASSUME NEW y \in U PROVE x =< y
    <2>1. SUFFICES ASSUME ~(x =< y) PROVE FALSE
      OBVIOUS
    <2>2. x \in Nat /\ y \in Nat /\ y < x
      BY <2>1
    <2>3. <<y, x>> \in OpToRel(<, Nat)
      BY <2>2 DEF OpToRel
    <2> QED
      BY <1>1, <2>3
  <1>3. \E z \in U : \A y \in U : z =< y
    BY <1>2
  <1> QED
    BY <1>3, Zenon DEF Min

LEMMA Prefix ==
    ASSUME NEW S, NEW s \in Seq(S), NEW n \in 0 .. Len(s)
    PROVE  /\ SubSeq(s, 1, n) \in Seq(S)
           /\ ToSet(SubSeq(s, 1, n)) \subseteq ToSet(s)
           /\ IsInjective(s) => IsInjective(SubSeq(s, 1, n))
           /\ n = Len(s) => SubSeq(s, 1, n) = s
  <1>1. /\ Len(s) \in Nat /\ n \in Int /\ DOMAIN s = 1 .. Len(s)
        /\ 1 .. n \subseteq 1 .. Len(s) /\ \A i \in 1 .. n : s[i] \in S
    OBVIOUS
  <1>2. /\ SubSeq(s, 1, n) \in Seq(S) /\ Len(SubSeq(s, 1, n)) = n
        /\ \A i \in 1 .. n : SubSeq(s, 1, n)[i] = s[i]
    <2>1. /\ SubSeq(s, 1, n) \in Seq(S)
          /\ Len(SubSeq(s, 1, n)) = IF 1 <= n THEN n - 1 + 1 ELSE 0
          /\ \A i \in 1 .. n - 1 + 1 : SubSeq(s, 1, n)[i] = s[1 + i - 1]
      BY <1>1, SubSeqProperties
    <2>2. (IF 1 <= n THEN n - 1 + 1 ELSE 0) = n /\ n - 1 + 1 = n
      BY <1>1
    <2>3. \A i \in 1 .. n : 1 + i - 1 = i
      BY <1>1
    <2> QED
      BY <2>1, <2>2, <2>3
  <1>3. DOMAIN SubSeq(s, 1, n) = 1 .. n
    BY <1>2
  <1>4. ToSet(SubSeq(s, 1, n)) \subseteq ToSet(s)
    BY <1>1, <1>2, <1>3 DEF ToSet
  <1>5. IsInjective(s) => IsInjective(SubSeq(s, 1, n))
    BY <1>1, <1>2, <1>3 DEF IsInjective
  <1>6. n = Len(s) => SubSeq(s, 1, n) = s
    BY SubSeqFull
  <1> QED
    BY <1>2, <1>4, <1>5, <1>6

LEMMA ClosesAll ==
    ASSUME NEW r \in Registries, IsInjective(r.activeStores), NEW n, n = Close(r)
    PROVE  /\ n \in Registries /\ n.owner = r.owner /\ n.built = r.built /\ n.cache = r.cache
           /\ n.fallback = r.fallback /\ n.activeStores = r.activeStores
           /\ Released(n)
  <1> DEFINE closable == OnlyIn(r.activeStores, WithClose)
             throwing == {i \in DOMAIN closable : closable[i] \in CloseThrows}
             last     == IF throwing = {} THEN Len(closable) ELSE Min(throwing)
             closed   == SubSeq(closable, 1, last)
  <1>1. n = [r EXCEPT !.running = <<>>, !.closed = closed]
    BY DEF Close
  <1>2. /\ r.activeStores \in Seq(Stores)
        /\ closable \in Seq(Stores) /\ IsInjective(closable)
        /\ ToSet(closable) = ToSet(r.activeStores) \cap WithClose
    BY OnlyInKeeps DEF Registries
  <1>3. CloseSucceeds(r) => throwing = {}
    <2>1. \A i \in DOMAIN closable : closable[i] \in ToSet(r.activeStores)
      BY <1>2 DEF ToSet
    <2> HIDE DEF closable
    <2> QED
      BY <2>1 DEF CloseSucceeds, ToSet
  <1> HIDE DEF closable
  <1>4. Len(closable) \in Nat /\ DOMAIN closable = 1 .. Len(closable)
    BY <1>2
  <1>5. last \in 0 .. Len(closable)
    <2>1. CASE throwing = {}
      BY <1>4, <2>1
    <2>2. CASE throwing # {}
      <3>1. throwing \in SUBSET Nat
        BY <1>4
      <3>2. Min(throwing) \in throwing
        BY <2>2, <3>1, MinIsMember
      <3>3. Min(throwing) \in 1 .. Len(closable)
        BY <1>4, <3>2
      <3> HIDE DEF throwing
      <3> QED
        BY <1>4, <2>2, <3>3
    <2> QED
      BY <2>1, <2>2
  <1>6. throwing = {} => last = Len(closable)
    OBVIOUS
  <1> HIDE DEF last, throwing
  <1>7. /\ closed \in Seq(Stores) /\ ToSet(closed) \subseteq ToSet(closable)
        /\ IsInjective(closed) /\ (last = Len(closable) => closed = closable)
    BY <1>2, <1>5, Prefix
  <1> HIDE DEF closed
  <1>8. <<>> \in Seq(Stores)
    OBVIOUS
  <1>9. /\ n \in Registries /\ n.owner = r.owner /\ n.built = r.built /\ n.cache = r.cache
        /\ n.fallback = r.fallback /\ n.activeStores = r.activeStores
        /\ n.running = <<>> /\ n.closed = closed
    BY <1>1, <1>7, <1>8 DEF Registries
  <1>10. CloseSucceeds(n) => CloseSucceeds(r)
    BY <1>9 DEF CloseSucceeds
  <1> QED
    BY <1>2, <1>3, <1>6, <1>7, <1>9, <1>10 DEF Released

-----------------------------------------------------------------------------
(* The registries of an application.                                       *)

\* What the hits see of a registry, closed or not.
Usable(r, l, o) == r \in Registries /\ r.owner = l /\ Tracks(r) /\ Caches(r, o)

Installed == {"declaring", "serving", "stopping", "stopped"}

RegistriesKept ==
    /\ app \in Applications
    /\ phase \in {"installing", "failed"} \cup Installed
    /\ registry \in Seq(Registries) /\ Len(registry) <= Len(app.limiters)
    /\ phase = "installing" => Len(registry) < Len(app.limiters)
    /\ phase \in Installed => Len(registry) = Len(app.limiters)
    /\ stopAt \in 1 .. Len(app.limiters) + 1
    /\ phase \notin {"stopping", "stopped"} => stopAt = 1
    /\ phase = "stopping" => stopAt <= Len(app.limiters)
    /\ \A l \in DOMAIN registry :
        /\ Usable(registry[l], l, app.limiters[l])
        /\ l >= stopAt => Sound(registry[l], l, app.limiters[l])
        /\ l < stopAt => Released(registry[l])

LEMMA ApplicationFacts ==
    ASSUME NEW a \in Applications
    PROVE  /\ Len(a.limiters) \in Nat \ {0} /\ DOMAIN a.limiters = 1 .. Len(a.limiters)
           /\ \A l \in 1 .. Len(a.limiters) :
                 /\ HasStoreOptions(a.limiters[l])
                 /\ CompileRules(a.limiters[l]) \in Seq(ToSet(CompileRules(a.limiters[l])))
                 /\ \A rule \in ToSet(CompileRules(a.limiters[l])) : IsRule(rule)
           /\ a.routes \in Seq(ToSet(a.routes))
           /\ \A rule \in ToSet(a.routes) : IsRule(rule)
  <1>1. /\ a.limiters # <<>> /\ a.limiters \in Seq(ToSet(a.limiters))
        /\ a.routes \in Seq(ToSet(a.routes))
    BY ApplicationsType DEF IsSequence
  <1>2. Len(a.limiters) \in Nat \ {0} /\ DOMAIN a.limiters = 1 .. Len(a.limiters)
    BY <1>1, EmptySeq, LenProperties
  <1>3. ASSUME NEW l \in 1 .. Len(a.limiters)
        PROVE  /\ HasStoreOptions(a.limiters[l])
               /\ CompileRules(a.limiters[l]) \in Seq(ToSet(CompileRules(a.limiters[l])))
               /\ \A rule \in ToSet(CompileRules(a.limiters[l])) : IsRule(rule)
    <2>1. a.limiters[l] \in ToSet(a.limiters)
      BY <1>2 DEF ToSet
    <2> QED
      BY <2>1, ApplicationsType DEF IsSequence, HasStoreOptions, StoreKeys
  <1>4. \A rule \in ToSet(a.routes) : IsRule(rule)
    BY ApplicationsType
  <1> QED
    BY <1>1, <1>2, <1>3, <1>4

LEMMA RegistriesStart == Init => RegistriesKept
  <1> SUFFICES ASSUME Init PROVE RegistriesKept
    OBVIOUS
  <1>1. app \in Applications /\ phase = "installing" /\ registry = <<>> /\ stopAt = 1
    BY DEF Init
  <1>2. Len(app.limiters) \in Nat \ {0}
    BY <1>1, ApplicationFacts
  <1>3. <<>> \in Seq(Registries) /\ Len(<<>>) = 0 /\ DOMAIN <<>> = {}
    OBVIOUS
  <1>4. 0 < Len(app.limiters) /\ 0 <= Len(app.limiters) /\ 1 \in 1 .. Len(app.limiters) + 1
    BY <1>2
  <1> QED
    BY <1>1, <1>3, <1>4 DEF RegistriesKept, Installed

LEMMA InstallKeeps ==
    ASSUME RegistriesKept, Install
    PROVE  RegistriesKept'
  <1> DEFINE l == Len(registry) + 1
             o == app.limiters[l]
             r == CreateStoreRegistry(l, o)
             out == WithStoresFor(r, CompileRules(o), o)
             N == Len(app.limiters)
  <1>1. /\ app \in Applications /\ app' = app /\ stopAt = 1 /\ stopAt' = 1 /\ phase = "installing"
        /\ registry \in Seq(Registries) /\ Len(registry) < N
    BY DEF RegistriesKept, Install
  <1>2. l \in 1 .. N /\ l \in Nat \ {0} /\ N \in Nat \ {0} /\ Len(registry) \in Nat
    BY <1>1, ApplicationFacts
  <1>3. CASE CompileThrows(o)
    <2>1. phase' = "failed" /\ registry' = registry
      BY <1>3 DEF Install
    <2>2. N' = N
      BY <1>1
    <2> QED
      BY <1>1, <1>2, <2>1, <2>2 DEF RegistriesKept, Installed
  <1>4. CASE ~CompileThrows(o)
    <2>1. /\ registry' = Append(registry, out.registry)
          /\ phase' = IF out.threw THEN "failed" ELSE IF l = N THEN "declaring" ELSE "installing"
      BY <1>4 DEF Install, LastLimiter
    <2>2. HasStoreOptions(o)
      BY <1>1, <1>2, ApplicationFacts
    <2>3. Sound(r, l, o)
      BY <1>2, <2>2, CreatesSound
    <2>4. /\ CompileRules(o) \in Seq(ToSet(CompileRules(o)))
          /\ \A rule \in ToSet(CompileRules(o)) : rule.store \in StoreKeys
      BY <1>1, <1>2, ApplicationFacts DEF IsRule, StoreKeys
    <2>5. Sound(out.registry, l, o)
      <3> HIDE DEF r, o, l
      <3> QED
        BY <1>2, <2>2, <2>3, <2>4, LookupsSound
    <2>6. out.registry \in Registries /\ Usable(out.registry, l, o)
      BY <2>5 DEF Sound, Usable
    <2> HIDE DEF out, r
    <2>7. /\ registry' \in Seq(Registries) /\ Len(registry') = l
          /\ \A i \in 1 .. Len(registry) : registry'[i] = registry[i]
          /\ registry'[l] = out.registry
      BY <1>1, <2>1, <2>6, AppendProperties
    <2>8. \A i \in 1 .. l : i = l \/ i \in 1 .. Len(registry)
      BY <1>2
    <2>9. DOMAIN registry' = 1 .. l /\ DOMAIN registry = 1 .. Len(registry)
      BY <1>1, <2>7
    <2>10. l >= 1 /\ ~(l < 1) /\ l <= N /\ (l # N => l < N) /\ 1 \in 1 .. N + 1
      BY <1>2
    <2>11. phase' = "failed" \/ (phase' = "declaring" /\ l = N) \/ (phase' = "installing" /\ l # N)
      BY <2>1
    <2> HIDE DEF l
    <2>12. ASSUME NEW i \in DOMAIN registry'
           PROVE  /\ Usable(registry'[i], i, app.limiters[i])
                  /\ i >= 1 => Sound(registry'[i], i, app.limiters[i])
                  /\ i < 1 => Released(registry'[i])
      BY <1>1, <2>5, <2>6, <2>7, <2>8, <2>9, <2>10 DEF RegistriesKept
    <2> QED
      BY <1>1, <2>7, <2>10, <2>11, <2>12 DEF RegistriesKept, Installed
  <1> QED
    BY <1>3, <1>4

LEMMA DeclareKeeps ==
    ASSUME RegistriesKept, Declare
    PROVE  RegistriesKept'
  <1> DEFINE N == Len(app.limiters)
             o == app.limiters[N]
             r == registry[N]
             out == WithStoresFor(r, app.routes, o)
  <1>1. /\ app \in Applications /\ app' = app /\ stopAt = 1 /\ stopAt' = 1 /\ phase = "declaring"
        /\ registry \in Seq(Registries) /\ Len(registry) = N
        /\ registry' = [registry EXCEPT ![N] = out.registry]
        /\ phase' \in {"failed", "serving"}
    BY DEF RegistriesKept, Declare, LastLimiter, Installed
  <1>2. N \in Nat \ {0} /\ N \in 1 .. N /\ DOMAIN registry = 1 .. N
    BY <1>1, ApplicationFacts
  <1>3. HasStoreOptions(o)
    BY <1>1, <1>2, ApplicationFacts
  <1>4. Sound(r, N, o)
    BY <1>1, <1>2 DEF RegistriesKept
  <1>5. /\ app.routes \in Seq(ToSet(app.routes))
        /\ \A rule \in ToSet(app.routes) : rule.store \in StoreKeys
    BY <1>1, ApplicationFacts DEF IsRule, StoreKeys
  <1>6. Sound(out.registry, N, o)
    <2> HIDE DEF r, o, N
    <2> QED
      BY <1>2, <1>3, <1>4, <1>5, LookupsSound
  <1> HIDE DEF out, r
  <1>7. out.registry \in Registries /\ Usable(out.registry, N, o)
    BY <1>6 DEF Sound, Usable
  <1>8. /\ registry' \in Seq(Registries) /\ Len(registry') = N
        /\ \A i \in 1 .. N : registry'[i] = IF i = N THEN out.registry ELSE registry[i]
    BY <1>1, <1>2, <1>7, ExceptSeq
  <1>9. DOMAIN registry' = 1 .. N
    BY <1>8
  <1>10. N >= 1 /\ N <= N /\ 1 \in 1 .. N + 1 /\ ~(N < 1)
    BY <1>2
  <1> HIDE DEF N
  <1>11. ASSUME NEW i \in DOMAIN registry'
         PROVE  /\ Usable(registry'[i], i, app.limiters[i])
                /\ i >= 1 => Sound(registry'[i], i, app.limiters[i])
                /\ i < 1 => Released(registry'[i])
    BY <1>1, <1>2, <1>6, <1>7, <1>8, <1>9, <1>10 DEF RegistriesKept
  <1> QED
    BY <1>1, <1>8, <1>10, <1>11 DEF RegistriesKept, Installed, N

LEMMA OnStopKeeps ==
    ASSUME RegistriesKept, OnStop
    PROVE  RegistriesKept'
  <1> DEFINE N == Len(app.limiters)
             k == stopAt
             c == Close(registry[k])
  <1>1. /\ app \in Applications /\ app' = app /\ phase = "stopping" /\ k \in 1 .. N
        /\ registry \in Seq(Registries) /\ Len(registry) = N
        /\ registry' = [registry EXCEPT ![k] = c] /\ stopAt' = k + 1
        /\ phase' \in {"stopping", "stopped"} /\ (k = N => phase' = "stopped")
    BY DEF RegistriesKept, OnStop, LastLimiter, Installed
  <1>2. N \in Nat \ {0} /\ DOMAIN registry = 1 .. N /\ k \in Nat
    BY <1>1, ApplicationFacts
  <1>3. Sound(registry[k], k, app.limiters[k])
    BY <1>1, <1>2 DEF RegistriesKept
  <1>4. registry[k] \in Registries /\ IsInjective(registry[k].activeStores)
        /\ registry[k].owner = k /\ Tracks(registry[k]) /\ Caches(registry[k], app.limiters[k])
    BY <1>3 DEF Sound, Tracks
  <1>5. /\ c \in Registries /\ c.owner = registry[k].owner /\ c.built = registry[k].built
        /\ c.cache = registry[k].cache /\ c.fallback = registry[k].fallback
        /\ c.activeStores = registry[k].activeStores
        /\ Released(c)
    BY <1>4, ClosesAll
  <1> HIDE DEF c
  <1>6. Usable(c, k, app.limiters[k])
    BY <1>4, <1>5 DEF Usable, Tracks, Caches
  <1>7. /\ registry' \in Seq(Registries) /\ Len(registry') = N
        /\ \A i \in 1 .. N : registry'[i] = IF i = k THEN c ELSE registry[i]
    BY <1>1, <1>5, ExceptSeq
  <1>8. DOMAIN registry' = 1 .. N
    BY <1>7
  <1>9. /\ k + 1 \in 1 .. N + 1 /\ (k # N => k + 1 <= N) /\ N <= N
        /\ \A i \in 1 .. N : /\ i >= k + 1 => i # k /\ i >= k
                             /\ i < k + 1 => i = k \/ i < k
    BY <1>1, <1>2
  <1> HIDE DEF N, k
  <1>10. ASSUME NEW i \in DOMAIN registry'
         PROVE  /\ Usable(registry'[i], i, app.limiters[i])
                /\ i >= k + 1 => Sound(registry'[i], i, app.limiters[i])
                /\ i < k + 1 => Released(registry'[i])
    <2>1. /\ Usable(registry[i], i, app.limiters[i])
          /\ i >= k => Sound(registry[i], i, app.limiters[i])
          /\ i < k => Released(registry[i])
      BY <1>2, <1>8, <1>10 DEF RegistriesKept, k
    <2> QED
      BY <1>5, <1>6, <1>7, <1>8, <1>9, <1>10, <2>1
  <1> QED
    BY <1>1, <1>7, <1>9, <1>10 DEF RegistriesKept, Installed, N

LEMMA RegistriesInductive == RegistriesKept /\ [Next]_vars => RegistriesKept'
  <1> SUFFICES ASSUME RegistriesKept, [Next]_vars PROVE RegistriesKept'
    OBVIOUS
  <1>1. CASE Install
    BY <1>1, InstallKeeps
  <1>2. CASE Declare
    BY <1>2, DeclareKeeps
  <1>3. CASE Stop
    <2>1. /\ phase = "serving" /\ phase' = "stopping" /\ app' = app /\ registry' = registry
          /\ stopAt' = stopAt
      BY <1>3 DEF Stop
    <2>2. stopAt = 1 /\ Len(app.limiters) \in Nat \ {0}
      BY <2>1, ApplicationFacts DEF RegistriesKept
    <2>3. stopAt <= Len(app.limiters)
      BY <2>2
    <2> QED
      BY <2>1, <2>3 DEF RegistriesKept, Installed
  <1>4. CASE OnStop
    BY <1>4, OnStopKeeps
  <1>5. CASE UNCHANGED setup
    BY <1>5, Zenon DEF setup, RegistriesKept
  <1>6. ASSUME NEW q \in Requests, RequestStep(q) PROVE UNCHANGED setup
    BY <1>6 DEF RequestStep, Receive, FastRequest, OnRequest, BeforeHandle, HitRule, Conclude,
                HandlerThrows, Respond
  <1>7. CASE UNCHANGED vars
    BY <1>5, <1>7 DEF vars, setup
  <1> QED
    BY <1>1, <1>2, <1>3, <1>4, <1>5, <1>6, <1>7 DEF Next

LEMMA RegistriesAreKept == Spec => []RegistriesKept
  BY RegistriesStart, RegistriesInductive, PTL DEF Spec

\* For every application, however its rules, routes and fallback name their stores:
\* rules with equal configurations count in one store, rules with different ones
\* never do except through the same custom object, and no rule's memory store is
\* the fallback of another's.
THEOREM StoresAreShared == Spec => []StoresShared
  <1>1. RegistriesKept => StoresShared
    <2> SUFFICES ASSUME RegistriesKept, NEW l \in DOMAIN registry,
                        NEW i \in RuleIndices(l), NEW j \in RuleIndices(l),
                        RuleOf(l, i).store \in DOMAIN registry[l].cache,
                        RuleOf(l, j).store \in DOMAIN registry[l].cache
                 PROVE  LET a == RuleOf(l, i)
                            b == RuleOf(l, j)
                            r == registry[l]
                        IN  /\ a.store = b.store => StoreFor(r, a.store) = StoreFor(r, b.store)
                            /\ StoreFor(r, a.store) = StoreFor(r, b.store) =>
                                  Effective(l, a) = Effective(l, b)
                            /\ StoreFor(r, a.store) \notin CustomStores =>
                                  StoreFor(r, a.store) # r.fallback
      BY DEF StoresShared, RuleStoreCacheKey
    <2> DEFINE r == registry[l]
               o == app.limiters[l]
               x == RuleOf(l, i).store
               y == RuleOf(l, j).store
    <2>1. Caches(r, o) /\ r \in Registries
      BY DEF RegistriesKept, Usable
    <2>2. HasStoreOptions(o)
      <3>1. l \in 1 .. Len(app.limiters)
        BY ApplicationFacts DEF RegistriesKept
      <3> QED
        BY <3>1, ApplicationFacts DEF RegistriesKept
    <2>3. x \in StoreKeys /\ y \in StoreKeys
      BY <2>1 DEF Registries
    <2>4. /\ Effective(l, RuleOf(l, i)) = ConfigFor(x, o)
          /\ Effective(l, RuleOf(l, j)) = ConfigFor(y, o)
      BY DEF Effective, ConfigFor
    <2>5. StoreFor(r, x) = r.cache[x] /\ StoreFor(r, y) = r.cache[y]
      BY DEF StoreFor, RuleStoreCacheKey
    <2> HIDE DEF r, o, x, y
    <2>6. ASSUME NEW c \in StoreKeys, c.kind = "custom"
          PROVE  c \in [kind : {"custom"}, store : CustomStores]
      BY <2>6 DEF StoreKeys, StoreConfigs, UndefinedStore
    <2>7. ConfigFor(x, o) \in StoreKeys /\ ConfigFor(y, o) \in StoreKeys
      BY <2>2, <2>3 DEF ConfigFor, HasStoreOptions
    <2>8. x \in DOMAIN r.cache /\ y \in DOMAIN r.cache
      BY DEF r, x, y
    <2>9. r.cache[x] = r.cache[y] => ConfigFor(x, o) = ConfigFor(y, o)
      <3>1. CASE ConfigFor(x, o).kind = "custom" /\ ConfigFor(y, o).kind = "custom"
        <4>1. r.cache[x] = ConfigFor(x, o).store /\ r.cache[y] = ConfigFor(y, o).store
          BY <2>1, <2>8, <3>1 DEF Caches
        <4>2. \A c, d \in [kind : {"custom"}, store : CustomStores] : c.store = d.store => c = d
          OBVIOUS
        <4> QED
          BY <2>6, <2>7, <3>1, <4>1, <4>2
      <3>2. CASE ~(ConfigFor(x, o).kind = "custom" /\ ConfigFor(y, o).kind = "custom")
        BY <2>1, <2>8, <3>2 DEF Caches
      <3> QED
        BY <3>1, <3>2
    <2>10. r.cache[x] \notin CustomStores => r.cache[x] # r.fallback
      <3>1. CASE ConfigFor(x, o).kind = "custom"
        <4>1. r.cache[x] = ConfigFor(x, o).store
          BY <2>1, <2>8, <3>1 DEF Caches
        <4> QED
          BY <2>6, <2>7, <3>1, <4>1
      <3>2. CASE ConfigFor(x, o).kind # "custom"
        BY <2>1, <2>8, <3>2 DEF Caches
      <3> QED
        BY <3>1, <3>2
    <2> QED
      BY <2>4, <2>5, <2>9, <2>10 DEF r, o, x, y
  <1> QED
    BY <1>1, RegistriesAreKept, PTL

\* While requests are served each store that a hit can reach and that can be
\* cleaned up has exactly one timer, however many rules share it and whether or
\* not it is the fallback too; with an interval of 0 there is none.
THEOREM TimersAreSingle == Spec => []OneTimerPerStore
  <1>1. RegistriesKept => OneTimerPerStore
    <2> SUFFICES ASSUME RegistriesKept, phase = "serving", NEW l \in Limiters
                 PROVE  LET r == registry[l] IN
                        /\ IsInjective(r.running)
                        /\ ToSet(r.running) = IF app.limiters[l].cleanupInterval = 0 THEN {}
                                              ELSE {s \in ToSet(r.activeStores) : HasCleanup(s)}
                        /\ \A key \in DOMAIN r.cache : r.cache[key] \in ToSet(r.activeStores)
      BY DEF OneTimerPerStore
    <2> DEFINE r == registry[l]
               o == app.limiters[l]
    <2>1. l \in 1 .. Len(app.limiters) /\ stopAt = 1 /\ Len(registry) = Len(app.limiters)
          /\ registry \in Seq(Registries)
      BY ApplicationFacts DEF RegistriesKept, Installed, Limiters
    <2>2. l \in DOMAIN registry /\ l >= stopAt
      BY <2>1
    <2>3. Sound(r, l, o) /\ HasStoreOptions(o)
      BY <2>1, <2>2, ApplicationFacts DEF RegistriesKept
    <2>4. Timed(r, o) /\ Caches(r, o) /\ o.cleanupInterval \in Nat
      BY <2>3 DEF Sound, HasStoreOptions
    <2>5. o.cleanupInterval > 0 <=> o.cleanupInterval # 0
      BY <2>4
    <2> HIDE DEF r, o
    <2> QED
      BY <2>4, <2>5 DEF Timed, Caches, r, o
  <1> QED
    BY <1>1, RegistriesAreKept, PTL

\* After the stop no limiter whose onStop ran has a timer left, each of its stores
\* was closed at most once, and if no close() throws every store with a close()
\* was closed, the fallback and the stores of the routes included.
THEOREM StopIsClean == Spec => []StopReleases
  <1>1. RegistriesKept => StopReleases
    <2> SUFFICES ASSUME RegistriesKept, phase = "stopped", NEW l \in 1 .. stopAt - 1
                 PROVE  /\ registry[l].running = <<>>
                        /\ IsInjective(registry[l].closed)
                        /\ CloseSucceeds(registry[l]) =>
                              ToSet(registry[l].closed)
                                  = ToSet(registry[l].activeStores) \cap WithClose
      BY DEF StopReleases
    <2>1. /\ Len(registry) = Len(app.limiters) /\ registry \in Seq(Registries)
          /\ stopAt \in 1 .. Len(registry) + 1 /\ Len(registry) \in Nat
      BY DEF RegistriesKept, Installed
    <2>2. l \in DOMAIN registry /\ l < stopAt
      BY <2>1
    <2>3. Released(registry[l])
      BY <2>2 DEF RegistriesKept
    <2> QED
      BY <2>3 DEF Released
  <1> QED
    BY <1>1, RegistriesAreKept, PTL

-----------------------------------------------------------------------------
(* A request on its way through the hooks.  What it meets is the record W: *)
(*   last       the number of limiters                                     *)
(*   targets    what a request may ask for                                 *)
(*   decisions  the decisions there are                                    *)
(*   due        by limiter and target, the rules that apply                *)
(*   macro      by target, the rules of the macro that apply               *)
(*   firm       the <<limiter, rule>> that block or whose store answers    *)
(* and it is seen by its hook `label`, its target t, the limiter `a` that  *)
(* comes next, its evaluations es, the rules td still to hit and its       *)
(* status.                                                                 *)

Evals(W) == Seq([limiter : 1 .. W.last, macro : BOOLEAN, decisions : Seq(W.decisions)])

\* A decision of rule i of limiter l lets the request pass.
Admits(d, l, i) == d.limiter = l /\ d.rule = i /\ ~d.blocked

Admitted(es, l, i) ==
    \E n \in DOMAIN es : \E m \in DOMAIN es[n].decisions : Admits(es[n].decisions[m], l, i)

\* The rules the evaluation under way is about.
UnderWay(W, label, t, l) == IF label = "macro" THEN W.macro[t] ELSE W.due[l][t]

\* Each firm rule of the evaluation e has decided, or is still to be hit.
EachDecides(W, e, is, td) ==
    \A i \in is : <<e.limiter, i>> \in W.firm =>
        \/ i \in ToSet(td)
        \/ \E m \in DOMAIN e.decisions :
              e.decisions[m].limiter = e.limiter /\ e.decisions[m].rule = i

InEvaluation(W, label, t, a, es, td) ==
    LET e == es[Len(es)] IN
    /\ es # <<>>
    /\ e.macro <=> label = "macro"
    /\ e.limiter = IF label = "macro" THEN W.last ELSE a
    /\ a = W.last + 1 <=> label = "macro"
    /\ ToSet(td) \subseteq UnderWay(W, label, t, e.limiter)
    /\ EachDecides(W, e, UnderWay(W, label, t, e.limiter), td)

\* Every firm rule of the limiters before `a` that applies has admitted the request.
PassedBefore(W, t, a, es) ==
    \A l \in 1 .. a - 1 : \A i \in W.due[l][t] : <<l, i>> \in W.firm => Admitted(es, l, i)

PassedMacro(W, t, es) ==
    \A i \in W.macro[t] : <<W.last, i>> \in W.firm => Admitted(es, W.last, i)

Labels == {"idle", "onRequest", "plugin", "route", "macro", "handler", "done"}

Through(label, status) == label = "handler" \/ (label = "done" /\ status # 429)

OnItsWay(W, label, t, a, es, td, status) ==
    /\ label \in Labels /\ a \in 1 .. W.last + 1 /\ es \in Evals(W) /\ td \in Seq(Int)
    /\ status \in {0, 200, 429, 500}
    /\ label = "idle" => es = <<>> /\ a = 1
    /\ label # "idle" => t \in W.targets
    /\ PassedBefore(W, t, a, es)
    /\ label \in {"plugin", "macro"} => InEvaluation(W, label, t, a, es, td)
    /\ Through(label, status) => a = W.last + 1 /\ PassedMacro(W, t, es)

IsWorld(W) == W.last \in Nat \ {0}

\* fs has the evaluations of es, with their decisions.
Continues(fs, es) ==
    \A n \in DOMAIN es :
        /\ n \in DOMAIN fs
        /\ \A m \in DOMAIN es[n].decisions :
              m \in DOMAIN fs[n].decisions /\ fs[n].decisions[m] = es[n].decisions[m]

LEMMA AdmittedStays ==
    ASSUME NEW es, NEW fs, Continues(fs, es), NEW l, NEW i, Admitted(es, l, i)
    PROVE  Admitted(fs, l, i)
  BY DEF Continues, Admitted

LEMMA PassedStays ==
    ASSUME NEW W, NEW t, NEW a, NEW es, NEW fs, Continues(fs, es)
    PROVE  /\ PassedBefore(W, t, a, es) => PassedBefore(W, t, a, fs)
           /\ PassedMacro(W, t, es) => PassedMacro(W, t, fs)
  BY AdmittedStays DEF PassedBefore, PassedMacro

LEMMA Concatenated ==
    ASSUME NEW S, NEW s \in Seq(S), NEW t \in Seq(S)
    PROVE  /\ s \o t \in Seq(S) /\ Len(s) \in Nat /\ Len(t) \in Nat
           /\ DOMAIN s = 1 .. Len(s) /\ DOMAIN t = 1 .. Len(t) /\ DOMAIN (s \o t) = 1 .. Len(s) + Len(t)
           /\ \A m \in 1 .. Len(s) + Len(t) :
                 (s \o t)[m] = IF m <= Len(s) THEN s[m] ELSE t[m - Len(s)]
  <1>1. s \o t \in Seq(S) /\ Len(s \o t) = Len(s) + Len(t)
    BY ConcatProperties
  <1>2. \A m \in 1 .. Len(s) + Len(t) :
            (s \o t)[m] = IF m <= Len(s) THEN s[m] ELSE t[m - Len(s)]
    BY ConcatProperties
  <1> QED
    BY <1>1, <1>2

\* An evaluation is added.
Evaluated(W, es, fs, l, macro, ds) ==
    /\ fs \in Evals(W) /\ fs # <<>> /\ Len(fs) \in DOMAIN fs
    /\ fs[Len(fs)] = [limiter |-> l, macro |-> macro, decisions |-> ds]
    /\ Continues(fs, es)
    /\ \A k, i : Admitted(fs, k, i) =>
          Admitted(es, k, i) \/ \E m \in DOMAIN ds : Admits(ds[m], k, i)

LEMMA EvaluationAdded ==
    ASSUME NEW W, NEW es \in Evals(W), NEW l \in 1 .. W.last, NEW macro \in BOOLEAN,
           NEW ds \in Seq(W.decisions)
    PROVE  Evaluated(W, es, Append(es, [limiter |-> l, macro |-> macro, decisions |-> ds]),
                     l, macro, ds)
  <1> DEFINE e  == [limiter |-> l, macro |-> macro, decisions |-> ds]
             fs == Append(es, e)
             R  == [limiter : 1 .. W.last, macro : BOOLEAN, decisions : Seq(W.decisions)]
             N  == Len(es)
  <1>1. e \in R /\ e.decisions = ds
    OBVIOUS
  <1>2. es \in Seq(R)
    BY DEF Evals
  <1> HIDE DEF e, R
  <1>3. /\ fs \in Seq(R) /\ Len(fs) = N + 1 /\ fs[N + 1] = e /\ N \in Nat
        /\ DOMAIN es = 1 .. N /\ DOMAIN fs = 1 .. N + 1
        /\ \A n \in 1 .. N : fs[n] = es[n]
    BY <1>1, <1>2, AppendProperties
  <1> HIDE DEF fs, N
  <1>4. 1 .. N \subseteq 1 .. N + 1 /\ N + 1 \in 1 .. N + 1 /\ \A n \in 1 .. N + 1 : n = N + 1 \/ n \in 1 .. N
    BY <1>3
  <1>5. Continues(fs, es)
    BY <1>3, <1>4 DEF Continues
  <1>6. ASSUME NEW k, NEW i, Admitted(fs, k, i)
        PROVE  Admitted(es, k, i) \/ \E m \in DOMAIN ds : Admits(ds[m], k, i)
    BY <1>1, <1>3, <1>4, <1>6 DEF Admitted
  <1>7. fs # <<>>
    BY <1>3, EmptySeq
  <1>8. fs \in Evals(W)
    BY <1>3 DEF Evals, R
  <1> QED
    BY <1>3, <1>4, <1>5, <1>6, <1>7, <1>8 DEF e, fs, Evaluated

\* Decisions are added to the last evaluation.
Enlarged(W, es, fs, ds) ==
    /\ fs \in Evals(W) /\ fs # <<>> /\ Len(fs) = Len(es) /\ Len(es) \in DOMAIN fs
    /\ fs[Len(es)].limiter = es[Len(es)].limiter /\ fs[Len(es)].macro = es[Len(es)].macro
    /\ fs[Len(es)].decisions = es[Len(es)].decisions \o ds
    /\ Continues(fs, es)
    /\ \A m \in DOMAIN es[Len(es)].decisions :
          /\ m \in DOMAIN fs[Len(es)].decisions
          /\ fs[Len(es)].decisions[m] = es[Len(es)].decisions[m]
    /\ \A m \in DOMAIN ds :
          \E j \in DOMAIN fs[Len(es)].decisions : fs[Len(es)].decisions[j] = ds[m]
    /\ \A k, i : Admitted(fs, k, i) =>
          Admitted(es, k, i) \/ \E m \in DOMAIN ds : Admits(ds[m], k, i)

LEMMA DecisionsAdded ==
    ASSUME NEW W, NEW es \in Evals(W), es # <<>>, NEW ds \in Seq(W.decisions)
    PROVE  Enlarged(W, es, [es EXCEPT ![Len(es)].decisions = @ \o ds], ds)
  <1> DEFINE n  == Len(es)
             e  == es[n]
             R  == [limiter : 1 .. W.last, macro : BOOLEAN, decisions : Seq(W.decisions)]
             both == e.decisions \o ds
             g  == [e EXCEPT !.decisions = both]
             fs == [es EXCEPT ![n].decisions = @ \o ds]
  <1>1. es \in Seq(R)
    BY DEF Evals
  <1>2. n \in Nat \ {0} /\ DOMAIN es = 1 .. n /\ n \in 1 .. n
    BY <1>1, EmptySeq, LenProperties
  <1>3. e \in R
    <2> HIDE DEF R, n
    <2> QED
      BY <1>1, <1>2
  <1>4. e.decisions \in Seq(W.decisions) /\ e.limiter \in 1 .. W.last /\ e.macro \in BOOLEAN
    BY <1>3
  <1>5. fs = [es EXCEPT ![n] = g]
    OBVIOUS
  <1> DEFINE a == Len(e.decisions)
             b == Len(ds)
  <1>6. /\ both \in Seq(W.decisions) /\ a \in Nat /\ b \in Nat
        /\ DOMAIN e.decisions = 1 .. a /\ DOMAIN ds = 1 .. b /\ DOMAIN both = 1 .. a + b
        /\ \A m \in 1 .. a + b : both[m] = IF m <= a THEN e.decisions[m] ELSE ds[m - a]
    <2> HIDE DEF e
    <2> QED
      BY <1>4, Concatenated
  <1> HIDE DEF both, a, b
  <1>7. g \in R /\ g.decisions = both /\ g.limiter = e.limiter /\ g.macro = e.macro
    BY <1>3, <1>6
  <1> HIDE DEF R, g, fs, e
  <1>8. /\ fs \in Seq(R) /\ Len(fs) = n /\ fs[n] = g
        /\ \A k \in 1 .. n : fs[k] = IF k = n THEN g ELSE es[k]
        /\ DOMAIN fs = 1 .. n
    BY <1>1, <1>2, <1>5, <1>7, ExceptSeq
  <1> HIDE DEF n
  <1>9. \A m \in 1 .. a : m \in 1 .. a + b /\ both[m] = e.decisions[m]
    BY <1>6
  <1>10. \A m \in 1 .. b : a + m \in 1 .. a + b /\ both[a + m] = ds[m]
    BY <1>6
  <1>11. \A m \in 1 .. a + b : m \in 1 .. a \/ (m - a \in 1 .. b /\ both[m] = ds[m - a])
    BY <1>6
  <1>12. Continues(fs, es)
    BY <1>2, <1>6, <1>7, <1>8, <1>9 DEF Continues, e
  <1>13. ASSUME NEW k, NEW i, Admitted(fs, k, i)
         PROVE  Admitted(es, k, i) \/ \E m \in DOMAIN ds : Admits(ds[m], k, i)
    <2>1. PICK c \in 1 .. n : \E m \in DOMAIN fs[c].decisions : Admits(fs[c].decisions[m], k, i)
      BY <1>8, <1>13 DEF Admitted
    <2>2. CASE c # n
      BY <1>2, <1>8, <2>1, <2>2 DEF Admitted
    <2>3. CASE c = n
      <3>1. PICK m \in 1 .. a + b : Admits(both[m], k, i)
        BY <1>6, <1>7, <1>8, <2>1, <2>3
      <3>2. CASE m \in 1 .. a
        BY <1>2, <1>6, <1>9, <3>1, <3>2 DEF Admitted, e
      <3>3. CASE m - a \in 1 .. b /\ both[m] = ds[m - a]
        BY <1>6, <3>1, <3>3
      <3> QED
        BY <1>11, <3>2, <3>3
    <2> QED
      BY <2>2, <2>3
  <1>14. fs # <<>>
    BY <1>2, <1>8, EmptySeq
  <1>15. fs \in Evals(W)
    BY <1>8 DEF Evals, R
  <1>16. \A m \in 1 .. b : \E j \in DOMAIN both : both[j] = ds[m]
    BY <1>6, <1>10
  <1> QED
    BY <1>2, <1>6, <1>7, <1>8, <1>9, <1>12, <1>13, <1>14, <1>15, <1>16, ZenonT(40) DEF n, e, fs, g, both, Enlarged

LEMMA Single ==
    ASSUME NEW S, NEW d \in S
    PROVE  <<d>> \in Seq(S) /\ DOMAIN <<d>> = {1} /\ <<d>>[1] = d
  <1>1. Len(<<d>>) = 1 /\ <<d>>[1] = d /\ <<d>> \in Seq(S)
    OBVIOUS
  <1>2. DOMAIN <<d>> = 1 .. 1
    BY <1>1
  <1> QED
    BY <1>1, <1>2

\* The first of a sequence, and the rest.
LEMMA Taken ==
    ASSUME NEW S, NEW s \in Seq(S), s # <<>>
    PROVE  /\ Head(s) \in S /\ Tail(s) \in Seq(S) /\ Len(Tail(s)) = Len(s) - 1
           /\ Head(s) = s[1] /\ \A m \in 1 .. Len(s) - 1 : Tail(s)[m] = s[m + 1]
           /\ ToSet(s) = {Head(s)} \cup ToSet(Tail(s))
  <1>1. /\ Len(s) \in Nat \ {0} /\ DOMAIN s = 1 .. Len(s)
        /\ Head(s) \in S /\ Tail(s) \in Seq(S) /\ Len(Tail(s)) = Len(s) - 1
        /\ Head(s) = s[1] /\ \A m \in 1 .. Len(s) - 1 : Tail(s)[m] = s[m + 1]
    BY HeadTailProperties, EmptySeq, LenProperties
  <1>2. DOMAIN Tail(s) = 1 .. Len(s) - 1
    BY <1>1
  <1>3. \A m \in 1 .. Len(s) : m = 1 \/ (m - 1 \in 1 .. Len(s) - 1 /\ (m - 1) + 1 = m)
    BY <1>1
  <1>4. \A m \in 1 .. Len(s) - 1 : m + 1 \in 1 .. Len(s)
    BY <1>1
  <1>5. 1 \in 1 .. Len(s)
    BY <1>1
  <1> DEFINE n == Len(s)
             u == Tail(s)
  <1> HIDE DEF n, u
  <1>6. \A m \in 1 .. n : s[m] = Head(s) \/ \E k \in DOMAIN u : u[k] = s[m]
    BY <1>1, <1>2, <1>3 DEF n, u
  <1>7. \A k \in DOMAIN u : \E m \in 1 .. n : s[m] = u[k]
    BY <1>1, <1>2, <1>4 DEF n, u
  <1>8. ToSet(s) = {Head(s)} \cup ToSet(u)
    BY <1>1, <1>5, <1>6, <1>7 DEF ToSet, n
  <1> QED
    BY <1>1, <1>8 DEF u

-----------------------------------------------------------------------------
(* The steps of a request.                                                 *)

\* A request has come in.
LEMMA ReceiveGoes ==
    ASSUME NEW W, IsWorld(W), NEW s, NEW u, NEW a, NEW es, NEW td, NEW status,
           OnItsWay(W, "idle", s, a, es, td, status), u \in W.targets
    PROVE  OnItsWay(W, "onRequest", u, a, es, td, status)
  <1>1. a = 1 /\ 1 .. a - 1 = {}
    BY DEF OnItsWay
  <1> QED
    BY <1>1 DEF OnItsWay, Labels, PassedBefore, Through

\* A limiter none of whose rules applies, or all of whose firm ones have admitted
\* the request, lets it go on.
LEMMA PassesLimiter ==
    ASSUME NEW W, IsWorld(W), NEW t, NEW a \in 1 .. W.last, NEW es,
           PassedBefore(W, t, a, es),
           \A i \in W.due[a][t] : <<a, i>> \in W.firm => Admitted(es, a, i)
    PROVE  PassedBefore(W, t, a + 1, es) /\ a + 1 \in 1 .. W.last + 1 /\ a # W.last + 1
  <1>1. W.last \in Nat
    BY DEF IsWorld
  <1>2. \A l \in 1 .. (a + 1) - 1 : l = a \/ l \in 1 .. a - 1
    BY <1>1
  <1>3. a + 1 \in 1 .. W.last + 1 /\ a # W.last + 1
    BY <1>1
  <1> QED
    BY <1>2, <1>3 DEF PassedBefore

LEMMA SkipGoes ==
    ASSUME NEW W, IsWorld(W), NEW t, NEW a \in 1 .. W.last, NEW es, NEW td, NEW status,
           OnItsWay(W, "onRequest", t, a, es, td, status), W.due[a][t] = {}
    PROVE  OnItsWay(W, "onRequest", t, a + 1, es, td, status)
  <1>1. PassedBefore(W, t, a, es)
    BY DEF OnItsWay
  <1>2. PassedBefore(W, t, a + 1, es) /\ a + 1 \in 1 .. W.last + 1
    BY <1>1, PassesLimiter
  <1> QED
    BY <1>2 DEF OnItsWay, Labels, Through

\* The fast path: one rule, 1, is due and has decided.
AtOnce(es, l, d) == Append(es, [limiter |-> l, macro |-> FALSE, decisions |-> <<d>>])

LEMMA FastGoes ==
    ASSUME NEW W, IsWorld(W), NEW t, NEW a \in 1 .. W.last, NEW es, NEW td, NEW status,
           OnItsWay(W, "onRequest", t, a, es, td, status), W.due[a][t] \subseteq {1},
           NEW d \in W.decisions, d.limiter = a, d.rule = 1
    PROVE  /\ d.blocked => OnItsWay(W, "done", t, a, AtOnce(es, a, d), td, 429)
           /\ ~d.blocked => OnItsWay(W, "onRequest", t, a + 1, AtOnce(es, a, d), td, status)
           /\ \A l, i : Admitted(AtOnce(es, a, d), l, i) => Admitted(es, l, i) \/ Admits(d, l, i)
  <1> DEFINE ds == <<d>>
             fs == AtOnce(es, a, d)
  <1>1. ds \in Seq(W.decisions) /\ DOMAIN ds = {1} /\ ds[1] = d
    BY Single
  <1>2. es \in Evals(W) /\ PassedBefore(W, t, a, es)
    BY DEF OnItsWay
  <1>3. fs = Append(es, [limiter |-> a, macro |-> FALSE, decisions |-> ds])
    BY Zenon DEF AtOnce
  <1> HIDE DEF ds, fs
  <1>4. /\ fs \in Evals(W) /\ fs # <<>> /\ Continues(fs, es) /\ Len(fs) \in DOMAIN fs
        /\ fs[Len(fs)].decisions = ds
        /\ \A k, i : Admitted(fs, k, i) =>
              Admitted(es, k, i) \/ \E m \in DOMAIN ds : Admits(ds[m], k, i)
    <2>1. a \in 1 .. W.last /\ FALSE \in BOOLEAN
      OBVIOUS
    <2>2. Evaluated(W, es, Append(es, [limiter |-> a, macro |-> FALSE, decisions |-> ds]),
                    a, FALSE, ds)
      BY <1>1, <1>2, <2>1, EvaluationAdded, Zenon
    <2>4. Evaluated(W, es, fs, a, FALSE, ds)
      BY <1>3, <2>2, Zenon
    <2>3. fs[Len(fs)].decisions = ds
      BY <2>4 DEF Evaluated
    <2> QED
      BY <2>3, <2>4 DEF Evaluated
  <1>5. PassedBefore(W, t, a, fs)
    BY <1>2, <1>4, PassedStays
  <1>6. OnItsWay(W, "done", t, a, fs, td, 429)
    BY <1>4, <1>5 DEF OnItsWay, Labels, Through
  <1>7. ASSUME ~d.blocked PROVE OnItsWay(W, "onRequest", t, a + 1, fs, td, status)
    <2>1. Admitted(fs, a, 1)
      BY <1>1, <1>4, <1>7 DEF Admitted, Admits
    <2>2. PassedBefore(W, t, a + 1, fs) /\ a + 1 \in 1 .. W.last + 1
      BY <1>5, <2>1, PassesLimiter
    <2> QED
      BY <1>4, <2>2 DEF OnItsWay, Labels, Through
  <1> QED
    BY <1>1, <1>4, <1>6, <1>7 DEF fs

\* An evaluation begins.
Begun(es, l, label) ==
    Append(es, [limiter |-> l, macro |-> label = "macro", decisions |-> <<>>])

LEMMA BeginsGoes ==
    ASSUME NEW W, IsWorld(W), NEW t, NEW a, NEW es, NEW td, NEW status,
           OnItsWay(W, "onRequest", t, a, es, td, status),
           NEW label \in {"plugin", "macro"}, a = W.last + 1 <=> label = "macro",
           NEW l, l = IF label = "macro" THEN W.last ELSE a,
           NEW due \in Seq(Int), ToSet(due) = UnderWay(W, label, t, l)
    PROVE  /\ OnItsWay(W, label, t, a, Begun(es, l, label), due, status)
           /\ \A k, i : Admitted(Begun(es, l, label), k, i) => Admitted(es, k, i)
  <1> DEFINE fs == Begun(es, l, label)
             ds == <<>>
             macro == label = "macro"
  <1>1. ds \in Seq(W.decisions) /\ DOMAIN ds = {} /\ macro \in BOOLEAN /\ (macro <=> label = "macro")
    OBVIOUS
  <1>2. es \in Evals(W) /\ PassedBefore(W, t, a, es) /\ a \in 1 .. W.last + 1
    BY DEF OnItsWay
  <1>3. l \in 1 .. W.last
    BY <1>2 DEF IsWorld
  <1>4. fs = Append(es, [limiter |-> l, macro |-> macro, decisions |-> ds])
    BY DEF Begun
  <1> HIDE DEF ds, macro, fs
  <1> DEFINE e == fs[Len(fs)]
  <1>5. /\ fs \in Evals(W) /\ fs # <<>> /\ Continues(fs, es)
        /\ e = [limiter |-> l, macro |-> macro, decisions |-> ds]
        /\ \A k, i : Admitted(fs, k, i) =>
              Admitted(es, k, i) \/ \E m \in DOMAIN ds : Admits(ds[m], k, i)
    <2>1. Evaluated(W, es, Append(es, [limiter |-> l, macro |-> macro, decisions |-> ds]),
                    l, macro, ds)
      BY <1>1, <1>2, <1>3, EvaluationAdded, Zenon
    <2>2. Evaluated(W, es, fs, l, macro, ds)
      BY <1>4, <2>1, Zenon
    <2> QED
      BY <2>2 DEF Evaluated
  <1>6. PassedBefore(W, t, a, fs)
    BY <1>2, <1>5, PassedStays
  <1>7. e.limiter = l /\ e.decisions = ds /\ (e.macro <=> macro)
    BY <1>5
  <1> HIDE DEF e
  <1>8. EachDecides(W, e, UnderWay(W, label, t, e.limiter), due)
    BY <1>7 DEF EachDecides
  <1>9. InEvaluation(W, label, t, a, fs, due)
    <2>1. e.macro <=> label = "macro"
      BY <1>1, <1>7
    <2> QED
      BY <1>5, <1>7, <1>8, <2>1 DEF InEvaluation, e
  <1>10. ~Through(label, status) /\ label \in Labels /\ label # "idle"
    BY DEF Through, Labels
  <1>11. OnItsWay(W, label, t, a, fs, due, status)
    BY <1>2, <1>5, <1>6, <1>9, <1>10 DEF OnItsWay
  <1> QED
    BY <1>1, <1>5, <1>11 DEF fs

\* The next rule is hit: a firm one decides.
Grown(es, ds) == [es EXCEPT ![Len(es)].decisions = @ \o ds]

Decisive(W, es, td, ds) ==
    <<es[Len(es)].limiter, Head(td)>> \in W.firm =>
        \E m \in DOMAIN ds : ds[m].limiter = es[Len(es)].limiter /\ ds[m].rule = Head(td)

LEMMA HitGoes ==
    ASSUME NEW W, IsWorld(W), NEW t, NEW a, NEW es, NEW td, NEW status,
           NEW label \in {"plugin", "macro"},
           OnItsWay(W, label, t, a, es, td, status), td # <<>>,
           NEW ds \in Seq(W.decisions),
           Decisive(W, es, td, ds)
    PROVE  /\ OnItsWay(W, label, t, a, Grown(es, ds), Tail(td), status)
           /\ \A k, i : Admitted(Grown(es, ds), k, i) =>
                 Admitted(es, k, i) \/ \E m \in DOMAIN ds : Admits(ds[m], k, i)
  <1> DEFINE fs == Grown(es, ds)
             n == Len(es)
             e == es[n]
             f == fs[Len(fs)]
             i == Head(td)
             is == UnderWay(W, label, t, e.limiter)
  <1>1. /\ es \in Evals(W) /\ PassedBefore(W, t, a, es) /\ a \in 1 .. W.last + 1
        /\ InEvaluation(W, label, t, a, es, td) /\ td \in Seq(Int) /\ es # <<>>
        /\ ~Through(label, status)
    BY DEF OnItsWay, InEvaluation, Through
  <1>2. /\ fs \in Evals(W) /\ fs # <<>> /\ Len(fs) = n /\ Continues(fs, es)
        /\ f.limiter = e.limiter /\ f.macro = e.macro
        /\ \A m \in DOMAIN e.decisions : m \in DOMAIN f.decisions /\ f.decisions[m] = e.decisions[m]
        /\ \A m \in DOMAIN ds : \E j \in DOMAIN f.decisions : f.decisions[j] = ds[m]
        /\ \A k, j : Admitted(fs, k, j) =>
              Admitted(es, k, j) \/ \E m \in DOMAIN ds : Admits(ds[m], k, j)
    <2>1. Enlarged(W, es, fs, ds)
      BY <1>1, DecisionsAdded DEF Grown
    <2> QED
      BY <2>1 DEF Enlarged
  <1>3. PassedBefore(W, t, a, fs)
    BY <1>1, <1>2, PassedStays
  <1>4. ToSet(Tail(td)) \subseteq ToSet(td) /\ ToSet(td) = {i} \cup ToSet(Tail(td)) /\ Tail(td) \in Seq(Int)
    BY <1>1, Taken
  <1> HIDE DEF f, fs
  <1>5. ASSUME NEW j \in is, <<f.limiter, j>> \in W.firm
        PROVE  \/ j \in ToSet(Tail(td))
               \/ \E m \in DOMAIN f.decisions :
                     f.decisions[m].limiter = f.limiter /\ f.decisions[m].rule = j
    <2>1. \/ j \in ToSet(td)
          \/ \E m \in DOMAIN e.decisions :
                e.decisions[m].limiter = e.limiter /\ e.decisions[m].rule = j
      BY <1>1, <1>2, <1>5 DEF InEvaluation, EachDecides
    <2>2. CASE j = i
      BY <1>2, <1>5, <2>2 DEF Decisive
    <2> QED
      BY <1>2, <1>4, <2>1, <2>2
  <1>6. EachDecides(W, f, is, Tail(td))
    BY <1>5 DEF EachDecides
  <1>7. ToSet(Tail(td)) \subseteq is
    BY <1>1, <1>4 DEF InEvaluation
  <1>8. InEvaluation(W, label, t, a, fs, Tail(td))
    BY <1>1, <1>2, <1>6, <1>7 DEF InEvaluation, f
  <1>9. OnItsWay(W, label, t, a, fs, Tail(td), status)
    BY <1>1, <1>2, <1>3, <1>4, <1>8 DEF OnItsWay
  <1> QED
    BY <1>2, <1>9 DEF fs

\* The evaluation under way is over.
LEMMA BlockGoes ==
    ASSUME NEW W, IsWorld(W), NEW t, NEW a, NEW es, NEW td, NEW status,
           NEW label \in {"plugin", "macro"},
           OnItsWay(W, label, t, a, es, td, status)
    PROVE  OnItsWay(W, "done", t, a, es, td, 429)
  BY DEF OnItsWay, Labels, Through

LEMMA ConcludeGoes ==
    ASSUME NEW W, IsWorld(W), NEW t, NEW a, NEW es, NEW td, NEW status,
           NEW label \in {"plugin", "macro"},
           OnItsWay(W, label, t, a, es, td, status), td = <<>>,
           \A m \in DOMAIN es[Len(es)].decisions : ~es[Len(es)].decisions[m].blocked
    PROVE  /\ label = "plugin" => OnItsWay(W, "onRequest", t, a + 1, es, td, status)
           /\ label = "macro" => OnItsWay(W, "handler", t, a, es, td, status)
  <1> DEFINE e == es[Len(es)]
  <1>1. /\ es \in Evals(W) /\ PassedBefore(W, t, a, es) /\ a \in 1 .. W.last + 1
        /\ InEvaluation(W, label, t, a, es, td) /\ es # <<>>
    BY DEF OnItsWay, InEvaluation
  <1>2. ToSet(td) = {}
    BY DEF ToSet
  <1>3. Len(es) \in DOMAIN es
    BY <1>1, EmptySeq, LenProperties DEF Evals
  <1>4. ASSUME NEW i \in UnderWay(W, label, t, e.limiter), <<e.limiter, i>> \in W.firm
        PROVE  Admitted(es, e.limiter, i)
    <2>1. PICK m \in DOMAIN e.decisions : e.decisions[m].limiter = e.limiter /\ e.decisions[m].rule = i
      BY <1>1, <1>2, <1>4 DEF InEvaluation, EachDecides
    <2>2. Admits(e.decisions[m], e.limiter, i)
      BY <2>1 DEF Admits
    <2> QED
      BY <1>3, <2>2 DEF Admitted
  <1>5. ASSUME label = "plugin" PROVE OnItsWay(W, "onRequest", t, a + 1, es, td, status)
    <2>1. e.limiter = a /\ UnderWay(W, label, t, e.limiter) = W.due[a][t] /\ a # W.last + 1
      BY <1>1, <1>5 DEF InEvaluation, UnderWay
    <2>2. a \in 1 .. W.last
      BY <1>1, <2>1 DEF IsWorld
    <2>3. PassedBefore(W, t, a + 1, es) /\ a + 1 \in 1 .. W.last + 1
      BY <1>1, <1>4, <2>1, <2>2, PassesLimiter
    <2> QED
      BY <1>5, <2>3 DEF OnItsWay, Labels, Through
  <1>6. ASSUME label = "macro" PROVE OnItsWay(W, "handler", t, a, es, td, status)
    <2>1. e.limiter = W.last /\ UnderWay(W, label, t, e.limiter) = W.macro[t] /\ a = W.last + 1
      BY <1>1, <1>6 DEF InEvaluation, UnderWay
    <2>2. PassedMacro(W, t, es)
      BY <1>4, <2>1 DEF PassedMacro
    <2> QED
      BY <1>1, <1>6, <2>1, <2>2 DEF OnItsWay, Labels, Through
  <1> QED
    BY <1>5, <1>6

\* No route rule applies.
LEMMA RouteGoes ==
    ASSUME NEW W, IsWorld(W), NEW t, NEW a, NEW es, NEW td, NEW status,
           OnItsWay(W, "onRequest", t, a, es, td, status), a = W.last + 1, W.macro[t] = {}
    PROVE  OnItsWay(W, "handler", t, a, es, td, status)
  BY DEF OnItsWay, Labels, Through, PassedMacro

\* The handler is done.
LEMMA HandlerGoes ==
    ASSUME NEW W, IsWorld(W), NEW t, NEW a, NEW es, NEW td, NEW status, NEW answer \in {200, 500},
           OnItsWay(W, "handler", t, a, es, td, status)
    PROVE  OnItsWay(W, "done", t, a, es, td, answer)
  BY DEF OnItsWay, Labels, Through

-----------------------------------------------------------------------------
(* Requests that a rule admitted hold different places among the first     *)
(* `limit` hits of a key in the stores that may count it.  W has, beside,  *)
(*   rules   by limiter, the rules there are                               *)
(*   keys    by limiter, rule and target, the key that is hit              *)
(*   stores  by limiter and rule, the stores that may count                *)
(*   limits  by limiter and rule, the limit                                *)

\* Counted, in the counts ct.
Held(ct, c) == IF c \in DOMAIN ct THEN ct[c] ELSE 0

\* The requests of t's key that rule i of limiter l admitted, by their targets tg and
\* evaluations ev.
Admittees(W, tg, ev, l, i, t) ==
    {q \in Requests : /\ tg[q] \in W.targets /\ W.keys[l][i][tg[q]] = W.keys[l][i][t]
                      /\ Admitted(ev[q], l, i)}

Places(W, ct, l, i, t) ==
    {x \in W.stores[l][i] \X (1 .. W.limits[l][i]) : x[2] <= Held(ct, <<x[1], W.keys[l][i][t]>>)}

Placed(W, tg, ev, ct) ==
    \A l \in 1 .. W.last : \A i \in W.rules[l] : \A t \in W.targets :
        \E place : place \in Injection(Admittees(W, tg, ev, l, i, t), Places(W, ct, l, i, t))

\* The last hit of t's key was within the limit.
Fresh(W, before, after, l, i, t) ==
    \E s \in W.stores[l][i] :
        /\ Held(after, <<s, W.keys[l][i][t]>>) \in 1 .. W.limits[l][i]
        /\ Held(before, <<s, W.keys[l][i][t]>>) < Held(after, <<s, W.keys[l][i][t]>>)

LEMMA InjectionGrows ==
    ASSUME NEW P, NEW A, NEW place \in Injection(P, A), NEW B, A \subseteq B,
           NEW Q, NEW q, Q \subseteq P \cup {q},
           q \in Q \ P => \E x \in B : x \notin A
    PROVE  \E g : g \in Injection(Q, B)
  <1> DEFINE g == [p \in Q |-> IF p \in P THEN place[p] ELSE CHOOSE x \in B : x \notin A]
  <1>1. place \in [P -> A] /\ \A a, b \in P : place[a] = place[b] => a = b
    BY DEF Injection, IsInjective
  <1>2. \A p \in Q : \/ p \in P /\ g[p] = place[p] /\ g[p] \in A
                     \/ p = q /\ q \notin P /\ g[p] \in B /\ g[p] \notin A
    BY <1>1
  <1>3. DOMAIN g = Q /\ g = [p \in Q |-> g[p]]
    OBVIOUS
  <1> HIDE DEF g
  <1>4. g \in [Q -> B]
    BY <1>2, <1>3
  <1>5. \A a, b \in Q : g[a] = g[b] => a = b
    BY <1>1, <1>2
  <1> QED
    BY <1>3, <1>4, <1>5 DEF Injection, IsInjective

LEMMA PlacesGrow ==
    ASSUME NEW W, NEW tg, NEW ev, NEW ct, Placed(W, tg, ev, ct),
           NEW tg2, NEW ev2, NEW ct2, NEW q,
           \A c : Held(ct, c) \in Nat /\ Held(ct2, c) \in Nat /\ Held(ct, c) <= Held(ct2, c),
           \A p \in Requests \ {q} : tg2[p] = tg[p] /\ ev2[p] = ev[p],
           \A l \in 1 .. W.last : \A i \in W.rules[l] :
               tg2[q] \in W.targets /\ Admitted(ev2[q], l, i) =>
                   \/ Admitted(ev[q], l, i) /\ tg2[q] = tg[q]
                   \/ Fresh(W, ct, ct2, l, i, tg2[q])
    PROVE  Placed(W, tg2, ev2, ct2)
  <1> SUFFICES ASSUME NEW l \in 1 .. W.last, NEW i \in W.rules[l], NEW t \in W.targets
               PROVE  \E place : place \in Injection(Admittees(W, tg2, ev2, l, i, t),
                                                     Places(W, ct2, l, i, t))
    BY DEF Placed
  <1> DEFINE P == Admittees(W, tg, ev, l, i, t)
             A == Places(W, ct, l, i, t)
             Q == Admittees(W, tg2, ev2, l, i, t)
             B == Places(W, ct2, l, i, t)
  <1>1. PICK place : place \in Injection(P, A)
    BY DEF Placed
  <1>2. A \subseteq B
    <2>1. ASSUME NEW x \in W.stores[l][i] \X (1 .. W.limits[l][i]),
                 x[2] <= Held(ct, <<x[1], W.keys[l][i][t]>>)
          PROVE  x[2] <= Held(ct2, <<x[1], W.keys[l][i][t]>>)
      <3> DEFINE c == <<x[1], W.keys[l][i][t]>>
                 m == Held(ct, c)
                 n == Held(ct2, c)
      <3>1. m \in Nat /\ n \in Nat /\ m <= n /\ x[2] <= m /\ x[2] \in Int
        BY <2>1
      <3> HIDE DEF m, n
      <3>2. x[2] <= n
        BY <3>1
      <3> QED
        BY <3>2 DEF n
    <2> QED
      BY <2>1 DEF Places
  <1>3. Q \subseteq P \cup {q}
    BY DEF Admittees
  <1>4. ASSUME q \in Q \ P PROVE \E x \in B : x \notin A
    <2>1. /\ q \in Requests /\ tg2[q] \in W.targets /\ W.keys[l][i][tg2[q]] = W.keys[l][i][t]
          /\ Admitted(ev2[q], l, i)
      BY <1>4 DEF Admittees
    <2>2. ~(Admitted(ev[q], l, i) /\ tg2[q] = tg[q])
      BY <1>4, <2>1 DEF Admittees
    <2>3. Fresh(W, ct, ct2, l, i, tg2[q])
      BY <2>1, <2>2
    <2>4. PICK s \in W.stores[l][i] :
              /\ Held(ct2, <<s, W.keys[l][i][t]>>) \in 1 .. W.limits[l][i]
              /\ Held(ct, <<s, W.keys[l][i][t]>>) < Held(ct2, <<s, W.keys[l][i][t]>>)
      BY <2>1, <2>3 DEF Fresh
    <2> DEFINE n == Held(ct2, <<s, W.keys[l][i][t]>>)
               m == Held(ct, <<s, W.keys[l][i][t]>>)
               x == <<s, n>>
    <2>5. n \in Nat /\ m \in Nat /\ m < n /\ n \in 1 .. W.limits[l][i]
      BY <2>4
    <2>6. x \in W.stores[l][i] \X (1 .. W.limits[l][i]) /\ x[1] = s /\ x[2] = n
      BY <2>5
    <2> HIDE DEF x
    <2>7. x[2] <= Held(ct2, <<x[1], W.keys[l][i][t]>>)
      <3>1. Held(ct2, <<x[1], W.keys[l][i][t]>>) = n
        BY <2>6
      <3> HIDE DEF n, m
      <3> QED
        BY <2>5, <2>6, <3>1
    <2>8. ~(x[2] <= Held(ct, <<x[1], W.keys[l][i][t]>>))
      <3>1. Held(ct, <<x[1], W.keys[l][i][t]>>) = m
        BY <2>6
      <3> HIDE DEF n, m
      <3> QED
        BY <2>5, <2>6, <3>1
    <2> QED
      BY <2>6, <2>7, <2>8 DEF Places
  <1> HIDE DEF P, A, Q, B
  <1>5. \E g : g \in Injection(Q, B)
    BY <1>1, <1>2, <1>3, <1>4, InjectionGrows
  <1> QED
    BY <1>5 DEF Q, B

LEMMA UpTo ==
    ASSUME NEW k \in Nat
    PROVE  IsFiniteSet(1 .. k) /\ Cardinality(1 .. k) = k
  <1>1. 1 \in Int /\ k \in Int
    OBVIOUS
  <1>2. IsFiniteSet(1 .. k) /\ Cardinality(1 .. k) = IF 1 > k THEN 0 ELSE k - 1 + 1
    BY <1>1, FS_Interval, Zenon
  <1> QED
    BY <1>2

LEMMA FewPlaces ==
    ASSUME NEW W, NEW tg, NEW ev, NEW ct, Placed(W, tg, ev, ct),
           NEW l \in 1 .. W.last, NEW i \in W.rules[l], NEW t \in W.targets,
           NEW T, T \subseteq Admittees(W, tg, ev, l, i, t),
           IsFiniteSet(W.stores[l][i]), W.limits[l][i] \in Nat
    PROVE  Cardinality(T) <= W.limits[l][i] * Cardinality(W.stores[l][i])
  <1> DEFINE Q == Admittees(W, tg, ev, l, i, t)
             A == Places(W, ct, l, i, t)
             S == W.stores[l][i]
             k == W.limits[l][i]
             all == S \X (1 .. k)
  <1>1. PICK place : place \in Injection(Q, A)
    BY DEF Placed
  <1>2. A \subseteq all
    BY DEF Places
  <1> HIDE DEF Q, A, S, k
  <1>3. IsFiniteSet(S) /\ k \in Nat /\ T \subseteq Q /\ Cardinality(S) \in Nat
    BY FS_CardinalityType DEF S, k, Q
  <1>4. IsFiniteSet(1 .. k) /\ Cardinality(1 .. k) = k
    BY <1>3, UpTo
  <1>5. IsFiniteSet(all) /\ Cardinality(all) = Cardinality(S) * k
    BY <1>3, <1>4, FS_Product
  <1> HIDE DEF all
  <1>6. place \in Injection(Q, all)
    BY <1>1, <1>2 DEF Injection
  <1>7. IsFiniteSet(Q) /\ Cardinality(Q) <= Cardinality(all)
    BY <1>5, <1>6, FS_Injection
  <1>8. IsFiniteSet(T) /\ Cardinality(T) <= Cardinality(Q)
    BY <1>3, <1>7, FS_Subset
  <1>9. Cardinality(T) \in Nat /\ Cardinality(Q) \in Nat /\ Cardinality(all) \in Nat
    BY <1>5, <1>7, <1>8, FS_CardinalityType
  <1>10. Cardinality(S) * k = k * Cardinality(S)
    BY <1>3
  <1>11. Cardinality(T) <= k * Cardinality(S)
    BY <1>5, <1>7, <1>8, <1>9, <1>10
  <1> QED
    BY <1>11 DEF k, S

\* Nothing is admitted before there are evaluations.
LEMMA NonePlaced ==
    ASSUME NEW W, NEW tg, NEW ev, NEW ct, \A q \in Requests : ev[q] = <<>>
    PROVE  Placed(W, tg, ev, ct)
  <1> SUFFICES ASSUME NEW l \in 1 .. W.last, NEW i \in W.rules[l], NEW t \in W.targets
               PROVE  \E place : place \in Injection(Admittees(W, tg, ev, l, i, t),
                                                     Places(W, ct, l, i, t))
    BY DEF Placed
  <1>1. Admittees(W, tg, ev, l, i, t) = {}
    BY DEF Admittees, Admitted
  <1>2. [p \in {} |-> 0] \in Injection({}, Places(W, ct, l, i, t))
    BY DEF Injection, IsInjective
  <1> QED
    BY <1>1, <1>2

-----------------------------------------------------------------------------
(* The rules of an application.                                            *)

\* While requests may be under way.
Open == {"serving", "stopping", "stopped"}

\* A limiter that was installed has its compiled rules, and once all is declared a
\* store for each of them that can count for it, in spite of the stop.
RulesKept ==
    /\ RegistriesKept
    /\ rules \in Seq({CompileRules(o) : o \in ToSet(app.limiters)})
    /\ Len(rules) = Len(registry)
    /\ \A l \in DOMAIN registry :
        /\ rules[l] = CompileRules(app.limiters[l]) /\ ~CompileThrows(app.limiters[l])
        /\ phase # "failed" => \A i \in DOMAIN rules[l] : Stored(registry[l], rules[l][i])
    /\ phase \in Open => \A i \in DOMAIN app.routes : Stored(registry[Len(app.limiters)], app.routes[i])

LEMMA RulesStart == Init => RulesKept
  <1> SUFFICES ASSUME Init PROVE RulesKept
    OBVIOUS
  <1>1. RegistriesKept
    BY RegistriesStart
  <1>2. phase = "installing" /\ registry = <<>> /\ rules = <<>>
    BY DEF Init
  <1>3. <<>> \in Seq({CompileRules(o) : o \in ToSet(app.limiters)}) /\ Len(<<>>) = 0 /\ DOMAIN <<>> = {}
    OBVIOUS
  <1> QED
    BY <1>1, <1>2, <1>3 DEF RulesKept, Open

\* What Install does to the rules.
LEMMA InstallKeepsRules ==
    ASSUME RulesKept, Install
    PROVE  RulesKept'
  <1> DEFINE n == Len(registry)
             l == n + 1
             o == app.limiters[l]
             r == CreateStoreRegistry(l, o)
             c == CompileRules(o)
             out == WithStoresFor(r, c, o)
             N == Len(app.limiters)
             R == {CompileRules(p) : p \in ToSet(app.limiters)}
  <1>1. /\ RegistriesKept /\ RegistriesKept' /\ app \in Applications /\ app' = app
        /\ phase = "installing" /\ registry \in Seq(Registries) /\ n < N
        /\ rules \in Seq(R) /\ Len(rules) = n
    BY InstallKeeps DEF RulesKept, RegistriesKept, Install
  <1>2. l \in 1 .. N /\ l \in Nat \ {0} /\ N \in Nat \ {0} /\ n \in Nat /\ DOMAIN app.limiters = 1 .. N
    BY <1>1, ApplicationFacts
  <1>3. CASE CompileThrows(o)
    <2>1. phase' = "failed" /\ registry' = registry /\ rules' = rules
      BY <1>3 DEF Install
    <2> QED
      BY <1>1, <2>1 DEF RulesKept, Open
  <1>4. CASE ~CompileThrows(o)
    <2>1. /\ registry' = Append(registry, out.registry) /\ rules' = Append(rules, c)
          /\ phase' = IF out.threw THEN "failed" ELSE IF l = N THEN "declaring" ELSE "installing"
      BY <1>4 DEF Install, LastLimiter
    <2>2. HasStoreOptions(o)
      BY <1>1, <1>2, ApplicationFacts
    <2>3. Sound(r, l, o)
      BY <1>2, <2>2, CreatesSound
    <2>4. c \in Seq(ToSet(c)) /\ \A rule \in ToSet(c) : rule.store \in StoreKeys
      BY <1>1, <1>2, ApplicationFacts DEF IsRule, StoreKeys
    <2>5. /\ Sound(out.registry, l, o) /\ out.threw \in BOOLEAN
          /\ ~out.threw => \A i \in DOMAIN c : Stored(out.registry, c[i])
      <3> HIDE DEF r, o, l, c
      <3> QED
        BY <1>2, <2>2, <2>3, <2>4, LookupsSound
    <2>6. out.registry \in Registries
      BY <2>5 DEF Sound
    <2>7. c \in R
      BY <1>2 DEF ToSet
    <2> HIDE DEF out, r, c, R
    <2>8. /\ Len(registry') = l /\ DOMAIN registry' = 1 .. l
          /\ \A i \in 1 .. n : registry'[i] = registry[i]
          /\ registry'[l] = out.registry
      BY <1>1, <2>1, <2>6, AppendProperties
    <2>9. /\ rules' \in Seq(R) /\ Len(rules') = l
          /\ \A i \in 1 .. n : rules'[i] = rules[i]
          /\ rules'[l] = c
      BY <1>1, <2>1, <2>7, AppendProperties
    <2>10. \A i \in 1 .. l : i = l \/ i \in 1 .. n
      BY <1>2
    <2>11. DOMAIN registry = 1 .. n
      BY <1>1
    <2>12. phase' # "failed" => ~out.threw
      BY <2>1
    <2>13. phase' \notin Open
      BY <2>1 DEF Open
    <2> HIDE DEF l, n
    <2>14. ASSUME NEW i \in DOMAIN registry'
           PROVE  /\ rules'[i] = CompileRules(app'.limiters[i]) /\ ~CompileThrows(app'.limiters[i])
                  /\ phase' # "failed" =>
                        \A j \in DOMAIN rules'[i] : Stored(registry'[i], rules'[i][j])
      <3>1. CASE i = l
        BY <1>1, <1>4, <2>5, <2>8, <2>9, <2>12, <3>1 DEF c
      <3>2. CASE i \in 1 .. n
        BY <1>1, <2>8, <2>9, <2>11, <3>2 DEF RulesKept
      <3> QED
        BY <2>8, <2>10, <3>1, <3>2
    <2> QED
      BY <1>1, <2>8, <2>9, <2>13, <2>14 DEF RulesKept, R
  <1> QED
    BY <1>3, <1>4

LEMMA DeclareKeepsRules ==
    ASSUME RulesKept, Declare
    PROVE  RulesKept'
  <1> DEFINE N == Len(app.limiters)
             o == app.limiters[N]
             r == registry[N]
             out == WithStoresFor(r, app.routes, o)
  <1>1. /\ RegistriesKept /\ RegistriesKept' /\ app \in Applications /\ app' = app /\ stopAt = 1
        /\ phase = "declaring" /\ registry \in Seq(Registries) /\ Len(registry) = N
        /\ registry' = [registry EXCEPT ![N] = out.registry] /\ rules' = rules
        /\ phase' = IF out.threw THEN "failed" ELSE "serving"
    BY DeclareKeeps DEF RulesKept, RegistriesKept, Declare, LastLimiter, Installed
  <1>2. N \in Nat \ {0} /\ N \in 1 .. N /\ DOMAIN registry = 1 .. N
    BY <1>1, ApplicationFacts
  <1>3. HasStoreOptions(o)
    BY <1>1, <1>2, ApplicationFacts
  <1>4. Sound(r, N, o)
    BY <1>1, <1>2 DEF RegistriesKept
  <1>5. /\ app.routes \in Seq(ToSet(app.routes))
        /\ \A rule \in ToSet(app.routes) : rule.store \in StoreKeys
    BY <1>1, ApplicationFacts DEF IsRule, StoreKeys
  <1>6. /\ Sound(out.registry, N, o) /\ Extends(out.registry, r)
        /\ ~out.threw => \A i \in DOMAIN app.routes : Stored(out.registry, app.routes[i])
    <2> HIDE DEF r, o, N
    <2> QED
      BY <1>2, <1>3, <1>4, <1>5, LookupsSound
  <1> HIDE DEF out
  <1>7. out.registry \in Registries
    BY <1>6 DEF Sound
  <1>8. /\ registry' \in Seq(Registries) /\ Len(registry') = N
        /\ \A i \in 1 .. N : registry'[i] = IF i = N THEN out.registry ELSE registry[i]
    BY <1>1, <1>2, <1>7, ExceptSeq
  <1>9. DOMAIN registry' = 1 .. N
    BY <1>8
  <1> HIDE DEF N
  <1>10. ASSUME NEW i \in DOMAIN registry'
         PROVE  /\ rules'[i] = CompileRules(app'.limiters[i]) /\ ~CompileThrows(app'.limiters[i])
                /\ phase' # "failed" => \A j \in DOMAIN rules'[i] : Stored(registry'[i], rules'[i][j])
    <2>1. /\ rules[i] = CompileRules(app.limiters[i]) /\ ~CompileThrows(app.limiters[i])
          /\ \A j \in DOMAIN rules[i] : Stored(registry[i], rules[i][j])
      BY <1>1, <1>2, <1>9 DEF RulesKept
    <2>2. CASE i = N
      BY <1>1, <1>6, <1>8, <1>9, <2>1, <2>2, ExtendsKeepsStored DEF r
    <2>3. CASE i # N
      BY <1>1, <1>8, <1>9, <2>1, <2>3
    <2> QED
      BY <2>2, <2>3
  <1>11. phase' \in Open => ~out.threw
    BY <1>1 DEF Open
  <1>12. registry'[N] = out.registry
    BY <1>2, <1>8
  <1>13. phase' \in Open => \A i \in DOMAIN app'.routes : Stored(registry'[Len(app'.limiters)], app'.routes[i])
    BY <1>1, <1>6, <1>11, <1>12 DEF N
  <1>14. rules' \in Seq({CompileRules(p) : p \in ToSet(app'.limiters)}) /\ Len(rules') = Len(registry')
    BY <1>1, <1>8 DEF RulesKept
  <1> QED
    BY <1>1, <1>10, <1>13, <1>14 DEF RulesKept

\* The hits do not see a registry close.
LEMMA OnStopKeepsStores ==
    ASSUME RegistriesKept, OnStop
    PROVE  /\ phase' \in Open /\ phase \in Open /\ DOMAIN registry' = DOMAIN registry
           /\ Len(registry') = Len(registry)
           /\ \A l \in DOMAIN registry : /\ registry'[l].cache = registry[l].cache
                                         /\ registry'[l].fallback = registry[l].fallback
  <1> DEFINE k == stopAt
             c == Close(registry[k])
  <1>1. /\ app \in Applications /\ phase = "stopping" /\ k \in 1 .. Len(registry)
        /\ registry \in Seq(Registries)
        /\ registry' = [registry EXCEPT ![k] = c]
        /\ phase' \in {"stopping", "stopped"}
    BY DEF RegistriesKept, OnStop, LastLimiter, Installed
  <1>2. DOMAIN registry = 1 .. Len(registry)
    BY <1>1
  <1>3. Sound(registry[k], k, app.limiters[k])
    BY <1>1, <1>2 DEF RegistriesKept
  <1>4. registry[k] \in Registries /\ IsInjective(registry[k].activeStores)
    BY <1>3 DEF Sound, Tracks
  <1>5. c \in Registries /\ c.cache = registry[k].cache /\ c.fallback = registry[k].fallback
    BY <1>4, ClosesAll
  <1> HIDE DEF c
  <1>6. /\ registry' \in Seq(Registries) /\ Len(registry') = Len(registry)
        /\ \A i \in 1 .. Len(registry) : registry'[i] = IF i = k THEN c ELSE registry[i]
    BY <1>1, <1>5, ExceptSeq
  <1>7. DOMAIN registry' = 1 .. Len(registry)
    BY <1>6
  <1> HIDE DEF k
  <1>8. phase \in Open /\ phase' \in Open
    BY <1>1 DEF Open
  <1> QED
    BY <1>2, <1>5, <1>6, <1>7, <1>8

LEMMA SameStored ==
    ASSUME NEW r, NEW n, n.cache = r.cache, n.fallback = r.fallback, NEW rule, Stored(r, rule)
    PROVE  Stored(n, rule)
  BY DEF Stored, Supported, StoreFor

LEMMA RulesInductive == RulesKept /\ [Next]_vars => RulesKept'
  <1> SUFFICES ASSUME RulesKept, [Next]_vars PROVE RulesKept'
    OBVIOUS
  <1>0. RegistriesKept /\ RegistriesKept'
    BY RegistriesInductive DEF RulesKept
  <1>1. CASE Install
    BY <1>1, InstallKeepsRules
  <1>2. CASE Declare
    BY <1>2, DeclareKeepsRules
  <1>3. CASE Stop
    <2>1. phase = "serving" /\ app' = app /\ registry' = registry /\ rules' = rules
      BY <1>3 DEF Stop
    <2> QED
      BY <1>0, <2>1 DEF RulesKept, Open
  <1>4. CASE OnStop
    <2>1. app' = app /\ rules' = rules /\ phase = "stopping" /\ app \in Applications
      BY <1>4 DEF OnStop, RulesKept, RegistriesKept
    <2>2. /\ phase' \in Open /\ phase \in Open /\ DOMAIN registry' = DOMAIN registry
          /\ Len(registry') = Len(registry)
          /\ \A l \in DOMAIN registry : /\ registry'[l].cache = registry[l].cache
                                        /\ registry'[l].fallback = registry[l].fallback
      BY <1>0, <1>4, OnStopKeepsStores
    <2>3. ASSUME NEW l \in DOMAIN registry', NEW i \in DOMAIN rules[l]
          PROVE  Stored(registry'[l], rules[l][i])
      BY <2>1, <2>2, SameStored DEF RulesKept
    <2>4. Len(app.limiters) \in DOMAIN registry
      <3>1. registry \in Seq(Registries) /\ Len(registry) = Len(app.limiters)
        BY <1>0, <2>1 DEF RegistriesKept, Installed
      <3>2. Len(app.limiters) \in Nat \ {0}
        BY <2>1, ApplicationFacts
      <3>3. Len(registry) \in 1 .. Len(registry)
        BY <3>1, <3>2
      <3> QED
        BY <3>1, <3>3
    <2>5. ASSUME NEW i \in DOMAIN app.routes
          PROVE  Stored(registry'[Len(app.limiters)], app.routes[i])
      BY <2>2, <2>4, SameStored DEF RulesKept
    <2> QED
      BY <1>0, <2>1, <2>2, <2>3, <2>5 DEF RulesKept
  <1>5. CASE UNCHANGED setup
    BY <1>0, <1>5 DEF setup, RulesKept
  <1>6. ASSUME NEW q \in Requests, RequestStep(q) PROVE UNCHANGED setup
    BY <1>6 DEF RequestStep, Receive, FastRequest, OnRequest, BeforeHandle, HitRule, Conclude,
                HandlerThrows, Respond
  <1>7. CASE UNCHANGED vars
    BY <1>5, <1>7 DEF vars, setup
  <1> QED
    BY <1>1, <1>2, <1>3, <1>4, <1>5, <1>6, <1>7 DEF Next

-----------------------------------------------------------------------------
(* The requests of an application.                                         *)

\* A rule that blocks when no store answers, or whose own store always answers.
Firm(l, i) == PolicyOf(l, i) = "block" \/ RuleStore(l, i) \notin CustomStores

StoresOf(l, i) == {RuleStore(l, i), registry[l].fallback} \ {NoStore}

\* What the requests of this application meet.
World ==
    [last |-> LastLimiter, targets |-> app.targets, decisions |-> Decisions,
     due |-> [l \in Limiters |-> [t \in app.targets |-> ToSet(Due(l, t))]],
     macro |-> [t \in app.targets |-> ToSet(MacroDue(t))],
     firm |-> {x \in Limiters \X Int : Firm(x[1], x[2])},
     rules |-> [l \in Limiters |-> RuleIndices(l)],
     keys |-> [l \in Limiters |-> [i \in RuleIndices(l) |-> [t \in app.targets |-> KeyOf(l, i, t)]]],
     stores |-> [l \in Limiters |-> [i \in RuleIndices(l) |-> StoresOf(l, i)]],
     limits |-> [l \in Limiters |-> [i \in RuleIndices(l) |-> RuleOf(l, i).limit]]]

Deferrals == {NoDecision} \cup [decision : Decisions, allowed : [Families -> BOOLEAN]]

Answers ==
    [status : {0, 200, 429, 500}, headers : [Families -> {NoDecision} \cup Decisions],
     retryAfter : {0, 1}, by : Nat]

RequestsTyped ==
    /\ pc \in [Requests -> Labels]
    /\ target \in [Requests -> {NoTarget} \cup app.targets]
    /\ at \in [Requests -> 1 .. LastLimiter + 1]
    /\ todo \in [Requests -> Seq(Int)]
    /\ evals \in [Requests -> Evals(World)]
    /\ deferred \in [Requests -> [Limiters -> Deferrals]]
    /\ response \in [Requests -> Answers]
    /\ \A c \in DOMAIN count : count[c] \in Nat

Served ==
    /\ RulesKept
    /\ RequestsTyped
    /\ phase \notin Open => \A q \in Requests : pc[q] = "idle"
    /\ \A q \in Requests :
        OnItsWay(World, pc[q], target[q], at[q], evals[q], todo[q], response[q].status)
    /\ Placed(World, target, evals, count)

LEMMA WorldFacts ==
    ASSUME app \in Applications
    PROVE  /\ IsWorld(World) /\ World.last = LastLimiter /\ World.targets = app.targets
           /\ World.decisions = Decisions /\ Limiters = 1 .. LastLimiter
           /\ LastLimiter \in Nat \ {0}
           /\ \A t \in app.targets : World.macro[t] = ToSet(MacroDue(t))
           /\ \A l \in Limiters :
               /\ \A t \in app.targets : World.due[l][t] = ToSet(Due(l, t))
               /\ \A i \in Int : <<l, i>> \in World.firm <=> Firm(l, i)
               /\ World.rules[l] = RuleIndices(l)
               /\ \A i \in RuleIndices(l) :
                   /\ World.stores[l][i] = StoresOf(l, i)
                   /\ World.limits[l][i] = RuleOf(l, i).limit
                   /\ \A t \in app.targets : World.keys[l][i][t] = KeyOf(l, i, t)
  <1>1. LastLimiter \in Nat \ {0} /\ Limiters = 1 .. LastLimiter
    BY ApplicationFacts DEF LastLimiter, Limiters
  <1>2. IsWorld(World) /\ World.last = LastLimiter
    BY <1>1 DEF IsWorld, World
  <1> QED
    BY <1>1, <1>2 DEF World

LEMMA WorldStays ==
    ASSUME app' = app, rules' = rules,
           \A l \in Limiters : /\ registry'[l].cache = registry[l].cache
                               /\ registry'[l].fallback = registry[l].fallback
    PROVE  World' = World
  <1>1. /\ Limiters' = Limiters /\ LastLimiter' = LastLimiter /\ Decisions' = Decisions
        /\ app'.targets = app.targets
    BY DEF Limiters, LastLimiter, Decisions
  <1>2. ASSUME NEW l PROVE (RuleIndices(l))' = RuleIndices(l)
    BY <1>1 DEF RuleIndices
  <1>3. ASSUME NEW l, NEW i PROVE (RuleOf(l, i))' = RuleOf(l, i)
    BY DEF RuleOf
  <1>4. ASSUME NEW l \in Limiters, NEW i
        PROVE  (RuleStore(l, i))' = RuleStore(l, i)
    BY <1>3 DEF RuleStore, StoreFor
  <1>5. ASSUME NEW l \in Limiters, NEW i
        PROVE  (Firm(l, i))' <=> Firm(l, i)
    BY <1>3, <1>4 DEF Firm, PolicyOf
  <1>6. ASSUME NEW l \in Limiters, NEW i
        PROVE  (StoresOf(l, i))' = StoresOf(l, i)
    BY <1>4 DEF StoresOf
  <1>7. ASSUME NEW l, NEW i, NEW t
        PROVE  (KeyOf(l, i, t))' = KeyOf(l, i, t)
    BY <1>3 DEF KeyOf, RuleId
  <1>8. ASSUME NEW l, NEW t PROVE (Due(l, t))' = Due(l, t)
    BY DEF Due, Skips, ActiveRules
  <1>9. ASSUME NEW t PROVE (MacroDue(t))' = MacroDue(t)
    BY <1>1 DEF MacroDue, Skips
  <1>10. \A l \in Limiters :
            /\ (RuleIndices(l))' = RuleIndices(l)
            /\ \A i \in RuleIndices(l) : /\ (StoresOf(l, i))' = StoresOf(l, i)
                                         /\ (RuleOf(l, i).limit)' = RuleOf(l, i).limit
                                         /\ \A t \in app.targets : (KeyOf(l, i, t))' = KeyOf(l, i, t)
            /\ \A t \in app.targets : (ToSet(Due(l, t)))' = ToSet(Due(l, t))
    BY <1>2, <1>3, <1>6, <1>7, <1>8
  <1>11. {x \in Limiters \X Int : Firm(x[1], x[2])}' = {x \in Limiters \X Int : Firm(x[1], x[2])}
    BY <1>1, <1>5
  <1> QED
    BY <1>1, <1>9, <1>10, <1>11 DEF World

\* What a rule of an application under way is.
LEMMA RuleFacts ==
    ASSUME RulesKept, phase \in Open, NEW l \in Limiters, NEW i \in RuleIndices(l)
    PROVE  /\ i \in Int /\ IsRule(RuleOf(l, i)) /\ Stored(registry[l], RuleOf(l, i))
           /\ PolicyOf(l, i) \in {"allow", "block"}
           /\ l \in DOMAIN registry /\ Usable(registry[l], l, app.limiters[l])
  <1> DEFINE N == Len(app.limiters)
  <1>1. /\ RegistriesKept /\ app \in Applications /\ registry \in Seq(Registries) /\ Len(registry) = N
        /\ phase # "failed"
    BY DEF RulesKept, RegistriesKept, Open, Installed
  <1>2. N \in Nat \ {0} /\ Limiters = 1 .. N /\ DOMAIN registry = 1 .. N
    BY <1>1, ApplicationFacts DEF Limiters
  <1>3. l \in DOMAIN registry
    BY <1>2
  <1>4. Usable(registry[l], l, app.limiters[l])
    BY <1>1, <1>3 DEF RegistriesKept
  <1>5. rules[l] = CompileRules(app.limiters[l])
    BY <1>3 DEF RulesKept
  <1>6. rules[l] \in Seq(ToSet(rules[l])) /\ \A rule \in ToSet(rules[l]) : IsRule(rule)
    BY <1>1, <1>2, <1>5, ApplicationFacts
  <1>7. app.routes \in Seq(ToSet(app.routes)) /\ \A rule \in ToSet(app.routes) : IsRule(rule)
    BY <1>1, ApplicationFacts
  <1> DEFINE Fine == IsRule(RuleOf(l, i)) /\ i \in Int /\ Stored(registry[l], RuleOf(l, i))
  <1>8. ASSUME i \in DOMAIN rules[l] PROVE Fine
    <2>1. i \in Nat \ {0}
      BY <1>6, <1>8
    <2>2. RuleOf(l, i) = rules[l][i]
      BY <2>1 DEF RuleOf
    <2>3. IsRule(rules[l][i])
      BY <1>6, <1>8 DEF ToSet
    <2>4. Stored(registry[l], rules[l][i])
      BY <1>1, <1>3, <1>8 DEF RulesKept
    <2> QED
      BY <2>1, <2>2, <2>3, <2>4
  <1>9. ASSUME i \notin DOMAIN rules[l] PROVE Fine
    <2>1. PICK j \in DOMAIN app.routes : i = -j /\ l = N
      BY <1>9 DEF RuleIndices, LastLimiter
    <2>2. j \in Nat \ {0}
      BY <1>7, <2>1
    <2>3. i \in Int /\ ~(i > 0) /\ -i = j
      BY <2>1, <2>2
    <2>4. RuleOf(l, i) = app.routes[j]
      BY <2>3 DEF RuleOf
    <2>5. IsRule(app.routes[j])
      BY <1>7, <2>1 DEF ToSet
    <2>6. Stored(registry[l], app.routes[j])
      BY <2>1 DEF RulesKept
    <2> QED
      BY <2>3, <2>4, <2>5, <2>6
  <1>10. IsRule(RuleOf(l, i)) /\ i \in Int /\ Stored(registry[l], RuleOf(l, i))
    BY <1>8, <1>9
  <1>11. PolicyOf(l, i) \in {"allow", "block"}
    <2>1. RuleOf(l, i).onStoreError \in {"inherit", "allow", "block"}
      BY <1>10 DEF IsRule
    <2>2. app.limiters[l] \in ToSet(app.limiters)
      BY DEF Limiters, ToSet
    <2>3. app.limiters[l].onStoreError \in {"allow", "block"}
      BY <1>1, <2>2, ApplicationsType
    <2> QED
      BY <2>1, <2>3 DEF PolicyOf
  <1> QED
    BY <1>3, <1>4, <1>10, <1>11

\* Only custom stores are closed, and a rule's memory store answers.
LEMMA StoreFacts ==
    ASSUME RulesKept, phase \in Open, NEW l \in Limiters, NEW i \in RuleIndices(l)
    PROVE  /\ \A s : Closed(s) => s \in CustomStores
           /\ RuleStore(l, i) \notin CustomStores => /\ RuleStore(l, i) # NoStore
                                                     /\ Serving(l, i) = RuleStore(l, i)
           /\ Serving(l, i) # NoStore => Serving(l, i) \in StoresOf(l, i)
           /\ NoStore \notin CustomStores
  <1> DEFINE o == app.limiters[l]
             r == registry[l]
             k == RuleOf(l, i).store
             s == RuleStore(l, i)
  <1>1. /\ RegistriesKept /\ registry \in Seq(Registries)
        /\ l \in DOMAIN r \/ TRUE
    BY DEF RulesKept, RegistriesKept
  <1>2. Usable(r, l, o) /\ k \in DOMAIN r.cache /\ l \in DOMAIN registry
    BY RuleFacts DEF Stored
  <1>3. \A t : Closed(t) => t \in CustomStores
    <2>1. ASSUME NEW t, NEW j \in DOMAIN registry, Contains(registry[j].closed, t)
          PROVE  t \in CustomStores
      <3>1. t \in ToSet(registry[j].closed)
        BY <2>1 DEF Contains, ToSet
      <3>2. j \in Int /\ stopAt \in Int
        BY <1>1 DEF RegistriesKept
      <3>3. CASE j >= stopAt
        <4>1. registry[j].closed = <<>>
          BY <1>1, <3>3 DEF RegistriesKept, Sound
        <4> QED
          BY <3>1, <4>1 DEF ToSet
      <3>4. CASE j < stopAt
        <4>1. ToSet(registry[j].closed) \subseteq WithClose
          BY <1>1, <3>4 DEF RegistriesKept, Released
        <4> QED
          BY <3>1, <4>1, CustomParts
      <3> QED
        BY <3>2, <3>3, <3>4
    <2> QED
      BY <2>1 DEF Closed
  <1>4. NoStore \notin CustomStores
    BY CustomObjects DEF NoStore
  <1>5. s = r.cache[k]
    BY DEF RuleStore, StoreFor, RuleStoreCacheKey
  <1>6. ASSUME s \notin CustomStores PROVE s # NoStore
    <2>1. s \in ToSet(r.activeStores)
      BY <1>2, <1>5 DEF Usable, Caches
    <2>2. PICK m \in 1 .. r.built : s = <<r.owner, m>>
      BY <1>2, <1>6, <2>1 DEF Usable, Tracks
    <2>3. m # 0
      BY <1>2, <2>2 DEF Usable, Registries
    <2> QED
      BY <2>2, <2>3 DEF NoStore
  <1>7. s \notin CustomStores => Serving(l, i) = s
    BY <1>3 DEF Serving
  <1>8. Serving(l, i) # NoStore => Serving(l, i) \in StoresOf(l, i)
    BY DEF Serving, StoresOf
  <1> QED
    BY <1>3, <1>4, <1>6, <1>7, <1>8

\* The rules a request is subject to are rules of the limiter.
LEMMA DueFacts ==
    ASSUME RulesKept, phase \in Open, NEW l \in Limiters, NEW t
    PROVE  /\ Due(l, t) \in Seq(Int) /\ ToSet(Due(l, t)) \subseteq RuleIndices(l)
           /\ ToSet(Due(l, t)) = IF Skips(l, t) THEN {}
                                 ELSE {i \in DOMAIN rules[l] : Matches(rules[l][i], t)}
           /\ DOMAIN rules[l] \subseteq RuleIndices(l)
           /\ MacroDue(t) \in Seq(Int) /\ ToSet(MacroDue(t)) \subseteq RuleIndices(LastLimiter)
           /\ ToSet(MacroDue(t)) \subseteq {-j : j \in DOMAIN app.routes}
  <1> DEFINE N == Len(app.limiters)
  <1>1. RegistriesKept /\ app \in Applications /\ registry \in Seq(Registries) /\ Len(registry) = N
    BY DEF RulesKept, RegistriesKept, Open, Installed
  <1>2. N \in Nat \ {0} /\ Limiters = 1 .. N /\ DOMAIN registry = 1 .. N
    BY <1>1, ApplicationFacts DEF Limiters
  <1>3. rules[l] = CompileRules(app.limiters[l])
    BY <1>2 DEF RulesKept
  <1>4. rules[l] \in Seq(ToSet(rules[l])) /\ app.routes \in Seq(ToSet(app.routes))
    BY <1>1, <1>2, <1>3, ApplicationFacts
  <1>5. ASSUME NEW n \in Nat, NEW C
        PROVE  /\ OnlyIn([i \in 1 .. n |-> i], C) \in Seq(Int)
               /\ ToSet(OnlyIn([i \in 1 .. n |-> i], C)) = (1 .. n) \cap C
               /\ OnlyIn([i \in 1 .. n |-> -i], C) \in Seq(Int)
               /\ ToSet(OnlyIn([i \in 1 .. n |-> -i], C)) = {-i : i \in 1 .. n} \cap C
    <2> DEFINE u == [i \in 1 .. n |-> i]
               v == [i \in 1 .. n |-> -i]
    <2>1. u \in Seq(Int) /\ v \in Seq(Int)
      OBVIOUS
    <2>2. ToSet(u) = 1 .. n
      BY DEF ToSet
    <2>3. ToSet(v) = {-i : i \in 1 .. n}
      BY DEF ToSet
    <2> HIDE DEF u, v
    <2>4. OnlyIn(u, C) \in Seq(Int) /\ ToSet(OnlyIn(u, C)) = (1 .. n) \cap C
      BY <2>1, <2>2, OnlyInKeeps
    <2>5. OnlyIn(v, C) \in Seq(Int) /\ ToSet(OnlyIn(v, C)) = {-i : i \in 1 .. n} \cap C
      BY <2>1, <2>3, OnlyInKeeps
    <2> QED
      BY <2>4, <2>5 DEF u, v
  <1>6. PICK n \in Nat : DOMAIN rules[l] = 1 .. n
    BY <1>4, LenProperties
  <1>7. PICK m \in Nat : DOMAIN app.routes = 1 .. m
    BY <1>4, LenProperties
  <1>8. DOMAIN rules[l] \subseteq RuleIndices(l)
    BY DEF RuleIndices
  <1>9. /\ Due(l, t) \in Seq(Int)
        /\ ToSet(Due(l, t)) = IF Skips(l, t) THEN {}
                              ELSE {i \in DOMAIN rules[l] : Matches(rules[l][i], t)}
    <2> DEFINE C == {i \in DOMAIN rules[l] : Matches(rules[l][i], t)}
    <2>1. ActiveRules(l, t) = OnlyIn([i \in 1 .. n |-> i], C)
      BY <1>6 DEF ActiveRules
    <2>2. ActiveRules(l, t) \in Seq(Int) /\ ToSet(ActiveRules(l, t)) = C
      <3>1. C = (1 .. n) \cap C
        BY <1>6
      <3> HIDE DEF C
      <3> QED
        BY <1>5, <2>1, <3>1
    <2>3. <<>> \in Seq(Int) /\ ToSet(<<>>) = {}
      BY DEF ToSet
    <2> QED
      BY <2>2, <2>3 DEF Due
  <1>10. MacroDue(t) \in Seq(Int) /\ ToSet(MacroDue(t)) \subseteq {-j : j \in DOMAIN app.routes}
    <2> DEFINE C == {-i : i \in {j \in DOMAIN app.routes :
                                    MethodMatches(t[1], app.routes[j]) /\ t[2] = app.routes[j].path}}
    <2>1. \/ MacroDue(t) = <<>>
          \/ MacroDue(t) = OnlyIn([i \in 1 .. m |-> -i], C)
      BY <1>7 DEF MacroDue
    <2>2. <<>> \in Seq(Int) /\ ToSet(<<>>) = {}
      BY DEF ToSet
    <2>3. OnlyIn([i \in 1 .. m |-> -i], C) \in Seq(Int)
      <3> HIDE DEF C
      <3> QED
        BY <1>5
    <2>4. ToSet(OnlyIn([i \in 1 .. m |-> -i], C)) \subseteq {-i : i \in 1 .. m}
      <3> HIDE DEF C
      <3>1. ToSet(OnlyIn([i \in 1 .. m |-> -i], C)) = {-i : i \in 1 .. m} \cap C
        BY <1>5
      <3> QED
        BY <3>1
    <2> HIDE DEF C
    <2> QED
      BY <1>7, <2>1, <2>2, <2>3, <2>4
  <1>11. {-j : j \in DOMAIN app.routes} \subseteq RuleIndices(LastLimiter)
    BY DEF RuleIndices
  <1> QED
    BY <1>8, <1>9, <1>10, <1>11

\* A hit counts one more in its store, for its key.
LEMMA ChargeCounts ==
    ASSUME \A d \in DOMAIN count : count[d] \in Nat, NEW c, count' = Charged(c)
    PROVE  /\ \A d \in DOMAIN count' : count'[d] \in Nat
           /\ \A d : /\ Held(count, d) \in Nat /\ Held(count', d) \in Nat
                     /\ Held(count', d) = Held(count, d) + IF d = c THEN 1 ELSE 0
                     /\ Held(count, d) <= Held(count', d)
           /\ Counted(c) = Held(count, c) /\ Held(count', c) = Counted(c) + 1
           /\ Counted(c) \in Nat
  <1>1. \A d : Counted(d) = Held(count, d) /\ Held(count, d) \in Nat
    BY DEF Counted, Held
  <1>2. /\ DOMAIN count' = DOMAIN count \cup {c}
        /\ \A d \in DOMAIN count \cup {c} : count'[d] = Counted(d) + IF d = c THEN 1 ELSE 0
    BY DEF Charged
  <1>3. ASSUME NEW d
        PROVE  /\ Held(count', d) \in Nat
               /\ Held(count', d) = Held(count, d) + IF d = c THEN 1 ELSE 0
               /\ Held(count, d) <= Held(count', d)
    <2> DEFINE n == Counted(d)
    <2>1. n \in Nat /\ Held(count, d) = n
      BY <1>1
    <2>2. CASE d \in DOMAIN count \cup {c}
      <3>1. Held(count', d) = n + IF d = c THEN 1 ELSE 0
        BY <1>2, <2>2 DEF Held
      <3> HIDE DEF n
      <3> QED
        BY <2>1, <3>1
    <2>3. CASE d \notin DOMAIN count \cup {c}
      <3>1. Held(count', d) = 0 /\ n = 0 /\ d # c
        BY <1>2, <2>3 DEF Held, Counted
      <3> HIDE DEF n
      <3> QED
        BY <2>1, <3>1
    <2> QED
      BY <2>2, <2>3
  <1>4. \A d \in DOMAIN count' : count'[d] \in Nat
    BY <1>3 DEF Held
  <1> QED
    BY <1>1, <1>3, <1>4

LEMMA ToDecisionIs ==
    ASSUME RulesKept, phase \in Open, NEW l \in Limiters, NEW i \in RuleIndices(l), NEW n \in Nat
    PROVE  /\ ToDecision(l, i, n) \in Decisions
           /\ ToDecision(l, i, n).limiter = l /\ ToDecision(l, i, n).rule = i
           /\ ToDecision(l, i, n).blocked <=> n > RuleOf(l, i).limit
           /\ SynthesizeBlock(l, i) \in Decisions
           /\ SynthesizeBlock(l, i).limiter = l /\ SynthesizeBlock(l, i).rule = i
           /\ SynthesizeBlock(l, i).blocked
  <1>1. i \in Int /\ RuleOf(l, i).limit \in Nat
    BY RuleFacts DEF IsRule
  <1> DEFINE k == RuleOf(l, i).limit
             m == IF n <= k THEN k - n ELSE 0
             w == IF n <= k THEN 0 ELSE 1
             b == n > k
  <1>2. m \in Nat /\ w \in {0, 1} /\ b \in BOOLEAN /\ k \in Nat
    BY <1>1
  <1>3. ToDecision(l, i, n) =
            [limiter |-> l, rule |-> i, limit |-> k, remaining |-> m, retryAfter |-> w, blocked |-> b]
    BY DEF ToDecision
  <1>4. SynthesizeBlock(l, i) =
            [limiter |-> l, rule |-> i, limit |-> k, remaining |-> 0, retryAfter |-> 1, blocked |-> TRUE]
    BY DEF SynthesizeBlock
  <1>5. b <=> n > RuleOf(l, i).limit
    OBVIOUS
  <1> HIDE DEF k, m, w, b
  <1>6. ASSUME NEW u \in Nat, NEW v \in {0, 1}, NEW x \in BOOLEAN
        PROVE  LET d == [limiter |-> l, rule |-> i, limit |-> k, remaining |-> u, retryAfter |-> v,
                         blocked |-> x]
               IN  d \in Decisions /\ d.limiter = l /\ d.rule = i /\ d.blocked = x
    BY <1>1, <1>2 DEF Decisions
  <1>7. \A u \in Nat, v \in {0, 1}, x \in BOOLEAN :
            LET d == [limiter |-> l, rule |-> i, limit |-> k, remaining |-> u, retryAfter |-> v,
                      blocked |-> x]
            IN  d \in Decisions /\ d.limiter = l /\ d.rule = i /\ d.blocked = x
    BY <1>6
  <1>8. 0 \in Nat /\ 1 \in {0, 1} /\ TRUE \in BOOLEAN
    OBVIOUS
  <1>9. /\ ToDecision(l, i, n) \in Decisions
        /\ ToDecision(l, i, n).limiter = l /\ ToDecision(l, i, n).rule = i
        /\ ToDecision(l, i, n).blocked = b
    <2>1. LET d == [limiter |-> l, rule |-> i, limit |-> k, remaining |-> m, retryAfter |-> w,
                    blocked |-> b]
          IN  d \in Decisions /\ d.limiter = l /\ d.rule = i /\ d.blocked = b
      BY <1>2, <1>7, Zenon
    <2> QED
      BY <1>3, <2>1, Zenon
  <1>10. /\ SynthesizeBlock(l, i) \in Decisions
         /\ SynthesizeBlock(l, i).limiter = l /\ SynthesizeBlock(l, i).rule = i
         /\ SynthesizeBlock(l, i).blocked = TRUE
    BY <1>4, <1>7, <1>8, Zenon
  <1> QED
    BY <1>5, <1>9, <1>10, Zenon

LEMMA DecisionFacts ==
    ASSUME app \in Applications
    PROVE  /\ NoDecision \notin Decisions /\ Comparable(Decisions)
           /\ NoDecision \notin [decision : Decisions, allowed : [Families -> BOOLEAN]]
  <1> DEFINE any == [limiter : Nat, rule : Int, limit : Nat, remaining : Nat, retryAfter : {0, 1},
                     blocked : BOOLEAN]
             D == Decisions
             B == [Families -> BOOLEAN]
  <1>1. Limiters \subseteq Nat
    BY ApplicationFacts DEF Limiters
  <1>2. D \subseteq any
    BY <1>1 DEF Decisions
  <1>3. Comparable(Decisions)
    BY DEF Comparable, Decisions
  <1>4. NoDecision \notin any /\ NoDecision \notin [decision : any, allowed : B]
    BY NotADecision
  <1> HIDE DEF any, D, B
  <1>5. NoDecision \notin D /\ NoDecision \notin [decision : D, allowed : B]
    <2>1. [decision : D, allowed : B] \subseteq [decision : any, allowed : B]
      BY <1>2
    <2> QED
      BY <1>2, <1>4, <2>1
  <1> QED
    BY <1>3, <1>5 DEF D, B

\* The decision of an evaluation blocks if one of its decisions does.
LEMMA Verdict ==
    ASSUME app \in Applications, NEW ds \in Seq(Decisions)
    PROVE  /\ ds = <<>> => HeaderOf(ds) = NoDecision
           /\ ds # <<>> => /\ HeaderOf(ds) \in Decisions /\ HeaderOf(ds) # NoDecision
                           /\ \E m \in DOMAIN ds : ds[m] = HeaderOf(ds)
           /\ HeaderOf(ds) \in {NoDecision} \cup Decisions
           /\ ~(HeaderOf(ds) # NoDecision /\ HeaderOf(ds).blocked) =>
                 \A n \in DOMAIN ds : ~ds[n].blocked
  <1>1. ds = <<>> => HeaderOf(ds) = NoDecision /\ DOMAIN ds = {}
    BY DEF HeaderOf
  <1>2. ASSUME ds # <<>>
        PROVE  /\ HeaderOf(ds) \in Decisions /\ HeaderOf(ds) # NoDecision
               /\ \E m \in DOMAIN ds : ds[m] = HeaderOf(ds)
               /\ \A n \in DOMAIN ds : ds[n].blocked => HeaderOf(ds).blocked
    <2>1. PICK m \in Pool(ds) : ds[m] = HeaderOf(ds) /\ HeaderOf(ds) \in Decisions
      BY <1>2, DecisionFacts, HeaderIsStrictest
    <2>2. m \in DOMAIN ds
      BY <2>1 DEF Pool, Blocking
    <2>3. ASSUME NEW n \in DOMAIN ds, ds[n].blocked PROVE ds[m].blocked
      BY <2>1, <2>3 DEF Pool, Blocking
    <2> QED
      BY <2>1, <2>2, <2>3, DecisionFacts
  <1> QED
    BY <1>1, <1>2

-----------------------------------------------------------------------------
(* The steps of request q.                                                 *)

\* A step of q keeps what is asked of it, of the others and of the places.
StepKeeps(q) ==
    /\ pc' \in [Requests -> Labels] /\ target' \in [Requests -> {NoTarget} \cup app.targets]
    /\ at' \in [Requests -> 1 .. LastLimiter + 1] /\ todo' \in [Requests -> Seq(Int)]
    /\ evals' \in [Requests -> Evals(World)]
    /\ deferred' \in [Requests -> [Limiters -> Deferrals]] /\ response' \in [Requests -> Answers]
    /\ \A c \in DOMAIN count' : count'[c] \in Nat
    /\ \A p \in Requests \ {q} : /\ pc'[p] = pc[p] /\ target'[p] = target[p] /\ at'[p] = at[p]
                                 /\ todo'[p] = todo[p] /\ evals'[p] = evals[p]
                                 /\ response'[p] = response[p]
    /\ OnItsWay(World, pc'[q], target'[q], at'[q], evals'[q], todo'[q], response'[q].status)
    /\ Placed(World, target', evals', count')

LEMMA ServedFacts ==
    ASSUME Served, NEW q \in Requests
    PROVE  /\ app \in Applications /\ RulesKept /\ RequestsTyped /\ IsWorld(World)
           /\ Placed(World, target, evals, count)
           /\ OnItsWay(World, pc[q], target[q], at[q], evals[q], todo[q], response[q].status)
           /\ pc[q] # "idle" => phase \in Open /\ target[q] \in app.targets
           /\ LastLimiter \in Nat \ {0} /\ Limiters = 1 .. LastLimiter /\ World.last = LastLimiter
           /\ at[q] \in 1 .. LastLimiter + 1 /\ LastLimiter \in Limiters
           /\ response[q].status \in {0, 200, 429, 500}
           /\ \A c : Held(count, c) \in Nat /\ Held(count, c) <= Held(count, c)
  <1>1. app \in Applications /\ RulesKept /\ RequestsTyped
    BY DEF Served, RulesKept, RegistriesKept
  <1>2. /\ IsWorld(World) /\ World.last = LastLimiter /\ World.targets = app.targets
        /\ LastLimiter \in Nat \ {0} /\ Limiters = 1 .. LastLimiter
    BY <1>1, WorldFacts
  <1>3. OnItsWay(World, pc[q], target[q], at[q], evals[q], todo[q], response[q].status)
    BY DEF Served
  <1>4. pc[q] # "idle" => phase \in Open /\ target[q] \in app.targets
    BY <1>2, <1>3 DEF Served, OnItsWay
  <1>5. \A c : Held(count, c) \in Nat
    BY <1>1 DEF RequestsTyped, Held
  <1>6. at[q] \in 1 .. LastLimiter + 1 /\ response[q].status \in {0, 200, 429, 500}
    BY <1>1 DEF RequestsTyped, Answers
  <1>7. LastLimiter \in 1 .. LastLimiter
    BY <1>2
  <1>8. \A c : Held(count, c) <= Held(count, c)
    BY <1>5
  <1> QED
    BY <1>1, <1>2, <1>3, <1>4, <1>5, <1>6, <1>7, <1>8 DEF Served

\* A step that charges nothing and admits nothing.
LEMMA QuietPlaces ==
    ASSUME Served, NEW q \in Requests, count' = count, target' = target,
           \A p \in Requests \ {q} : evals'[p] = evals[p],
           \A l, i : Admitted(evals'[q], l, i) => Admitted(evals[q], l, i)
    PROVE  Placed(World, target', evals', count')
  <1>1. /\ Placed(World, target, evals, count)
        /\ \A c : Held(count, c) \in Nat /\ Held(count, c) <= Held(count, c)
    BY ServedFacts
  <1>2. Placed(World, target, evals', count)
    BY <1>1, PlacesGrow
  <1> QED
    BY <1>2

LEMMA ReceiveKeeps ==
    ASSUME Served, NEW q \in Requests, Receive(q)
    PROVE  StepKeeps(q)
  <1>1. PICK u \in app.targets : target' = [target EXCEPT ![q] = u]
    BY DEF Receive
  <1>2. /\ pc[q] = "idle" /\ phase = "serving" /\ pc' = [pc EXCEPT ![q] = "onRequest"]
        /\ at' = at /\ todo' = todo /\ evals' = evals /\ deferred' = deferred
        /\ response' = response /\ count' = count
    BY DEF Receive, Goto
  <1>3. /\ RequestsTyped /\ IsWorld(World) /\ World.targets = app.targets
        /\ OnItsWay(World, "idle", target[q], at[q], evals[q], todo[q], response[q].status)
        /\ Placed(World, target, evals, count)
        /\ \A c : Held(count, c) \in Nat /\ Held(count, c) <= Held(count, c)
    BY <1>2, ServedFacts, WorldFacts
  <1>4. /\ pc'[q] = "onRequest" /\ target'[q] = u /\ pc' \in [Requests -> Labels]
        /\ target' \in [Requests -> {NoTarget} \cup app.targets]
        /\ \A p \in Requests \ {q} : pc'[p] = pc[p] /\ target'[p] = target[p]
    BY <1>1, <1>2, <1>3 DEF RequestsTyped, Labels
  <1>5. OnItsWay(World, pc'[q], target'[q], at'[q], evals'[q], todo'[q], response'[q].status)
    <2>1. OnItsWay(World, "onRequest", u, at[q], evals[q], todo[q], response[q].status)
      BY <1>3, ReceiveGoes
    <2> QED
      BY <1>2, <1>4, <2>1
  <1>6. Placed(World, target', evals', count')
    <2>1. evals[q] = <<>>
      BY <1>3 DEF OnItsWay
    <2>2. \A l, i : ~Admitted(evals[q], l, i)
      BY <2>1 DEF Admitted
    <2>3. Placed(World, target', evals, count)
      BY <1>3, <1>4, <2>2, PlacesGrow
    <2> QED
      BY <1>2, <2>3
  <1> QED
    BY <1>2, <1>3, <1>4, <1>5, <1>6 DEF StepKeeps, RequestsTyped

LEMMA OnRequestKeeps ==
    ASSUME Served, NEW q \in Requests, OnRequest(q)
    PROVE  StepKeeps(q)
  <1> DEFINE l == at[q]
             t == target[q]
             due == Due(l, t)
             e == [limiter |-> l, macro |-> FALSE, decisions |-> <<>>]
  <1>1. /\ pc[q] = "onRequest" /\ l \in Limiters
        /\ target' = target /\ deferred' = deferred /\ response' = response /\ count' = count
    BY DEF OnRequest
  <1>2. /\ RequestsTyped /\ IsWorld(World) /\ RulesKept /\ phase \in Open /\ app \in Applications
        /\ OnItsWay(World, "onRequest", t, l, evals[q], todo[q], response[q].status)
        /\ t \in app.targets /\ LastLimiter \in Nat \ {0}
        /\ World.last = LastLimiter /\ Limiters = 1 .. LastLimiter
    BY <1>1, ServedFacts
  <1>3. World.due[l][t] = ToSet(due) /\ due \in Seq(Int)
    BY <1>1, <1>2, WorldFacts, DueFacts
  <1>4. l \in 1 .. World.last /\ l + 1 \in 1 .. LastLimiter + 1 /\ l # World.last + 1
    BY <1>1, <1>2
  <1>5. CASE due = <<>>
    <2>1. /\ pc' = [pc EXCEPT ![q] = "onRequest"] /\ at' = [at EXCEPT ![q] = l + 1]
          /\ todo' = todo /\ evals' = evals
      BY <1>1, <1>5 DEF OnRequest, GoOn, Goto
    <2>2. /\ pc' \in [Requests -> Labels] /\ at' \in [Requests -> 1 .. LastLimiter + 1]
          /\ pc'[q] = "onRequest" /\ at'[q] = l + 1
          /\ \A p \in Requests \ {q} : pc'[p] = pc[p] /\ at'[p] = at[p]
      BY <1>2, <1>4, <2>1 DEF RequestsTyped, Labels
    <2>3. World.due[l][t] = {}
      BY <1>3, <1>5 DEF ToSet
    <2> HIDE DEF l, t, due
    <2>4. OnItsWay(World, "onRequest", t, l + 1, evals[q], todo[q], response[q].status)
      BY <1>2, <1>4, <2>3, SkipGoes
    <2>5. Placed(World, target', evals', count')
      BY <1>1, <2>1, QuietPlaces
    <2> QED
      BY <1>1, <1>2, <2>1, <2>2, <2>4, <2>5 DEF StepKeeps, RequestsTyped, l, t
  <1>6. CASE due # <<>>
    <2>1. /\ pc' = [pc EXCEPT ![q] = "plugin"] /\ at' = at
          /\ todo' = [todo EXCEPT ![q] = due]
      BY <1>1, <1>6 DEF OnRequest, Evaluate, Goto
    <2> DEFINE fs == Begun(evals[q], l, "plugin")
    <2>7. evals' = [evals EXCEPT ![q] = fs]
      BY <1>1, <1>6 DEF OnRequest, Evaluate, Begun
    <2>2. UnderWay(World, "plugin", t, l) = ToSet(due) /\ "plugin" \in {"plugin", "macro"}
          /\ (l = World.last + 1 <=> "plugin" = "macro")
          /\ l = IF "plugin" = "macro" THEN World.last ELSE l
      BY <1>3, <1>4 DEF UnderWay
    <2>3. /\ OnItsWay(World, "plugin", t, l, fs, due, response[q].status)
          /\ \A k, i : Admitted(fs, k, i) => Admitted(evals[q], k, i)
      <3> HIDE DEF l, t, due
      <3> QED
        BY <1>2, <1>3, <2>2, BeginsGoes
    <2> HIDE DEF fs
    <2>4. fs \in Evals(World)
      BY <2>3 DEF OnItsWay
    <2>5. /\ pc' \in [Requests -> Labels] /\ todo' \in [Requests -> Seq(Int)]
          /\ evals' \in [Requests -> Evals(World)]
          /\ pc'[q] = "plugin" /\ todo'[q] = due /\ evals'[q] = fs
          /\ \A p \in Requests \ {q} : /\ pc'[p] = pc[p] /\ todo'[p] = todo[p]
                                       /\ evals'[p] = evals[p]
      <3> HIDE DEF due
      <3> QED
        BY <1>2, <1>3, <2>1, <2>4, <2>7 DEF RequestsTyped, Labels
    <2> HIDE DEF due
    <2>6. Placed(World, target', evals', count')
      BY <1>1, <2>3, <2>5, QuietPlaces
    <2> QED
      BY <1>1, <1>2, <2>1, <2>3, <2>5, <2>6 DEF StepKeeps, RequestsTyped
  <1> QED
    BY <1>5, <1>6

LEMMA BeforeHandleKeeps ==
    ASSUME Served, NEW q \in Requests, BeforeHandle(q)
    PROVE  StepKeeps(q)
  <1> DEFINE a == at[q]
             l == LastLimiter
             t == target[q]
             due == MacroDue(t)
  <1>1. /\ pc[q] = "onRequest" /\ a \notin Limiters
        /\ target' = target /\ deferred' = deferred /\ response' = response /\ count' = count
        /\ at' = at
    BY DEF BeforeHandle
  <1>2. /\ RequestsTyped /\ IsWorld(World) /\ RulesKept /\ phase \in Open /\ app \in Applications
        /\ OnItsWay(World, "onRequest", t, a, evals[q], todo[q], response[q].status)
        /\ t \in app.targets /\ LastLimiter \in Nat \ {0} /\ LastLimiter \in Limiters
        /\ World.last = LastLimiter /\ Limiters = 1 .. LastLimiter /\ a \in 1 .. LastLimiter + 1
    BY <1>1, ServedFacts
  <1>3. World.macro[t] = ToSet(due) /\ due \in Seq(Int)
    BY <1>1, <1>2, WorldFacts, DueFacts
  <1>4. a = World.last + 1
    BY <1>1, <1>2
  <1>5. CASE due = <<>>
    <2>1. pc' = [pc EXCEPT ![q] = "handler"] /\ todo' = todo /\ evals' = evals
      BY <1>1, <1>5 DEF BeforeHandle, Goto
    <2>2. /\ pc' \in [Requests -> Labels] /\ pc'[q] = "handler"
          /\ \A p \in Requests \ {q} : pc'[p] = pc[p]
      BY <1>2, <1>4, <2>1 DEF RequestsTyped, Labels
    <2>3. World.macro[t] = {}
      BY <1>3, <1>5 DEF ToSet
    <2> HIDE DEF l, t, a, due
    <2>4. OnItsWay(World, "handler", t, a, evals[q], todo[q], response[q].status)
      BY <1>2, <1>4, <2>3, RouteGoes
    <2>5. Placed(World, target', evals', count')
      BY <1>1, <2>1, QuietPlaces
    <2> QED
      BY <1>1, <1>2, <2>1, <2>2, <2>4, <2>5 DEF StepKeeps, RequestsTyped, a, t
  <1>6. CASE due # <<>>
    <2>1. /\ pc' = [pc EXCEPT ![q] = "macro"]
          /\ todo' = [todo EXCEPT ![q] = due]
      BY <1>1, <1>6 DEF BeforeHandle, Evaluate, Goto
    <2> DEFINE fs == Begun(evals[q], l, "macro")
    <2>7. evals' = [evals EXCEPT ![q] = fs]
      BY <1>1, <1>6 DEF BeforeHandle, Evaluate, Begun
    <2>2. UnderWay(World, "macro", t, l) = ToSet(due) /\ "macro" \in {"plugin", "macro"}
          /\ (a = World.last + 1 <=> "macro" = "macro")
          /\ l = IF "macro" = "macro" THEN World.last ELSE a
      BY <1>2, <1>3, <1>4 DEF UnderWay
    <2>3. /\ OnItsWay(World, "macro", t, a, fs, due, response[q].status)
          /\ \A k, i : Admitted(fs, k, i) => Admitted(evals[q], k, i)
      <3> HIDE DEF l, t, due, a
      <3> QED
        BY <1>2, <1>3, <2>2, BeginsGoes
    <2> HIDE DEF fs
    <2>4. fs \in Evals(World)
      BY <2>3 DEF OnItsWay
    <2>5. /\ pc' \in [Requests -> Labels] /\ todo' \in [Requests -> Seq(Int)]
          /\ evals' \in [Requests -> Evals(World)]
          /\ pc'[q] = "macro" /\ todo'[q] = due /\ evals'[q] = fs
          /\ \A p \in Requests \ {q} : /\ pc'[p] = pc[p] /\ todo'[p] = todo[p]
                                       /\ evals'[p] = evals[p]
      <3> HIDE DEF due
      <3> QED
        BY <1>2, <1>3, <2>1, <2>4, <2>7 DEF RequestsTyped, Labels
    <2> HIDE DEF due
    <2>6. Placed(World, target', evals', count')
      BY <1>1, <2>3, <2>5, QuietPlaces
    <2> QED
      BY <1>1, <1>2, <2>1, <2>3, <2>5, <2>6 DEF StepKeeps, RequestsTyped
  <1> QED
    BY <1>5, <1>6

LEMMA MaxIsMember ==
    ASSUME NEW n \in Nat, NEW U, U \subseteq 1 .. n, U # {}
    PROVE  Max(U) \in U /\ \A x \in U : x <= Max(U)
  <1> DEFINE V == {k \in Nat : n - k \in U}
  <1>1. V # {} /\ V \subseteq Nat
    <2>1. PICK x \in U : TRUE
      OBVIOUS
    <2>2. n - x \in Nat /\ n - (n - x) = x
      BY <2>1
    <2> QED
      BY <2>1, <2>2
  <1>2. PICK k \in V : \A j \in V : ~(<<j, k>> \in OpToRel(<, Nat))
    BY <1>1, NatLessThanWellFounded, WFMin
  <1> DEFINE m == n - k
  <1>3. m \in U /\ k \in Nat
    BY <1>2
  <1>4. ASSUME NEW y \in U PROVE m >= y
    <2>1. y \in 1 .. n /\ m \in 1 .. n
      BY <1>3
    <2>2. CASE y > m
      <3>1. n - y \in Nat /\ n - (n - y) = y /\ n - y < k
        BY <1>3, <2>1, <2>2
      <3>2. n - y \in V
        BY <3>1
      <3>3. <<n - y, k>> \in OpToRel(<, Nat)
        BY <1>3, <3>1 DEF OpToRel
      <3> QED
        BY <1>2, <3>2, <3>3
    <2> QED
      BY <2>1, <2>2
  <1> HIDE DEF m
  <1>5. \E x \in U : \A y \in U : x >= y
    BY <1>3, <1>4
  <1>6. Max(U) \in U /\ \A y \in U : Max(U) >= y
    BY <1>5, Zenon DEF Max
  <1> QED
    BY <1>6

\* A request is answered 429.
LEMMA LimitedIs ==
    ASSUME RequestsTyped, NEW q \in Requests, NEW l \in Nat, NEW d \in Decisions,
           NEW allowed \in [Families -> BOOLEAN], Limited(q, l, d, allowed)
    PROVE  /\ pc' \in [Requests -> Labels] /\ pc'[q] = "done"
           /\ response' \in [Requests -> Answers] /\ response'[q].status = 429
           /\ response'[q].by = l /\ response'[q].retryAfter = d.retryAfter
           /\ response'[q].headers = Shown(d, allowed)
           /\ \A p \in Requests \ {q} : pc'[p] = pc[p] /\ response'[p] = response[p]
           /\ deferred' = deferred
  <1> DEFINE h == Shown(d, allowed)
             x == [status |-> 429, headers |-> h, retryAfter |-> d.retryAfter, by |-> l]
  <1>1. pc' = [pc EXCEPT ![q] = "done"] /\ response' = [response EXCEPT ![q] = x] /\ deferred' = deferred
    BY DEF Limited, Goto
  <1>2. h \in [Families -> {NoDecision} \cup Decisions]
    BY DEF Shown
  <1> HIDE DEF h
  <1>3. d.retryAfter \in {0, 1}
    BY DEF Decisions
  <1>4. x \in Answers /\ x.status = 429 /\ x.headers = h /\ x.by = l /\ x.retryAfter = d.retryAfter
    BY <1>2, <1>3 DEF Answers
  <1> HIDE DEF x
  <1> QED
    BY <1>1, <1>4 DEF RequestsTyped, Labels, h

\* The headers of a decision wait for onAfterHandle.
LEMMA DeferIs ==
    ASSUME RequestsTyped, NEW q \in Requests, NEW l \in Limiters, NEW d \in Decisions,
           NEW allowed \in [Families -> BOOLEAN], Defer(q, l, d, allowed)
    PROVE  deferred' \in [Requests -> [Limiters -> Deferrals]]
  <1> DEFINE x == [decision |-> d, allowed |-> allowed]
  <1>1. x \in Deferrals
    BY DEF Deferrals
  <1>2. deferred' = [deferred EXCEPT ![q][l] = x]
    BY DEF Defer
  <1> HIDE DEF x
  <1> QED
    BY <1>1, <1>2 DEF RequestsTyped

\* A decision that a store's count admits takes a place.
LEMMA ChargePlaces ==
    ASSUME Served, phase \in Open, NEW q \in Requests, pc[q] # "idle",
           NEW l \in Limiters, NEW i \in RuleIndices(l), NEW s \in StoresOf(l, i),
           NEW c, c = <<s, KeyOf(l, i, target[q])>>, count' = Charged(c), target' = target,
           \A p \in Requests \ {q} : evals'[p] = evals[p],
           \A k, j : Admitted(evals'[q], k, j) =>
               Admitted(evals[q], k, j) \/ Admits(ToDecision(l, i, Counted(c) + 1), k, j)
    PROVE  /\ Placed(World, target', evals', count')
           /\ \A x \in DOMAIN count' : count'[x] \in Nat
  <1> DEFINE t == target[q]
             d == ToDecision(l, i, Counted(c) + 1)
  <1>1. /\ RulesKept /\ app \in Applications /\ t \in app.targets /\ Limiters = 1 .. LastLimiter
        /\ Placed(World, target, evals, count) /\ RequestsTyped
    BY ServedFacts
  <1>2. /\ World.stores[l][i] = StoresOf(l, i) /\ World.limits[l][i] = RuleOf(l, i).limit
        /\ World.keys[l][i][t] = KeyOf(l, i, t) /\ World.last = LastLimiter
    BY <1>1, WorldFacts
  <1>3. /\ \A x \in DOMAIN count' : count'[x] \in Nat
        /\ \A x : /\ Held(count, x) \in Nat /\ Held(count', x) \in Nat
                  /\ Held(count, x) <= Held(count', x)
        /\ Counted(c) = Held(count, c) /\ Held(count', c) = Counted(c) + 1 /\ Counted(c) \in Nat
    BY <1>1, ChargeCounts DEF RequestsTyped
  <1>4. Counted(c) + 1 \in Nat /\ RuleOf(l, i).limit \in Nat
    BY <1>1, <1>3, RuleFacts DEF IsRule
  <1>5. d.limiter = l /\ d.rule = i /\ (d.blocked <=> Counted(c) + 1 > RuleOf(l, i).limit)
    BY <1>1, <1>4, ToDecisionIs
  <1>6. ASSUME ~d.blocked PROVE Fresh(World, count, count', l, i, t)
    <2> DEFINE m == Counted(c)
               k == RuleOf(l, i).limit
    <2>1. m \in Nat /\ k \in Nat /\ m + 1 <= k
      <3>1. ~(m + 1 > k)
        BY <1>5, <1>6
      <3> HIDE DEF m, k
      <3>2. m \in Nat /\ k \in Nat
        BY <1>3, <1>4 DEF m, k
      <3> QED
        BY <3>1, <3>2
    <2>2. Held(count', c) = m + 1 /\ Held(count, c) = m
      BY <1>3
    <2> HIDE DEF m, k
    <2>3. Held(count', c) \in 1 .. k /\ Held(count, c) < Held(count', c)
      BY <2>1, <2>2
    <2>4. c = <<s, World.keys[l][i][t]>>
      BY <1>2
    <2> QED
      BY <1>2, <2>3, <2>4 DEF Fresh, k
  <1> HIDE DEF d
  <1>7. \A k \in 1 .. World.last : \A j \in World.rules[k] :
            target'[q] \in World.targets /\ Admitted(evals'[q], k, j) =>
                \/ Admitted(evals[q], k, j) /\ target'[q] = target[q]
                \/ Fresh(World, count, count', k, j, target'[q])
    BY <1>5, <1>6 DEF Admits, d
  <1>8. Placed(World, target', evals', count')
    BY <1>1, <1>3, <1>7, PlacesGrow
  <1> QED
    BY <1>3, <1>8

\* What FastHandle takes for the rules that apply.
LEMMA FastFacts ==
    ASSUME RulesKept, phase \in Open, NEW l \in Limiters, FastEligible(l), NEW t \in app.targets
    PROVE  /\ 1 \in RuleIndices(l) /\ RuleStore(l, 1) \in StoresOf(l, 1)
           /\ ToSet(Due(l, t)) = IF MethodMatches(t[1], RuleOf(l, 1)) THEN {1} ELSE {}
  <1>1. /\ RegistriesKept /\ app \in Applications /\ registry \in Seq(Registries)
        /\ Len(registry) = Len(app.limiters)
    BY DEF RulesKept, RegistriesKept, Open, Installed
  <1>2. l \in DOMAIN registry /\ l \in 1 .. Len(app.limiters)
    BY <1>1, ApplicationFacts DEF Limiters
  <1>3. rules[l] \in Seq(ToSet(rules[l]))
    BY <1>1, <1>2, ApplicationFacts DEF RulesKept
  <1>4. Len(rules[l]) = 1
    BY DEF FastEligible
  <1>5. DOMAIN rules[l] = {1}
    <2>1. DOMAIN rules[l] = 1 .. 1
      BY <1>3, <1>4
    <2> QED
      BY <2>1
  <1>6. 1 \in RuleIndices(l) /\ RuleOf(l, 1) = rules[l][1]
    BY <1>5 DEF RuleIndices, RuleOf
  <1>7. /\ rules[l][1].type = "global" /\ app.limiters[l].skip = {}
        /\ RuleStore(l, 1) \notin CustomStores
    BY DEF FastEligible
  <1>8. RuleStore(l, 1) \in StoresOf(l, 1)
    BY <1>6, <1>7, StoreFacts DEF StoresOf
  <1>9. ToSet(Due(l, t)) = {i \in {1} : Matches(rules[l][i], t)}
    <2>1. ~Skips(l, t)
      BY <1>7 DEF Skips
    <2> QED
      BY <1>5, <2>1, DueFacts
  <1>10. Matches(rules[l][1], t) <=> MethodMatches(t[1], RuleOf(l, 1))
    BY <1>6, <1>7 DEF Matches
  <1> QED
    BY <1>6, <1>8, <1>9, <1>10

LEMMA FastRequestKeeps ==
    ASSUME Served, NEW q \in Requests, FastRequest(q)
    PROVE  StepKeeps(q)
  <1> DEFINE l == at[q]
             t == target[q]
             c == <<RuleStore(l, 1), KeyOf(l, 1, t)>>
             d == ToDecision(l, 1, Counted(c) + 1)
             allowed == [f \in Families |-> FastAllowed(l, f)]
             fs == AtOnce(evals[q], l, d)
  <1>1. /\ pc[q] = "onRequest" /\ l \in Limiters /\ FastEligible(l) /\ FastHandle(q)
        /\ target' = target /\ todo' = todo
    BY DEF FastRequest
  <1>2. /\ RequestsTyped /\ IsWorld(World) /\ RulesKept /\ phase \in Open /\ app \in Applications
        /\ OnItsWay(World, "onRequest", t, l, evals[q], todo[q], response[q].status)
        /\ t \in app.targets /\ LastLimiter \in Nat \ {0}
        /\ World.last = LastLimiter /\ Limiters = 1 .. LastLimiter
    BY <1>1, ServedFacts
  <1>3. /\ World.due[l][t] = IF MethodMatches(t[1], RuleOf(l, 1)) THEN {1} ELSE {}
        /\ 1 \in RuleIndices(l) /\ RuleStore(l, 1) \in StoresOf(l, 1)
        /\ World.decisions = Decisions
    <2>1. World.due[l][t] = ToSet(Due(l, t)) /\ World.decisions = Decisions
      BY <1>1, <1>2, WorldFacts
    <2>2. FastEligible(l) /\ l \in Limiters /\ t \in app.targets /\ RulesKept /\ phase \in Open
      BY <1>1, <1>2
    <2>3. /\ 1 \in RuleIndices(l) /\ RuleStore(l, 1) \in StoresOf(l, 1)
          /\ ToSet(Due(l, t)) = IF MethodMatches(t[1], RuleOf(l, 1)) THEN {1} ELSE {}
      <3> HIDE DEF l, t
      <3> QED
        BY <2>2, FastFacts
    <2> QED
      BY <2>1, <2>3
  <1>4. l \in 1 .. World.last /\ l + 1 \in 1 .. LastLimiter + 1 /\ l \in Nat
    BY <1>1, <1>2
  <1>5. CASE ~MethodMatches(t[1], RuleOf(l, 1))
    <2>1. /\ pc' = [pc EXCEPT ![q] = "onRequest"] /\ at' = [at EXCEPT ![q] = l + 1]
          /\ evals' = evals /\ deferred' = deferred /\ response' = response /\ count' = count
      BY <1>1, <1>5 DEF FastHandle, GoOn, Goto
    <2>2. /\ pc' \in [Requests -> Labels] /\ at' \in [Requests -> 1 .. LastLimiter + 1]
          /\ pc'[q] = "onRequest" /\ at'[q] = l + 1
          /\ \A p \in Requests \ {q} : pc'[p] = pc[p] /\ at'[p] = at[p]
      BY <1>2, <1>4, <2>1 DEF RequestsTyped, Labels
    <2>3. World.due[l][t] = {}
      BY <1>3, <1>5
    <2> HIDE DEF l, t
    <2>4. OnItsWay(World, "onRequest", t, l + 1, evals[q], todo[q], response[q].status)
      BY <1>2, <1>4, <2>3, SkipGoes
    <2>5. Placed(World, target', evals', count')
      BY <1>1, <2>1, QuietPlaces
    <2> QED
      BY <1>1, <1>2, <2>1, <2>2, <2>4, <2>5 DEF StepKeeps, RequestsTyped, l, t
  <1>6. CASE MethodMatches(t[1], RuleOf(l, 1))
    <2>1. /\ count' = Charged(c)
          /\ evals' = [evals EXCEPT ![q] = fs]
          /\ IF d.blocked THEN Limited(q, l, d, allowed) /\ at' = at
             ELSE /\ GoOn(q) /\ response' = response
                  /\ Defer(q, l, d, allowed) \/ deferred' = deferred
      BY <1>1, <1>6 DEF FastHandle, AtOnce
    <2>2. Counted(c) \in Nat /\ Counted(c) + 1 \in Nat
      <3>1. Counted(c) \in Nat
        BY <1>2 DEF Counted, RequestsTyped
      <3> QED
        BY <3>1
    <2>3. d \in Decisions /\ d.limiter = l /\ d.rule = 1
      BY <1>1, <1>2, <1>3, <2>2, ToDecisionIs
    <2>4. allowed \in [Families -> BOOLEAN]
      BY DEF FastAllowed
    <2>5. World.due[l][t] \subseteq {1}
      BY <1>3, <1>6
    <2> HIDE DEF c, allowed
    <2>6. /\ d.blocked => OnItsWay(World, "done", t, l, fs, todo[q], 429)
          /\ ~d.blocked => OnItsWay(World, "onRequest", t, l + 1, fs, todo[q], response[q].status)
          /\ \A k, i : Admitted(fs, k, i) => Admitted(evals[q], k, i) \/ Admits(d, k, i)
      <3>1. d \in World.decisions
        BY <1>3, <2>3
      <3> HIDE DEF l, t, d
      <3> QED
        BY <1>2, <1>4, <2>3, <2>5, <3>1, FastGoes
    <2>7. fs \in Evals(World)
      BY <2>6 DEF OnItsWay
    <2> HIDE DEF fs
    <2>8. /\ evals' \in [Requests -> Evals(World)] /\ evals'[q] = fs
          /\ \A p \in Requests \ {q} : evals'[p] = evals[p]
      BY <1>2, <2>1, <2>7 DEF RequestsTyped
    <2>9. /\ Placed(World, target', evals', count')
          /\ \A x \in DOMAIN count' : count'[x] \in Nat
      <3>1. pc[q] # "idle"
        BY <1>1
      <3>2. \A k, j : Admitted(evals'[q], k, j) =>
               Admitted(evals[q], k, j) \/ Admits(ToDecision(l, 1, Counted(c) + 1), k, j)
        BY <2>6, <2>8
      <3>3. c = <<RuleStore(l, 1), KeyOf(l, 1, target[q])>>
        BY DEF c
      <3> HIDE DEF l, d
      <3> QED
        BY <1>1, <1>2, <1>3, <2>1, <2>8, <3>1, <3>2, <3>3, ChargePlaces
    <2>10. CASE d.blocked
      <3>1. Limited(q, l, d, allowed) /\ at' = at
        BY <2>1, <2>10
      <3> HIDE DEF d
      <3>2. /\ pc' \in [Requests -> Labels] /\ pc'[q] = "done"
            /\ response' \in [Requests -> Answers] /\ response'[q].status = 429
            /\ \A p \in Requests \ {q} : pc'[p] = pc[p] /\ response'[p] = response[p]
            /\ deferred' = deferred
        BY <1>2, <1>4, <2>3, <2>4, <3>1, LimitedIs
      <3> QED
        BY <1>1, <1>2, <2>6, <2>8, <2>9, <2>10, <3>1, <3>2 DEF StepKeeps, RequestsTyped
    <2>11. CASE ~d.blocked
      <3>1. /\ pc' = [pc EXCEPT ![q] = "onRequest"] /\ at' = [at EXCEPT ![q] = l + 1]
            /\ response' = response
        BY <1>1, <2>1, <2>11 DEF GoOn, Goto
      <3>2. Defer(q, l, d, allowed) \/ deferred' = deferred
        BY <2>1, <2>11
      <3> HIDE DEF d
      <3>3. deferred' \in [Requests -> [Limiters -> Deferrals]]
        <4>1. CASE Defer(q, l, d, allowed)
          BY <1>1, <1>2, <2>3, <2>4, <4>1, DeferIs
        <4>2. CASE deferred' = deferred
          BY <1>2, <4>2 DEF RequestsTyped
        <4> QED
          BY <3>2, <4>1, <4>2
      <3>4. /\ pc' \in [Requests -> Labels] /\ at' \in [Requests -> 1 .. LastLimiter + 1]
            /\ pc'[q] = "onRequest" /\ at'[q] = l + 1
            /\ \A p \in Requests \ {q} : pc'[p] = pc[p] /\ at'[p] = at[p]
        BY <1>2, <1>4, <3>1 DEF RequestsTyped, Labels
      <3> QED
        BY <1>1, <1>2, <2>6, <2>8, <2>9, <2>11, <3>1, <3>3, <3>4 DEF StepKeeps, RequestsTyped
    <2> QED
      BY <2>10, <2>11
  <1> QED
    BY <1>5, <1>6

\* The evaluation under way is of a limiter's own rules, or of the macro's.
LEMMA InHand ==
    ASSUME Served, NEW q \in Requests, pc[q] \in {"plugin", "macro"}
    PROVE  /\ RequestsTyped /\ IsWorld(World) /\ RulesKept /\ phase \in Open /\ app \in Applications
           /\ target[q] \in app.targets /\ World.decisions = Decisions
           /\ OnItsWay(World, pc[q], target[q], at[q], evals[q], todo[q], response[q].status)
           /\ evals[q] # <<>> /\ todo[q] \in Seq(Int)
           /\ evals[q][Len(evals[q])].limiter \in Limiters
           /\ evals[q][Len(evals[q])].limiter \in Nat
           /\ evals[q][Len(evals[q])].decisions \in Seq(Decisions)
           /\ ToSet(todo[q]) \subseteq RuleIndices(evals[q][Len(evals[q])].limiter)
           /\ pc[q] = "plugin" => at[q] \in Limiters /\ at[q] + 1 \in 1 .. LastLimiter + 1
  <1> DEFINE es == evals[q]
             e == es[Len(es)]
             l == e.limiter
             t == target[q]
  <1>1. /\ RequestsTyped /\ IsWorld(World) /\ RulesKept /\ phase \in Open /\ app \in Applications
        /\ OnItsWay(World, pc[q], t, at[q], es, todo[q], response[q].status)
        /\ t \in app.targets /\ LastLimiter \in Nat \ {0} /\ LastLimiter \in Limiters
        /\ World.last = LastLimiter /\ Limiters = 1 .. LastLimiter /\ at[q] \in 1 .. LastLimiter + 1
    BY ServedFacts
  <1>2. /\ \A k \in Limiters : World.due[k][t] = ToSet(Due(k, t))
        /\ World.macro[t] = ToSet(MacroDue(t))
        /\ World.decisions = Decisions
    BY <1>1, WorldFacts
  <1>3. InEvaluation(World, pc[q], t, at[q], es, todo[q]) /\ es \in Evals(World) /\ todo[q] \in Seq(Int)
    BY <1>1 DEF OnItsWay
  <1>4. es # <<>>
    BY <1>3 DEF InEvaluation
  <1>5. Len(es) \in DOMAIN es
    BY <1>3, <1>4, EmptySeq, LenProperties DEF Evals
  <1>6. e \in [limiter : 1 .. World.last, macro : BOOLEAN, decisions : Seq(World.decisions)]
    <2> DEFINE R == [limiter : 1 .. World.last, macro : BOOLEAN, decisions : Seq(World.decisions)]
    <2>1. es \in Seq(R)
      BY <1>3 DEF Evals
    <2> HIDE DEF R, es
    <2>2. es[Len(es)] \in R
      BY <1>5, <2>1
    <2> QED
      BY <2>2 DEF R
  <1>7. l \in Limiters /\ e.decisions \in Seq(Decisions) /\ l \in Nat
    BY <1>1, <1>2, <1>6
  <1>8. CASE pc[q] = "plugin"
    <2>1. l = at[q] /\ ToSet(todo[q]) \subseteq World.due[l][t] /\ at[q] # World.last + 1
      BY <1>3, <1>8 DEF InEvaluation, UnderWay
    <2>2. ToSet(todo[q]) \subseteq RuleIndices(l)
      <3> HIDE DEF l, t
      <3>1. ToSet(Due(l, t)) \subseteq RuleIndices(l)
        BY <1>1, <1>7, DueFacts
      <3>2. World.due[l][t] = ToSet(Due(l, t)) /\ ToSet(todo[q]) \subseteq World.due[l][t]
        BY <1>2, <1>7, <2>1
      <3> QED
        BY <3>1, <3>2
    <2>3. at[q] + 1 \in 1 .. LastLimiter + 1
      BY <1>1, <1>7, <2>1
    <2> QED
      BY <1>1, <1>2, <1>3, <1>4, <1>7, <2>1, <2>2, <2>3
  <1>9. CASE pc[q] = "macro"
    <2>1. l = LastLimiter /\ ToSet(todo[q]) \subseteq World.macro[t]
      BY <1>1, <1>3, <1>9 DEF InEvaluation, UnderWay
    <2>2. ToSet(MacroDue(t)) \subseteq RuleIndices(LastLimiter)
      BY <1>1, DueFacts
    <2> HIDE DEF l
    <2>3. ToSet(todo[q]) \subseteq RuleIndices(l)
      BY <1>2, <2>1, <2>2
    <2> QED
      BY <1>1, <1>2, <1>3, <1>4, <1>7, <1>9, <2>3 DEF l
  <1> QED
    BY <1>8, <1>9

\* What a hit decides: a firm rule's never decides nothing.
HitDecides(l, i, s, c) ==
    CASE s # NoStore -> <<ToDecision(l, i, Counted(c) + 1)>>
      [] s = NoStore /\ PolicyOf(l, i) = "block" -> <<SynthesizeBlock(l, i)>>
      [] s = NoStore /\ PolicyOf(l, i) = "allow" -> <<>>

LEMMA HitFacts ==
    ASSUME RulesKept, RequestsTyped, phase \in Open, NEW l \in Limiters, NEW i \in RuleIndices(l),
           NEW s, s = Serving(l, i), NEW c
    PROVE  /\ HitDecides(l, i, s, c) \in Seq(Decisions)
           /\ Firm(l, i) => \E m \in DOMAIN HitDecides(l, i, s, c) :
                                /\ HitDecides(l, i, s, c)[m].limiter = l
                                /\ HitDecides(l, i, s, c)[m].rule = i
           /\ \A m \in DOMAIN HitDecides(l, i, s, c) : \A k, j :
                 Admits(HitDecides(l, i, s, c)[m], k, j) =>
                     s # NoStore /\ Admits(ToDecision(l, i, Counted(c) + 1), k, j)
  <1> DEFINE ds == HitDecides(l, i, s, c)
             d == ToDecision(l, i, Counted(c) + 1)
             b == SynthesizeBlock(l, i)
  <1>1. Counted(c) + 1 \in Nat
    <2>1. Counted(c) \in Nat
      BY DEF Counted, RequestsTyped
    <2> QED
      BY <2>1
  <1>2. /\ d \in Decisions /\ d.limiter = l /\ d.rule = i
        /\ b \in Decisions /\ b.limiter = l /\ b.rule = i /\ b.blocked
    BY <1>1, ToDecisionIs
  <1>3. PolicyOf(l, i) \in {"allow", "block"}
    BY RuleFacts
  <1>4. /\ s # NoStore => ds = <<d>>
        /\ s = NoStore /\ PolicyOf(l, i) = "block" => ds = <<b>>
        /\ s = NoStore /\ PolicyOf(l, i) = "allow" => ds = <<>>
    BY <1>3 DEF HitDecides
  <1>5. Firm(l, i) => s # NoStore \/ PolicyOf(l, i) = "block"
    BY StoreFacts DEF Firm
  <1> HIDE DEF ds, d, b
  <1>6. CASE s # NoStore
    <2>1. ds \in Seq(Decisions) /\ DOMAIN ds = {1} /\ ds[1] = d
      BY <1>2, <1>4, <1>6, Single, ZenonT(40)
    <2> QED
      BY <1>2, <1>6, <2>1 DEF ds, d
  <1>7. CASE s = NoStore /\ PolicyOf(l, i) = "block"
    <2>1. ds \in Seq(Decisions) /\ DOMAIN ds = {1} /\ ds[1] = b
      BY <1>2, <1>4, <1>7, Single, ZenonT(40)
    <2>2. \A k, j : ~Admits(b, k, j)
      BY <1>2 DEF Admits
    <2> QED
      BY <1>2, <2>1, <2>2 DEF ds, d
  <1>8. CASE s = NoStore /\ PolicyOf(l, i) = "allow"
    <2>1. ds \in Seq(Decisions) /\ DOMAIN ds = {}
      BY <1>4, <1>8
    <2> QED
      BY <1>5, <1>8, <2>1 DEF ds, d
  <1> QED
    BY <1>3, <1>6, <1>7, <1>8

LEMMA HitRuleKeeps ==
    ASSUME Served, NEW q \in Requests, HitRule(q)
    PROVE  StepKeeps(q)
  <1> DEFINE es == evals[q]
             l == es[Len(es)].limiter
             i == Head(todo[q])
             t == target[q]
             s == Serving(l, i)
             c == <<s, KeyOf(l, i, t)>>
             ds == HitDecides(l, i, s, c)
             fs == Grown(es, ds)
  <1>1. /\ pc[q] \in {"plugin", "macro"} /\ todo[q] # <<>>
        /\ pc' = pc /\ target' = target /\ at' = at /\ deferred' = deferred /\ response' = response
        /\ todo' = [todo EXCEPT ![q] = Tail(@)]
        /\ count' = IF s = NoStore THEN count ELSE Charged(c)
    BY DEF HitRule
  <1>2. evals' = [evals EXCEPT ![q] = fs]
    BY DEF HitRule, HitDecides, Grown
  <1>3. /\ RequestsTyped /\ IsWorld(World) /\ RulesKept /\ phase \in Open /\ app \in Applications
        /\ t \in app.targets /\ World.decisions = Decisions
        /\ OnItsWay(World, pc[q], t, at[q], es, todo[q], response[q].status)
        /\ es # <<>> /\ todo[q] \in Seq(Int) /\ l \in Limiters
        /\ ToSet(todo[q]) \subseteq RuleIndices(l)
    BY <1>1, InHand
  <1>4. i \in ToSet(todo[q]) /\ Tail(todo[q]) \in Seq(Int) /\ i \in Int
    BY <1>1, <1>3, Taken
  <1>5. i \in RuleIndices(l)
    BY <1>3, <1>4
  <1>6. /\ ds \in Seq(Decisions)
        /\ Firm(l, i) => \E m \in DOMAIN ds : ds[m].limiter = l /\ ds[m].rule = i
        /\ \A m \in DOMAIN ds : \A k, j :
              Admits(ds[m], k, j) => s # NoStore /\ Admits(ToDecision(l, i, Counted(c) + 1), k, j)
    <2> HIDE DEF l, i, t
    <2>1. s = Serving(l, i)
      OBVIOUS
    <2> HIDE DEF s, c
    <2> QED
      BY <1>3, <1>5, <2>1, HitFacts
  <1>7. <<l, i>> \in World.firm => Firm(l, i)
    <2> HIDE DEF l, i
    <2> QED
      BY DEF World
  <1> HIDE DEF ds
  <1>8. /\ OnItsWay(World, pc[q], t, at[q], fs, Tail(todo[q]), response[q].status)
        /\ \A k, j : Admitted(fs, k, j) =>
              Admitted(es, k, j) \/ \E m \in DOMAIN ds : Admits(ds[m], k, j)
    <2>1. <<es[Len(es)].limiter, Head(todo[q])>> \in World.firm =>
              \E m \in DOMAIN ds : ds[m].limiter = es[Len(es)].limiter /\ ds[m].rule = Head(todo[q])
      BY <1>6, <1>7
    <2>2. ds \in Seq(World.decisions)
      BY <1>3, <1>6
    <2> DEFINE label == pc[q]
               status == response[q].status
               td == todo[q]
               a == at[q]
    <2>3. /\ label \in {"plugin", "macro"} /\ IsWorld(World) /\ td # <<>>
          /\ OnItsWay(World, label, t, a, es, td, status)
          /\ Decisive(World, es, td, ds)
      BY <1>1, <1>3, <2>1 DEF Decisive
    <2> HIDE DEF es, t, label, status, td, a
    <2>4. /\ OnItsWay(World, label, t, a, Grown(es, ds), Tail(td), status)
          /\ \A k, j : Admitted(Grown(es, ds), k, j) =>
                Admitted(es, k, j) \/ \E m \in DOMAIN ds : Admits(ds[m], k, j)
      BY <2>2, <2>3, HitGoes
    <2> QED
      BY <2>4 DEF label, status, td, a
  <1> HIDE DEF fs
  <1>9. fs \in Evals(World)
    BY <1>8 DEF OnItsWay
  <1>10. /\ todo' \in [Requests -> Seq(Int)] /\ evals' \in [Requests -> Evals(World)]
         /\ todo'[q] = Tail(todo[q]) /\ evals'[q] = fs
         /\ \A p \in Requests \ {q} : todo'[p] = todo[p] /\ evals'[p] = evals[p]
    BY <1>1, <1>2, <1>3, <1>4, <1>9 DEF RequestsTyped
  <1>11. Placed(World, target', evals', count') /\ \A x \in DOMAIN count' : count'[x] \in Nat
    <2>1. CASE s = NoStore
      <3>1. count' = count
        BY <1>1, <2>1
      <3>2. \A k, j : Admitted(evals'[q], k, j) => Admitted(evals[q], k, j)
        BY <1>6, <1>8, <1>10, <2>1
      <3>3. Placed(World, target', evals', count')
        BY <1>1, <1>10, <3>1, <3>2, QuietPlaces
      <3> QED
        BY <1>3, <3>1, <3>3 DEF RequestsTyped
    <2>2. CASE s # NoStore
      <3>1. s \in StoresOf(l, i)
        BY <1>3, <1>5, <2>2, StoreFacts
      <3>2. \A k, j : Admitted(evals'[q], k, j) =>
                Admitted(evals[q], k, j) \/ Admits(ToDecision(l, i, Counted(c) + 1), k, j)
        BY <1>6, <1>8, <1>10
      <3>3. count' = Charged(c) /\ pc[q] # "idle" /\ c = <<s, KeyOf(l, i, target[q])>>
        BY <1>1, <2>2
      <3>4. /\ RulesKept /\ phase \in Open /\ l \in Limiters /\ target' = target
            /\ i \in RuleIndices(l) /\ \A p \in Requests \ {q} : evals'[p] = evals[p]
        BY <1>1, <1>3, <1>5, <1>10
      <3> HIDE DEF l, i, s, c
      <3> QED
        BY <3>1, <3>2, <3>3, <3>4, ChargePlaces
    <2> QED
      BY <2>1, <2>2
  <1> QED
    BY <1>1, <1>3, <1>8, <1>10, <1>11 DEF StepKeeps, RequestsTyped

LEMMA ConcludeKeeps ==
    ASSUME Served, NEW q \in Requests, Conclude(q)
    PROVE  StepKeeps(q)
  <1> DEFINE es == evals[q]
             ds == es[Len(es)].decisions
             l == es[Len(es)].limiter
             d == HeaderOf(ds)
             t == target[q]
             allowed == AllowedFamilies(l, Evaluating(q))
  <1>1. /\ pc[q] \in {"plugin", "macro"} /\ todo[q] = <<>>
        /\ target' = target /\ todo' = todo /\ evals' = evals /\ count' = count
    BY DEF Conclude
  <1>2. IF d # NoDecision /\ d.blocked THEN Limited(q, l, d, allowed) /\ at' = at
        ELSE ConcludeAllowed(q, l, d)
    BY DEF Conclude
  <1>3. /\ RequestsTyped /\ IsWorld(World) /\ t \in app.targets /\ app \in Applications
        /\ OnItsWay(World, pc[q], t, at[q], es, todo[q], response[q].status)
        /\ l \in Limiters /\ l \in Nat /\ ds \in Seq(Decisions)
        /\ pc[q] = "plugin" => at[q] \in Limiters /\ at[q] + 1 \in 1 .. LastLimiter + 1
    BY <1>1, InHand
  <1>4. allowed \in [Families -> BOOLEAN]
    BY DEF AllowedFamilies, FamilyAllowed
  <1> HIDE DEF ds, allowed
  <1>5. /\ d \in {NoDecision} \cup Decisions
        /\ ~(d # NoDecision /\ d.blocked) => \A n \in DOMAIN ds : ~ds[n].blocked
    BY <1>3, Verdict
  <1>6. Placed(World, target', evals', count')
    BY <1>1, QuietPlaces
  <1>7. CASE d # NoDecision /\ d.blocked
    <2>1. Limited(q, l, d, allowed) /\ at' = at /\ d \in Decisions
      BY <1>2, <1>5, <1>7
    <2> HIDE DEF d, l
    <2>2. /\ pc' \in [Requests -> Labels] /\ pc'[q] = "done"
          /\ response' \in [Requests -> Answers] /\ response'[q].status = 429
          /\ \A p \in Requests \ {q} : pc'[p] = pc[p] /\ response'[p] = response[p]
          /\ deferred' = deferred
      BY <1>3, <1>4, <2>1, LimitedIs
    <2>3. OnItsWay(World, "done", t, at[q], es, todo[q], 429)
      BY <1>1, <1>3, BlockGoes
    <2> QED
      BY <1>1, <1>3, <1>6, <2>1, <2>2, <2>3 DEF StepKeeps, RequestsTyped
  <1>8. CASE ~(d # NoDecision /\ d.blocked)
    <2>1. ConcludeAllowed(q, l, d)
      BY <1>2, <1>8
    <2> HIDE DEF d
    <2>2. /\ GoOn(q) /\ response' = response
          /\ deferred' = deferred \/ (Defer(q, l, d, allowed) /\ d \in Decisions)
      BY <1>5, <2>1 DEF ConcludeAllowed, allowed
    <2>3. deferred' \in [Requests -> [Limiters -> Deferrals]]
      <3> HIDE DEF l
      <3>1. CASE Defer(q, l, d, allowed) /\ d \in Decisions
        BY <1>3, <1>4, <3>1, DeferIs
      <3>2. CASE deferred' = deferred
        BY <1>3, <3>2 DEF RequestsTyped
      <3> QED
        BY <2>2, <3>1, <3>2
    <2>4. \A n \in DOMAIN es[Len(es)].decisions : ~es[Len(es)].decisions[n].blocked
      BY <1>5, <1>8 DEF d, ds
    <2>5. /\ pc[q] = "plugin" => OnItsWay(World, "onRequest", t, at[q] + 1, es, todo[q], response[q].status)
          /\ pc[q] = "macro" => OnItsWay(World, "handler", t, at[q], es, todo[q], response[q].status)
      <3> HIDE DEF es, t
      <3> QED
        BY <1>1, <1>3, <2>4, ConcludeGoes
    <2> HIDE DEF es, l, t
    <2>6. CASE pc[q] = "plugin"
      <3>1. pc' = [pc EXCEPT ![q] = "onRequest"] /\ at' = [at EXCEPT ![q] = at[q] + 1]
        BY <2>2, <2>6 DEF GoOn, Goto
      <3>2. /\ pc' \in [Requests -> Labels] /\ at' \in [Requests -> 1 .. LastLimiter + 1]
            /\ pc'[q] = "onRequest" /\ at'[q] = at[q] + 1
            /\ \A p \in Requests \ {q} : pc'[p] = pc[p] /\ at'[p] = at[p]
        BY <1>3, <2>6, <3>1 DEF RequestsTyped, Labels
      <3> QED
        BY <1>1, <1>3, <1>6, <2>2, <2>3, <2>5, <2>6, <3>2 DEF StepKeeps, RequestsTyped, es, t
    <2>7. CASE pc[q] = "macro"
      <3>1. pc' = [pc EXCEPT ![q] = "handler"] /\ at' = [at EXCEPT ![q] = at[q]]
        BY <2>2, <2>7 DEF GoOn, Goto
      <3>2. /\ pc' \in [Requests -> Labels] /\ at' = at
            /\ pc'[q] = "handler"
            /\ \A p \in Requests \ {q} : pc'[p] = pc[p]
        BY <1>3, <3>1 DEF RequestsTyped, Labels
      <3> QED
        BY <1>1, <1>3, <1>6, <2>2, <2>3, <2>5, <2>7, <3>2 DEF StepKeeps, RequestsTyped, es, t
    <2> QED
      BY <1>1, <2>6, <2>7
  <1> QED
    BY <1>7, <1>8

\* An answer is given another status, or headers.
WithStatus(r, status) == [r EXCEPT !.status = status]
WithHeaders(r, h) == [r EXCEPT !.headers = h]

LEMMA AnswerChanges ==
    ASSUME NEW r \in Answers
    PROVE  /\ \A status \in {0, 200, 429, 500} :
                 WithStatus(r, status) \in Answers /\ WithStatus(r, status).status = status
           /\ \A h \in [Families -> {NoDecision} \cup Decisions] :
                 WithHeaders(r, h) \in Answers /\ WithHeaders(r, h).status = r.status
  <1> DEFINE H == [Families -> {NoDecision} \cup Decisions]
             S == {0, 200, 429, 500}
             A == [status : S, headers : H, retryAfter : {0, 1}, by : Nat]
  <1>1. r \in A
    BY DEF Answers
  <1> HIDE DEF H, S
  <1>2. ASSUME NEW status \in S
        PROVE  WithStatus(r, status) \in A /\ WithStatus(r, status).status = status
    BY <1>1 DEF WithStatus
  <1>3. ASSUME NEW h \in H
        PROVE  WithHeaders(r, h) \in A /\ WithHeaders(r, h).status = r.status
    BY <1>1 DEF WithHeaders
  <1>4. A = Answers
    BY DEF Answers, H, S
  <1> HIDE DEF A
  <1> QED
    BY <1>2, <1>3, <1>4 DEF H, S

LEMMA HandlerThrowsKeeps ==
    ASSUME Served, NEW q \in Requests, HandlerThrows(q)
    PROVE  StepKeeps(q)
  <1> DEFINE x == [response[q] EXCEPT !.status = 500]
  <1>1. /\ pc[q] = "handler" /\ pc' = [pc EXCEPT ![q] = "done"]
        /\ response' = [response EXCEPT ![q] = x]
        /\ target' = target /\ at' = at /\ todo' = todo /\ evals' = evals /\ deferred' = deferred
        /\ count' = count
    BY DEF HandlerThrows, Goto
  <1>2. /\ RequestsTyped /\ IsWorld(World)
        /\ OnItsWay(World, "handler", target[q], at[q], evals[q], todo[q], response[q].status)
    BY <1>1, ServedFacts
  <1>3. x \in Answers /\ x.status = 500
    <2> DEFINE r == response[q]
    <2>1. r \in Answers
      BY <1>2 DEF RequestsTyped
    <2>2. x = WithStatus(r, 500)
      BY DEF WithStatus
    <2> HIDE DEF r, x
    <2> QED
      BY <2>1, <2>2, AnswerChanges
  <1> HIDE DEF x
  <1>4. /\ pc' \in [Requests -> Labels] /\ pc'[q] = "done"
        /\ response' \in [Requests -> Answers] /\ response'[q].status = 500
        /\ \A p \in Requests \ {q} : pc'[p] = pc[p] /\ response'[p] = response[p]
    BY <1>1, <1>2, <1>3 DEF RequestsTyped, Labels
  <1>5. OnItsWay(World, "done", target[q], at[q], evals[q], todo[q], 500)
    BY <1>2, HandlerGoes
  <1>6. Placed(World, target', evals', count')
    BY <1>1, QuietPlaces
  <1> QED
    BY <1>1, <1>2, <1>4, <1>5, <1>6 DEF StepKeeps, RequestsTyped

LEMMA RespondKeeps ==
    ASSUME Served, NEW q \in Requests, Respond(q)
    PROVE  StepKeeps(q)
  <1> DEFINE Writers(f) == {l \in Limiters : deferred[q][l] # NoDecision /\ deferred[q][l].allowed[f]}
             h == [f \in Families |-> IF Writers(f) = {} THEN NoDecision
                                      ELSE deferred[q][Max(Writers(f))].decision]
             x == [response[q] EXCEPT !.status = 200, !.headers = h]
  <1>1. /\ pc[q] = "handler" /\ pc' = [pc EXCEPT ![q] = "done"]
        /\ response' = [response EXCEPT ![q] = x]
        /\ deferred' = [deferred EXCEPT ![q] = [l \in Limiters |-> NoDecision]]
        /\ target' = target /\ at' = at /\ todo' = todo /\ evals' = evals /\ count' = count
    BY DEF Respond, Goto
  <1>2. /\ RequestsTyped /\ IsWorld(World) /\ LastLimiter \in Nat \ {0} /\ Limiters = 1 .. LastLimiter
        /\ OnItsWay(World, "handler", target[q], at[q], evals[q], todo[q], response[q].status)
    BY <1>1, ServedFacts
  <1>3. \A f \in Families : Writers(f) # {} => deferred[q][Max(Writers(f))].decision \in Decisions
    <2>1. ASSUME NEW f \in Families, Writers(f) # {}
          PROVE  deferred[q][Max(Writers(f))].decision \in Decisions
      <3> DEFINE U == Writers(f)
      <3>1. U \subseteq 1 .. LastLimiter /\ U # {} /\ LastLimiter \in Nat
        BY <1>2, <2>1
      <3>2. Max(U) \in U
        <4> HIDE DEF U
        <4> QED
          BY <3>1, MaxIsMember
      <3> DEFINE m == Max(U)
      <3>3. m \in Limiters /\ deferred[q][m] # NoDecision
        BY <3>2
      <3> HIDE DEF m, U
      <3>4. deferred[q][m] \in Deferrals
        BY <1>2, <3>3 DEF RequestsTyped
      <3>5. deferred[q][m].decision \in Decisions
        BY <3>3, <3>4 DEF Deferrals
      <3> QED
        BY <3>5 DEF m, U
    <2> QED
      BY <2>1
  <1>4. h \in [Families -> {NoDecision} \cup Decisions]
    <2> HIDE DEF Writers
    <2> QED
      BY <1>3
  <1> HIDE DEF h
  <1>5. x \in Answers /\ x.status = 200
    <2> DEFINE r == response[q]
    <2>1. r \in Answers
      BY <1>2 DEF RequestsTyped
    <2> HIDE DEF r
    <2> DEFINE y == WithStatus(r, 200)
    <2>2. y \in Answers /\ y.status = 200
      BY <2>1, AnswerChanges
    <2>3. x = WithHeaders(y, h)
      BY DEF WithStatus, WithHeaders, r
    <2> HIDE DEF x, y
    <2> QED
      BY <1>4, <2>2, <2>3, AnswerChanges
  <1> HIDE DEF x
  <1>6. /\ pc' \in [Requests -> Labels] /\ pc'[q] = "done"
        /\ response' \in [Requests -> Answers] /\ response'[q].status = 200
        /\ \A p \in Requests \ {q} : pc'[p] = pc[p] /\ response'[p] = response[p]
    BY <1>1, <1>2, <1>5 DEF RequestsTyped, Labels
  <1>7. deferred' \in [Requests -> [Limiters -> Deferrals]]
    BY <1>1, <1>2 DEF RequestsTyped, Deferrals
  <1>8. OnItsWay(World, "done", target[q], at[q], evals[q], todo[q], 200)
    BY <1>2, HandlerGoes
  <1>9. Placed(World, target', evals', count')
    BY <1>1, QuietPlaces
  <1>10. /\ target' = target /\ at' = at /\ todo' = todo /\ evals' = evals /\ count' = count
         /\ RequestsTyped
    BY <1>1, <1>2
  <1> QED
    BY <1>6, <1>7, <1>8, <1>9, <1>10 DEF StepKeeps, RequestsTyped

\* A request that has not come in, of any application.
LEMMA IdleGoes ==
    ASSUME NEW W, IsWorld(W), NEW t, NEW es, es = <<>>, NEW a, a = 1, NEW td \in Seq(Int),
           NEW status \in {0, 200, 429, 500}
    PROVE  OnItsWay(W, "idle", t, a, es, td, status)
  <1>1. 1 .. a - 1 = {} /\ a \in 1 .. W.last + 1
    BY DEF IsWorld
  <1>2. es \in Evals(W)
    BY DEF Evals
  <1> QED
    BY <1>1, <1>2 DEF OnItsWay, Labels, PassedBefore, Through

\* What the types of an application are made of.
LEMMA TypesStay ==
    ASSUME app' = app
    PROVE  /\ Limiters' = Limiters /\ LastLimiter' = LastLimiter /\ Decisions' = Decisions
           /\ Deferrals' = Deferrals /\ Answers' = Answers /\ Evals(World') = Evals(World)
           /\ IsWorld(World) => IsWorld(World')
  <1>1. Limiters' = Limiters /\ LastLimiter' = LastLimiter
    BY DEF Limiters, LastLimiter
  <1>2. Decisions' = Decisions
    BY <1>1 DEF Decisions
  <1>3. Deferrals' = Deferrals /\ Answers' = Answers
    BY <1>2 DEF Deferrals, Answers
  <1>4. World'.last = World.last /\ World'.decisions = World.decisions
    BY <1>1, <1>2 DEF World
  <1>5. Evals(World') = Evals(World)
    BY <1>4 DEF Evals
  <1> QED
    BY <1>1, <1>2, <1>3, <1>4, <1>5 DEF IsWorld

LEMMA ServedStart == Init => Served
  <1> SUFFICES ASSUME Init PROVE Served
    OBVIOUS
  <1>1. RulesKept /\ app \in Applications /\ phase = "installing"
    BY RulesStart DEF Init
  <1>2. IsWorld(World) /\ LastLimiter \in Nat \ {0} /\ 1 \in 1 .. LastLimiter + 1
    <2>1. IsWorld(World) /\ LastLimiter \in Nat \ {0}
      BY <1>1, WorldFacts
    <2> QED
      BY <2>1
  <1>3. /\ pc = [q \in Requests |-> "idle"] /\ target = [q \in Requests |-> NoTarget]
        /\ at = [q \in Requests |-> 1] /\ todo = [q \in Requests |-> <<>>]
        /\ evals = [q \in Requests |-> <<>>]
        /\ deferred = [q \in Requests |-> [l \in Limiters |-> NoDecision]]
        /\ response = [q \in Requests |-> NoResponse] /\ count = [c \in {} |-> 0]
    BY DEF Init
  <1>4. NoResponse \in Answers /\ NoResponse.status = 0
    <2> DEFINE h == [f \in Families |-> NoDecision]
               H == [Families -> {NoDecision} \cup Decisions]
               r == [status |-> 0, headers |-> h, retryAfter |-> 0, by |-> 0]
    <2>1. h \in H
      OBVIOUS
    <2> HIDE DEF h, H
    <2>2. r \in [status : {0, 200, 429, 500}, headers : H, retryAfter : {0, 1}, by : Nat]
      BY <2>1
    <2>3. r = NoResponse
      BY DEF NoResponse, h
    <2> QED
      BY <2>2, <2>3 DEF Answers, H
  <1>5. RequestsTyped
    <2>1. <<>> \in Evals(World) /\ <<>> \in Seq(Int)
      BY DEF Evals
    <2>2. [l \in Limiters |-> NoDecision] \in [Limiters -> Deferrals]
      BY DEF Deferrals
    <2> QED
      BY <1>2, <1>3, <1>4, <2>1, <2>2 DEF RequestsTyped, Labels
  <1>6. ASSUME NEW q \in Requests
        PROVE  OnItsWay(World, pc[q], target[q], at[q], evals[q], todo[q], response[q].status)
    <2>1. /\ pc[q] = "idle" /\ evals[q] = <<>> /\ at[q] = 1 /\ todo[q] \in Seq(Int)
          /\ response[q].status \in {0, 200, 429, 500}
      BY <1>3, <1>4
    <2>2. OnItsWay(World, "idle", target[q], at[q], evals[q], todo[q], response[q].status)
      BY <1>2, <2>1, IdleGoes
    <2> QED
      BY <2>1, <2>2
  <1>7. Placed(World, target, evals, count)
    BY <1>3, NonePlaced
  <1> QED
    BY <1>1, <1>3, <1>5, <1>6, <1>7 DEF Served, Open

\* While the application is set up no request is under way.
LEMMA SetUpKeeps ==
    ASSUME Served, RulesKept', phase \notin Open, app' = app, UNCHANGED request
    PROVE  Served'
  <1>1. /\ pc' = pc /\ target' = target /\ at' = at /\ todo' = todo /\ evals' = evals
        /\ deferred' = deferred /\ response' = response /\ count' = count
    BY DEF request
  <1>2. app \in Applications /\ RequestsTyped /\ \A q \in Requests : pc[q] = "idle"
    BY DEF Served, RulesKept, RegistriesKept
  <1>3. /\ Limiters' = Limiters /\ LastLimiter' = LastLimiter /\ Deferrals' = Deferrals
        /\ Answers' = Answers /\ Evals(World') = Evals(World)
        /\ IsWorld(World')
    BY <1>2, TypesStay, WorldFacts
  <1>4. ASSUME NEW q \in Requests
        PROVE  /\ evals'[q] = <<>>
               /\ OnItsWay(World', pc'[q], target'[q], at'[q], evals'[q], todo'[q],
                           response'[q].status)
    <2>1. OnItsWay(World, "idle", target[q], at[q], evals[q], todo[q], response[q].status)
      BY <1>2 DEF Served
    <2>2. /\ pc[q] = "idle" /\ evals[q] = <<>> /\ at[q] = 1 /\ todo[q] \in Seq(Int)
          /\ response[q].status \in {0, 200, 429, 500}
      BY <1>2, <2>1 DEF OnItsWay
    <2>3. OnItsWay(World', "idle", target[q], at[q], evals[q], todo[q], response[q].status)
      BY <1>3, <2>2, IdleGoes
    <2> QED
      BY <1>1, <2>2, <2>3
  <1>5. Placed(World', target', evals', count')
    BY <1>4, NonePlaced
  <1>6. RequestsTyped'
    BY <1>1, <1>2, <1>3 DEF RequestsTyped
  <1> QED
    BY <1>1, <1>2, <1>4, <1>5, <1>6 DEF Served

\* A stop leaves the requests alone, and all they meet.
LEMMA StopKeeps ==
    ASSUME Served, RulesKept', World' = World, app' = app, phase' \notin Open => phase \notin Open,
           UNCHANGED request
    PROVE  Served'
  <1>1. /\ pc' = pc /\ target' = target /\ at' = at /\ todo' = todo /\ evals' = evals
        /\ deferred' = deferred /\ response' = response /\ count' = count
    BY DEF request
  <1>2. /\ Limiters' = Limiters /\ LastLimiter' = LastLimiter /\ Deferrals' = Deferrals
        /\ Answers' = Answers
    BY TypesStay
  <1>3. RequestsTyped'
    BY <1>1, <1>2 DEF Served, RequestsTyped
  <1> QED
    BY <1>1, <1>3 DEF Served

LEMMA StepServes ==
    ASSUME Served, RulesKept', UNCHANGED setup, phase \in Open, NEW q \in Requests, StepKeeps(q)
    PROVE  Served'
  <1>1. app' = app /\ rules' = rules /\ registry' = registry /\ phase' = phase
    BY DEF setup
  <1>2. World' = World
    BY <1>1, WorldStays
  <1>3. /\ Limiters' = Limiters /\ LastLimiter' = LastLimiter /\ Deferrals' = Deferrals
        /\ Answers' = Answers
    BY <1>1, TypesStay
  <1>4. RequestsTyped'
    BY <1>1, <1>2, <1>3 DEF StepKeeps, RequestsTyped
  <1>5. ASSUME NEW p \in Requests
        PROVE  OnItsWay(World', pc'[p], target'[p], at'[p], evals'[p], todo'[p],
                        response'[p].status)
    <2>1. CASE p = q
      BY <1>2, <2>1 DEF StepKeeps
    <2>2. CASE p # q
      <3>1. /\ pc'[p] = pc[p] /\ target'[p] = target[p] /\ at'[p] = at[p] /\ todo'[p] = todo[p]
            /\ evals'[p] = evals[p] /\ response'[p] = response[p]
        BY <2>2 DEF StepKeeps
      <3>2. OnItsWay(World, pc[p], target[p], at[p], evals[p], todo[p], response[p].status)
        BY DEF Served
      <3> QED
        BY <1>2, <3>1, <3>2
    <2> QED
      BY <2>1, <2>2
  <1>6. Placed(World', target', evals', count')
    BY <1>2 DEF StepKeeps
  <1> QED
    BY <1>1, <1>4, <1>5, <1>6 DEF Served

LEMMA ServedInductive == Served /\ [Next]_vars => Served'
  <1> SUFFICES ASSUME Served, [Next]_vars PROVE Served'
    OBVIOUS
  <1>0. RulesKept /\ RulesKept' /\ RegistriesKept /\ app \in Applications
    BY RulesInductive DEF Served, RulesKept, RegistriesKept
  <1>1. CASE Install
    BY <1>0, <1>1, SetUpKeeps DEF Install, Open
  <1>2. CASE Declare
    BY <1>0, <1>2, SetUpKeeps DEF Declare, Open
  <1>3. CASE Stop
    <2>1. /\ app' = app /\ rules' = rules /\ registry' = registry /\ phase' = "stopping"
          /\ UNCHANGED request
      BY <1>3 DEF Stop
    <2>2. World' = World
      BY <2>1, WorldStays
    <2> QED
      BY <1>0, <2>1, <2>2, StopKeeps DEF Open
  <1>4. CASE OnStop
    <2>1. app' = app /\ rules' = rules /\ phase = "stopping" /\ UNCHANGED request
      BY <1>4 DEF OnStop
    <2>2. /\ phase' \in Open /\ phase \in Open
          /\ \A l \in DOMAIN registry : /\ registry'[l].cache = registry[l].cache
                                        /\ registry'[l].fallback = registry[l].fallback
      BY <1>0, <1>4, OnStopKeepsStores
    <2>3. Limiters = DOMAIN registry
      <3>1. registry \in Seq(Registries) /\ Len(registry) = Len(app.limiters)
        BY <1>0, <2>1 DEF RegistriesKept, Installed
      <3>2. Limiters = 1 .. Len(app.limiters)
        BY <1>0, ApplicationFacts DEF Limiters
      <3> QED
        BY <3>1, <3>2
    <2>4. World' = World
      BY <2>1, <2>2, <2>3, WorldStays
    <2> QED
      BY <1>0, <2>1, <2>2, <2>4, StopKeeps
  <1>5. ASSUME NEW q \in Requests, RequestStep(q) PROVE Served'
    <2>1. UNCHANGED setup
      BY <1>5 DEF RequestStep, Receive, FastRequest, OnRequest, BeforeHandle, HitRule, Conclude,
                  HandlerThrows, Respond
    <2>2. StepKeeps(q)
      BY <1>5, ReceiveKeeps, FastRequestKeeps, OnRequestKeeps, BeforeHandleKeeps, HitRuleKeeps,
         ConcludeKeeps, HandlerThrowsKeeps, RespondKeeps DEF RequestStep
    <2>3. phase \in Open
      <3>1. pc[q] # "idle" => phase \in Open
        BY ServedFacts, Zenon
      <3>2. phase = "serving" \/ pc[q] # "idle"
        BY <1>5 DEF RequestStep, Receive, FastRequest, OnRequest, BeforeHandle, HitRule, Conclude,
                    HandlerThrows, Respond
      <3> QED
        BY <3>1, <3>2 DEF Open
    <2> QED
      BY <1>0, <2>1, <2>2, <2>3, StepServes
  <1>6. CASE UNCHANGED vars
    <2>1. /\ app' = app /\ rules' = rules /\ registry' = registry /\ phase' = phase
          /\ UNCHANGED request
      BY <1>6 DEF vars, request
    <2>2. World' = World
      BY <2>1, WorldStays
    <2> QED
      BY <1>0, <2>1, <2>2, StopKeeps
  <1> QED
    BY <1>1, <1>2, <1>3, <1>4, <1>5, <1>6 DEF Next

LEMMA AlwaysServed == Spec => []Served
  BY ServedStart, ServedInductive, PTL DEF Spec

-----------------------------------------------------------------------------
(* What follows of the requests.                                           *)

\* Every variable keeps its range, and while requests are served each rule has a
\* store, and a fallback store if any, that can count for its algorithm, and the
\* rules of a limiter have distinct ids: no hit needs a check of its own.
THEOREM TypeCorrect == Spec => []TypeOK
  <1>1. Served => TypeOK
    <2> SUFFICES ASSUME Served PROVE TypeOK
      OBVIOUS
    <2>1. /\ RulesKept /\ RegistriesKept /\ RequestsTyped /\ app \in Applications
      BY DEF Served, RulesKept, RegistriesKept
    <2>2. /\ phase \in {"installing", "declaring", "serving", "stopping", "stopped", "failed"}
          /\ Len(registry) <= Len(app.limiters) /\ Len(rules) <= Len(app.limiters)
          /\ stopAt \in 1 .. Len(app.limiters) + 1
      BY <2>1 DEF RulesKept, RegistriesKept, Installed
    <2>3. pc \in [Requests -> {"idle", "onRequest", "plugin", "route", "macro", "handler", "done"}]
      BY <2>1 DEF RequestsTyped, Labels
    <2>4. ASSUME NEW q \in Requests
          PROVE  /\ target[q] \in {NoTarget} \cup app.targets
                 /\ at[q] \in 1 .. Len(app.limiters) + 1
                 /\ \A n \in DOMAIN evals[q] : \A m \in DOMAIN evals[q][n].decisions :
                       evals[q][n].decisions[m] \in Decisions
                 /\ deferred[q] \in [Limiters -> {NoDecision} \cup [decision : Decisions,
                                                     allowed : [Families -> BOOLEAN]]]
                 /\ response[q].status \in {0, 200, 429, 500}
      <3>1. /\ target[q] \in {NoTarget} \cup app.targets /\ at[q] \in 1 .. LastLimiter + 1
            /\ evals[q] \in Evals(World) /\ deferred[q] \in [Limiters -> Deferrals]
            /\ response[q] \in Answers
        BY <2>1 DEF RequestsTyped
      <3>2. ASSUME NEW n \in DOMAIN evals[q], NEW m \in DOMAIN evals[q][n].decisions
            PROVE  evals[q][n].decisions[m] \in Decisions
        <4> DEFINE R == [limiter : 1 .. World.last, macro : BOOLEAN, decisions : Seq(World.decisions)]
                   es == evals[q]
                   e == es[n]
        <4>1. es \in Seq(R)
          BY <3>1 DEF Evals
        <4>2. e \in R
          <5> HIDE DEF R, es
          <5> QED
            BY <3>2, <4>1 DEF es
        <4>3. e.decisions \in Seq(World.decisions) /\ World.decisions = Decisions
          BY <2>1, <4>2, WorldFacts
        <4> DEFINE ds == e.decisions
        <4>4. ds \in Seq(Decisions) /\ m \in DOMAIN ds
          BY <3>2, <4>3
        <4> HIDE DEF ds
        <4>5. ds[m] \in Decisions
          BY <4>4
        <4> QED
          BY <4>5 DEF ds
      <3> QED
        BY <3>1, <3>2 DEF Deferrals, Answers, LastLimiter
    <2>5. ASSUME phase = "serving", NEW l \in Limiters
          PROVE  /\ \A i \in RuleIndices(l) :
                       RuleOf(l, i).algorithm # "fixed-window" =>
                           \A s \in {RuleStore(l, i), registry[l].fallback} \ {NoStore} :
                               HasAlgorithmHit(s)
                 /\ \A i, j \in DOMAIN rules[l] : i # j => rules[l][i].id # rules[l][j].id
      <3>1. phase \in Open
        BY <2>5 DEF Open
      <3>2. ASSUME NEW i \in RuleIndices(l)
            PROVE  Supported(registry[l], RuleOf(l, i))
        BY <2>1, <3>1, RuleFacts DEF Stored
      <3>3. l \in DOMAIN registry
        <4>1. Len(registry) = Len(app.limiters) /\ registry \in Seq(Registries)
          BY <2>1, <2>5 DEF RegistriesKept, Installed
        <4>2. Limiters = 1 .. Len(app.limiters)
          BY <2>1, ApplicationFacts DEF Limiters
        <4> QED
          BY <4>1, <4>2
      <3>4. ~HasDuplicateId(rules[l])
        BY <2>1, <3>3 DEF RulesKept, CompileThrows
      <3> QED
        BY <3>2, <3>4 DEF Supported, RuleStore, HasDuplicateId
    <2> QED
      BY <2>1, <2>2, <2>3, <2>4, <2>5 DEF TypeOK
  <1> QED
    BY <1>1, AlwaysServed, PTL

\* A request that was answered past the limiters was admitted by each firm rule
\* that applies to it.
LEMMA ThroughIsAdmitted ==
    ASSUME Served, phase \in Open, NEW l \in Limiters, NEW i \in RuleIndices(l), Firm(l, i),
           NEW q \in Requests, pc[q] = "done", response[q].status # 429,
           i \in ToSet(Due(l, target[q])) \cup ToSet(MacroDue(target[q]))
    PROVE  target[q] \in app.targets /\ Admitted(evals[q], l, i)
  <1> DEFINE u == target[q]
  <1>1. /\ app \in Applications /\ RulesKept /\ u \in app.targets /\ World.last = LastLimiter
        /\ Limiters = 1 .. LastLimiter /\ LastLimiter \in Nat \ {0}
        /\ OnItsWay(World, "done", u, at[q], evals[q], todo[q], response[q].status)
    BY ServedFacts
  <1>2. /\ PassedBefore(World, u, at[q], evals[q]) /\ PassedMacro(World, u, evals[q])
        /\ at[q] = LastLimiter + 1
    BY <1>1 DEF OnItsWay, Through
  <1>3. i \in Int
    BY <1>1, RuleFacts
  <1>4. <<l, i>> \in World.firm /\ World.due[l][u] = ToSet(Due(l, u)) /\ World.macro[u] = ToSet(MacroDue(u))
    <2> HIDE DEF u
    <2> QED
      BY <1>1, <1>3, WorldFacts
  <1>5. CASE i \in ToSet(Due(l, u))
    <2>1. l \in 1 .. at[q] - 1
      BY <1>1, <1>2
    <2> QED
      BY <1>1, <1>2, <1>4, <1>5, <2>1 DEF PassedBefore
  <1>6. CASE i \in ToSet(MacroDue(u))
    <2>1. ToSet(MacroDue(u)) \subseteq {-j : j \in DOMAIN app.routes}
      BY <1>1, DueFacts
    <2>2. PICK j \in DOMAIN app.routes : i = -j
      BY <1>6, <2>1
    <2>3. app.routes \in Seq(ToSet(app.routes))
      BY <1>1, ApplicationFacts
    <2>4. j \in Nat \ {0}
      BY <2>2, <2>3
    <2>5. DOMAIN rules[l] \subseteq Nat
      <3>1. l \in DOMAIN registry
        BY <1>1, RuleFacts
      <3>2. rules[l] = CompileRules(app.limiters[l])
        BY <1>1, <3>1 DEF RulesKept
      <3>3. l \in 1 .. Len(app.limiters)
        BY <1>1 DEF LastLimiter
      <3>4. rules[l] \in Seq(ToSet(rules[l]))
        BY <1>1, <3>2, <3>3, ApplicationFacts
      <3>5. DOMAIN rules[l] = 1 .. Len(rules[l]) /\ Len(rules[l]) \in Nat
        BY <3>4, LenProperties
      <3> QED
        BY <3>5
    <2>6. ~(i \in Nat)
      BY <2>2, <2>4
    <2>7. l = LastLimiter
      BY <2>5, <2>6 DEF RuleIndices
    <2> QED
      BY <1>1, <1>2, <1>4, <1>6, <2>7 DEF PassedMacro
  <1> QED
    BY <1>1, <1>5, <1>6

\* A rule that fails closed, or whose own store always answers, lets no more than
\* its limit of requests of a key through for each store that may count for it: its
\* own and the fallback.  It holds however the requests overlap with each other and
\* with the closing of the stores.
THEOREM RulesFailClosed == Spec => []FailsClosed
  <1>1. Served => FailsClosed
    <2> SUFFICES ASSUME Served, phase \notin {"installing", "declaring", "failed"},
                        NEW l \in Limiters, NEW i \in RuleIndices(l), NEW t \in app.targets,
                        PolicyOf(l, i) = "block" \/ RuleStore(l, i) \notin CustomStores
                 PROVE  LET stores  == {RuleStore(l, i), registry[l].fallback} \ {NoStore}
                            through == {q \in Requests :
                                           /\ Answered(q) /\ response[q].status # 429
                                           /\ RuleId(l, i, target[q]) = RuleId(l, i, t)
                                           /\ i \in ToSet(Due(l, target[q])) \cup
                                                    ToSet(MacroDue(target[q]))}
                        IN  Cardinality(through) <= RuleOf(l, i).limit * Cardinality(stores)
      BY DEF FailsClosed
    <2> DEFINE stores  == {RuleStore(l, i), registry[l].fallback} \ {NoStore}
               through == {q \in Requests : /\ Answered(q) /\ response[q].status # 429
                                            /\ RuleId(l, i, target[q]) = RuleId(l, i, t)
                                            /\ i \in ToSet(Due(l, target[q])) \cup
                                                     ToSet(MacroDue(target[q]))}
    <2>1. /\ app \in Applications /\ RulesKept /\ RegistriesKept
          /\ Placed(World, target, evals, count)
      BY DEF Served, RulesKept, RegistriesKept
    <2>2. phase \in Open
      BY <2>1 DEF RegistriesKept, Installed, Open
    <2>3. Firm(l, i) /\ stores = StoresOf(l, i)
      BY DEF Firm, StoresOf
    <2>4. /\ World.stores[l][i] = stores /\ World.limits[l][i] = RuleOf(l, i).limit
          /\ World.last = LastLimiter /\ Limiters = 1 .. LastLimiter
          /\ World.rules[l] = RuleIndices(l) /\ World.targets = app.targets
          /\ \A u \in app.targets : World.keys[l][i][u] = KeyOf(l, i, u)
      BY <2>1, <2>3, WorldFacts
    <2>5. RuleOf(l, i).limit \in Nat
      BY <2>1, <2>2, RuleFacts DEF IsRule
    <2>6. IsFiniteSet(stores)
      <3>1. IsFiniteSet({RuleStore(l, i), registry[l].fallback})
        <4>1. IsFiniteSet({RuleStore(l, i)})
          BY FS_Singleton
        <4>2. IsFiniteSet({RuleStore(l, i)} \cup {registry[l].fallback})
          BY <4>1, FS_AddElement
        <4>3. {RuleStore(l, i)} \cup {registry[l].fallback} = {RuleStore(l, i), registry[l].fallback}
          OBVIOUS
        <4> QED
          BY <4>2, <4>3
      <3> QED
        BY <3>1, FS_Subset
    <2>7. ASSUME NEW q \in through
          PROVE  q \in Admittees(World, target, evals, l, i, t)
      <3>1. /\ q \in Requests /\ pc[q] = "done" /\ response[q].status # 429
            /\ RuleId(l, i, target[q]) = RuleId(l, i, t)
            /\ i \in ToSet(Due(l, target[q])) \cup ToSet(MacroDue(target[q]))
        BY <2>7 DEF Answered
      <3>2. target[q] \in app.targets /\ Admitted(evals[q], l, i)
        BY <2>2, <2>3, <3>1, ThroughIsAdmitted
      <3>3. KeyOf(l, i, target[q]) = KeyOf(l, i, t)
        BY <3>1 DEF KeyOf
      <3> QED
        BY <2>4, <3>1, <3>2, <3>3 DEF Admittees
    <2> HIDE DEF stores, through
    <2>8. through \subseteq Admittees(World, target, evals, l, i, t)
      BY <2>7
    <2>9. Cardinality(through) <= World.limits[l][i] * Cardinality(World.stores[l][i])
      BY <2>1, <2>4, <2>5, <2>6, <2>8, FewPlaces
    <2> QED
      BY <2>4, <2>9 DEF stores, through
  <1> QED
    BY <1>1, AlwaysServed, PTL

-----------------------------------------------------------------------------
(* Sequences one after another.                                            *)

\* The loop behind FlattenSeq.
IsFlattening(flat, S, s) ==
    /\ flat \in [1 .. Len(s) -> Seq(S)]
    /\ \A n \in 1 .. Len(s) : flat[n] = IF n = 1 THEN s[n] ELSE flat[n - 1] \o s[n]
    /\ FlattenSeq(s) = flat[Len(s)]

LEMMA FlattenRun ==
    ASSUME NEW S, NEW s \in Seq(Seq(S)), s # <<>>
    PROVE  \E flat : IsFlattening(flat, S, s)
  <1> DEFINE N == Len(s)
             Q == Seq(S)
             Turn(k, n) == k \o s[n]
             step == [n \in 1 .. N |-> [k \in Q |-> Turn(k, n)]]
             Body(g) == [n \in 1 .. N |-> IF n = 1 THEN s[n] ELSE g[n - 1] \o s[n]]
  <1>1. N \in Nat /\ N # 0 /\ <<>> \in Q /\ \A n \in 1 .. N : s[n] \in Q
    OBVIOUS
  <1>2. \A n \in 1 .. N : \A k \in Q : Turn(k, n) \in Q
    BY <1>1, ConcatProperties
  <1> HIDE DEF N, Turn
  <1>3. step \in [1 .. N -> [Q -> Q]]
    <2> HIDE DEF Q
    <2> QED
      BY <1>2
  <1>4. PICK f \in [0 .. N -> Q] :
            f[0] = <<>> /\ \A n \in 1 .. N : f[n] = step[n][f[n - 1]]
    <2> HIDE DEF step
    <2>1. \E f : IsRun(f, Q, <<>>, N, step)
      BY <1>1, <1>3, Iteration
    <2> QED
      BY <2>1 DEF IsRun
  <1>5. ASSUME NEW n \in 1 .. N PROVE n - 1 \in 0 .. N /\ f[n - 1] \in Q /\ f[n] = Turn(f[n - 1], n)
    <2> HIDE DEF Q
    <2>1. n - 1 \in 0 .. N
      BY <1>1
    <2>2. f[n - 1] \in Q
      BY <1>4, <2>1
    <2> QED
      BY <1>4, <2>1, <2>2
  <1> DEFINE h == [n \in 1 .. N |-> f[n]]
  <1>6. h = Body(h)
    <2>1. \A n \in 1 .. N : n = 1 \/ (n - 1 \in 1 .. N)
      BY <1>1
    <2>2. ASSUME NEW n \in 1 .. N, n = 1 PROVE f[n] = s[n]
      <3>1. f[1] = <<>> \o s[1]
        <4>1. f[n] = f[n - 1] \o s[n]
          BY <1>5 DEF Turn
        <4>2. n - 1 = 0
          BY <2>2
        <4> QED
          BY <1>4, <2>2, <4>1, <4>2
      <3>2. <<>> \o s[1] = s[1]
        BY <1>1, <2>2, ConcatEmptySeq
      <3> QED
        BY <2>2, <3>1, <3>2
    <2>3. ASSUME NEW n \in 1 .. N, n # 1 PROVE f[n] = h[n - 1] \o s[n]
      BY <1>5, <2>1, <2>3 DEF Turn
    <2>4. \A n \in 1 .. N : f[n] = IF n = 1 THEN s[n] ELSE h[n - 1] \o s[n]
      BY <2>2, <2>3
    <2> QED
      BY <2>4
  <1> DEFINE L == CHOOSE g : g = Body(g)
  <1>7. FlattenSeq(s) = L[N]
    BY <1>1 DEF FlattenSeq, N
  <1>8. L = Body(L)
    <2> HIDE DEF Body, h
    <2> QED
      BY <1>6
  <1> HIDE DEF L
  <1>9. /\ DOMAIN L = 1 .. N
        /\ \A n \in 1 .. N : L[n] = IF n = 1 THEN s[n] ELSE L[n - 1] \o s[n]
    <2>1. ASSUME NEW g
          PROVE  /\ DOMAIN Body(g) = 1 .. N
                 /\ \A n \in 1 .. N : Body(g)[n] = IF n = 1 THEN s[n] ELSE g[n - 1] \o s[n]
      BY <1>1
    <2> HIDE DEF Body
    <2> QED
      BY <1>8, <2>1
  <1>10. \A n \in 1 .. N : L[n] \in Q
    <2> DEFINE T == {n \in 0 .. N : n = 0 \/ L[n] \in Q}
    <2>1. 0 \in T
      BY <1>1
    <2>2. ASSUME NEW n \in 0 .. N - 1, n \in T PROVE n + 1 \in T
      <3>1. n + 1 \in 1 .. N /\ n + 1 \in 0 .. N /\ (n + 1) - 1 = n /\ (n = 0 <=> n + 1 = 1)
        BY <1>1
      <3>2. L[n + 1] = IF n = 0 THEN s[n + 1] ELSE L[n] \o s[n + 1]
        BY <1>9, <3>1
      <3>3. n # 0 => L[n] \in Q
        BY <2>2
      <3>4. L[n + 1] \in Q
        BY <1>1, <3>1, <3>2, <3>3, ConcatProperties
      <3> QED
        BY <3>1, <3>4
    <2>3. \A n \in 0 .. N - 1 : n \in T => n + 1 \in T
      BY <2>2
    <2> HIDE DEF T
    <2>4. 0 .. N \subseteq T
      BY <1>1, <2>1, <2>3, Induction
    <2>5. ASSUME NEW n \in 1 .. N PROVE n \in 0 .. N /\ n # 0
      BY <1>1
    <2> QED
      BY <2>4, <2>5 DEF T
  <1>11. L \in [1 .. N -> Q]
    <2>1. L = [n \in 1 .. N |-> L[n]]
      BY <1>8, <1>9
    <2> QED
      BY <1>10, <2>1
  <1>12. IsFlattening(L, S, s)
    BY <1>7, <1>9, <1>11 DEF IsFlattening, N
  <1> QED
    BY <1>12

\* The first m of the sequences g, one after another.
Joined(g, m) == FlattenSeq([l \in 1 .. m |-> g[l]])

LEMMA FirstOfMany ==
    ASSUME NEW S, NEW N \in Nat, NEW g \in [1 .. N -> Seq(S)], NEW m \in 0 .. N
    PROVE  /\ [l \in 1 .. m |-> g[l]] \in Seq(Seq(S)) /\ Len([l \in 1 .. m |-> g[l]]) = m
           /\ \A l \in 1 .. m : [k \in 1 .. m |-> g[k]][l] = g[l]
  <1>1. m \in Nat /\ \A l \in 1 .. m : l \in 1 .. N
    OBVIOUS
  <1>2. \A l \in 1 .. m : g[l] \in Seq(S)
    BY <1>1
  <1> QED
    BY <1>1, <1>2

LEMMA JoinsOneMore ==
    ASSUME NEW S, NEW N \in Nat, NEW g \in [1 .. N -> Seq(S)]
    PROVE  /\ Joined(g, 0) = <<>>
           /\ \A m \in 0 .. N : Joined(g, m) \in Seq(S)
           /\ \A m \in 0 .. N - 1 : Joined(g, m + 1) = Joined(g, m) \o g[m + 1]
  <1> DEFINE s(m) == [l \in 1 .. m |-> g[l]]
  <1>1. ASSUME NEW m \in 0 .. N
        PROVE  s(m) \in Seq(Seq(S)) /\ Len(s(m)) = m /\ \A l \in 1 .. m : s(m)[l] = g[l]
    BY FirstOfMany
  <1>2. \A m : Joined(g, m) = FlattenSeq(s(m))
    BY DEF Joined
  <1> HIDE DEF s
  <1>3. Joined(g, 0) = <<>>
    <2>1. 0 \in 0 .. N
      OBVIOUS
    <2>2. s(0) \in Seq(Seq(S)) /\ Len(s(0)) = 0
      BY <1>1, <2>1
    <2>3. s(0) = <<>>
      BY <2>2, EmptySeq
    <2> QED
      BY <1>2, <2>2, <2>3 DEF FlattenSeq
  <1>4. ASSUME NEW m \in 0 .. N, m # 0
        PROVE  \E flat : /\ flat \in [1 .. m -> Seq(S)]
                         /\ \A n \in 1 .. m : flat[n] = IF n = 1 THEN g[n] ELSE flat[n - 1] \o g[n]
                         /\ Joined(g, m) = flat[m]
    <2> DEFINE x == s(m)
    <2>1. x \in Seq(Seq(S)) /\ Len(x) = m /\ (\A l \in 1 .. m : x[l] = g[l]) /\ m \in Nat
      BY <1>1
    <2>2. x # <<>>
      BY <1>4, <2>1, EmptySeq
    <2>3. Joined(g, m) = FlattenSeq(x)
      BY <1>2
    <2> HIDE DEF x
    <2>4. PICK flat : IsFlattening(flat, S, x)
      BY <2>1, <2>2, FlattenRun
    <2>5. /\ flat \in [1 .. m -> Seq(S)] /\ Joined(g, m) = flat[m]
          /\ \A n \in 1 .. m : flat[n] = IF n = 1 THEN x[n] ELSE flat[n - 1] \o x[n]
      BY <2>1, <2>3, <2>4 DEF IsFlattening
    <2>6. \A n \in 1 .. m : flat[n] = IF n = 1 THEN g[n] ELSE flat[n - 1] \o g[n]
      BY <2>1, <2>5
    <2> QED
      BY <2>5, <2>6, Zenon
  <1>5. ASSUME NEW m \in 0 .. N PROVE Joined(g, m) \in Seq(S)
    <2>1. CASE m = 0
      <3>1. <<>> \in Seq(S)
        BY EmptySeq
      <3> QED
        BY <1>3, <2>1, <3>1, Zenon
    <2>2. CASE m # 0
      <3>1. PICK flat \in [1 .. m -> Seq(S)] : Joined(g, m) = flat[m]
        BY <1>4, <2>2
      <3>2. m \in 1 .. m
        BY <2>2
      <3> QED
        BY <3>1, <3>2
    <2> QED
      BY <2>1, <2>2
  <1>6. ASSUME NEW m \in 0 .. N - 1 PROVE Joined(g, m + 1) = Joined(g, m) \o g[m + 1]
    <2>1. /\ m + 1 \in 0 .. N /\ m \in 0 .. N /\ m + 1 # 0 /\ m + 1 \in 1 .. N /\ m + 1 \in 1 .. m + 1
          /\ (m + 1) - 1 = m /\ (m + 1 = 1 <=> m = 0) /\ m \in Nat
      OBVIOUS
    <2>2. PICK b \in [1 .. m + 1 -> Seq(S)] :
              /\ \A n \in 1 .. m + 1 : b[n] = IF n = 1 THEN g[n] ELSE b[n - 1] \o g[n]
              /\ Joined(g, m + 1) = b[m + 1]
      BY <1>4, <2>1
    <2>3. CASE m = 0
      <3>1. Joined(g, m + 1) = g[m + 1]
        BY <2>1, <2>2, <2>3
      <3>2. g[m + 1] \in Seq(S) /\ Joined(g, m) = <<>>
        BY <1>3, <2>1, <2>3
      <3>3. <<>> \o g[m + 1] = g[m + 1]
        BY <3>2, ConcatEmptySeq
      <3> QED
        BY <3>1, <3>2, <3>3
    <2>4. CASE m # 0
      <3>1. PICK a \in [1 .. m -> Seq(S)] :
                /\ \A n \in 1 .. m : a[n] = IF n = 1 THEN g[n] ELSE a[n - 1] \o g[n]
                /\ Joined(g, m) = a[m]
        BY <1>4, <2>1, <2>4
      <3> DEFINE T == {n \in 0 .. m : n = 0 \/ a[n] = b[n]}
      <3>2. 0 \in T
        BY <2>1
      <3>3. ASSUME NEW n \in 0 .. m - 1, n \in T PROVE n + 1 \in T
        <4>1. /\ n + 1 \in 0 .. m /\ n + 1 \in 1 .. m /\ n + 1 \in 1 .. m + 1 /\ (n + 1) - 1 = n
              /\ (n + 1 = 1 <=> n = 0)
          BY <2>1
        <4>2. /\ a[n + 1] = IF n = 0 THEN g[n + 1] ELSE a[n] \o g[n + 1]
              /\ b[n + 1] = IF n = 0 THEN g[n + 1] ELSE b[n] \o g[n + 1]
          BY <2>2, <3>1, <4>1
        <4>3. n = 0 \/ a[n] = b[n]
          BY <3>3
        <4>4. a[n + 1] = b[n + 1]
          BY <4>2, <4>3
        <4> QED
          BY <4>1, <4>4
      <3>4. \A n \in 0 .. m - 1 : n \in T => n + 1 \in T
        BY <3>3
      <3> HIDE DEF T
      <3>5. 0 .. m \subseteq T
        BY <2>1, <3>2, <3>4, Induction
      <3>6. m \in 0 .. m
        BY <2>1
      <3>7. a[m] = b[m]
        BY <2>4, <3>5, <3>6 DEF T
      <3>8. b[m + 1] = b[m] \o g[m + 1]
        BY <2>1, <2>2, <2>4
      <3> QED
        BY <2>2, <3>1, <3>7, <3>8
    <2> QED
      BY <2>3, <2>4
  <1> QED
    BY <1>3, <1>5, <1>6

-----------------------------------------------------------------------------
(* The hits a request owes.  The record C is the course of a request:      *)
(*   last      the number of limiters                                      *)
(*   due       by limiter and target, the hits <<limiter, rule>> it owes   *)
(*   macro     by target, the hits it owes to the macro                    *)
(*   families  by limiter and target, the header families allowed          *)
(*   route     by target, the header families the macro allows             *)

Hits == Nat \X Int

Course ==
    [last |-> LastLimiter,
     due |-> [l \in Limiters |-> [t \in app.targets |-> Named(l, Due(l, t))]],
     macro |-> [t \in app.targets |-> Named(LastLimiter, MacroDue(t))],
     families |-> [l \in Limiters |-> [t \in app.targets |-> AllowedFamilies(l, Due(l, t))]],
     route |-> [t \in app.targets |-> AllowedFamilies(LastLimiter, MacroDue(t))]]

IsCourse(C, t) ==
    /\ C.last \in Nat \ {0} /\ C.macro[t] \in Seq(Hits)
    /\ \A l \in 1 .. C.last : C.due[l][t] \in Seq(Hits)

\* What the first m limiters are owed for a request of t, and all of them.
OwedTo(C, t, m) == Joined([l \in 1 .. C.last |-> C.due[l][t]], m)

OwedInAll(C, t) == OwedTo(C, t, C.last) \o C.macro[t]

LEMMA Owed ==
    ASSUME NEW C, NEW t, IsCourse(C, t)
    PROVE  /\ OwedTo(C, t, 0) = <<>>
           /\ \A m \in 0 .. C.last : OwedTo(C, t, m) \in Seq(Hits)
           /\ \A a \in 1 .. C.last : OwedTo(C, t, a) = OwedTo(C, t, a - 1) \o C.due[a][t]
           /\ OwedInAll(C, t) \in Seq(Hits)
  <1> DEFINE g == [l \in 1 .. C.last |-> C.due[l][t]]
             S == Hits
             N == C.last
  <1>1. N \in Nat /\ N \in 0 .. N /\ g \in [1 .. N -> Seq(S)] /\ \A l \in 1 .. N : g[l] = C.due[l][t]
    BY DEF IsCourse
  <1>2. \A m : OwedTo(C, t, m) = Joined(g, m)
    BY DEF OwedTo
  <1> HIDE DEF g, S, N
  <1>3. /\ Joined(g, 0) = <<>>
        /\ \A m \in 0 .. N : Joined(g, m) \in Seq(S)
        /\ \A m \in 0 .. N - 1 : Joined(g, m + 1) = Joined(g, m) \o g[m + 1]
    BY <1>1, JoinsOneMore
  <1>4. ASSUME NEW a \in 1 .. N PROVE OwedTo(C, t, a) = OwedTo(C, t, a - 1) \o C.due[a][t]
    <2>1. a - 1 \in 0 .. N - 1 /\ (a - 1) + 1 = a
      BY <1>1
    <2>2. Joined(g, a) = Joined(g, a - 1) \o g[a]
      BY <1>3, <2>1
    <2> QED
      BY <1>1, <1>2, <2>2
  <1>5. OwedTo(C, t, N) \in Seq(S) /\ C.macro[t] \in Seq(S)
    BY <1>1, <1>2, <1>3 DEF IsCourse, S
  <1>6. OwedTo(C, t, N) \o C.macro[t] \in Seq(S)
    BY <1>5, ConcatProperties
  <1> QED
    BY <1>2, <1>3, <1>4, <1>6 DEF OwedInAll, N, S

\* A name is put to each rule, in the order of the rules.
LEMMA Names ==
    ASSUME NEW l \in Nat, NEW is \in Seq(Int)
    PROVE  /\ Named(l, is) \in Seq(Hits) /\ Len(Named(l, is)) = Len(is)
           /\ \A n \in 1 .. Len(is) : Named(l, is)[n] = <<l, is[n]>>
           /\ is = <<>> => Named(l, is) = <<>>
  <1>1. Len(is) \in Nat /\ DOMAIN is = 1 .. Len(is) /\ \A n \in 1 .. Len(is) : is[n] \in Int
    BY LenProperties
  <1>2. \A n \in 1 .. Len(is) : <<l, is[n]>> \in Hits
    BY <1>1 DEF Hits
  <1>3. Named(l, is) = [n \in 1 .. Len(is) |-> <<l, is[n]>>]
    BY <1>1 DEF Named
  <1> HIDE DEF Hits
  <1>4. Named(l, is) \in Seq(Hits) /\ Len(Named(l, is)) = Len(is)
    BY <1>1, <1>2, <1>3
  <1>5. is = <<>> => Named(l, is) = <<>>
    BY <1>4, EmptySeq
  <1> QED
    BY <1>3, <1>4, <1>5

LEMMA AppendThen ==
    ASSUME NEW S, NEW s \in Seq(S), NEW e \in S, NEW r \in Seq(S)
    PROVE  Append(s, e) \o r = s \o (<<e>> \o r)
  <1>1. \A z \in Seq(S) : (s \o z) \o r = s \o (z \o r)
    BY ConcatAssociative
  <1>2. <<e>> \in Seq(S)
    OBVIOUS
  <1>3. Append(s, e) = s \o <<e>>
    BY AppendIsConcat
  <1> QED
    BY <1>1, <1>2, <1>3

\* The hit of the first rule, and the rest still to do.
LEMMA FirstNamed ==
    ASSUME NEW l \in Nat, NEW is \in Seq(Int), is # <<>>, NEW paid \in Seq(Hits)
    PROVE  /\ <<l, Head(is)>> \in Hits /\ Append(paid, <<l, Head(is)>>) \in Seq(Hits)
           /\ Append(paid, <<l, Head(is)>>) \o Named(l, Tail(is)) = paid \o Named(l, is)
  <1> DEFINE i == Head(is)
             u == Tail(is)
             e == <<l, i>>
             x == Named(l, u)
             y == Named(l, is)
  <1>1. /\ i \in Int /\ u \in Seq(Int) /\ i = is[1] /\ Len(u) = Len(is) - 1 /\ Len(is) \in Nat \ {0}
        /\ \A n \in 1 .. Len(u) : u[n] = is[n + 1]
    BY HeadTailProperties, EmptySeq
  <1>2. e \in Hits
    BY <1>1 DEF Hits
  <1>3. /\ x \in Seq(Hits) /\ Len(x) = Len(u) /\ \A n \in 1 .. Len(u) : x[n] = <<l, u[n]>>
        /\ y \in Seq(Hits) /\ Len(y) = Len(is) /\ \A n \in 1 .. Len(is) : y[n] = <<l, is[n]>>
    <2> HIDE DEF u
    <2> QED
      BY <1>1, Names
  <1>4. <<e>> \in Seq(Hits) /\ Len(<<e>>) = 1 /\ <<e>>[1] = e
    BY <1>2
  <1>5. Append(paid, e) = paid \o <<e>> /\ Append(paid, e) \in Seq(Hits)
    BY <1>2, AppendIsConcat, AppendProperties
  <1>6. \A n \in 1 .. Len(is) : n = 1 \/ (n - 1 \in 1 .. Len(u) /\ (n - 1) + 1 = n)
    BY <1>1
  <1>7. y[1] = e /\ \A n \in 1 .. Len(is) : n # 1 => y[n] = x[n - 1]
    <2>1. 1 \in 1 .. Len(is)
      BY <1>1
    <2> QED
      BY <1>1, <1>3, <1>6, <2>1
  <1> HIDE DEF i, u, e, x, y
  <1>8. <<e>> \o x = y
    <2>1. /\ <<e>> \o x \in Seq(Hits) /\ Len(<<e>> \o x) = Len(is)
          /\ \A n \in 1 .. Len(is) : (<<e>> \o x)[n] = IF n <= 1 THEN <<e>>[n] ELSE x[n - 1]
      <3>1. /\ <<e>> \o x \in Seq(Hits) /\ Len(<<e>> \o x) = 1 + Len(x)
            /\ \A n \in 1 .. 1 + Len(x) : (<<e>> \o x)[n] = IF n <= 1 THEN <<e>>[n] ELSE x[n - 1]
        BY <1>3, <1>4, ConcatProperties
      <3>2. 1 + Len(x) = Len(is)
        BY <1>1, <1>3
      <3> QED
        BY <3>1, <3>2
    <2>2. \A n \in 1 .. Len(is) : (<<e>> \o x)[n] = y[n]
      BY <1>4, <1>6, <1>7, <2>1
    <2> QED
      BY <1>3, <2>1, <2>2, SeqEqual, ZenonT(40)
  <1>9. Append(paid, e) \o x = paid \o (<<e>> \o x)
    <2>1. e \in Hits /\ x \in Seq(Hits)
      BY <1>2, <1>3
    <2> QED
      BY <2>1, AppendThen
  <1> QED
    BY <1>2, <1>5, <1>8, <1>9 DEF e, i, u, x, y

-----------------------------------------------------------------------------
(* What a request has paid, by its hook `label`: as it is the hits that    *)
(* were made for it, td what the evaluation under way still has to hit, by *)
(* the limiter that answered it, and macro whether its last evaluation was *)
(* the macro's.                                                            *)

Tallied(C, label, t, a, td, paid, status, by, macro) ==
    /\ paid \in Seq(Hits)
    /\ label = "idle" => paid = <<>> /\ a = 1
    /\ label = "onRequest" => paid = OwedTo(C, t, a - 1)
    /\ label = "plugin" => paid \o Named(a, td) = OwedTo(C, t, a)
    /\ label = "macro" => paid \o Named(C.last, td) = OwedInAll(C, t)
    /\ label = "handler" => paid = OwedInAll(C, t)
    /\ label = "done" =>
          IF status = 429 /\ ~macro THEN by \in 1 .. C.last /\ paid = OwedTo(C, t, by)
          ELSE paid = OwedInAll(C, t)

\* A request comes in.
LEMMA ComesIn ==
    ASSUME NEW C, NEW t, NEW u, NEW td, NEW status, NEW by, NEW macro, NEW paid, NEW a, IsCourse(C, u),
           Tallied(C, "idle", t, a, td, paid, status, by, macro)
    PROVE  Tallied(C, "onRequest", u, a, td, paid, status, by, macro)
  <1>1. paid = <<>> /\ a = 1 /\ 1 - 1 = 0 /\ paid \in Seq(Hits)
    BY DEF Tallied
  <1>2. paid = OwedTo(C, u, a - 1)
    BY <1>1, Owed
  <1> QED
    BY <1>1, <1>2 DEF Tallied

\* The hook of limiter `a` owes nothing.
LEMMA OwesNothing ==
    ASSUME NEW C, NEW t, NEW td, NEW status, NEW by, NEW macro, NEW paid, NEW a \in 1 .. C.last,
           IsCourse(C, t), C.due[a][t] = <<>>,
           Tallied(C, "onRequest", t, a, td, paid, status, by, macro)
    PROVE  Tallied(C, "onRequest", t, a + 1, td, paid, status, by, macro)
  <1>1. C.last \in Nat /\ a - 1 \in 0 .. C.last /\ (a + 1) - 1 = a
    BY DEF IsCourse
  <1>2. paid = OwedTo(C, t, a - 1) /\ paid \in Seq(Hits)
    BY DEF Tallied
  <1>3. OwedTo(C, t, a) = paid
    <2>1. OwedTo(C, t, a) = OwedTo(C, t, a - 1) \o C.due[a][t]
      BY Owed
    <2>2. paid \o <<>> = paid
      BY <1>2, ConcatEmptySeq
    <2> QED
      BY <1>2, <2>1, <2>2
  <1> QED
    BY <1>1, <1>2, <1>3 DEF Tallied

\* The hook of limiter `a` sets out to hit its rules.
LEMMA SetsOut ==
    ASSUME NEW C, NEW t, NEW td, NEW status, NEW by, NEW macro, NEW paid, NEW a \in 1 .. C.last,
           NEW due, IsCourse(C, t), C.due[a][t] = Named(a, due), NEW macro2,
           Tallied(C, "onRequest", t, a, td, paid, status, by, macro)
    PROVE  Tallied(C, "plugin", t, a, due, paid, status, by, macro2)
  <1>1. paid = OwedTo(C, t, a - 1) /\ paid \in Seq(Hits)
    BY DEF Tallied
  <1>2. paid \o Named(a, due) = OwedTo(C, t, a)
    BY <1>1, Owed
  <1> QED
    BY <1>1, <1>2 DEF Tallied

\* The fast path hits its only rule, and answers or goes on.
LEMMA HitsAtOnce ==
    ASSUME NEW C, NEW t, NEW td, NEW status, NEW by, NEW macro, NEW paid, NEW a \in 1 .. C.last,
           IsCourse(C, t), C.due[a][t] = Named(a, << 1 >>),
           Tallied(C, "onRequest", t, a, td, paid, status, by, macro)
    PROVE  /\ Append(paid, <<a, 1>>) \in Seq(Hits)
           /\ Tallied(C, "onRequest", t, a + 1, td, Append(paid, <<a, 1>>), status, by, FALSE)
           /\ Tallied(C, "done", t, a, td, Append(paid, <<a, 1>>), 429, a, FALSE)
  <1>1. C.last \in Nat /\ a - 1 \in 0 .. C.last /\ (a + 1) - 1 = a /\ a \in Nat
    BY DEF IsCourse
  <1>2. paid = OwedTo(C, t, a - 1) /\ paid \in Seq(Hits)
    BY DEF Tallied
  <1>3. paid \o Named(a, <<1>>) = OwedTo(C, t, a)
    BY <1>2, Owed
  <1> DEFINE is == <<1>>
  <1>4. is \in Seq(Int) /\ is # <<>> /\ Head(is) = 1 /\ Tail(is) = <<>>
    OBVIOUS
  <1> HIDE DEF is
  <1>5. /\ Append(paid, <<a, 1>>) \in Seq(Hits)
        /\ Append(paid, <<a, 1>>) \o Named(a, <<>>) = paid \o Named(a, is)
    BY <1>1, <1>2, <1>4, FirstNamed
  <1>6. Named(a, <<>>) = <<>>
    BY <1>1, Names, EmptySeq
  <1> DEFINE bs == Append(paid, <<a, 1>>)
  <1> HIDE DEF bs
  <1>7. bs \in Seq(Hits) /\ bs \o <<>> = bs
    BY <1>5, ConcatEmptySeq DEF bs
  <1>8. bs = OwedTo(C, t, a)
    BY <1>3, <1>5, <1>6, <1>7 DEF bs, is
  <1>9. /\ Tallied(C, "onRequest", t, a + 1, td, bs, status, by, FALSE)
        /\ Tallied(C, "done", t, a, td, bs, 429, a, FALSE)
    BY <1>1, <1>7, <1>8 DEF Tallied
  <1> QED
    BY <1>7, <1>9 DEF bs

\* All limiters have let the request go; the macro's rules come next.
LEMMA ReachesMacro ==
    ASSUME NEW C, NEW t, NEW td, NEW status, NEW by, NEW macro, NEW paid, NEW due, NEW macro2,
           IsCourse(C, t), C.macro[t] = Named(C.last, due),
           Tallied(C, "onRequest", t, C.last + 1, td, paid, status, by, macro)
    PROVE  /\ Tallied(C, "macro", t, C.last + 1, due, paid, status, by, macro2)
           /\ due = <<>> => Tallied(C, "handler", t, C.last + 1, td, paid, status, by, macro)
  <1>1. C.last \in Nat /\ (C.last + 1) - 1 = C.last
    BY DEF IsCourse
  <1>2. paid = OwedTo(C, t, C.last) /\ paid \in Seq(Hits)
    BY <1>1 DEF Tallied
  <1>3. paid \o Named(C.last, due) = OwedInAll(C, t)
    BY <1>2 DEF OwedInAll
  <1>4. ASSUME due = <<>> PROVE paid = OwedInAll(C, t)
    <2>1. Named(C.last, <<>>) = <<>>
      BY <1>1, Names, EmptySeq
    <2>2. paid \o <<>> = paid
      BY <1>2, ConcatEmptySeq
    <2> QED
      BY <1>3, <1>4, <2>1, <2>2
  <1>5. Tallied(C, "macro", t, C.last + 1, due, paid, status, by, macro2)
    BY <1>2, <1>3 DEF Tallied
  <1>6. due = <<>> => Tallied(C, "handler", t, C.last + 1, td, paid, status, by, macro)
    BY <1>2, <1>4 DEF Tallied
  <1> QED
    BY <1>5, <1>6

\* A rule is hit.
LEMMA HitsOne ==
    ASSUME NEW C, NEW label \in {"plugin", "macro"}, NEW t, NEW a \in Nat, NEW td \in Seq(Int),
           NEW paid, NEW status, NEW by, NEW macro, td # <<>>, NEW macro2, IsCourse(C, t), NEW l,
           l = IF label = "macro" THEN C.last ELSE a,
           Tallied(C, label, t, a, td, paid, status, by, macro)
    PROVE  Tallied(C, label, t, a, Tail(td), Append(paid, <<l, Head(td)>>), status, by, macro2)
  <1>1. l \in Nat /\ paid \in Seq(Hits)
    BY DEF IsCourse, Tallied
  <1> DEFINE bs == Append(paid, <<l, Head(td)>>)
  <1>2. bs \in Seq(Hits) /\ bs \o Named(l, Tail(td)) = paid \o Named(l, td)
    BY <1>1, FirstNamed
  <1> HIDE DEF bs
  <1>3. CASE label = "plugin"
    <2>1. paid \o Named(a, td) = OwedTo(C, t, a) /\ l = a
      BY <1>3 DEF Tallied
    <2>2. Tallied(C, label, t, a, Tail(td), bs, status, by, macro2)
      BY <1>2, <1>3, <2>1 DEF Tallied
    <2> QED
      BY <2>2 DEF bs
  <1>4. CASE label = "macro"
    <2>1. paid \o Named(C.last, td) = OwedInAll(C, t) /\ l = C.last
      BY <1>4 DEF Tallied
    <2>2. Tallied(C, label, t, a, Tail(td), bs, status, by, macro2)
      BY <1>2, <1>4, <2>1 DEF Tallied
    <2> QED
      BY <2>2 DEF bs
  <1> QED
    BY <1>3, <1>4

\* An evaluation is over: the request is answered, or goes on.
LEMMA PaysUp ==
    ASSUME NEW C, NEW label \in {"plugin", "macro"}, NEW t, NEW a \in Nat, NEW paid, NEW status, NEW by,
           NEW macro, IsCourse(C, t), NEW l, l = IF label = "macro" THEN C.last ELSE a, l \in 1 .. C.last,
           macro <=> label = "macro", Tallied(C, label, t, a, <<>>, paid, status, by, macro)
    PROVE  /\ Tallied(C, "done", t, a, <<>>, paid, 429, l, macro)
           /\ label = "plugin" => Tallied(C, "onRequest", t, a + 1, <<>>, paid, status, by, macro)
           /\ label = "macro" => Tallied(C, "handler", t, a, <<>>, paid, status, by, macro)
  <1>1. l \in Nat /\ paid \in Seq(Hits) /\ (a + 1) - 1 = a
    <2>1. C.last \in Nat
      BY DEF IsCourse
    <2>2. paid \in Seq(Hits)
      BY DEF Tallied
    <2>3. l \in Nat /\ (a + 1) - 1 = a
      BY <2>1
    <2> QED
      BY <2>2, <2>3
  <1>2. Named(l, <<>>) = <<>>
    BY <1>1, Names, EmptySeq
  <1>3. paid \o <<>> = paid
    BY <1>1, ConcatEmptySeq
  <1>4. CASE label = "plugin"
    <2>1. paid = OwedTo(C, t, a) /\ l = a
      BY <1>2, <1>3, <1>4 DEF Tallied
    <2> QED
      BY <1>1, <1>4, <2>1 DEF Tallied
  <1>5. CASE label = "macro"
    <2>1. paid = OwedInAll(C, t) /\ l = C.last
      BY <1>2, <1>3, <1>5 DEF Tallied
    <2> QED
      BY <1>1, <1>5, <2>1 DEF Tallied
  <1> QED
    BY <1>4, <1>5

LEMMA CourseFacts ==
    ASSUME RulesKept, phase \in Open, NEW t \in app.targets
    PROVE  /\ IsCourse(Course, t) /\ Course.last = LastLimiter
           /\ Course.macro[t] = Named(LastLimiter, MacroDue(t))
           /\ Course.route[t] = AllowedFamilies(LastLimiter, MacroDue(t))
           /\ \A l \in 1 .. LastLimiter :
                 /\ Course.due[l][t] = Named(l, Due(l, t))
                 /\ Course.families[l][t] = AllowedFamilies(l, Due(l, t))
  <1>1. LastLimiter \in Nat \ {0} /\ LastLimiter \in Limiters /\ Limiters = 1 .. LastLimiter
    <2>1. app \in Applications
      BY DEF RulesKept, RegistriesKept
    <2>2. LastLimiter \in Nat \ {0} /\ Limiters = 1 .. LastLimiter
      BY <2>1, WorldFacts
    <2> QED
      BY <2>2
  <1>2. /\ Course.last = LastLimiter
        /\ Course.macro[t] = Named(LastLimiter, MacroDue(t))
        /\ Course.route[t] = AllowedFamilies(LastLimiter, MacroDue(t))
        /\ \A l \in Limiters : /\ Course.due[l][t] = Named(l, Due(l, t))
                               /\ Course.families[l][t] = AllowedFamilies(l, Due(l, t))
    BY DEF Course
  <1>3. Named(LastLimiter, MacroDue(t)) \in Seq(Hits)
    <2>1. MacroDue(t) \in Seq(Int)
      BY <1>1, DueFacts
    <2> QED
      BY <1>1, <2>1, Names
  <1>4. ASSUME NEW l \in Limiters PROVE Named(l, Due(l, t)) \in Seq(Hits)
    <2>1. Due(l, t) \in Seq(Int)
      BY DueFacts
    <2>2. l \in Nat
      BY <1>1
    <2> QED
      BY <2>1, <2>2, Names
  <1>5. IsCourse(Course, t)
    BY <1>1, <1>2, <1>3, <1>4 DEF IsCourse
  <1> QED
    BY <1>1, <1>2, <1>5

LEMMA CourseStays ==
    ASSUME app' = app, rules' = rules
    PROVE  Course' = Course
  <1>1. Limiters' = Limiters /\ LastLimiter' = LastLimiter /\ app'.targets = app.targets
    BY DEF Limiters, LastLimiter
  <1>2. \A l, i : (RuleOf(l, i))' = RuleOf(l, i)
    BY DEF RuleOf
  <1>3. ASSUME NEW l, NEW t PROVE (Due(l, t))' = Due(l, t)
    BY DEF Due, Skips, ActiveRules
  <1>4. ASSUME NEW t PROVE (MacroDue(t))' = MacroDue(t)
    BY <1>1 DEF MacroDue, Skips
  <1>5. ASSUME NEW l, NEW t
        PROVE  (AllowedFamilies(l, Due(l, t)))' = AllowedFamilies(l, Due(l, t))
    BY <1>2, <1>3 DEF AllowedFamilies, FamilyAllowed
  <1>6. ASSUME NEW t
        PROVE  (AllowedFamilies(LastLimiter, MacroDue(t)))' = AllowedFamilies(LastLimiter, MacroDue(t))
    BY <1>1, <1>2, <1>4 DEF AllowedFamilies, FamilyAllowed
  <1>7. ASSUME NEW l, NEW t PROVE (Named(l, Due(l, t)))' = Named(l, Due(l, t))
    BY <1>3 DEF Named
  <1>8. ASSUME NEW t PROVE (Named(LastLimiter, MacroDue(t)))' = Named(LastLimiter, MacroDue(t))
    BY <1>1, <1>4 DEF Named
  <1> QED
    BY <1>1, <1>5, <1>6, <1>7, <1>8 DEF Course

\* No rule applies twice; a limiter's own have the positive indices.
LEMMA DueInOrder ==
    ASSUME RulesKept, phase \in Open, NEW l \in Limiters, NEW t
    PROVE  /\ IsInjective(Due(l, t)) /\ \A i \in ToSet(Due(l, t)) : i > 0
           /\ IsInjective(MacroDue(t)) /\ \A i \in ToSet(MacroDue(t)) : ~(i > 0)
  <1>1. /\ rules[l] \in Seq(ToSet(rules[l])) /\ app.routes \in Seq(ToSet(app.routes))
    <2>1. /\ RegistriesKept /\ app \in Applications /\ registry \in Seq(Registries)
          /\ Len(registry) = Len(app.limiters)
      BY DEF RulesKept, RegistriesKept, Open, Installed
    <2>2. l \in DOMAIN registry /\ l \in 1 .. Len(app.limiters)
      BY <2>1, ApplicationFacts DEF Limiters
    <2> QED
      BY <2>1, <2>2, ApplicationFacts DEF RulesKept
  <1> DEFINE n == Len(rules[l])
             m == Len(app.routes)
             s == [i \in DOMAIN rules[l] |-> i]
             r == [i \in DOMAIN app.routes |-> -i]
  <1>2. n \in Nat /\ DOMAIN rules[l] = 1 .. n /\ m \in Nat /\ DOMAIN app.routes = 1 .. m
    BY <1>1, LenProperties
  <1>3. s \in Seq(Int) /\ IsInjective(s)
    <2>1. s = [i \in 1 .. n |-> i] /\ \A i \in 1 .. n : i \in Int
      BY <1>2
    <2> HIDE DEF n
    <2> QED
      BY <1>2, <2>1 DEF IsInjective
  <1>4. r \in Seq(Int) /\ IsInjective(r)
    <2>1. r = [i \in 1 .. m |-> -i] /\ \A i \in 1 .. m : -i \in Int
      BY <1>2
    <2>2. \A i, j \in 1 .. m : -i = -j => i = j
      BY <1>2
    <2> HIDE DEF m
    <2> QED
      BY <1>2, <2>1, <2>2 DEF IsInjective
  <1>5. IsInjective(<<>>) /\ ToSet(<<>>) = {}
    BY DEF IsInjective, ToSet
  <1>6. IsInjective(Due(l, t))
    <2> DEFINE C == {i \in DOMAIN rules[l] : Matches(rules[l][i], t)}
    <2>1. ActiveRules(l, t) = OnlyIn(s, C)
      BY DEF ActiveRules
    <2> HIDE DEF s, C
    <2>2. IsInjective(OnlyIn(s, C))
      BY <1>3, OnlyInKeeps
    <2> QED
      BY <1>5, <2>1, <2>2 DEF Due
  <1>7. IsInjective(MacroDue(t))
    <2> DEFINE C == {-i : i \in {j \in DOMAIN app.routes :
                                    MethodMatches(t[1], app.routes[j]) /\ t[2] = app.routes[j].path}}
    <2>1. MacroDue(t) = <<>> \/ MacroDue(t) = OnlyIn(r, C)
      BY DEF MacroDue
    <2> HIDE DEF r, C
    <2>2. IsInjective(OnlyIn(r, C))
      BY <1>4, OnlyInKeeps
    <2> QED
      BY <1>5, <2>1, <2>2
  <1>8. \A i \in ToSet(Due(l, t)) : i > 0
    <2>1. ToSet(Due(l, t)) \subseteq DOMAIN rules[l]
      BY DueFacts
    <2>2. \A i \in 1 .. n : i > 0
      BY <1>2
    <2> QED
      BY <1>2, <2>1, <2>2
  <1>9. \A i \in ToSet(MacroDue(t)) : ~(i > 0)
    <2>1. ToSet(MacroDue(t)) \subseteq {-j : j \in DOMAIN app.routes}
      BY DueFacts
    <2>2. \A j \in 1 .. m : ~(-j > 0)
      BY <1>2
    <2> QED
      BY <1>2, <2>1, <2>2
  <1> QED
    BY <1>6, <1>7, <1>8, <1>9

\* The one rule of the fast path is hit if its methods match, and no other.
LEMMA FastOwes ==
    ASSUME RulesKept, phase \in Open, NEW l \in Limiters, FastEligible(l), NEW t \in app.targets
    PROVE  Due(l, t) = IF MethodMatches(t[1], RuleOf(l, 1)) THEN <<1>> ELSE <<>>
  <1>1. /\ Due(l, t) \in Seq(Int)
        /\ ToSet(Due(l, t)) = IF MethodMatches(t[1], RuleOf(l, 1)) THEN {1} ELSE {}
    BY DueFacts, FastFacts
  <1>2. IsInjective(Due(l, t))
    BY DueInOrder
  <1> DEFINE d == Due(l, t)
             n == Len(d)
  <1>3. n \in Nat /\ DOMAIN d = 1 .. n /\ ToSet(d) = {d[i] : i \in 1 .. n}
    BY <1>1, LenProperties DEF ToSet
  <1>4. CASE ~MethodMatches(t[1], RuleOf(l, 1))
    <2>1. ToSet(d) = {}
      BY <1>1, <1>4
    <2> HIDE DEF d
    <2>2. n = 0
      <3>1. n # 0 => 1 \in 1 .. n
        BY <1>3
      <3> QED
        BY <1>3, <2>1, <3>1
    <2>3. d = <<>>
      BY <1>1, <2>2, EmptySeq DEF d
    <2> QED
      BY <1>4, <2>3 DEF d
  <1>5. CASE MethodMatches(t[1], RuleOf(l, 1))
    <2>1. ToSet(d) = {1} /\ IsInjective(d) /\ d \in Seq(Int)
      BY <1>1, <1>2, <1>5
    <2> HIDE DEF d
    <2>2. \A i \in 1 .. n : d[i] = 1
      BY <1>3, <2>1
    <2>3. n # 0
      <3>1. PICK i \in 1 .. n : d[i] = 1
        BY <1>3, <2>1
      <3> QED
        BY <1>3, <3>1
    <2>4. \A i \in 1 .. n : i = 1
      <3>1. 1 \in 1 .. n
        BY <1>3, <2>3
      <3> QED
        BY <1>3, <2>1, <2>2, <3>1 DEF IsInjective
    <2>5. n = 1
      <3>1. n \in 1 .. n
        BY <1>3, <2>3
      <3> QED
        BY <2>4, <3>1
    <2>6. d = <<1>>
      <3> DEFINE x == <<1>>
      <3>1. x \in Seq(Int) /\ Len(x) = 1 /\ x[1] = 1
        OBVIOUS
      <3>2. Len(d) = Len(x) /\ \A i \in 1 .. Len(d) : d[i] = x[i]
        BY <2>2, <2>4, <2>5, <3>1
      <3> HIDE DEF x
      <3>3. d = x
        BY <2>1, <3>1, <3>2, SeqEqual
      <3> QED
        BY <3>3 DEF x
    <2> QED
      BY <1>5, <2>6 DEF d
  <1> QED
    BY <1>4, <1>5

\* What request q has paid, of what its course is.
Pays(q) ==
    Tallied(Course, pc[q], target[q], at[q], todo[q], asked[q], response[q].status,
            response[q].by, LastEvaluation(q).macro)

AllPay == Served /\ asked \in [Requests -> Seq(Hits)] /\ \A q \in Requests : Pays(q)

StepPays(q) ==
    /\ asked' \in [Requests -> Seq(Hits)] /\ \A p \in Requests \ {q} : asked'[p] = asked[p]
    /\ Tallied(Course, pc'[q], target'[q], at'[q], todo'[q], asked'[q], response'[q].status,
               response'[q].by, LastEvaluation(q)'.macro)

\* What is known of a request that has come in.
LEMMA PayingFacts ==
    ASSUME AllPay, NEW q \in Requests
    PROVE  /\ Served /\ RequestsTyped /\ RulesKept /\ app \in Applications
           /\ asked \in [Requests -> Seq(Hits)] /\ asked[q] \in Seq(Hits) /\ Pays(q)
           /\ LastLimiter \in Nat \ {0} /\ Limiters = 1 .. LastLimiter /\ Course.last = LastLimiter
           /\ at[q] \in 1 .. LastLimiter + 1
           /\ pc[q] # "idle" =>
                /\ phase \in Open /\ target[q] \in app.targets /\ IsCourse(Course, target[q])
                /\ Course.macro[target[q]] = Named(LastLimiter, MacroDue(target[q]))
                /\ \A l \in 1 .. LastLimiter : Course.due[l][target[q]] = Named(l, Due(l, target[q]))
  <1>1. /\ Served /\ asked \in [Requests -> Seq(Hits)] /\ Pays(q)
    BY DEF AllPay
  <1>2. /\ RequestsTyped /\ RulesKept /\ app \in Applications
        /\ LastLimiter \in Nat \ {0} /\ Limiters = 1 .. LastLimiter /\ at[q] \in 1 .. LastLimiter + 1
        /\ pc[q] # "idle" => phase \in Open /\ target[q] \in app.targets
    BY <1>1, ServedFacts
  <1>3. Course.last = LastLimiter
    BY DEF Course
  <1>4. pc[q] # "idle" =>
            /\ IsCourse(Course, target[q])
            /\ Course.macro[target[q]] = Named(LastLimiter, MacroDue(target[q]))
            /\ \A l \in 1 .. LastLimiter : Course.due[l][target[q]] = Named(l, Due(l, target[q]))
    BY <1>2, CourseFacts
  <1>5. asked[q] \in Seq(Hits)
    BY <1>1
  <1> QED
    BY <1>1, <1>2, <1>3, <1>4, <1>5

LEMMA ReceivePays ==
    ASSUME AllPay, NEW q \in Requests, Receive(q)
    PROVE  StepPays(q)
  <1>1. PICK u \in app.targets : target' = [target EXCEPT ![q] = u]
    BY DEF Receive
  <1>2. /\ pc[q] = "idle" /\ phase = "serving" /\ pc' = [pc EXCEPT ![q] = "onRequest"]
        /\ at' = at /\ todo' = todo /\ evals' = evals /\ asked' = asked /\ response' = response
    BY DEF Receive, Goto
  <1>3. /\ RequestsTyped /\ RulesKept /\ asked \in [Requests -> Seq(Hits)] /\ Pays(q)
    BY PayingFacts
  <1>4. pc'[q] = "onRequest" /\ target'[q] = u
    BY <1>1, <1>2, <1>3 DEF RequestsTyped
  <1>5. IsCourse(Course, u)
    BY <1>2, <1>3, CourseFacts DEF Open
  <1>6. LastEvaluation(q)' = LastEvaluation(q)
    BY <1>2 DEF LastEvaluation
  <1>7. Tallied(Course, "onRequest", u, at[q], todo[q], asked[q], response[q].status,
                response[q].by, LastEvaluation(q).macro)
    <2>1. Tallied(Course, "idle", target[q], at[q], todo[q], asked[q], response[q].status,
                  response[q].by, LastEvaluation(q).macro)
      BY <1>2, <1>3 DEF Pays
    <2> QED
      BY <1>5, <2>1, ComesIn
  <1> QED
    BY <1>2, <1>3, <1>4, <1>6, <1>7 DEF StepPays

LEMMA OnRequestPays ==
    ASSUME AllPay, NEW q \in Requests, OnRequest(q)
    PROVE  StepPays(q)
  <1> DEFINE a == at[q]
             t == target[q]
             due == Due(a, t)
  <1>1. /\ pc[q] = "onRequest" /\ a \in Limiters
        /\ target' = target /\ asked' = asked /\ response' = response
    BY DEF OnRequest
  <1>2. /\ RequestsTyped /\ RulesKept /\ phase \in Open /\ asked \in [Requests -> Seq(Hits)]
        /\ Pays(q) /\ IsCourse(Course, t) /\ LastLimiter \in Nat \ {0}
        /\ a \in 1 .. Course.last /\ a \in Nat /\ a + 1 \in 1 .. LastLimiter + 1
        /\ Course.due[a][t] = Named(a, due)
    <2>1. /\ RequestsTyped /\ RulesKept /\ phase \in Open /\ asked \in [Requests -> Seq(Hits)]
          /\ Pays(q) /\ IsCourse(Course, t) /\ LastLimiter \in Nat \ {0}
          /\ Course.last = LastLimiter /\ Limiters = 1 .. LastLimiter
          /\ \A l \in 1 .. LastLimiter : Course.due[l][t] = Named(l, Due(l, t))
      BY <1>1, PayingFacts
    <2>2. a \in 1 .. LastLimiter /\ a \in Nat /\ a + 1 \in 1 .. LastLimiter + 1
      BY <1>1, <2>1
    <2> QED
      BY <2>1, <2>2
  <1>3. Tallied(Course, "onRequest", t, a, todo[q], asked[q], response[q].status,
                response[q].by, LastEvaluation(q).macro)
    BY <1>1, <1>2 DEF Pays
  <1>4. CASE due = <<>>
    <2>1. /\ pc' = [pc EXCEPT ![q] = "onRequest"] /\ at' = [at EXCEPT ![q] = a + 1]
          /\ todo' = todo /\ evals' = evals
      BY <1>1, <1>4 DEF OnRequest, GoOn, Goto
    <2>2. /\ pc'[q] = "onRequest" /\ at'[q] = a + 1 /\ LastEvaluation(q)' = LastEvaluation(q)
      BY <1>2, <2>1 DEF RequestsTyped, LastEvaluation
    <2>3. Course.due[a][t] = <<>>
      <3>1. Named(a, <<>>) = <<>>
        BY <1>2, Names, EmptySeq
      <3> QED
        BY <1>2, <1>4, <3>1
    <2> HIDE DEF a, t, due
    <2>4. Tallied(Course, "onRequest", t, a + 1, todo[q], asked[q], response[q].status,
                  response[q].by, LastEvaluation(q).macro)
      BY <1>2, <1>3, <2>3, OwesNothing
    <2> QED
      BY <1>1, <1>2, <2>1, <2>2, <2>4 DEF StepPays, t
  <1>5. CASE due # <<>>
    <2>1. /\ pc' = [pc EXCEPT ![q] = "plugin"] /\ at' = at /\ todo' = [todo EXCEPT ![q] = due]
      BY <1>1, <1>5 DEF OnRequest, Evaluate, Goto
    <2>2. pc'[q] = "plugin" /\ at'[q] = a /\ todo'[q] = due
      BY <1>2, <2>1 DEF RequestsTyped
    <2> HIDE DEF a, t, due
    <2>3. Tallied(Course, "plugin", t, a, due, asked[q], response[q].status,
                  response[q].by, LastEvaluation(q)'.macro)
      BY <1>2, <1>3, SetsOut
    <2> QED
      BY <1>1, <1>2, <2>1, <2>2, <2>3 DEF StepPays, t
  <1> QED
    BY <1>4, <1>5

LEMMA BeforeHandlePays ==
    ASSUME AllPay, NEW q \in Requests, BeforeHandle(q)
    PROVE  StepPays(q)
  <1> DEFINE t == target[q]
             due == MacroDue(t)
             z == Course.last + 1
  <1>1. /\ pc[q] = "onRequest" /\ at[q] \notin Limiters
        /\ target' = target /\ at' = at /\ asked' = asked /\ response' = response
    BY DEF BeforeHandle
  <1>2. /\ RequestsTyped /\ RulesKept /\ phase \in Open /\ asked \in [Requests -> Seq(Hits)]
        /\ Pays(q) /\ IsCourse(Course, t) /\ at[q] = z
        /\ Course.macro[t] = Named(Course.last, due)
    <2>1. /\ RequestsTyped /\ RulesKept /\ phase \in Open /\ asked \in [Requests -> Seq(Hits)]
          /\ Pays(q) /\ IsCourse(Course, t) /\ LastLimiter \in Nat \ {0}
          /\ Course.last = LastLimiter /\ Limiters = 1 .. LastLimiter
          /\ at[q] \in 1 .. LastLimiter + 1
          /\ Course.macro[t] = Named(LastLimiter, due)
      BY <1>1, PayingFacts
    <2>2. at[q] = LastLimiter + 1
      BY <1>1, <2>1
    <2> QED
      BY <2>1, <2>2
  <1>3. Tallied(Course, "onRequest", t, z, todo[q], asked[q], response[q].status,
                response[q].by, LastEvaluation(q).macro)
    BY <1>1, <1>2 DEF Pays
  <1> HIDE DEF t, due
  <1>4. /\ \A m : Tallied(Course, "macro", t, z, due, asked[q], response[q].status, response[q].by, m)
        /\ due = <<>> => Tallied(Course, "handler", t, z, todo[q], asked[q], response[q].status,
                                 response[q].by, LastEvaluation(q).macro)
    BY <1>2, <1>3, ReachesMacro
  <1> HIDE DEF z
  <1>5. CASE due = <<>>
    <2>1. pc' = [pc EXCEPT ![q] = "handler"] /\ todo' = todo /\ evals' = evals
      BY <1>1, <1>5 DEF BeforeHandle, Goto, due, t
    <2>2. pc'[q] = "handler" /\ LastEvaluation(q)' = LastEvaluation(q)
      BY <1>2, <2>1 DEF RequestsTyped, LastEvaluation
    <2> QED
      BY <1>1, <1>2, <1>4, <1>5, <2>1, <2>2 DEF StepPays, t
  <1>6. CASE due # <<>>
    <2>1. pc' = [pc EXCEPT ![q] = "macro"] /\ todo' = [todo EXCEPT ![q] = due]
      BY <1>1, <1>6 DEF BeforeHandle, Evaluate, Goto, due, t
    <2>2. pc'[q] = "macro" /\ todo'[q] = due
      BY <1>2, <2>1 DEF RequestsTyped
    <2> QED
      BY <1>1, <1>2, <1>4, <2>1, <2>2 DEF StepPays, t
  <1> QED
    BY <1>5, <1>6

LEMMA HitRulePays ==
    ASSUME AllPay, NEW q \in Requests, HitRule(q)
    PROVE  StepPays(q)
  <1> DEFINE l == LastEvaluation(q).limiter
             td == todo[q]
             t == target[q]
             label == pc[q]
             hit == <<l, Head(td)>>
  <1>1. /\ label \in {"plugin", "macro"} /\ td # <<>>
        /\ pc' = pc /\ target' = target /\ at' = at /\ response' = response
        /\ todo' = [todo EXCEPT ![q] = Tail(td)]
        /\ asked' = [asked EXCEPT ![q] = Append(asked[q], hit)]
    BY DEF HitRule, LastEvaluation
  <1>2. /\ Served /\ RequestsTyped /\ asked \in [Requests -> Seq(Hits)] /\ asked[q] \in Seq(Hits)
        /\ Pays(q) /\ IsCourse(Course, t) /\ Course.last = LastLimiter /\ LastLimiter \in Nat
        /\ at[q] \in Nat /\ td \in Seq(Int)
    <2>1. /\ Served /\ RequestsTyped /\ asked \in [Requests -> Seq(Hits)] /\ asked[q] \in Seq(Hits)
          /\ Pays(q) /\ IsCourse(Course, t) /\ Course.last = LastLimiter /\ LastLimiter \in Nat
          /\ at[q] \in 1 .. LastLimiter + 1
      BY <1>1, PayingFacts
    <2> QED
      BY <2>1 DEF RequestsTyped
  <1>3. l = IF label = "macro" THEN Course.last ELSE at[q]
    <2>1. OnItsWay(World, pc[q], t, at[q], evals[q], td, response[q].status) /\ World.last = LastLimiter
      BY <1>2, ServedFacts
    <2> QED
      BY <1>1, <1>2, <2>1 DEF OnItsWay, InEvaluation, LastEvaluation
  <1>4. Tallied(Course, label, t, at[q], td, asked[q], response[q].status, response[q].by,
                LastEvaluation(q).macro)
    BY <1>2 DEF Pays
  <1> HIDE DEF l, td, t, label
  <1>5. Tallied(Course, label, t, at[q], Tail(td), Append(asked[q], hit), response[q].status,
                response[q].by, LastEvaluation(q)'.macro)
    BY <1>1, <1>2, <1>3, <1>4, HitsOne
  <1>6. hit \in Hits /\ Append(asked[q], hit) \in Seq(Hits)
    <2>1. l \in Nat
      BY <1>2, <1>3
    <2> QED
      BY <1>1, <1>2, <2>1, FirstNamed
  <1> HIDE DEF hit
  <1>7. /\ asked' \in [Requests -> Seq(Hits)] /\ asked'[q] = Append(asked[q], hit)
        /\ todo'[q] = Tail(td) /\ \A p \in Requests \ {q} : asked'[p] = asked[p]
    BY <1>1, <1>2, <1>6 DEF RequestsTyped
  <1> QED
    BY <1>1, <1>5, <1>7 DEF StepPays, t, label

LEMMA FastRequestPays ==
    ASSUME AllPay, NEW q \in Requests, FastRequest(q)
    PROVE  StepPays(q)
  <1> DEFINE a == at[q]
             t == target[q]
             paid == asked[q]
             d == ToDecision(a, 1, Counted(<<RuleStore(a, 1), KeyOf(a, 1, t)>>) + 1)
             e == [limiter |-> a, macro |-> FALSE, decisions |-> <<d>>]
             allowed == [f \in Families |-> FastAllowed(a, f)]
  <1>1. /\ pc[q] = "onRequest" /\ a \in Limiters /\ FastEligible(a) /\ FastHandle(q)
        /\ target' = target /\ todo' = todo
    BY DEF FastRequest
  <1>2. /\ RequestsTyped /\ RulesKept /\ phase \in Open /\ asked \in [Requests -> Seq(Hits)]
        /\ paid \in Seq(Hits) /\ t \in app.targets
        /\ Pays(q) /\ IsCourse(Course, t) /\ LastLimiter \in Nat \ {0} /\ Limiters = 1 .. LastLimiter
        /\ a \in 1 .. Course.last /\ a \in Nat /\ a + 1 \in 1 .. LastLimiter + 1
        /\ Course.due[a][t] = Named(a, Due(a, t))
    <2>1. /\ RequestsTyped /\ RulesKept /\ phase \in Open /\ asked \in [Requests -> Seq(Hits)]
          /\ paid \in Seq(Hits) /\ t \in app.targets
          /\ Pays(q) /\ IsCourse(Course, t) /\ LastLimiter \in Nat \ {0}
          /\ Course.last = LastLimiter /\ Limiters = 1 .. LastLimiter
          /\ \A l \in 1 .. LastLimiter : Course.due[l][t] = Named(l, Due(l, t))
      BY <1>1, PayingFacts
    <2>2. a \in 1 .. LastLimiter /\ a \in Nat /\ a + 1 \in 1 .. LastLimiter + 1
      BY <1>1, <2>1
    <2> QED
      BY <2>1, <2>2
  <1>3. Tallied(Course, "onRequest", t, a, todo[q], paid, response[q].status,
                response[q].by, LastEvaluation(q).macro)
    BY <1>1, <1>2 DEF Pays
  <1>4. Due(a, t) = IF MethodMatches(t[1], RuleOf(a, 1)) THEN <<1>> ELSE <<>>
    <2> HIDE DEF a, t
    <2> QED
      BY <1>1, <1>2, FastOwes
  <1>5. CASE ~MethodMatches(t[1], RuleOf(a, 1))
    <2>1. /\ pc' = [pc EXCEPT ![q] = "onRequest"] /\ at' = [at EXCEPT ![q] = a + 1]
          /\ evals' = evals /\ response' = response /\ asked' = asked
      BY <1>1, <1>5 DEF FastHandle, GoOn, Goto
    <2>2. /\ pc'[q] = "onRequest" /\ at'[q] = a + 1 /\ LastEvaluation(q)' = LastEvaluation(q)
      BY <1>2, <2>1 DEF RequestsTyped, LastEvaluation
    <2>3. Course.due[a][t] = <<>>
      <3>1. Named(a, <<>>) = <<>>
        BY <1>2, Names, EmptySeq
      <3> QED
        BY <1>2, <1>4, <1>5, <3>1
    <2> HIDE DEF a, t, paid
    <2>4. Tallied(Course, "onRequest", t, a + 1, todo[q], paid, response[q].status,
                  response[q].by, LastEvaluation(q).macro)
      BY <1>2, <1>3, <2>3, OwesNothing
    <2> QED
      BY <1>1, <1>2, <2>1, <2>2, <2>4 DEF StepPays, t, paid
  <1>6. CASE MethodMatches(t[1], RuleOf(a, 1))
    <2>1. /\ asked' = [asked EXCEPT ![q] = Append(paid, <<a, 1>>)]
          /\ evals' = [evals EXCEPT ![q] = Append(evals[q], e)]
          /\ IF d.blocked THEN Limited(q, a, d, allowed) /\ at' = at
             ELSE GoOn(q) /\ response' = response
      <3>1. asked' = [asked EXCEPT ![q] = Append(paid, <<a, 1>>)]
        BY <1>1, <1>6 DEF FastHandle
      <3>2. evals' = [evals EXCEPT ![q] = Append(evals[q], e)]
        BY <1>1, <1>6 DEF FastHandle
      <3>3. IF d.blocked THEN Limited(q, a, d, allowed) /\ at' = at
            ELSE GoOn(q) /\ response' = response
        BY <1>1, <1>6 DEF FastHandle
      <3> QED
        BY <3>1, <3>2, <3>3
    <2>2. LastEvaluation(q)'.macro = FALSE
      <3>1. evals'[q] = Append(evals[q], e)
        BY <1>2, <2>1 DEF RequestsTyped
      <3>2. e.macro = FALSE
        OBVIOUS
      <3> HIDE DEF e
      <3>3. evals[q] \in Evals(World)
        BY <1>2 DEF RequestsTyped
      <3>4. Len(Append(evals[q], e)) = Len(evals[q]) + 1
            /\ Append(evals[q], e)[Len(evals[q]) + 1] = e
        BY <3>3 DEF Evals
      <3> QED
        BY <3>1, <3>2, <3>4 DEF LastEvaluation
    <2> HIDE DEF d, e, allowed
    <2>3. Course.due[a][t] = Named(a, <<1>>)
      BY <1>2, <1>4, <1>6
    <2> DEFINE bs == Append(paid, <<a, 1>>)
               C == Course
               td == todo[q]
               status == response[q].status
               by == response[q].by
               macro == LastEvaluation(q).macro
    <2>8. /\ IsCourse(C, t) /\ a \in 1 .. C.last /\ C.due[a][t] = Named(a, <<1>>)
          /\ Tallied(C, "onRequest", t, a, td, paid, status, by, macro)
      BY <1>2, <1>3, <2>3
    <2> HIDE DEF a, t, paid, C, td, status, by, macro
    <2>9. /\ Append(paid, <<a, 1>>) \in Seq(Hits)
          /\ Tallied(C, "onRequest", t, a + 1, td, Append(paid, <<a, 1>>), status, by, FALSE)
          /\ Tallied(C, "done", t, a, td, Append(paid, <<a, 1>>), 429, a, FALSE)
      BY <2>8, HitsAtOnce, ZenonT(60)
    <2>4. /\ bs \in Seq(Hits)
          /\ Tallied(Course, "onRequest", t, a + 1, todo[q], bs, response[q].status, response[q].by, FALSE)
          /\ Tallied(Course, "done", t, a, todo[q], bs, 429, a, FALSE)
      BY <2>9 DEF C, td, status, by
    <2> HIDE DEF bs
    <2>5. asked' \in [Requests -> Seq(Hits)] /\ asked'[q] = bs /\ \A p \in Requests \ {q} : asked'[p] = asked[p]
      BY <1>2, <2>1, <2>4 DEF bs
    <2>6. CASE d.blocked
      <3>1. /\ pc' = [pc EXCEPT ![q] = "done"] /\ at' = at
            /\ response' = [response EXCEPT ![q] = [status |-> 429, headers |-> Shown(d, allowed),
                                                    retryAfter |-> d.retryAfter, by |-> a]]
        BY <2>1, <2>6 DEF Limited, Goto
      <3>2. /\ pc'[q] = "done" /\ at'[q] = a /\ response'[q].status = 429 /\ response'[q].by = a
        BY <1>2, <3>1 DEF RequestsTyped, a
      <3> QED
        BY <1>1, <2>2, <2>4, <2>5, <3>2 DEF StepPays, t
    <2>7. CASE ~d.blocked
      <3>1. /\ pc' = [pc EXCEPT ![q] = "onRequest"] /\ at' = [at EXCEPT ![q] = a + 1]
            /\ response' = response
        BY <1>1, <2>1, <2>7 DEF GoOn, Goto, a
      <3>2. pc'[q] = "onRequest" /\ at'[q] = a + 1
        BY <1>2, <3>1 DEF RequestsTyped
      <3> QED
        BY <1>1, <2>2, <2>4, <2>5, <3>1, <3>2 DEF StepPays, t
    <2> QED
      BY <2>6, <2>7
  <1> QED
    BY <1>5, <1>6

LEMMA ConcludePays ==
    ASSUME AllPay, NEW q \in Requests, Conclude(q)
    PROVE  StepPays(q)
  <1> DEFINE e == LastEvaluation(q)
             l == e.limiter
             t == target[q]
             label == pc[q]
             d == HeaderOf(e.decisions)
             allowed == AllowedFamilies(l, Evaluating(q))
  <1>1. /\ label \in {"plugin", "macro"} /\ todo[q] = <<>>
        /\ target' = target /\ todo' = todo /\ evals' = evals /\ asked' = asked
        /\ IF d # NoDecision /\ d.blocked THEN Limited(q, l, d, allowed) /\ at' = at
           ELSE GoOn(q) /\ response' = response
    BY DEF Conclude, ConcludeAllowed, LastEvaluation
  <1>2. /\ Served /\ RequestsTyped /\ asked \in [Requests -> Seq(Hits)] /\ asked[q] \in Seq(Hits)
        /\ Pays(q) /\ IsCourse(Course, t) /\ Course.last = LastLimiter /\ LastLimiter \in Nat \ {0}
        /\ Limiters = 1 .. LastLimiter /\ at[q] \in Nat
    <2>1. /\ Served /\ RequestsTyped /\ asked \in [Requests -> Seq(Hits)] /\ asked[q] \in Seq(Hits)
          /\ Pays(q) /\ IsCourse(Course, t) /\ Course.last = LastLimiter /\ LastLimiter \in Nat \ {0}
          /\ Limiters = 1 .. LastLimiter /\ at[q] \in 1 .. LastLimiter + 1
      BY <1>1, PayingFacts
    <2> QED
      BY <2>1
  <1>3. /\ l = IF label = "macro" THEN Course.last ELSE at[q]
        /\ e.macro <=> label = "macro"
    <2>1. OnItsWay(World, pc[q], t, at[q], evals[q], todo[q], response[q].status) /\ World.last = LastLimiter
      BY <1>2, ServedFacts
    <2> QED
      BY <1>1, <1>2, <2>1 DEF OnItsWay, InEvaluation, LastEvaluation
  <1>4. l \in 1 .. Course.last
    <2>1. l \in Limiters
      BY <1>1, <1>2, InHand DEF LastEvaluation
    <2> QED
      BY <1>2, <2>1
  <1>5. LastEvaluation(q)' = e
    BY <1>1 DEF LastEvaluation
  <1>6. Tallied(Course, label, t, at[q], <<>>, asked[q], response[q].status, response[q].by, e.macro)
    BY <1>1, <1>2 DEF Pays
  <1> HIDE DEF e, l, t, d, allowed
  <1>7. /\ Tallied(Course, "done", t, at[q], <<>>, asked[q], 429, l, e.macro)
        /\ label = "plugin" => Tallied(Course, "onRequest", t, at[q] + 1, <<>>, asked[q],
                                       response[q].status, response[q].by, e.macro)
        /\ label = "macro" => Tallied(Course, "handler", t, at[q], <<>>, asked[q],
                                      response[q].status, response[q].by, e.macro)
    <2> HIDE DEF label
    <2> QED
      BY <1>1, <1>2, <1>3, <1>4, <1>6, PaysUp
  <1>8. CASE d # NoDecision /\ d.blocked
    <2>1. /\ pc' = [pc EXCEPT ![q] = "done"] /\ at' = at
          /\ response' = [response EXCEPT ![q] = [status |-> 429, headers |-> Shown(d, allowed),
                                                  retryAfter |-> d.retryAfter, by |-> l]]
      BY <1>1, <1>8 DEF Limited, Goto
    <2>2. /\ pc'[q] = "done" /\ response'[q].status = 429 /\ response'[q].by = l
      BY <1>2, <2>1 DEF RequestsTyped
    <2> QED
      BY <1>1, <1>2, <1>5, <1>7, <2>1, <2>2 DEF StepPays, t
  <1>9. CASE ~(d # NoDecision /\ d.blocked)
    <2>1. GoOn(q) /\ response' = response
      BY <1>1, <1>9
    <2>2. CASE label = "plugin"
      <3>1. pc' = [pc EXCEPT ![q] = "onRequest"] /\ at' = [at EXCEPT ![q] = at[q] + 1]
        BY <2>1, <2>2 DEF GoOn, Goto
      <3>2. pc'[q] = "onRequest" /\ at'[q] = at[q] + 1
        BY <1>2, <3>1 DEF RequestsTyped
      <3> QED
        BY <1>1, <1>2, <1>5, <1>7, <2>1, <2>2, <3>2 DEF StepPays, t
    <2>3. CASE label = "macro"
      <3>1. pc' = [pc EXCEPT ![q] = "handler"] /\ at' = [at EXCEPT ![q] = at[q]]
        BY <2>1, <2>3 DEF GoOn, Goto
      <3>2. pc'[q] = "handler" /\ at'[q] = at[q]
        BY <1>2, <3>1 DEF RequestsTyped
      <3> QED
        BY <1>1, <1>2, <1>5, <1>7, <2>1, <2>3, <3>2 DEF StepPays, t
    <2> QED
      BY <1>1, <2>2, <2>3
  <1> QED
    BY <1>8, <1>9

LEMMA HeadersOnly ==
    ASSUME NEW r \in Answers, NEW h
    PROVE  /\ WithHeaders(r, h).status = r.status /\ WithHeaders(r, h).retryAfter = r.retryAfter
           /\ WithHeaders(r, h).by = r.by /\ WithHeaders(r, h).headers = h
  BY DEF Answers, WithHeaders

\* The handler has run.
LEMMA AnswerPays ==
    ASSUME AllPay, NEW q \in Requests, HandlerThrows(q) \/ Respond(q)
    PROVE  StepPays(q)
  <1>1. /\ pc[q] = "handler" /\ pc' = [pc EXCEPT ![q] = "done"]
        /\ target' = target /\ at' = at /\ todo' = todo /\ evals' = evals /\ asked' = asked
    BY DEF HandlerThrows, Respond, Goto
  <1>2. RequestsTyped /\ Pays(q) /\ asked \in [Requests -> Seq(Hits)] /\ Served
    BY PayingFacts
  <1>3. pc'[q] = "done"
    BY <1>1, <1>2 DEF RequestsTyped
  <1>4. response'[q].status # 429
    <2>1. CASE HandlerThrows(q)
      <3>1. StepKeeps(q)
        BY <1>2, <2>1, HandlerThrowsKeeps
      <3>2. response' = [response EXCEPT ![q].status = 500]
        BY <2>1 DEF HandlerThrows
      <3>3. response'[q] = WithStatus(response[q], 500)
        BY <1>2, <3>2 DEF RequestsTyped, WithStatus
      <3>4. WithStatus(response[q], 500).status = 500
        <4>1. response[q] \in Answers
          BY <1>2 DEF RequestsTyped
        <4> QED
          BY <4>1, AnswerChanges
      <3> QED
        BY <3>3, <3>4
    <2>2. CASE Respond(q)
      <3> DEFINE Writers(f) == {l \in Limiters : deferred[q][l] # NoDecision /\ deferred[q][l].allowed[f]}
                 h == [f \in Families |-> IF Writers(f) = {} THEN NoDecision
                                          ELSE deferred[q][Max(Writers(f))].decision]
                 y == WithStatus(response[q], 200)
      <3>1. response' = [response EXCEPT ![q] = [response[q] EXCEPT !.status = 200, !.headers = h]]
        BY <2>2, ZenonT(40) DEF Respond
      <3> HIDE DEF h
      <3>2. response'[q] = WithHeaders(y, h)
        BY <1>2, <3>1 DEF RequestsTyped, WithStatus, WithHeaders
      <3>3. y \in Answers /\ y.status = 200
        <4>1. response[q] \in Answers
          BY <1>2 DEF RequestsTyped
        <4> QED
          BY <4>1, AnswerChanges
      <3> HIDE DEF y
      <3>4. WithHeaders(y, h).status = 200
        BY <3>3, HeadersOnly
      <3> QED
        BY <3>2, <3>4
    <2> QED
      BY <2>1, <2>2
  <1> QED
    BY <1>1, <1>2, <1>3, <1>4 DEF StepPays, Pays, Tallied

\* A request that has not come in has paid nothing, whatever the course is.
LEMMA IdleTallied ==
    ASSUME NEW C, NEW t, NEW td, NEW status, NEW by, NEW macro
    PROVE  Tallied(C, "idle", t, 1, td, <<>>, status, by, macro)
  <1>1. <<>> \in Seq(Hits)
    BY EmptySeq
  <1> QED
    BY <1>1 DEF Tallied

LEMMA PayStart == Init => AllPay
  <1> SUFFICES ASSUME Init PROVE AllPay
    OBVIOUS
  <1>1. Served
    BY ServedStart
  <1>2. /\ pc = [q \in Requests |-> "idle"] /\ at = [q \in Requests |-> 1]
        /\ asked = [q \in Requests |-> <<>>]
    BY DEF Init
  <1>3. <<>> \in Seq(Hits)
    BY EmptySeq
  <1>4. ASSUME NEW q \in Requests PROVE Pays(q)
    <2>1. pc[q] = "idle" /\ at[q] = 1 /\ asked[q] = <<>>
      BY <1>2
    <2> QED
      BY <2>1, IdleTallied DEF Pays
  <1> QED
    BY <1>1, <1>2, <1>3, <1>4 DEF AllPay

\* While the application is set up nothing is paid: its course is still being laid.
LEMMA SetUpPays ==
    ASSUME AllPay, Served', phase \notin Open, UNCHANGED request
    PROVE  AllPay'
  <1>1. /\ pc' = pc /\ target' = target /\ at' = at /\ todo' = todo /\ evals' = evals
        /\ asked' = asked /\ response' = response
    BY DEF request
  <1>2. asked \in [Requests -> Seq(Hits)]
    BY DEF AllPay
  <1>3. ASSUME NEW q \in Requests PROVE Pays(q)'
    <2>1. pc[q] = "idle"
      BY DEF AllPay, Served
    <2>2. at[q] = 1 /\ asked[q] = <<>>
      BY <2>1 DEF AllPay, Pays, Tallied
    <2>3. pc'[q] = "idle" /\ at'[q] = 1 /\ asked'[q] = <<>>
      BY <1>1, <2>1, <2>2
    <2> QED
      BY <2>3, IdleTallied DEF Pays
  <1> QED
    BY <1>1, <1>2, <1>3 DEF AllPay

\* A stop leaves what is owed and what is paid alone.
LEMMA StopPays ==
    ASSUME AllPay, Served', app' = app, rules' = rules, UNCHANGED request
    PROVE  AllPay'
  <1>1. /\ pc' = pc /\ target' = target /\ at' = at /\ todo' = todo /\ evals' = evals
        /\ asked' = asked /\ response' = response
    BY DEF request
  <1>2. Course' = Course
    BY CourseStays
  <1>3. asked \in [Requests -> Seq(Hits)]
    BY DEF AllPay
  <1>4. ASSUME NEW q \in Requests PROVE Pays(q)'
    <2>1. LastEvaluation(q)' = LastEvaluation(q)
      BY <1>1 DEF LastEvaluation
    <2>2. Pays(q)
      BY DEF AllPay
    <2> QED
      BY <1>1, <1>2, <2>1, <2>2 DEF Pays
  <1> QED
    BY <1>1, <1>3, <1>4 DEF AllPay

\* A step of one request leaves what the others have paid alone.
LEMMA OthersPay ==
    ASSUME AllPay, Served', UNCHANGED setup, NEW q \in Requests, StepKeeps(q), StepPays(q)
    PROVE  AllPay'
  <1>1. Course' = Course
    <2>1. app' = app /\ rules' = rules
      BY DEF setup
    <2> QED
      BY <2>1, CourseStays
  <1>2. ASSUME NEW p \in Requests PROVE Pays(p)'
    <2>1. CASE p = q
      BY <1>1, <2>1 DEF StepPays, Pays
    <2>2. CASE p # q
      <3>1. /\ pc'[p] = pc[p] /\ target'[p] = target[p] /\ at'[p] = at[p] /\ todo'[p] = todo[p]
            /\ evals'[p] = evals[p] /\ response'[p] = response[p]
        BY <2>2 DEF StepKeeps
      <3>2. asked'[p] = asked[p]
        BY <2>2 DEF StepPays
      <3>3. LastEvaluation(p)' = LastEvaluation(p)
        BY <3>1 DEF LastEvaluation
      <3>4. Pays(p)
        BY DEF AllPay
      <3> QED
        BY <1>1, <3>1, <3>2, <3>3, <3>4 DEF Pays
    <2> QED
      BY <2>1, <2>2
  <1> QED
    BY <1>2 DEF AllPay, StepPays

LEMMA AllPayInductive == AllPay /\ [Next]_vars => AllPay'
  <1> SUFFICES ASSUME AllPay, [Next]_vars PROVE AllPay'
    OBVIOUS
  <1>0. Served /\ Served'
    BY ServedInductive DEF AllPay
  <1>1. CASE Install
    BY <1>0, <1>1, SetUpPays DEF Install, Open
  <1>2. CASE Declare
    BY <1>0, <1>2, SetUpPays DEF Declare, Open
  <1>3. CASE Stop
    BY <1>0, <1>3, StopPays DEF Stop
  <1>4. CASE OnStop
    BY <1>0, <1>4, StopPays DEF OnStop
  <1>5. ASSUME NEW q \in Requests, RequestStep(q) PROVE AllPay'
    <2>1. UNCHANGED setup
      BY <1>5 DEF RequestStep, Receive, FastRequest, OnRequest, BeforeHandle, HitRule, Conclude,
                  HandlerThrows, Respond
    <2>2. StepKeeps(q)
      BY <1>0, <1>5, ReceiveKeeps, FastRequestKeeps, OnRequestKeeps, BeforeHandleKeeps,
         HitRuleKeeps, ConcludeKeeps, HandlerThrowsKeeps, RespondKeeps DEF RequestStep
    <2>3. StepPays(q)
      BY <1>5, ReceivePays, FastRequestPays, OnRequestPays, BeforeHandlePays, HitRulePays,
         ConcludePays, AnswerPays DEF RequestStep
    <2> QED
      BY <1>0, <2>1, <2>2, <2>3, OthersPay
  <1>6. CASE UNCHANGED vars
    <2>1. app' = app /\ rules' = rules /\ UNCHANGED request
      BY <1>6 DEF vars, request
    <2> QED
      BY <1>0, <2>1, StopPays
  <1> QED
    BY <1>1, <1>2, <1>3, <1>4, <1>5, <1>6 DEF Next

\* What the first m limiters are owed is what their rules that apply to q are.
LEMMA DueIsOwed ==
    ASSUME RulesKept, phase \in Open, NEW q \in Requests, target[q] \in app.targets,
           NEW m \in 1 .. LastLimiter, LastLimiter \in Nat
    PROVE  DueUpTo(q, m) = OwedTo(Course, target[q], m)
  <1> DEFINE t == target[q]
             g == [l \in 1 .. LastLimiter |-> Course.due[l][t]]
  <1>1. Course.last = LastLimiter /\ \A l \in 1 .. LastLimiter : Course.due[l][t] = Named(l, Due(l, t))
    BY CourseFacts
  <1>2. \A l \in 1 .. m : l \in 1 .. LastLimiter
    OBVIOUS
  <1>3. [l \in 1 .. m |-> g[l]] = [l \in 1 .. m |-> Named(l, Due(l, t))]
    BY <1>1, <1>2
  <1> QED
    BY <1>1, <1>3 DEF DueUpTo, OwedTo, Joined

\* A request is counted by each rule that applies to it, once and in order, however
\* its hits interleave with those of other requests and with a stop of the
\* application: one that a limiter has blocked by no limiter after that one.
THEOREM EveryRuleCounts == Spec => []CountedByEveryRule
  <1>1. AllPay => CountedByEveryRule
    <2> SUFFICES ASSUME AllPay, NEW q \in Requests, pc[q] = "done"
                 PROVE  asked[q] =
                            IF response[q].status = 429 /\ ~LastEvaluation(q).macro
                            THEN DueUpTo(q, response[q].by)
                            ELSE DueUpTo(q, LastLimiter) \o Named(LastLimiter, MacroDue(target[q]))
      BY DEF CountedByEveryRule, Answered
    <2> DEFINE t == target[q]
    <2>1. /\ RulesKept /\ phase \in Open /\ t \in app.targets /\ Pays(q)
          /\ LastLimiter \in Nat \ {0} /\ Course.last = LastLimiter
          /\ Course.macro[t] = Named(LastLimiter, MacroDue(t))
      BY PayingFacts
    <2>2. \A m \in 1 .. LastLimiter : DueUpTo(q, m) = OwedTo(Course, t, m)
      BY <2>1, DueIsOwed
    <2>3. CASE response[q].status = 429 /\ ~LastEvaluation(q).macro
      <3>1. response[q].by \in 1 .. LastLimiter /\ asked[q] = OwedTo(Course, t, response[q].by)
        BY <2>1, <2>3 DEF Pays, Tallied
      <3> QED
        BY <2>2, <2>3, <3>1
    <2>4. CASE ~(response[q].status = 429 /\ ~LastEvaluation(q).macro)
      <3>1. asked[q] = OwedInAll(Course, t)
        BY <2>1, <2>4 DEF Pays, Tallied
      <3>2. OwedInAll(Course, t) = OwedTo(Course, t, LastLimiter) \o Named(LastLimiter, MacroDue(t))
        BY <2>1 DEF OwedInAll
      <3>3. LastLimiter \in 1 .. LastLimiter
        BY <2>1
      <3>4. OwedTo(Course, t, LastLimiter) = DueUpTo(q, LastLimiter)
        BY <2>2, <3>3
      <3> QED
        BY <2>4, <3>1, <3>2, <3>4
    <2> QED
      BY <2>3, <2>4
  <1>2. Spec => []AllPay
    BY PayStart, AllPayInductive, PTL DEF Spec
  <1> QED
    BY <1>1, <1>2, PTL

-----------------------------------------------------------------------------
(* What the headers of a request tell, by its hook `label`: es are its     *)
(* evaluations, df the deferred headers of each limiter and r the answer.  *)

\* The evaluations that are over.
Concluded(label, es) == {n \in DOMAIN es : label \in {"plugin", "macro"} => n # Len(es)}

\* The families that evaluation e lets its decision fill.
AllowsIn(C, t, e) == IF e.macro THEN C.route[t] ELSE C.families[e.limiter][t]

\* d is a decision of the evaluation e, and none of them is stricter.
Backs(e, d) ==
    /\ \E m \in DOMAIN e.decisions : e.decisions[m] = d
    /\ \A m \in DOMAIN e.decisions : /\ e.decisions[m].blocked => d.blocked
                                     /\ d.remaining <= e.decisions[m].remaining

\* Evaluation n is the last among those in N by which limiter l decided something.
LastSay(es, N, l, n) ==
    /\ n \in N /\ es[n].limiter = l /\ es[n].decisions # <<>>
    /\ \A k \in N : es[k].limiter = l /\ es[k].decisions # <<>> => k <= n

Says(C, t, es, N, l, f) == \E n \in N : LastSay(es, N, l, n) /\ AllowsIn(C, t, es[n])[f]

Shows(w, f) == w # NoDecision /\ w.allowed[f]

\* What waits for onAfterHandle is what the evaluations in N say.
Waits(C, t, es, N, df) ==
    \A l \in 1 .. C.last :
        /\ \A f \in Families : Shows(df[l], f) <=> Says(C, t, es, N, l, f)
        /\ df[l] # NoDecision => \E n \in N : Backs(es[n], df[l].decision)

NoneBlocked(es, N) == \A n \in N : \A m \in DOMAIN es[n].decisions : ~es[n].decisions[m].blocked

\* A block leaves nothing, and asks for a wait.
Fair(ds) == \A m \in DOMAIN ds : ds[m].blocked => ds[m].retryAfter = 1 /\ ds[m].remaining = 0

AllFair(es) == \A n \in DOMAIN es : Fair(es[n].decisions)

InOrder(C, label, a, es) ==
    /\ \A n \in DOMAIN es : es[n].macro => es[n].limiter = C.last
    /\ label \in {"onRequest", "plugin"} => \A n \in Concluded(label, es) : es[n].limiter < a

\* The answer of a limiter, of the handler, and of the handler that throws.
ToldLimit(C, t, es, r) ==
    /\ es # <<>> /\ r.retryAfter = 1
    /\ \E m \in DOMAIN es[Len(es)].decisions :
          LET d == es[Len(es)].decisions[m]
          IN  /\ Backs(es[Len(es)], d) /\ d.blocked /\ d # NoDecision
              /\ \A f \in Families :
                    r.headers[f] = IF AllowsIn(C, t, es[Len(es)])[f] THEN d ELSE NoDecision

ToldAll(C, t, es, r) ==
    /\ NoneBlocked(es, DOMAIN es)
    /\ \A f \in Families :
        /\ r.headers[f] # NoDecision <=> \E l \in 1 .. C.last : Says(C, t, es, DOMAIN es, l, f)
        /\ r.headers[f] # NoDecision => \E n \in DOMAIN es : Backs(es[n], r.headers[f])

ToldNothing(es, r) == NoneBlocked(es, DOMAIN es) /\ \A f \in Families : r.headers[f] = NoDecision

Told(C, t, es, r) ==
    /\ r.status \in {200, 429, 500}
    /\ r.status = 429 => ToldLimit(C, t, es, r)
    /\ r.status = 200 => ToldAll(C, t, es, r)
    /\ r.status = 500 => ToldNothing(es, r)

Story(C, label, t, a, es, df, r) ==
    /\ AllFair(es) /\ InOrder(C, label, a, es)
    /\ label = "idle" => \A l \in 1 .. C.last : df[l] = NoDecision
    /\ label # "done" => /\ NoneBlocked(es, Concluded(label, es))
                         /\ Waits(C, t, es, Concluded(label, es), df)
                         /\ \A f \in Families : r.headers[f] = NoDecision
    /\ label = "done" => Told(C, t, es, r)

\* Evaluations that stay as they are say what they said.
LEMMA StaysSaid ==
    ASSUME NEW C, NEW t, NEW es, NEW fs, NEW N, \A n \in N : fs[n] = es[n]
    PROVE  /\ \A l : \A f : Says(C, t, fs, N, l, f) <=> Says(C, t, es, N, l, f)
           /\ \A df : Waits(C, t, es, N, df) => Waits(C, t, fs, N, df)
           /\ NoneBlocked(es, N) => NoneBlocked(fs, N)
  <1>1. ASSUME NEW l, NEW n \in N PROVE LastSay(fs, N, l, n) <=> LastSay(es, N, l, n)
    BY DEF LastSay
  <1>2. ASSUME NEW l, NEW f PROVE Says(C, t, fs, N, l, f) <=> Says(C, t, es, N, l, f)
    BY <1>1 DEF Says, AllowsIn
  <1>3. ASSUME NEW df, Waits(C, t, es, N, df) PROVE Waits(C, t, fs, N, df)
    BY <1>2, <1>3 DEF Waits
  <1>4. NoneBlocked(es, N) => NoneBlocked(fs, N)
    BY DEF NoneBlocked
  <1> QED
    BY <1>2, <1>3, <1>4

\* Nothing has been said.
LEMMA NothingSaid ==
    ASSUME NEW C, NEW t, NEW es, es = <<>>, NEW df, \A l \in 1 .. C.last : df[l] = NoDecision, NEW label
    PROVE  Waits(C, t, es, Concluded(label, es), df) /\ NoneBlocked(es, Concluded(label, es))
  BY DEF Waits, NoneBlocked, Concluded, Says, Shows

\* A request that has not come in, and one that comes in.
LEMMA IdleStory ==
    ASSUME NEW C, NEW t, NEW es, es = <<>>, NEW df, NEW r, NEW a,
           \A l \in 1 .. C.last : df[l] = NoDecision, \A f \in Families : r.headers[f] = NoDecision,
           NEW label \in {"idle", "onRequest"}
    PROVE  Story(C, label, t, a, es, df, r)
  <1>1. DOMAIN es = {}
    OBVIOUS
  <1>2. Waits(C, t, es, Concluded(label, es), df) /\ NoneBlocked(es, Concluded(label, es))
    BY NothingSaid
  <1> QED
    BY <1>1, <1>2 DEF Story, AllFair, InOrder, Concluded

\* A limiter, or the route, has no rules for the request.
LEMMA PassStory ==
    ASSUME NEW C, NEW t, NEW es, NEW df, NEW r, NEW a \in Int, Story(C, "onRequest", t, a, es, df, r),
           \A n \in DOMAIN es : es[n].limiter \in Int
    PROVE  Story(C, "onRequest", t, a + 1, es, df, r) /\ Story(C, "handler", t, a, es, df, r)
  <1>1. Concluded("onRequest", es) = DOMAIN es /\ Concluded("handler", es) = DOMAIN es
    BY DEF Concluded
  <1>2. \A n \in DOMAIN es : es[n].limiter < a + 1
    BY <1>1 DEF Story, InOrder
  <1> QED
    BY <1>1, <1>2 DEF Story, InOrder

Evaluation(W) == [limiter : 1 .. W.last, macro : BOOLEAN, decisions : Seq(W.decisions)]

LEMMA EvaluationIsLast ==
    ASSUME NEW W, NEW es \in Evals(W), NEW e \in Evaluation(W), NEW fs, fs = Append(es, e)
    PROVE  fs \in Evals(W) /\ fs # <<>> /\ fs[Len(fs)] = e /\ Len(fs) \in DOMAIN fs
  <1> DEFINE R == Evaluation(W)
  <1>1. es \in Seq(R) /\ e \in R /\ Evals(W) = Seq(R)
    BY DEF Evals, Evaluation
  <1> HIDE DEF R
  <1>2. /\ fs \in Seq(R) /\ Len(fs) = Len(es) + 1 /\ fs[Len(es) + 1] = e /\ Len(es) \in Nat
        /\ DOMAIN fs = 1 .. Len(es) + 1
    BY <1>1, AppendProperties
  <1>3. fs # <<>> /\ fs[Len(fs)] = e
    BY <1>2, EmptySeq
  <1>4. Len(fs) \in DOMAIN fs
    BY <1>2
  <1> QED
    BY <1>1, <1>2, <1>3, <1>4

\* An evaluation begins, or is made at once.
LEMMA BeginStory ==
    ASSUME NEW W, NEW C, C.last = W.last, NEW t, NEW es \in Evals(W), NEW df, NEW r, NEW a,
           Story(C, "onRequest", t, a, es, df, r), NEW label \in {"plugin", "macro"},
           NEW e \in Evaluation(W), e.macro <=> label = "macro", label = "macro" => e.limiter = W.last,
           Fair(e.decisions)
    PROVE  Story(C, label, t, a, Append(es, e), df, r)
  <1> DEFINE R  == Evaluation(W)
             fs == Append(es, e)
             N  == Len(es)
  <1>1. e \in R
    OBVIOUS
  <1>2. es \in Seq(R)
    BY DEF Evals, Evaluation
  <1> HIDE DEF R
  <1>4. /\ Len(fs) = N + 1 /\ fs[N + 1] = e /\ N \in Nat
        /\ DOMAIN es = 1 .. N /\ DOMAIN fs = 1 .. N + 1
        /\ \A n \in 1 .. N : fs[n] = es[n]
    BY <1>1, <1>2, AppendProperties
  <1> HIDE DEF fs, N
  <1>5. Concluded(label, fs) = DOMAIN es /\ Concluded("onRequest", es) = DOMAIN es
    <2>1. (1 .. N + 1) \ {N + 1} = 1 .. N
      BY <1>4
    <2> QED
      BY <1>4, <2>1 DEF Concluded
  <1>6. \A n \in 1 .. N + 1 : n \in 1 .. N \/ n = N + 1
    BY <1>4
  <1>7. AllFair(es) /\ InOrder(C, "onRequest", a, es) /\ Waits(C, t, es, DOMAIN es, df) /\ NoneBlocked(es, DOMAIN es)
        /\ \A f \in Families : r.headers[f] = NoDecision
    BY <1>5 DEF Story
  <1>8. Waits(C, t, fs, DOMAIN es, df) /\ NoneBlocked(fs, DOMAIN es)
    BY <1>4, <1>7, StaysSaid
  <1>9. AllFair(fs)
    BY <1>4, <1>6, <1>7 DEF AllFair
  <1>10. InOrder(C, label, a, fs)
    BY <1>4, <1>5, <1>6, <1>7 DEF InOrder
  <1>11. Story(C, label, t, a, fs, df, r)
    BY <1>5, <1>7, <1>8, <1>9, <1>10 DEF Story
  <1> QED
    BY <1>11 DEF fs

\* The decisions of a hit are added to those of the evaluation under way.
LEMMA GrownDecides ==
    ASSUME NEW W, NEW es \in Evals(W), es # <<>>, NEW ds \in Seq(W.decisions)
    PROVE  /\ DOMAIN Grown(es, ds) = 1 .. Len(es) /\ DOMAIN es = 1 .. Len(es)
           /\ Len(Grown(es, ds)) = Len(es) /\ Len(es) \in 1 .. Len(es)
           /\ Grown(es, ds)[Len(es)].limiter = es[Len(es)].limiter
           /\ Grown(es, ds)[Len(es)].macro = es[Len(es)].macro
           /\ \A k \in 1 .. Len(es) : k # Len(es) => Grown(es, ds)[k] = es[k]
           /\ \A m \in DOMAIN Grown(es, ds)[Len(es)].decisions :
                 \/ /\ m \in DOMAIN es[Len(es)].decisions
                    /\ Grown(es, ds)[Len(es)].decisions[m] = es[Len(es)].decisions[m]
                 \/ \E j \in DOMAIN ds : Grown(es, ds)[Len(es)].decisions[m] = ds[j]
  <1> DEFINE n  == Len(es)
             e  == es[n]
             fs == Grown(es, ds)
             R  == [limiter : 1 .. W.last, macro : BOOLEAN, decisions : Seq(W.decisions)]
  <1>1. es \in Seq(R)
    BY DEF Evals
  <1>2. n \in Nat \ {0} /\ DOMAIN es = 1 .. n /\ n \in 1 .. n
    BY <1>1, EmptySeq, LenProperties
  <1>3. e \in R
    <2> HIDE DEF R, n
    <2> QED
      BY <1>1, <1>2
  <1>4. e.decisions \in Seq(W.decisions)
    BY <1>3
  <1>5. /\ Len(fs) = n /\ DOMAIN fs = 1 .. n
        /\ fs[n].limiter = e.limiter /\ fs[n].macro = e.macro /\ fs[n].decisions = e.decisions \o ds
    <2>1. Enlarged(W, es, fs, ds)
      BY DecisionsAdded DEF Grown
    <2>2. DOMAIN fs = DOMAIN es
      BY DEF Grown
    <2> QED
      BY <1>2, <2>1, <2>2 DEF Enlarged
  <1>6. \A k \in 1 .. n : k # n => fs[k] = es[k]
    BY <1>2 DEF Grown
  <1>9. \A m \in DOMAIN fs[n].decisions :
            \/ m \in DOMAIN e.decisions /\ fs[n].decisions[m] = e.decisions[m]
            \/ \E j \in DOMAIN ds : fs[n].decisions[m] = ds[j]
    <2> DEFINE x == e.decisions
               b == Len(x)
    <2>1. /\ b \in Nat /\ Len(ds) \in Nat
          /\ DOMAIN x = 1 .. b /\ DOMAIN ds = 1 .. Len(ds) /\ DOMAIN (x \o ds) = 1 .. b + Len(ds)
          /\ \A m \in 1 .. b + Len(ds) : (x \o ds)[m] = IF m <= b THEN x[m] ELSE ds[m - b]
      <3> HIDE DEF x
      <3>1. x \in Seq(W.decisions)
        BY <1>4 DEF x
      <3> QED
        BY <3>1, Concatenated
    <2>2. fs[n].decisions = x \o ds
      BY <1>5
    <2> HIDE DEF x, b, fs
    <2>3. ASSUME NEW m \in 1 .. b + Len(ds)
          PROVE  (m \in 1 .. b /\ m <= b) \/ (m - b \in 1 .. Len(ds) /\ ~(m <= b))
      BY <2>1
    <2>4. ASSUME NEW m \in 1 .. b + Len(ds)
          PROVE  \/ m \in DOMAIN x /\ (x \o ds)[m] = x[m]
                 \/ \E j \in DOMAIN ds : (x \o ds)[m] = ds[j]
      BY <2>1, <2>3
    <2> QED
      BY <2>1, <2>2, <2>4 DEF x
  <1> QED
    BY <1>2, <1>5, <1>6, <1>9

\* A rule of the evaluation under way is hit.
LEMMA HitStory ==
    ASSUME NEW W, NEW C, NEW t, NEW es \in Evals(W), es # <<>>, NEW df, NEW r, NEW a,
           NEW label \in {"plugin", "macro"}, Story(C, label, t, a, es, df, r),
           NEW ds \in Seq(W.decisions), Fair(ds)
    PROVE  Story(C, label, t, a, Grown(es, ds), df, r)
  <1> DEFINE n  == Len(es)
             e  == es[n]
             fs == Grown(es, ds)
  <1> HIDE DEF fs
  <1>1. /\ DOMAIN fs = 1 .. n /\ DOMAIN es = 1 .. n /\ Len(fs) = n /\ n \in 1 .. n
        /\ fs[n].limiter = e.limiter /\ fs[n].macro = e.macro
        /\ \A k \in 1 .. n : k # n => fs[k] = es[k]
        /\ \A m \in DOMAIN fs[n].decisions :
              \/ m \in DOMAIN e.decisions /\ fs[n].decisions[m] = e.decisions[m]
              \/ \E j \in DOMAIN ds : fs[n].decisions[m] = ds[j]
    BY GrownDecides DEF fs
  <1>7. Concluded(label, fs) = (1 .. n) \ {n} /\ Concluded(label, es) = (1 .. n) \ {n}
    BY <1>1 DEF Concluded
  <1> DEFINE N == (1 .. n) \ {n}
  <1>8. /\ AllFair(es) /\ InOrder(C, label, a, es) /\ Waits(C, t, es, N, df) /\ NoneBlocked(es, N)
        /\ \A f \in Families : r.headers[f] = NoDecision
    BY <1>7 DEF Story
  <1>10. Waits(C, t, fs, N, df) /\ NoneBlocked(fs, N)
    <2>1. \A k \in N : fs[k] = es[k]
      BY <1>1
    <2> HIDE DEF N
    <2> QED
      BY <1>8, <2>1, StaysSaid, Zenon
  <1>11. AllFair(fs)
    <2>1. Fair(e.decisions)
      BY <1>1, <1>8 DEF AllFair
    <2>2. Fair(fs[n].decisions)
      <3>1. \A m \in DOMAIN fs[n].decisions :
                \/ m \in DOMAIN e.decisions /\ fs[n].decisions[m] = e.decisions[m]
                \/ \E j \in DOMAIN ds : fs[n].decisions[m] = ds[j]
        BY <1>1
      <3> HIDE DEF e
      <3> QED
        BY <2>1, <3>1, SMTT(30) DEF Fair
    <2>3. \A k \in 1 .. n : k # n => Fair(fs[k].decisions)
      BY <1>1, <1>8 DEF AllFair
    <2> QED
      BY <1>1, <2>2, <2>3 DEF AllFair
  <1>12. InOrder(C, label, a, fs)
    <2>1. \A k \in 1 .. n : fs[k].macro => fs[k].limiter = C.last
      BY <1>1, <1>8, Zenon DEF InOrder
    <2>2. \A k \in N : label \in {"onRequest", "plugin"} => fs[k].limiter < a
      BY <1>1, <1>7, <1>8 DEF InOrder
    <2> QED
      BY <1>1, <1>7, <2>1, <2>2 DEF InOrder
  <1>13. Story(C, label, t, a, fs, df, r)
    BY <1>7, <1>8, <1>10, <1>11, <1>12 DEF Story
  <1> QED
    BY <1>13 DEF fs

\* What the deferred headers become once evaluation e has decided d.
Deferring(C, label, t, e, d, before, after) ==
    \/ e.decisions = <<>> /\ after = before
    \/ /\ e.decisions # <<>> /\ Backs(e, d) /\ d # NoDecision
       /\ \/ /\ after[e.limiter] # NoDecision /\ after[e.limiter].decision = d
             /\ \A f \in Families : after[e.limiter].allowed[f] <=> AllowsIn(C, t, e)[f]
             /\ \A l \in 1 .. C.last : l # e.limiter => after[l] = before[l]
          \/ /\ label = "plugin" /\ \A f \in Families : ~AllowsIn(C, t, e)[f]
             /\ after = before

\* An evaluation is over, and nothing has blocked the request.
LEMMA ConcludeStory ==
    ASSUME NEW W, NEW C, C.last = W.last, NEW t, NEW es \in Evals(W), es # <<>>, NEW df, NEW r,
           NEW a \in Int, NEW label \in {"plugin", "macro"}, Story(C, label, t, a, es, df, r),
           label = "plugin" => es[Len(es)].limiter = a,
           \A m \in DOMAIN es[Len(es)].decisions : ~es[Len(es)].decisions[m].blocked,
           NEW d, NEW after, Deferring(C, label, t, es[Len(es)], d, df, after)
    PROVE  /\ label = "plugin" => Story(C, "onRequest", t, a + 1, es, after, r)
           /\ label = "macro" => Story(C, "handler", t, a, es, after, r)
  <1> DEFINE n  == Len(es)
             e  == es[n]
             R  == [limiter : 1 .. W.last, macro : BOOLEAN, decisions : Seq(W.decisions)]
             M  == 1 .. n
             N  == M \ {n}
  <1>1. es \in Seq(R)
    BY DEF Evals
  <1>2. n \in Nat \ {0} /\ DOMAIN es = M /\ n \in M
    BY <1>1, EmptySeq, LenProperties
  <1>3. \A k \in M : es[k] \in R
    <2> HIDE DEF R, n
    <2> QED
      BY <1>1, <1>2
  <1>4. \A k \in M : es[k].limiter \in 1 .. C.last
    BY <1>3
  <1>5. \A k \in M : k <= n /\ k \in Int
    BY <1>2
  <1>6. Concluded(label, es) = N /\ \A x \in {"onRequest", "handler"} : Concluded(x, es) = M
    BY <1>2 DEF Concluded
  <1> HIDE DEF n, R
  <1>7. /\ AllFair(es) /\ InOrder(C, label, a, es) /\ Waits(C, t, es, N, df) /\ NoneBlocked(es, N)
        /\ \A f \in Families : r.headers[f] = NoDecision
    BY <1>6 DEF Story
  <1>8. \A m \in DOMAIN e.decisions : ~e.decisions[m].blocked
    BY DEF n
  <1>9. Deferring(C, label, t, e, d, df, after)
    BY DEF n
  <1> HIDE DEF e, M
  <1>10. NoneBlocked(es, M)
    BY <1>7, <1>8 DEF NoneBlocked, e
  <1>11. ASSUME NEW l \in 1 .. C.last, l # e.limiter \/ e.decisions = <<>>, NEW f
         PROVE  Says(C, t, es, M, l, f) <=> Says(C, t, es, N, l, f)
    <2>1. \A k \in M : es[k].limiter = l /\ es[k].decisions # <<>> => k \in N
      BY <1>11 DEF e
    <2>2. \A k \in N : LastSay(es, M, l, k) <=> LastSay(es, N, l, k)
      BY <2>1 DEF LastSay
    <2>3. \A k \in M : LastSay(es, M, l, k) => k \in N
      BY <2>1 DEF LastSay
    <2> QED
      BY <2>2, <2>3 DEF Says
  <1>12. ASSUME e.decisions # <<>>, NEW f
         PROVE  Says(C, t, es, M, e.limiter, f) <=> AllowsIn(C, t, e)[f]
    <2>1. LastSay(es, M, e.limiter, n)
      BY <1>2, <1>5, <1>12 DEF LastSay, e
    <2>2. \A k \in M : LastSay(es, M, e.limiter, k) => k = n
      <3>1. ASSUME NEW k \in M, LastSay(es, M, e.limiter, k) PROVE k = n
        <4>1. n <= k
          BY <1>2, <1>12, <3>1 DEF LastSay, e
        <4> QED
          BY <1>2, <1>5, <4>1
      <3> QED
        BY <3>1
    <2> QED
      BY <1>2, <2>1, <2>2 DEF Says, e
  <1>13. e.limiter \in 1 .. C.last
    BY <1>2, <1>4 DEF e
  <1>14. N \subseteq M
    OBVIOUS
  <1> HIDE DEF N
  <1>15. Waits(C, t, es, M, after)
    <2>1. CASE e.decisions = <<>>
      <3>1. after = df
        BY <1>9, <2>1 DEF Deferring
      <3> QED
        BY <1>7, <1>11, <1>14, <2>1, <3>1 DEF Waits
    <2>2. CASE e.decisions # <<>>
      <3>1. Backs(e, d)
        BY <1>9, <2>2 DEF Deferring
      <3>2. CASE /\ after[e.limiter] # NoDecision /\ after[e.limiter].decision = d
                 /\ \A f \in Families : after[e.limiter].allowed[f] <=> AllowsIn(C, t, e)[f]
                 /\ \A l \in 1 .. C.last : l # e.limiter => after[l] = df[l]
        <4>1. ASSUME NEW l \in 1 .. C.last, l # e.limiter
              PROVE  /\ \A f \in Families : Shows(after[l], f) <=> Says(C, t, es, M, l, f)
                     /\ after[l] # NoDecision => \E k \in M : Backs(es[k], after[l].decision)
          BY <1>7, <1>11, <1>14, <3>2, <4>1 DEF Waits
        <4>2. ASSUME NEW l, l = e.limiter
              PROVE  /\ \A f \in Families : Shows(after[l], f) <=> Says(C, t, es, M, l, f)
                     /\ after[l] # NoDecision => \E k \in M : Backs(es[k], after[l].decision)
          <5>1. \A f \in Families : Shows(after[l], f) <=> Says(C, t, es, M, l, f)
            BY <1>12, <2>2, <3>2, <4>2 DEF Shows
          <5>2. Backs(es[n], after[l].decision)
            BY <3>1, <3>2, <4>2 DEF e
          <5> QED
            BY <1>2, <5>1, <5>2
        <4> QED
          BY <4>1, <4>2 DEF Waits
      <3>3. CASE /\ label = "plugin" /\ \A f \in Families : ~AllowsIn(C, t, e)[f]
                 /\ after = df
        <4>1. \A k \in N : es[k].limiter # e.limiter
          <5>1. e.limiter = a
            BY <3>3 DEF e, n
          <5>2. \A k \in N : es[k].limiter < a
            BY <1>6, <1>7, <3>3 DEF InOrder
          <5>3. \A k \in N : es[k].limiter \in Int
            BY <1>4, <1>14
          <5> QED
            BY <5>1, <5>2, <5>3
        <4>2. \A f : ~Says(C, t, es, N, e.limiter, f)
          BY <4>1 DEF Says, LastSay
        <4>3. \A f \in Families : ~Shows(df[e.limiter], f)
          BY <1>7, <1>13, <4>2 DEF Waits
        <4>4. \A f \in Families : ~Says(C, t, es, M, e.limiter, f)
          BY <1>12, <2>2, <3>3
        <4>5. ASSUME NEW l \in 1 .. C.last
              PROVE  \A f \in Families : Shows(after[l], f) <=> Says(C, t, es, M, l, f)
          <5>1. CASE l = e.limiter
            BY <3>3, <4>3, <4>4, <5>1
          <5>2. CASE l # e.limiter
            BY <1>7, <1>11, <3>3, <5>2 DEF Waits
          <5> QED
            BY <5>1, <5>2
        <4>6. ASSUME NEW l \in 1 .. C.last, after[l] # NoDecision
              PROVE  \E k \in M : Backs(es[k], after[l].decision)
          BY <1>7, <1>14, <3>3, <4>6 DEF Waits
        <4> QED
          BY <4>5, <4>6 DEF Waits
      <3> QED
        BY <1>9, <2>2, <3>2, <3>3 DEF Deferring
    <2> QED
      BY <2>1, <2>2
  <1>16. ASSUME label = "plugin" PROVE Story(C, "onRequest", t, a + 1, es, after, r)
    <2>1. \A k \in M : es[k].limiter < a + 1
      <3>1. \A k \in M : k # n => es[k].limiter < a
        BY <1>6, <1>7, <1>16 DEF InOrder, N
      <3>2. es[n].limiter = a
        BY <1>16 DEF n
      <3>3. \A k \in M : es[k].limiter \in Int
        BY <1>4
      <3> QED
        BY <3>1, <3>2, <3>3
    <2>2. InOrder(C, "onRequest", a + 1, es)
      BY <1>6, <1>7, <2>1 DEF InOrder
    <2> QED
      BY <1>6, <1>7, <1>10, <1>15, <2>2 DEF Story
  <1>17. ASSUME label = "macro" PROVE Story(C, "handler", t, a, es, after, r)
    <2>1. InOrder(C, "handler", a, es)
      BY <1>7 DEF InOrder
    <2> QED
      BY <1>6, <1>7, <1>10, <1>15, <2>1 DEF Story
  <1> QED
    BY <1>16, <1>17

\* The answer s is what evaluation e has decided with d.
Limiting(C, t, e, d, s) ==
    /\ Backs(e, d) /\ d.blocked /\ d # NoDecision /\ s.status = 429 /\ s.retryAfter = d.retryAfter
    /\ \A f \in Families : s.headers[f] = IF AllowsIn(C, t, e)[f] THEN d ELSE NoDecision

\* A limiter, or the macro, answers.
LEMMA LimitStory ==
    ASSUME NEW C, NEW t, NEW es, es # <<>>, Len(es) \in DOMAIN es, NEW df, NEW r, NEW s, NEW a, NEW b,
           NEW label \in {"plugin", "macro"}, Story(C, label, t, a, es, df, r),
           NEW d, Limiting(C, t, es[Len(es)], d, s)
    PROVE  Story(C, "done", t, b, es, df, s)
  <1>1. AllFair(es) /\ InOrder(C, label, a, es)
    BY DEF Story
  <1>2. PICK m \in DOMAIN es[Len(es)].decisions : es[Len(es)].decisions[m] = d
    BY DEF Limiting, Backs
  <1>3. d.retryAfter = 1
    BY <1>1, <1>2 DEF AllFair, Fair, Limiting
  <1>5. ToldLimit(C, t, es, s)
    BY <1>2, <1>3 DEF ToldLimit, Limiting
  <1>4. InOrder(C, "done", b, es)
    BY <1>1 DEF InOrder
  <1> QED
    BY <1>1, <1>4, <1>5 DEF Story, Told, Limiting

\* The handler throws.
LEMMA ThrowStory ==
    ASSUME NEW C, NEW t, NEW es, NEW df, NEW r, NEW s, NEW a, Story(C, "handler", t, a, es, df, r),
           s.status = 500, s.headers = r.headers
    PROVE  Story(C, "done", t, a, es, df, s)
  <1>1. Concluded("handler", es) = DOMAIN es
    BY DEF Concluded
  <1>2. ToldNothing(es, s)
    BY <1>1 DEF Story, ToldNothing
  <1> QED
    BY <1>2 DEF Story, Told, InOrder

\* The handler returns, and the headers that waited are written.
Writing(last, df, f) == {l \in 1 .. last : df[l] # NoDecision /\ df[l].allowed[f]}

\* The headers h are those that wait, a later limiter's over an earlier one's.
Written(last, df, h) ==
    /\ \A l \in 1 .. last : df[l] # NoDecision => df[l].decision # NoDecision
    /\ \A f \in Families :
          h[f] = IF Writing(last, df, f) = {} THEN NoDecision ELSE df[Max(Writing(last, df, f))].decision

LEMMA RespondStory ==
    ASSUME NEW C, C.last \in Nat, NEW t, NEW es, NEW df, NEW after, NEW r, NEW s, NEW a,
           Story(C, "handler", t, a, es, df, r), s.status = 200, Written(C.last, df, s.headers)
    PROVE  Story(C, "done", t, a, es, after, s)
  <1>1. Concluded("handler", es) = DOMAIN es
    BY DEF Concluded
  <1>2. /\ AllFair(es) /\ InOrder(C, "handler", a, es)
        /\ NoneBlocked(es, DOMAIN es) /\ Waits(C, t, es, DOMAIN es, df)
    BY <1>1 DEF Story
  <1>3. ASSUME NEW f \in Families
        PROVE  /\ s.headers[f] # NoDecision <=> \E l \in 1 .. C.last : Says(C, t, es, DOMAIN es, l, f)
               /\ s.headers[f] # NoDecision => \E n \in DOMAIN es : Backs(es[n], s.headers[f])
    <2> DEFINE U == Writing(C.last, df, f)
    <2>1. \A l \in 1 .. C.last : l \in U <=> Says(C, t, es, DOMAIN es, l, f)
      BY <1>2 DEF Waits, Shows, Writing
    <2>2. U \subseteq 1 .. C.last
      BY DEF Writing
    <2>3. \A l \in U : df[l] # NoDecision
      BY DEF Writing
    <2>6. s.headers[f] = IF U = {} THEN NoDecision ELSE df[Max(U)].decision
      BY DEF Written
    <2>7. \A l \in 1 .. C.last : df[l] # NoDecision => df[l].decision # NoDecision
      BY DEF Written
    <2> HIDE DEF U
    <2>4. CASE U = {}
      BY <2>1, <2>4, <2>6
    <2>5. CASE U # {}
      <3>1. Max(U) \in U
        BY <2>2, <2>5, MaxIsMember, ZenonT(60)
      <3>2. s.headers[f] = df[Max(U)].decision /\ Max(U) \in 1 .. C.last /\ df[Max(U)] # NoDecision
        BY <2>2, <2>3, <2>5, <2>6, <3>1
      <3> QED
        BY <1>2, <2>1, <2>7, <3>1, <3>2 DEF Waits
    <2> QED
      BY <2>4, <2>5
  <1>4. ToldAll(C, t, es, s)
    BY <1>2, <1>3 DEF ToldAll
  <1> QED
    BY <1>2, <1>4 DEF Story, Told, InOrder

-----------------------------------------------------------------------------
(* What the requests of an application are told.                           *)

\* What a decision counts: the hits up to its own, unless it blocks.
LEMMA DecisionCounts ==
    ASSUME RulesKept, phase \in Open, NEW l \in Limiters, NEW i \in RuleIndices(l), NEW n \in Nat
    PROVE  /\ ToDecision(l, i, n).blocked =>
                 ToDecision(l, i, n).retryAfter = 1 /\ ToDecision(l, i, n).remaining = 0
           /\ ~ToDecision(l, i, n).blocked =>
                 ToDecision(l, i, n).limit - ToDecision(l, i, n).remaining = n
           /\ SynthesizeBlock(l, i).retryAfter = 1 /\ SynthesizeBlock(l, i).remaining = 0
  <1> DEFINE k == RuleOf(l, i).limit
             d == ToDecision(l, i, n)
  <1>1. k \in Nat
    BY RuleFacts DEF IsRule
  <1>2. /\ d.limit = k /\ d.remaining = IF n <= k THEN k - n ELSE 0
        /\ d.retryAfter = IF n <= k THEN 0 ELSE 1
    BY DEF ToDecision
  <1>3. d.blocked <=> n > k
    BY ToDecisionIs
  <1>4. SynthesizeBlock(l, i).retryAfter = 1 /\ SynthesizeBlock(l, i).remaining = 0
    BY DEF SynthesizeBlock
  <1> HIDE DEF d, k
  <1>5. d.blocked => d.retryAfter = 1 /\ d.remaining = 0
    <2>1. ASSUME d.blocked PROVE ~(n <= k)
      BY <1>1, <1>3, <2>1
    <2> QED
      BY <1>2, <2>1
  <1>6. ~d.blocked => d.limit - d.remaining = n
    <2>1. ASSUME ~d.blocked PROVE n <= k
      BY <1>1, <1>3, <2>1
    <2>2. k - (k - n) = n
      BY <1>1
    <2> QED
      BY <1>2, <2>1, <2>2
  <1> QED
    BY <1>4, <1>5, <1>6 DEF d

LEMMA HitIsFair ==
    ASSUME RulesKept, RequestsTyped, phase \in Open, NEW l \in Limiters, NEW i \in RuleIndices(l),
           NEW s, NEW c
    PROVE  Fair(HitDecides(l, i, s, c))
  <1> DEFINE ds == HitDecides(l, i, s, c)
             d == ToDecision(l, i, Counted(c) + 1)
             b == SynthesizeBlock(l, i)
  <1>1. Counted(c) + 1 \in Nat
    <2>1. Counted(c) \in Nat
      BY DEF Counted, RequestsTyped
    <2> QED
      BY <2>1
  <1>2. /\ d.blocked => d.retryAfter = 1 /\ d.remaining = 0
        /\ b.retryAfter = 1 /\ b.remaining = 0
    BY <1>1, DecisionCounts
  <1>3. PolicyOf(l, i) \in {"allow", "block"}
    BY RuleFacts
  <1>4. ds = <<d>> \/ ds = <<b>> \/ ds = <<>>
    BY <1>3 DEF HitDecides
  <1> HIDE DEF d, b
  <1>5. \A m \in DOMAIN ds : ds[m] = d \/ ds[m] = b
    <2> HIDE DEF ds
    <2> QED
      BY <1>4
  <1> HIDE DEF ds
  <1>6. Fair(ds)
    BY <1>2, <1>5 DEF Fair
  <1> QED
    BY <1>6 DEF ds

\* The decision that fills the headers is the strictest of its evaluation.
LEMMA HeaderBacked ==
    ASSUME app \in Applications, NEW e, e.decisions \in Seq(Decisions), e.decisions # <<>>, Fair(e.decisions)
    PROVE  Backs(e, HeaderOf(e.decisions))
  <1> DEFINE ds == e.decisions
  <1>1. Comparable(Decisions)
    BY DecisionFacts
  <1> HIDE DEF ds
  <1>2. PICK m \in Pool(ds) : /\ ds[m] = HeaderOf(ds)
                              /\ \A n \in Pool(ds) \ {m} : StricterThan(ds, m, n)
    BY <1>1, HeaderIsStrictest DEF ds
  <1>3. m \in DOMAIN ds
    BY <1>2 DEF Pool, Blocking
  <1>4. \A n \in DOMAIN ds : ds[n].remaining \in Nat
    <2>1. ASSUME NEW n \in DOMAIN ds PROVE ds[n] \in Decisions
      BY <2>1 DEF ds
    <2> QED
      BY <2>1 DEF Decisions
  <1>5. ASSUME NEW n \in DOMAIN ds
        PROVE  ds[n].blocked => ds[m].blocked
    BY <1>2, <1>5 DEF Pool, Blocking
  <1>6. ASSUME NEW n \in DOMAIN ds
        PROVE  ds[m].remaining <= ds[n].remaining
    <2>1. CASE n = m
      BY <1>3, <1>4, <2>1
    <2>2. CASE n \in Pool(ds) \ {m}
      <3>1. StricterThan(ds, m, n)
        BY <1>2, <2>2
      <3> QED
        BY <1>3, <1>4, <1>6, <3>1 DEF StricterThan
    <2>3. CASE n \notin Pool(ds)
      <3>1. ds[m].blocked
        BY <1>2, <1>6, <2>3 DEF Pool, Blocking
      <3>2. ds[m].remaining = 0
        BY <1>3, <3>1 DEF ds, Fair
      <3> QED
        BY <1>4, <1>6, <3>2
    <2> QED
      BY <2>1, <2>2, <2>3
  <1> QED
    BY <1>2, <1>3, <1>5, <1>6 DEF Backs, ds

\* What request q is told, and will be.
Tells(q) == Story(Course, pc[q], target[q], at[q], evals[q], deferred[q], response[q])

AllTold == Served /\ \A q \in Requests : Tells(q)

StepTells(q) ==
    /\ \A p \in Requests \ {q} : deferred'[p] = deferred[p]
    /\ Story(Course, pc'[q], target'[q], at'[q], evals'[q], deferred'[q], response'[q])

LEMMA TellingFacts ==
    ASSUME AllTold, NEW q \in Requests
    PROVE  /\ Served /\ RequestsTyped /\ RulesKept /\ app \in Applications /\ Tells(q)
           /\ World.decisions = Decisions /\ Course.last = LastLimiter /\ World.last = LastLimiter
           /\ LastLimiter \in Nat \ {0} /\ Limiters = 1 .. LastLimiter /\ at[q] \in Int
           /\ evals[q] \in Evals(World) /\ \A n \in DOMAIN evals[q] : evals[q][n].limiter \in Nat
           /\ OnItsWay(World, pc[q], target[q], at[q], evals[q], todo[q], response[q].status)
           /\ pc[q] # "idle" => phase \in Open /\ target[q] \in app.targets
  <1>1. Served /\ Tells(q)
    BY DEF AllTold
  <1>2. /\ RequestsTyped /\ RulesKept /\ app \in Applications
        /\ LastLimiter \in Nat \ {0} /\ Limiters = 1 .. LastLimiter /\ at[q] \in 1 .. LastLimiter + 1
        /\ World.last = LastLimiter
        /\ OnItsWay(World, pc[q], target[q], at[q], evals[q], todo[q], response[q].status)
        /\ pc[q] # "idle" => phase \in Open /\ target[q] \in app.targets
    BY <1>1, ServedFacts
  <1>3. Course.last = LastLimiter /\ World.decisions = Decisions
    BY DEF Course, World
  <1>4. at[q] \in Int
    BY <1>2
  <1>5. evals[q] \in Evals(World)
    BY <1>2 DEF RequestsTyped
  <1>6. \A n \in DOMAIN evals[q] : evals[q][n].limiter \in Nat
    <2> DEFINE R == [limiter : 1 .. World.last, macro : BOOLEAN, decisions : Seq(World.decisions)]
               es == evals[q]
    <2>1. es \in Seq(R)
      BY <1>5 DEF Evals
    <2>2. \A x \in R : x.limiter \in Nat
      OBVIOUS
    <2> HIDE DEF R, es
    <2>3. ASSUME NEW n \in DOMAIN es PROVE es[n].limiter \in Nat
      <3>1. es[n] \in R
        BY <2>1, <2>3
      <3> QED
        BY <2>2, <3>1
    <2> QED
      BY <2>3 DEF es
  <1> QED
    BY <1>1, <1>2, <1>3, <1>4, <1>5, <1>6

LEMMA ReceiveTells ==
    ASSUME AllTold, NEW q \in Requests, Receive(q)
    PROVE  StepTells(q)
  <1>1. /\ pc[q] = "idle" /\ pc' = [pc EXCEPT ![q] = "onRequest"]
        /\ at' = at /\ evals' = evals /\ deferred' = deferred /\ response' = response
    BY DEF Receive, Goto
  <1>2. RequestsTyped /\ Tells(q)
        /\ OnItsWay(World, pc[q], target[q], at[q], evals[q], todo[q], response[q].status)
    BY TellingFacts
  <1>3. pc'[q] = "onRequest" /\ evals[q] = <<>>
    BY <1>1, <1>2 DEF RequestsTyped, OnItsWay
  <1>4. /\ \A l \in 1 .. Course.last : deferred[q][l] = NoDecision
        /\ \A f \in Families : response[q].headers[f] = NoDecision
    BY <1>1, <1>2 DEF Tells, Story
  <1>5. Story(Course, "onRequest", target'[q], at[q], evals[q], deferred[q], response[q])
    BY <1>3, <1>4, IdleStory
  <1> QED
    BY <1>1, <1>3, <1>5 DEF StepTells

LEMMA OnRequestTells ==
    ASSUME AllTold, NEW q \in Requests, OnRequest(q)
    PROVE  StepTells(q)
  <1> DEFINE a == at[q]
             t == target[q]
             es == evals[q]
             due == Due(a, t)
  <1>1. /\ pc[q] = "onRequest" /\ a \in Limiters
        /\ target' = target /\ deferred' = deferred /\ response' = response
    BY DEF OnRequest
  <1>2. /\ RequestsTyped /\ Course.last = World.last /\ Limiters = 1 .. World.last /\ a \in Int
        /\ es \in Evals(World) /\ \A n \in DOMAIN es : es[n].limiter \in Int
        /\ Story(Course, "onRequest", t, a, es, deferred[q], response[q])
    BY <1>1, TellingFacts DEF Tells
  <1>3. CASE due = <<>>
    <2>1. pc' = [pc EXCEPT ![q] = "onRequest"] /\ at' = [at EXCEPT ![q] = a + 1] /\ evals' = evals
      BY <1>1, <1>3 DEF OnRequest, GoOn, Goto
    <2>2. pc'[q] = "onRequest" /\ at'[q] = a + 1
      BY <1>2, <2>1 DEF RequestsTyped
    <2>3. Story(Course, "onRequest", t, a + 1, es, deferred[q], response[q])
      BY <1>2, PassStory
    <2> QED
      BY <1>1, <2>1, <2>2, <2>3 DEF StepTells
  <1>4. CASE due # <<>>
    <2> DEFINE e == [limiter |-> a, macro |-> FALSE, decisions |-> <<>>]
    <2>1. /\ pc' = [pc EXCEPT ![q] = "plugin"] /\ at' = at
          /\ evals' = [evals EXCEPT ![q] = Append(es, [limiter |-> a, macro |-> "plugin" = "macro", decisions |-> <<>>])]
      BY <1>1, <1>4 DEF OnRequest, Evaluate, Goto
    <2>2. ("plugin" = "macro") = FALSE
      OBVIOUS
    <2>3. evals' = [evals EXCEPT ![q] = Append(es, e)]
      BY <2>1, <2>2
    <2>4. pc'[q] = "plugin" /\ evals'[q] = Append(es, e)
      BY <1>2, <2>1, <2>3 DEF RequestsTyped
    <2>5. /\ e \in Evaluation(World)
          /\ ~e.macro /\ e.decisions = <<>>
      <3>1. <<>> \in Seq(World.decisions) /\ a \in 1 .. World.last
        BY <1>1, <1>2
      <3> QED
        BY <3>1 DEF Evaluation
    <2> DEFINE df == deferred[q]
               r == response[q]
               label == "plugin"
               C == Course
               W == World
    <2>6. /\ label \in {"plugin", "macro"} /\ (e.macro <=> label = "macro")
          /\ label = "macro" => e.limiter = W.last
          /\ C.last = W.last /\ es \in Evals(W) /\ e \in Evaluation(W)
          /\ Fair(e.decisions)
          /\ Story(C, "onRequest", t, a, es, df, r)
      BY <1>2, <2>5 DEF Fair
    <2> HIDE DEF e, a, t, es, df, r, label, C, W
    <2>7. Story(C, label, t, a, Append(es, e), df, r)
      BY <2>6, BeginStory
    <2> QED
      BY <1>1, <2>1, <2>4, <2>7 DEF StepTells, a, t, df, r, label, C
  <1> QED
    BY <1>3, <1>4

LEMMA BeforeHandleTells ==
    ASSUME AllTold, NEW q \in Requests, BeforeHandle(q)
    PROVE  StepTells(q)
  <1> DEFINE a == at[q]
             t == target[q]
             es == evals[q]
             due == MacroDue(t)
  <1>1. /\ pc[q] = "onRequest"
        /\ target' = target /\ at' = at /\ deferred' = deferred /\ response' = response
    BY DEF BeforeHandle
  <1>2. /\ RequestsTyped /\ Course.last = World.last /\ World.last = LastLimiter
        /\ LastLimiter \in 1 .. World.last /\ a \in Int
        /\ es \in Evals(World) /\ \A n \in DOMAIN es : es[n].limiter \in Int
        /\ Story(Course, "onRequest", t, a, es, deferred[q], response[q])
    <2>1. /\ RequestsTyped /\ Course.last = World.last /\ World.last = LastLimiter
          /\ LastLimiter \in Nat \ {0} /\ a \in Int
          /\ es \in Evals(World) /\ \A n \in DOMAIN es : es[n].limiter \in Int
          /\ Story(Course, "onRequest", t, a, es, deferred[q], response[q])
      BY <1>1, TellingFacts DEF Tells
    <2>2. LastLimiter \in 1 .. LastLimiter
      BY <2>1
    <2> QED
      BY <2>1, <2>2
  <1>3. CASE due = <<>>
    <2>1. pc' = [pc EXCEPT ![q] = "handler"] /\ evals' = evals
      BY <1>1, <1>3 DEF BeforeHandle, Goto
    <2>2. pc'[q] = "handler"
      BY <1>2, <2>1 DEF RequestsTyped
    <2>3. Story(Course, "handler", t, a, es, deferred[q], response[q])
      BY <1>2, PassStory
    <2> QED
      BY <1>1, <2>1, <2>2, <2>3 DEF StepTells
  <1>4. CASE due # <<>>
    <2> DEFINE e == [limiter |-> LastLimiter, macro |-> TRUE, decisions |-> <<>>]
    <2>1. /\ pc' = [pc EXCEPT ![q] = "macro"]
          /\ evals' = [evals EXCEPT ![q] = Append(es, [limiter |-> LastLimiter, macro |-> "macro" = "macro", decisions |-> <<>>])]
      BY <1>1, <1>4 DEF BeforeHandle, Evaluate, Goto
    <2>2. ("macro" = "macro") = TRUE
      OBVIOUS
    <2>3. evals' = [evals EXCEPT ![q] = Append(es, e)]
      BY <2>1, <2>2
    <2>4. pc'[q] = "macro" /\ evals'[q] = Append(es, e)
      BY <1>2, <2>1, <2>3 DEF RequestsTyped
    <2>5. /\ e \in Evaluation(World)
          /\ e.macro /\ e.decisions = <<>> /\ e.limiter = World.last
      <3>1. <<>> \in Seq(World.decisions)
        OBVIOUS
      <3> QED
        BY <1>2, <3>1 DEF Evaluation
    <2> DEFINE df == deferred[q]
               r == response[q]
               label == "macro"
               C == Course
               W == World
    <2>6. /\ label \in {"plugin", "macro"} /\ (e.macro <=> label = "macro")
          /\ label = "macro" => e.limiter = W.last
          /\ C.last = W.last /\ es \in Evals(W) /\ e \in Evaluation(W)
          /\ Fair(e.decisions)
          /\ Story(C, "onRequest", t, a, es, df, r)
      BY <1>2, <2>5 DEF Fair
    <2> HIDE DEF e, a, t, es, df, r, label, C, W
    <2>7. Story(C, label, t, a, Append(es, e), df, r)
      BY <2>6, BeginStory
    <2> QED
      BY <1>1, <2>1, <2>4, <2>7 DEF StepTells, a, t, df, r, label, C
  <1> QED
    BY <1>3, <1>4

LEMMA HitRuleTells ==
    ASSUME AllTold, NEW q \in Requests, HitRule(q)
    PROVE  StepTells(q)
  <1> DEFINE es == evals[q]
             l == es[Len(es)].limiter
             i == Head(todo[q])
             t == target[q]
             s == Serving(l, i)
             c == <<s, KeyOf(l, i, t)>>
             ds == HitDecides(l, i, s, c)
  <1>1. /\ pc[q] \in {"plugin", "macro"} /\ todo[q] # <<>>
        /\ pc' = pc /\ target' = target /\ at' = at /\ deferred' = deferred /\ response' = response
    BY DEF HitRule
  <1>2. evals' = [evals EXCEPT ![q] = Grown(es, ds)]
    BY DEF HitRule, HitDecides, Grown
  <1>3. /\ Served /\ RequestsTyped /\ RulesKept /\ phase \in Open /\ World.decisions = Decisions
        /\ es # <<>> /\ es \in Evals(World) /\ todo[q] \in Seq(Int) /\ l \in Limiters
        /\ ToSet(todo[q]) \subseteq RuleIndices(l)
        /\ Story(Course, pc[q], t, at[q], es, deferred[q], response[q])
    <2>1. /\ Served /\ es \in Evals(World) /\ RequestsTyped
          /\ Story(Course, pc[q], t, at[q], es, deferred[q], response[q])
      BY TellingFacts DEF Tells
    <2> QED
      BY <1>1, <2>1, InHand
  <1>4. i \in RuleIndices(l)
    <2>1. i \in ToSet(todo[q])
      BY <1>1, <1>3, Taken
    <2> QED
      BY <1>3, <2>1
  <1>5. ds \in Seq(World.decisions) /\ Fair(ds)
    <2> HIDE DEF l, i, t
    <2>1. s = Serving(l, i)
      OBVIOUS
    <2> HIDE DEF s, c
    <2> QED
      BY <1>3, <1>4, <2>1, HitFacts, HitIsFair
  <1>6. evals'[q] = Grown(es, ds)
    BY <1>2, <1>3 DEF RequestsTyped
  <1> HIDE DEF es, l, i, t, s, c, ds
  <1>7. Story(Course, pc[q], t, at[q], Grown(es, ds), deferred[q], response[q])
    <2> DEFINE label == pc[q]
               a == at[q]
               df == deferred[q]
               r == response[q]
    <2>1. label \in {"plugin", "macro"} /\ Story(Course, label, t, a, es, df, r)
      BY <1>1, <1>3
    <2> HIDE DEF label, a, df, r
    <2>2. Story(Course, label, t, a, Grown(es, ds), df, r)
      BY <1>3, <1>5, <2>1, HitStory
    <2> QED
      BY <2>2 DEF label, a, df, r
  <1> QED
    BY <1>1, <1>6, <1>7, Zenon DEF StepTells, t

\* The families an evaluation of limiter l allows are those of its rules.
LEMMA FamiliesAllowed ==
    ASSUME RulesKept, phase \in Open, NEW t \in app.targets, NEW e, e.limiter \in 1 .. LastLimiter,
           e.macro => e.limiter = LastLimiter, e.macro \in BOOLEAN, NEW f \in Families
    PROVE  AllowsIn(Course, t, e)[f] <=>
               FamilyAllowed(e.limiter, IF e.macro THEN MacroDue(t) ELSE Due(e.limiter, t), f)
  <1>1. /\ Course.route[t] = AllowedFamilies(LastLimiter, MacroDue(t))
        /\ Course.families[e.limiter][t] = AllowedFamilies(e.limiter, Due(e.limiter, t))
    BY CourseFacts
  <1>2. CASE e.macro
    <2>1. AllowsIn(Course, t, e) = AllowedFamilies(e.limiter, MacroDue(t))
      BY <1>1, <1>2 DEF AllowsIn
    <2> QED
      BY <1>2, <2>1 DEF AllowedFamilies
  <1>3. CASE ~e.macro
    <2>1. AllowsIn(Course, t, e) = AllowedFamilies(e.limiter, Due(e.limiter, t))
      BY <1>1, <1>3 DEF AllowsIn
    <2> QED
      BY <1>3, <2>1 DEF AllowedFamilies
  <1> QED
    BY <1>2, <1>3

\* With one rule the fast path allows what the general one would.
LEMMA FastAllows ==
    ASSUME NEW l, NEW d, d = << 1 >>, NEW f \in Families
    PROVE  FamilyAllowed(l, d, f) <=> FastAllowed(l, f)
  <1>1. {RuleOf(l, d[n]).headers[f] : n \in DOMAIN d} = {RuleOf(l, 1).headers[f]}
    <2>1. DOMAIN d = {1} /\ d[1] = 1
      BY Single
    <2> QED
      BY <2>1
  <1> QED
    BY <1>1 DEF FamilyAllowed, FastAllowed

LEMMA FastRequestTells ==
    ASSUME AllTold, NEW q \in Requests, FastRequest(q)
    PROVE  StepTells(q)
  <1> DEFINE a == at[q]
             t == target[q]
             es == evals[q]
             c == <<RuleStore(a, 1), KeyOf(a, 1, t)>>
             d == ToDecision(a, 1, Counted(c) + 1)
             e == [limiter |-> a, macro |-> FALSE, decisions |-> <<d>>]
             allowed == [f \in Families |-> FastAllowed(a, f)]
  <1>1. /\ pc[q] = "onRequest" /\ a \in Limiters /\ FastEligible(a) /\ FastHandle(q)
        /\ target' = target
    BY DEF FastRequest
  <1>2. /\ RequestsTyped /\ RulesKept /\ phase \in Open /\ t \in app.targets /\ app \in Applications
        /\ Course.last = World.last /\ World.last = LastLimiter /\ Limiters = 1 .. LastLimiter
        /\ World.decisions = Decisions
        /\ a \in Int /\ es \in Evals(World) /\ \A n \in DOMAIN es : es[n].limiter \in Int
        /\ Story(Course, "onRequest", t, a, es, deferred[q], response[q])
    BY <1>1, TellingFacts DEF Tells
  <1>3. CASE ~MethodMatches(t[1], RuleOf(a, 1))
    <2>1. /\ pc' = [pc EXCEPT ![q] = "onRequest"] /\ at' = [at EXCEPT ![q] = a + 1]
          /\ evals' = evals /\ response' = response /\ deferred' = deferred
      BY <1>1, <1>3 DEF FastHandle, GoOn, Goto
    <2>2. pc'[q] = "onRequest" /\ at'[q] = a + 1
      BY <1>2, <2>1 DEF RequestsTyped
    <2>3. Story(Course, "onRequest", t, a + 1, es, deferred[q], response[q])
      BY <1>2, PassStory
    <2> QED
      BY <1>1, <2>1, <2>2, <2>3 DEF StepTells
  <1>4. CASE MethodMatches(t[1], RuleOf(a, 1))
    <2>1. /\ evals' = [evals EXCEPT ![q] = Append(es, e)]
          /\ IF d.blocked THEN Limited(q, a, d, allowed) /\ at' = at
             ELSE /\ GoOn(q) /\ response' = response
                  /\ IF \E f \in Families : allowed[f] THEN Defer(q, a, d, allowed)
                     ELSE deferred' = deferred
      <3>1. evals' = [evals EXCEPT ![q] = Append(es, e)]
        BY <1>1, <1>4 DEF FastHandle
      <3>2. IF d.blocked THEN Limited(q, a, d, allowed) /\ at' = at
             ELSE /\ GoOn(q) /\ response' = response
                  /\ IF \E f \in Families : allowed[f] THEN Defer(q, a, d, allowed)
                     ELSE deferred' = deferred
        BY <1>1, <1>4 DEF FastHandle
      <3> QED
        BY <3>1, <3>2
    <2>2. /\ d \in Decisions /\ d # NoDecision
          /\ d.blocked => d.retryAfter = 1 /\ d.remaining = 0
      <3>1. Counted(c) + 1 \in Nat
        <4>1. Counted(c) \in Nat
          BY <1>2 DEF Counted, RequestsTyped
        <4> QED
          BY <4>1
      <3>2. 1 \in RuleIndices(a)
        BY <1>1, <1>2, FastFacts
      <3> HIDE DEF a, c
      <3>3. d \in Decisions /\ (d.blocked => d.retryAfter = 1 /\ d.remaining = 0)
        BY <1>1, <1>2, <3>1, <3>2, ToDecisionIs, DecisionCounts
      <3> QED
        BY <1>2, <3>3, DecisionFacts
    <2> HIDE DEF d
    <2>3. /\ <<d>> \in Seq(Decisions) /\ DOMAIN <<d>> = {1} /\ <<d>>[1] = d /\ <<d>> # <<>>
      BY <2>2, Single
    <2>4. /\ e \in Evaluation(World) /\ e.limiter = a /\ e.macro = FALSE /\ e.decisions = <<d>>
      <3> DEFINE ds == <<d>>
      <3>1. ds \in Seq(World.decisions) /\ a \in 1 .. World.last
        BY <1>1, <1>2, <2>3
      <3> HIDE DEF ds
      <3> QED
        BY <3>1 DEF Evaluation, ds
    <2>5. Fair(e.decisions) /\ Backs(e, d) /\ e.decisions # <<>> /\ 1 \in DOMAIN e.decisions /\ e.decisions[1] = d
      <3>1. d.remaining <= d.remaining
        BY <2>2 DEF Decisions
      <3> HIDE DEF e
      <3> QED
        BY <2>2, <2>3, <2>4, <3>1 DEF Fair, Backs
    <2> HIDE DEF e
    <2>6. \A f \in Families : AllowsIn(Course, t, e)[f] <=> allowed[f]
      <3>1. Due(a, t) = <<1>>
        <4> HIDE DEF a, t
        <4> QED
          BY <1>1, <1>2, <1>4, FastOwes DEF a, t
      <3>2. ASSUME NEW f \in Families
            PROVE  AllowsIn(Course, t, e)[f] <=> FamilyAllowed(a, Due(a, t), f)
        <4>1. e.limiter \in 1 .. LastLimiter /\ e.macro \in BOOLEAN /\ ~e.macro
          BY <1>1, <1>2, <2>4
        <4> HIDE DEF a, t
        <4>2. AllowsIn(Course, t, e)[f] <=>
                  FamilyAllowed(e.limiter, IF e.macro THEN MacroDue(t) ELSE Due(e.limiter, t), f)
          BY <1>2, <4>1, FamiliesAllowed
        <4> QED
          BY <2>4, <4>1, <4>2
      <3>3. \A f \in Families : FamilyAllowed(a, Due(a, t), f) <=> FastAllowed(a, f)
        BY <3>1, FastAllows
      <3> QED
        BY <3>2, <3>3
    <2>7. allowed \in [Families -> BOOLEAN]
      BY DEF FastAllowed
    <2> DEFINE fs == Append(es, e)
               n == Len(fs)
               df == deferred[q]
               r == response[q]
               label == "plugin"
               C == Course
               W == World
    <2>8. /\ evals'[q] = fs /\ fs \in Evals(W) /\ fs # <<>> /\ fs[n] = e
          /\ n \in DOMAIN fs
      <3>1. evals'[q] = fs
        BY <1>2, <2>1 DEF RequestsTyped
      <3>2. fs = Append(es, e) /\ es \in Evals(W) /\ e \in Evaluation(W)
        BY <1>2, <2>4
      <3> HIDE DEF fs, W, es
      <3>3. fs \in Evals(W) /\ fs # <<>> /\ fs[Len(fs)] = e /\ Len(fs) \in DOMAIN fs
        <4>1. fs \in Evals(W)
          BY <3>2, EvaluationIsLast
        <4>2. fs # <<>>
          BY <3>2, EvaluationIsLast
        <4>3. fs[Len(fs)] = e
          BY <3>2, EvaluationIsLast
        <4>4. Len(fs) \in DOMAIN fs
          BY <3>2, EvaluationIsLast
        <4> QED
          BY <4>1, <4>2, <4>3, <4>4
      <3> QED
        BY <3>1, <3>3
    <2>9. /\ label \in {"plugin", "macro"} /\ label = "plugin" /\ (e.macro <=> label = "macro")
          /\ (label = "macro" => e.limiter = W.last) /\ C.last = W.last
          /\ es \in Evals(W) /\ e \in Evaluation(W) /\ Story(C, "onRequest", t, a, es, df, r)
          /\ \A f \in Families : AllowsIn(C, t, e)[f] <=> allowed[f]
      BY <1>2, <2>4, <2>6
    <2> HIDE DEF allowed, fs, n, df, r, label, C, W
    <2>10. Story(C, label, t, a, fs, df, r)
      <3> HIDE DEF a, t, es
      <3> QED
        BY <2>5, <2>9, BeginStory DEF fs
    <2>11. CASE d.blocked
      <3>1. Limited(q, a, d, allowed) /\ a \in Nat
        BY <1>1, <1>2, <2>1, <2>11
      <3>2. /\ pc'[q] = "done" /\ response'[q].status = 429
            /\ response'[q].retryAfter = d.retryAfter /\ response'[q].headers = Shown(d, allowed)
            /\ deferred' = deferred
        <4> HIDE DEF a
        <4> QED
          BY <1>2, <2>2, <2>7, <3>1, LimitedIs
      <3> DEFINE s == response'[q]
      <3>3. /\ s.status = 429 /\ s.retryAfter = d.retryAfter
            /\ \A f \in Families : s.headers[f] = IF AllowsIn(C, t, e)[f] THEN d ELSE NoDecision
        BY <2>9, <3>2 DEF Shown
      <3> HIDE DEF a, t, es, s
      <3>4. Limiting(C, t, fs[n], d, s)
        <4>1. Limiting(C, t, e, d, s)
          BY <2>2, <2>5, <2>11, <3>3 DEF Limiting
        <4> QED
          BY <2>8, <4>1
      <3>6. Len(fs) \in DOMAIN fs /\ fs # <<>> /\ Limiting(C, t, fs[Len(fs)], d, s)
        BY <2>8, <3>4 DEF n
      <3>5. ASSUME NEW b PROVE Story(C, "done", t, b, fs, df, s)
        BY <2>9, <2>10, <3>6, LimitStory
      <3> QED
        BY <1>1, <2>8, <3>2, <3>5 DEF StepTells, s, t, df, C
    <2>12. CASE ~d.blocked
      <3>1. /\ GoOn(q) /\ response' = response
            /\ IF \E f \in Families : allowed[f] THEN Defer(q, a, d, allowed)
               ELSE deferred' = deferred
        BY <2>1, <2>12
      <3>2. pc'[q] = "onRequest" /\ at'[q] = a + 1
        <4>1. pc' = [pc EXCEPT ![q] = "onRequest"] /\ at' = [at EXCEPT ![q] = a + 1]
          BY <1>1, <3>1 DEF GoOn, Goto
        <4> QED
          BY <1>2, <4>1 DEF RequestsTyped
      <3> DEFINE after == deferred'[q]
      <3>3. Deferring(C, label, t, e, d, df, after) /\ \A p \in Requests \ {q} : deferred'[p] = deferred[p]
        <4>1. CASE \E f \in Families : allowed[f]
          <5> DEFINE x == [decision |-> d, allowed |-> allowed]
          <5>1. deferred' = [deferred EXCEPT ![q][a] = x]
            BY <3>1, <4>1 DEF Defer
          <5>2. x \in [decision : Decisions, allowed : [Families -> BOOLEAN]]
            BY <2>2, <2>7
          <5>3. x.decision = d /\ x.allowed = allowed /\ x # NoDecision
            BY <1>2, <5>2, DecisionFacts
          <5> HIDE DEF x
          <5>4. /\ after[a] = x /\ \A l \in Limiters : l # a => after[l] = df[l]
                /\ \A p \in Requests \ {q} : deferred'[p] = deferred[p]
            BY <1>1, <1>2, <5>1 DEF RequestsTyped, df
          <5>5. \A l \in 1 .. C.last : l # e.limiter => after[l] = df[l]
            BY <1>2, <2>4, <2>9, <5>4 DEF C
          <5> HIDE DEF after, a, t
          <5> QED
            BY <2>2, <2>4, <2>5, <2>9, <5>3, <5>4, <5>5 DEF Deferring
        <4>2. CASE ~\E f \in Families : allowed[f]
          <5>1. deferred' = deferred
            BY <3>1, <4>2
          <5>2. \A f \in Families : ~AllowsIn(C, t, e)[f]
            BY <2>9, <4>2
          <5> QED
            BY <2>2, <2>5, <2>9, <5>1, <5>2 DEF Deferring, df
        <4> QED
          BY <4>1, <4>2
      <3>4. \A m \in DOMAIN fs[n].decisions : ~fs[n].decisions[m].blocked
        <4> HIDE DEF a, t, es
        <4> QED
          BY <2>3, <2>4, <2>8, <2>12
      <3>5. Story(C, "onRequest", t, a + 1, fs, after, r)
        <4> HIDE DEF after, t, es
        <4>1. a \in Int /\ fs[n].limiter = a /\ Deferring(C, label, t, fs[n], d, df, after)
          BY <1>2, <2>4, <2>8, <3>3
        <4> HIDE DEF a
        <4> QED
          BY <2>8, <2>9, <2>10, <3>4, <4>1, ConcludeStory DEF n
      <3> QED
        BY <1>1, <2>8, <3>1, <3>2, <3>3, <3>5 DEF StepTells, r, C
    <2> QED
      BY <2>11, <2>12
  <1> QED
    BY <1>3, <1>4

\* What an evaluation that is concluded lets its decision fill.
LEMMA EvaluatingAllows ==
    ASSUME RulesKept, phase \in Open, NEW q \in Requests, target[q] \in app.targets,
           LastEvaluation(q).limiter \in 1 .. LastLimiter,
           LastEvaluation(q).macro => LastEvaluation(q).limiter = LastLimiter
    PROVE  AllowedFamilies(LastEvaluation(q).limiter, Evaluating(q)) =
               AllowsIn(Course, target[q], LastEvaluation(q))
  <1> DEFINE e == LastEvaluation(q)
             t == target[q]
  <1>1. Evaluating(q) = IF e.macro THEN MacroDue(t) ELSE Due(e.limiter, t)
    BY DEF Evaluating, LastEvaluation
  <1>2. /\ Course.route[t] = AllowedFamilies(LastLimiter, MacroDue(t))
        /\ Course.families[e.limiter][t] = AllowedFamilies(e.limiter, Due(e.limiter, t))
    BY CourseFacts
  <1> HIDE DEF e, t
  <1>3. e.macro => e.limiter = LastLimiter
    BY DEF e
  <1>4. CASE e.macro
    <2>1. Evaluating(q) = MacroDue(t) /\ e.limiter = LastLimiter
      BY <1>1, <1>3, <1>4
    <2> QED
      BY <1>2, <1>4, <2>1 DEF AllowsIn, e, t
  <1>5. CASE ~e.macro
    <2>1. Evaluating(q) = Due(e.limiter, t)
      BY <1>1, <1>5
    <2> QED
      BY <1>2, <1>5, <2>1 DEF AllowsIn, e, t
  <1> QED
    BY <1>4, <1>5

LEMMA ConcludeTells ==
    ASSUME AllTold, NEW q \in Requests, Conclude(q)
    PROVE  StepTells(q)
  <1> DEFINE es == evals[q]
             e == LastEvaluation(q)
             l == e.limiter
             a == at[q]
             t == target[q]
             label == pc[q]
             d == HeaderOf(e.decisions)
             allowed == AllowedFamilies(l, Evaluating(q))
             df == deferred[q]
             r == response[q]
             C == Course
             W == World
  <1>1. /\ label \in {"plugin", "macro"}
        /\ target' = target /\ evals' = evals
    BY DEF Conclude
  <1>2. IF d # NoDecision /\ d.blocked THEN Limited(q, l, d, allowed) /\ at' = at
        ELSE ConcludeAllowed(q, l, d)
    BY DEF Conclude, LastEvaluation
  <1>3. /\ Served /\ RequestsTyped /\ RulesKept /\ phase \in Open /\ app \in Applications
        /\ t \in app.targets /\ C.last = LastLimiter /\ W.last = LastLimiter
        /\ LastLimiter \in Nat \ {0} /\ Limiters = 1 .. LastLimiter /\ a \in Int
        /\ es \in Evals(W) /\ es # <<>> /\ l \in Limiters /\ l \in Nat
        /\ e.decisions \in Seq(Decisions)
        /\ Story(C, label, t, a, es, df, r)
        /\ OnItsWay(World, pc[q], target[q], at[q], evals[q], todo[q], response[q].status)
    <2>1. /\ Served /\ C.last = LastLimiter /\ W.last = LastLimiter
          /\ LastLimiter \in Nat \ {0} /\ Limiters = 1 .. LastLimiter /\ a \in Int
          /\ Story(C, label, t, a, es, df, r)
      BY TellingFacts DEF Tells
    <2> QED
      BY <1>1, <2>1, InHand DEF LastEvaluation, OnItsWay
  <1>4. /\ e.macro <=> label = "macro"
        /\ l = IF label = "macro" THEN W.last ELSE a
    BY <1>1, <1>3 DEF OnItsWay, InEvaluation, LastEvaluation
  <1>5. allowed = AllowsIn(C, t, e) /\ e = es[Len(es)]
    <2>1. l \in 1 .. LastLimiter /\ (e.macro => l = LastLimiter)
      BY <1>3, <1>4
    <2>2. e = es[Len(es)]
      BY DEF LastEvaluation
    <2>3. AllowedFamilies(LastEvaluation(q).limiter, Evaluating(q)) =
               AllowsIn(Course, target[q], LastEvaluation(q))
      BY <1>3, <2>1, EvaluatingAllows
    <2> QED
      BY <2>2, <2>3
  <1>6. allowed \in [Families -> BOOLEAN]
    BY DEF AllowedFamilies, FamilyAllowed
  <1>7. Len(es) \in DOMAIN es
    <2> DEFINE R == [limiter : 1 .. W.last, macro : BOOLEAN, decisions : Seq(W.decisions)]
    <2>1. es \in Seq(R) /\ es # <<>>
      BY <1>3 DEF Evals
    <2> HIDE DEF R, es
    <2>2. Len(es) \in Nat \ {0} /\ DOMAIN es = 1 .. Len(es)
      BY <2>1, EmptySeq, LenProperties
    <2> QED
      BY <2>2
  <1> HIDE DEF e, l, a, t, label, allowed, df, r, C, W
  <1>8. Fair(e.decisions)
    <2>1. AllFair(es)
      BY <1>3 DEF Story
    <2> HIDE DEF es
    <2> QED
      BY <1>5, <1>7, <2>1 DEF AllFair
  <1>9. /\ e.decisions = <<>> => d = NoDecision
        /\ e.decisions # <<>> => d \in Decisions /\ d # NoDecision /\ Backs(e, d)
        /\ ~(d # NoDecision /\ d.blocked) => \A m \in DOMAIN e.decisions : ~e.decisions[m].blocked
    <2>1. e.decisions # <<>> => Backs(e, d)
      BY <1>3, <1>8, HeaderBacked
    <2>2. /\ e.decisions = <<>> => d = NoDecision
          /\ e.decisions # <<>> => d \in Decisions /\ d # NoDecision
          /\ ~(d # NoDecision /\ d.blocked) => \A m \in DOMAIN e.decisions : ~e.decisions[m].blocked
      <3> DEFINE ds == e.decisions
      <3>1. ds \in Seq(Decisions)
        BY <1>3
      <3> HIDE DEF ds
      <3>2. /\ ds = <<>> => HeaderOf(ds) = NoDecision
            /\ ds # <<>> => HeaderOf(ds) \in Decisions /\ HeaderOf(ds) # NoDecision
            /\ ~(HeaderOf(ds) # NoDecision /\ HeaderOf(ds).blocked) => \A m \in DOMAIN ds : ~ds[m].blocked
        BY <1>3, <3>1, Verdict
      <3> QED
        BY <3>2 DEF ds
    <2> QED
      BY <2>1, <2>2
  <1> HIDE DEF d
  <1>10. CASE d # NoDecision /\ d.blocked
    <2>1. Limited(q, l, d, allowed) /\ d \in Decisions /\ e.decisions # <<>>
      BY <1>2, <1>9, <1>10
    <2>2. /\ pc'[q] = "done" /\ response'[q].status = 429
          /\ response'[q].retryAfter = d.retryAfter /\ response'[q].headers = Shown(d, allowed)
          /\ deferred' = deferred
      BY <1>3, <1>6, <2>1, LimitedIs
    <2> DEFINE s == response'[q]
    <2>3. Limiting(C, t, e, d, s)
      <3>1. \A f \in Families : s.headers[f] = IF AllowsIn(C, t, e)[f] THEN d ELSE NoDecision
        BY <1>5, <2>2 DEF Shown
      <3> QED
        BY <1>9, <1>10, <2>1, <2>2, <3>1 DEF Limiting
    <2> HIDE DEF s, es
    <2>4. Limiting(C, t, es[Len(es)], d, s)
      BY <1>5, <2>3
    <2>5. ASSUME NEW b PROVE Story(C, "done", t, b, es, df, s)
      BY <1>1, <1>3, <1>7, <2>4, LimitStory
    <2> QED
      BY <1>1, <2>2, <2>5 DEF StepTells, s, t, df, C, es
  <1>11. CASE ~(d # NoDecision /\ d.blocked)
    <2>1. /\ GoOn(q) /\ response' = response
          /\ IF d = NoDecision THEN deferred' = deferred ELSE Defer(q, l, d, allowed)
      BY <1>2, <1>11 DEF ConcludeAllowed, allowed
    <2> DEFINE after == deferred'[q]
    <2>2. Deferring(C, label, t, e, d, df, after) /\ \A p \in Requests \ {q} : deferred'[p] = deferred[p]
      <3>1. CASE e.decisions = <<>>
        <4>1. deferred' = deferred
          BY <1>9, <2>1, <3>1
        <4> QED
          BY <3>1, <4>1 DEF Deferring, df
      <3>2. CASE e.decisions # <<>>
        <4> DEFINE x == [decision |-> d, allowed |-> allowed]
        <4>1. deferred' = [deferred EXCEPT ![q][l] = x]
          BY <1>9, <2>1, <3>2 DEF Defer
        <4>2. x \in [decision : Decisions, allowed : [Families -> BOOLEAN]]
          BY <1>6, <1>9, <3>2
        <4>3. x.decision = d /\ x.allowed = allowed /\ x # NoDecision
          BY <1>3, <4>2, DecisionFacts
        <4> HIDE DEF x
        <4>4. /\ after[l] = x /\ \A k \in Limiters : k # l => after[k] = df[k]
              /\ \A p \in Requests \ {q} : deferred'[p] = deferred[p]
          BY <1>3, <4>1 DEF RequestsTyped, df
        <4> HIDE DEF after
        <4>5. \A k \in 1 .. C.last : k # e.limiter => after[k] = df[k]
          BY <1>3, <4>4 DEF l
        <4>6. after[e.limiter] = x
          BY <4>4 DEF l
        <4> QED
          BY <1>5, <1>9, <3>2, <4>3, <4>4, <4>5, <4>6 DEF Deferring
      <3> QED
        BY <3>1, <3>2
    <2> HIDE DEF es, after
    <2>3. /\ label = "plugin" => Story(C, "onRequest", t, a + 1, es, after, r)
          /\ label = "macro" => Story(C, "handler", t, a, es, after, r)
      <3>1. /\ C.last = W.last
            /\ label = "plugin" => es[Len(es)].limiter = a
            /\ \A m \in DOMAIN es[Len(es)].decisions : ~es[Len(es)].decisions[m].blocked
            /\ Deferring(C, label, t, es[Len(es)], d, df, after)
        BY <1>3, <1>4, <1>5, <1>9, <1>11, <2>2 DEF l
      <3> QED
        BY <1>1, <1>3, <3>1, ConcludeStory
    <2>4. CASE label = "plugin"
      <3>1. pc' = [pc EXCEPT ![q] = "onRequest"] /\ at' = [at EXCEPT ![q] = at[q] + 1]
        BY <2>1, <2>4 DEF GoOn, Goto, label
      <3>2. pc'[q] = "onRequest" /\ at'[q] = a + 1
        BY <1>3, <3>1 DEF RequestsTyped, a
      <3> QED
        BY <1>1, <2>1, <2>2, <2>3, <2>4, <3>2 DEF StepTells, t, after, r, C, es
    <2>5. CASE label = "macro"
      <3>1. pc' = [pc EXCEPT ![q] = "handler"] /\ at' = [at EXCEPT ![q] = at[q]]
        BY <2>1, <2>5 DEF GoOn, Goto, label
      <3>2. pc'[q] = "handler" /\ at'[q] = a
        BY <1>3, <3>1 DEF RequestsTyped, a
      <3> QED
        BY <1>1, <2>1, <2>2, <2>3, <2>5, <3>2 DEF StepTells, t, after, r, C, es
    <2> QED
      BY <1>1, <2>4, <2>5
  <1> QED
    BY <1>10, <1>11

LEMMA HandlerThrowsTells ==
    ASSUME AllTold, NEW q \in Requests, HandlerThrows(q)
    PROVE  StepTells(q)
  <1>1. /\ pc[q] = "handler" /\ pc' = [pc EXCEPT ![q] = "done"]
        /\ response' = [response EXCEPT ![q].status = 500]
        /\ target' = target /\ at' = at /\ evals' = evals /\ deferred' = deferred
    BY DEF HandlerThrows, Goto
  <1>2. /\ RequestsTyped
        /\ Story(Course, "handler", target[q], at[q], evals[q], deferred[q], response[q])
    BY <1>1, TellingFacts DEF Tells
  <1> DEFINE r == response[q]
             s == response'[q]
  <1>3. pc'[q] = "done" /\ s = WithStatus(r, 500) /\ r \in Answers
    BY <1>1, <1>2 DEF RequestsTyped, WithStatus
  <1>4. s.status = 500
    <2> HIDE DEF r, s
    <2> QED
      BY <1>3, AnswerChanges
  <1>5. s.headers = r.headers
    <2> HIDE DEF r, s
    <2> QED
      BY <1>3 DEF WithStatus, Answers
  <1>6. Story(Course, "done", target[q], at[q], evals[q], deferred[q], s)
    <2> DEFINE C == Course
    <2> HIDE DEF s, C
    <2>1. Story(C, "handler", target[q], at[q], evals[q], deferred[q], r)
      BY <1>2 DEF C
    <2> HIDE DEF r
    <2>2. Story(C, "done", target[q], at[q], evals[q], deferred[q], s)
      BY <1>4, <1>5, <2>1, ThrowStory
    <2> QED
      BY <2>2 DEF C
  <1> QED
    BY <1>1, <1>3, <1>6 DEF StepTells

LEMMA RespondTells ==
    ASSUME AllTold, NEW q \in Requests, Respond(q)
    PROVE  StepTells(q)
  <1> DEFINE Writers(f) == {l \in Limiters : deferred[q][l] # NoDecision /\ deferred[q][l].allowed[f]}
             h == [f \in Families |-> IF Writers(f) = {} THEN NoDecision
                                      ELSE deferred[q][Max(Writers(f))].decision]
             y == WithStatus(response[q], 200)
             df == deferred[q]
             s == response'[q]
             C == Course
  <1>1. /\ pc[q] = "handler" /\ pc' = [pc EXCEPT ![q] = "done"]
        /\ response' = [response EXCEPT ![q] = [response[q] EXCEPT !.status = 200, !.headers = h]]
        /\ deferred' = [deferred EXCEPT ![q] = [l \in Limiters |-> NoDecision]]
        /\ target' = target /\ at' = at /\ evals' = evals
    BY DEF Respond, Goto
  <1>2. /\ RequestsTyped /\ app \in Applications
        /\ C.last = LastLimiter /\ LastLimiter \in Nat \ {0} /\ Limiters = 1 .. LastLimiter
        /\ Story(C, "handler", target[q], at[q], evals[q], df, response[q])
    BY <1>1, TellingFacts DEF Tells
  <1>3. \A f \in Families : h[f] = IF Writing(C.last, df, f) = {} THEN NoDecision
                                   ELSE df[Max(Writing(C.last, df, f))].decision
    <2>1. \A f \in Families : Writers(f) = Writing(C.last, df, f)
      BY <1>2 DEF Writing
    <2> HIDE DEF Writers, df, C
    <2> QED
      BY <2>1 DEF df
  <1>4. \A l \in 1 .. C.last : df[l] # NoDecision => df[l].decision # NoDecision
    <2>1. df \in [Limiters -> Deferrals]
      BY <1>2 DEF RequestsTyped
    <2> HIDE DEF df, C
    <2>2. ASSUME NEW l \in 1 .. C.last, df[l] # NoDecision PROVE df[l].decision # NoDecision
      <3>1. df[l] \in Deferrals
        BY <1>2, <2>1
      <3>2. df[l].decision \in Decisions
        BY <2>2, <3>1 DEF Deferrals
      <3> QED
        BY <1>2, <3>2, DecisionFacts
    <2> QED
      BY <2>2
  <1> HIDE DEF h
  <1>5. s = WithHeaders(y, h) /\ pc'[q] = "done" /\ response[q] \in Answers
    BY <1>1, <1>2 DEF RequestsTyped, WithStatus, WithHeaders
  <1>6. y \in Answers /\ y.status = 200
    BY <1>5, AnswerChanges
  <1> HIDE DEF y, s, df, C
  <1>7. s.status = 200 /\ s.headers = h
    BY <1>5, <1>6, HeadersOnly
  <1>8. Written(C.last, df, s.headers)
    BY <1>3, <1>4, <1>7 DEF Written
  <1>9. ASSUME NEW after PROVE Story(C, "done", target[q], at[q], evals[q], after, s)
    <2>1. C.last \in Nat
      BY <1>2
    <2> QED
      BY <1>2, <1>7, <1>8, <2>1, RespondStory
  <1>10. \A p \in Requests \ {q} : deferred'[p] = deferred[p]
    BY <1>1, <1>2 DEF RequestsTyped
  <1> QED
    BY <1>1, <1>5, <1>9, <1>10 DEF StepTells, s, C

LEMMA TellStart == Init => AllTold
  <1> SUFFICES ASSUME Init PROVE AllTold
    OBVIOUS
  <1>1. Served
    BY ServedStart
  <1>2. /\ pc = [q \in Requests |-> "idle"] /\ evals = [q \in Requests |-> <<>>]
        /\ deferred = [q \in Requests |-> [l \in Limiters |-> NoDecision]]
        /\ response = [q \in Requests |-> NoResponse] /\ app \in Applications
    BY DEF Init
  <1>3. Limiters = 1 .. LastLimiter /\ Course.last = LastLimiter
    <2>1. Limiters = 1 .. LastLimiter
      BY <1>2, WorldFacts
    <2> QED
      BY <2>1 DEF Course
  <1>4. ASSUME NEW q \in Requests PROVE Tells(q)
    <2>1. /\ pc[q] = "idle" /\ evals[q] = <<>> /\ \A l \in 1 .. Course.last : deferred[q][l] = NoDecision
          /\ \A f \in Families : response[q].headers[f] = NoDecision
      BY <1>2, <1>3 DEF NoResponse
    <2> QED
      BY <2>1, IdleStory DEF Tells
  <1> QED
    BY <1>1, <1>4 DEF AllTold

\* While the application is set up nothing is told: its course is still being laid.
LEMMA SetUpTells ==
    ASSUME AllTold, Served', phase \notin Open, app' = app, UNCHANGED request
    PROVE  AllTold'
  <1>1. /\ pc' = pc /\ target' = target /\ at' = at /\ evals' = evals
        /\ deferred' = deferred /\ response' = response
    BY DEF request
  <1>2. Course'.last = Course.last
    <2>1. LastLimiter' = LastLimiter
      BY DEF LastLimiter
    <2> QED
      BY <2>1 DEF Course
  <1>3. ASSUME NEW q \in Requests PROVE Tells(q)'
    <2>1. pc[q] = "idle"
      BY DEF AllTold, Served
    <2>2. evals[q] = <<>>
      BY <2>1, TellingFacts DEF OnItsWay
    <2>3. /\ \A l \in 1 .. Course.last : deferred[q][l] = NoDecision
          /\ \A f \in Families : response[q].headers[f] = NoDecision
      BY <2>1 DEF AllTold, Tells, Story
    <2> DEFINE C == Course'
    <2>4. /\ pc'[q] = "idle" /\ evals'[q] = <<>> /\ \A l \in 1 .. C.last : deferred'[q][l] = NoDecision
          /\ \A f \in Families : response'[q].headers[f] = NoDecision
      BY <1>1, <1>2, <2>1, <2>2, <2>3
    <2> HIDE DEF C
    <2>5. Story(C, pc'[q], target'[q], at'[q], evals'[q], deferred'[q], response'[q])
      BY <2>4, IdleStory
    <2> QED
      BY <2>5 DEF Tells, C
  <1> QED
    BY <1>3 DEF AllTold

\* A stop tells the requests nothing.
LEMMA StopTells ==
    ASSUME AllTold, Served', app' = app, rules' = rules, UNCHANGED request
    PROVE  AllTold'
  <1>1. /\ pc' = pc /\ target' = target /\ at' = at /\ evals' = evals
        /\ deferred' = deferred /\ response' = response
    BY DEF request
  <1>2. Course' = Course
    BY CourseStays
  <1>3. ASSUME NEW q \in Requests PROVE Tells(q)'
    <2>1. Tells(q)
      BY DEF AllTold
    <2> QED
      BY <1>1, <1>2, <2>1 DEF Tells
  <1> QED
    BY <1>3 DEF AllTold

\* A step of one request tells the others nothing.
LEMMA OthersTell ==
    ASSUME AllTold, Served', UNCHANGED setup, NEW q \in Requests, StepKeeps(q), StepTells(q)
    PROVE  AllTold'
  <1>1. Course' = Course
    <2>1. app' = app /\ rules' = rules
      BY DEF setup
    <2> QED
      BY <2>1, CourseStays
  <1>2. ASSUME NEW p \in Requests PROVE Tells(p)'
    <2>1. CASE p = q
      BY <1>1, <2>1 DEF StepTells, Tells
    <2>2. CASE p # q
      <3>1. /\ pc'[p] = pc[p] /\ target'[p] = target[p] /\ at'[p] = at[p]
            /\ evals'[p] = evals[p] /\ response'[p] = response[p]
        BY <2>2 DEF StepKeeps
      <3>2. deferred'[p] = deferred[p]
        BY <2>2 DEF StepTells
      <3>3. Tells(p)
        BY DEF AllTold
      <3> QED
        BY <1>1, <3>1, <3>2, <3>3 DEF Tells
    <2> QED
      BY <2>1, <2>2
  <1> QED
    BY <1>2 DEF AllTold

LEMMA AllToldInductive == AllTold /\ [Next]_vars => AllTold'
  <1> SUFFICES ASSUME AllTold, [Next]_vars PROVE AllTold'
    OBVIOUS
  <1>0. Served /\ Served'
    BY ServedInductive DEF AllTold
  <1>1. CASE Install
    BY <1>0, <1>1, SetUpTells DEF Install, Open
  <1>2. CASE Declare
    BY <1>0, <1>2, SetUpTells DEF Declare, Open
  <1>3. CASE Stop
    BY <1>0, <1>3, StopTells DEF Stop
  <1>4. CASE OnStop
    BY <1>0, <1>4, StopTells DEF OnStop
  <1>5. ASSUME NEW q \in Requests, RequestStep(q) PROVE AllTold'
    <2>1. UNCHANGED setup
      BY <1>5 DEF RequestStep, Receive, FastRequest, OnRequest, BeforeHandle, HitRule, Conclude,
                  HandlerThrows, Respond
    <2>2. StepKeeps(q)
      BY <1>0, <1>5, ReceiveKeeps, FastRequestKeeps, OnRequestKeeps, BeforeHandleKeeps,
         HitRuleKeeps, ConcludeKeeps, HandlerThrowsKeeps, RespondKeeps DEF RequestStep
    <2>3. StepTells(q)
      BY <1>5, ReceiveTells, FastRequestTells, OnRequestTells, BeforeHandleTells, HitRuleTells,
         ConcludeTells, HandlerThrowsTells, RespondTells DEF RequestStep
    <2> QED
      BY <1>0, <2>1, <2>2, <2>3, OthersTell
  <1>6. CASE UNCHANGED vars
    <2>1. app' = app /\ rules' = rules /\ UNCHANGED request
      BY <1>6 DEF vars, request
    <2> QED
      BY <1>0, <2>1, StopTells
  <1> QED
    BY <1>1, <1>2, <1>3, <1>4, <1>5, <1>6 DEF Next

\* An evaluation is by one of the limiters, the macro's by the last.
LEMMA EvaluatedBy ==
    ASSUME AllTold, NEW q \in Requests, NEW n \in DOMAIN evals[q]
    PROVE  /\ evals[q][n].limiter \in 1 .. LastLimiter /\ evals[q][n].macro \in BOOLEAN
           /\ evals[q][n].macro => evals[q][n].limiter = LastLimiter
  <1> DEFINE R == [limiter : 1 .. World.last, macro : BOOLEAN, decisions : Seq(World.decisions)]
             es == evals[q]
             x == es[n]
  <1>1. /\ es \in Seq(R) /\ World.last = LastLimiter /\ Course.last = LastLimiter
        /\ InOrder(Course, pc[q], at[q], es)
    BY TellingFacts DEF Evals, Tells, Story
  <1>2. x \in R
    <2>1. n \in DOMAIN es
      OBVIOUS
    <2> HIDE DEF R, es
    <2> QED
      BY <1>1, <2>1
  <1>3. x.limiter \in 1 .. LastLimiter /\ x.macro \in BOOLEAN
    <2> HIDE DEF x
    <2> QED
      BY <1>1, <1>2
  <1>4. x.macro => x.limiter = LastLimiter
    BY <1>1 DEF InOrder
  <1> QED
    BY <1>3, <1>4

\* The evaluations in which limiter l has decided something.
Spoken(es, l) == {n \in DOMAIN es : es[n].limiter = l /\ es[n].decisions # <<>>}

\* The last of them has the last word.
LEMMA LastWord ==
    ASSUME NEW W, NEW es \in Evals(W), NEW l
    PROVE  /\ Spoken(es, l) # {} => LastSay(es, DOMAIN es, l, Max(Spoken(es, l)))
           /\ \A n : LastSay(es, DOMAIN es, l, n) => Spoken(es, l) # {} /\ n = Max(Spoken(es, l))
  <1> DEFINE R == [limiter : 1 .. W.last, macro : BOOLEAN, decisions : Seq(W.decisions)]
             b == Len(es)
             U == Spoken(es, l)
  <1>0. U = {n \in DOMAIN es : es[n].limiter = l /\ es[n].decisions # <<>>}
    BY DEF Spoken
  <1>1. es \in Seq(R)
    BY DEF Evals
  <1> HIDE DEF R
  <1>2. b \in Nat /\ DOMAIN es = 1 .. b
    BY <1>1, LenProperties
  <1> HIDE DEF b, U
  <1>3. U \subseteq 1 .. b
    BY <1>0, <1>2
  <1>4. ASSUME U # {} PROVE Max(U) \in U /\ \A x \in U : x <= Max(U)
    BY <1>2, <1>3, <1>4, MaxIsMember
  <1>5. ASSUME U # {} PROVE LastSay(es, DOMAIN es, l, Max(U))
    BY <1>0, <1>4, <1>5 DEF LastSay
  <1>6. ASSUME NEW n, LastSay(es, DOMAIN es, l, n) PROVE U # {} /\ n = Max(U)
    <2>1. n \in U /\ \A k \in U : k <= n
      BY <1>0, <1>6 DEF LastSay
    <2>2. Max(U) \in U /\ n <= Max(U) /\ Max(U) <= n
      BY <1>4, <2>1
    <2>3. n \in 1 .. b /\ Max(U) \in 1 .. b
      BY <1>3, <2>1, <2>2
    <2> QED
      BY <1>2, <2>1, <2>2, <2>3
  <1> QED
    BY <1>5, <1>6 DEF U

\* Whether a header family is shown is the last word of the evaluations that decided
\* something, on the fast path and on the general one, however requests overlap.
THEOREM FamiliesAsRuled == Spec => []HeaderFamilies
  <1>1. AllTold => HeaderFamilies
    <2> SUFFICES ASSUME AllTold, NEW q \in Requests, NEW f \in Families,
                        pc[q] = "done", response[q].status # 500
                 PROVE  LET decided == {n \in DOMAIN evals[q] : evals[q][n].decisions # <<>>}
                            LastOf(l) == Max({n \in decided : evals[q][n].limiter = l})
                            RulesOf(n) == IF evals[q][n].macro THEN MacroDue(target[q])
                                          ELSE Due(evals[q][n].limiter, target[q])
                            Allows(n) == FamilyAllowed(evals[q][n].limiter, RulesOf(n), f)
                        IN  response[q].headers[f] # NoDecision <=>
                                IF response[q].status = 429 THEN Allows(Len(evals[q]))
                                ELSE \E l \in {evals[q][n].limiter : n \in decided} : Allows(LastOf(l))
      BY DEF HeaderFamilies, Answered
    <2> DEFINE es == evals[q]
               t == target[q]
               r == response[q]
               decided == {n \in DOMAIN es : es[n].decisions # <<>>}
               LastOf(l) == Max({n \in decided : es[n].limiter = l})
               RulesOf(n) == IF es[n].macro THEN MacroDue(t) ELSE Due(es[n].limiter, t)
               Allows(n) == FamilyAllowed(es[n].limiter, RulesOf(n), f)
    <2>1. /\ RulesKept /\ phase \in Open /\ t \in app.targets /\ Course.last = LastLimiter
          /\ es \in Evals(World) /\ Told(Course, t, es, r)
      BY TellingFacts DEF Tells, Story
    <2>2. ASSUME NEW n \in DOMAIN es
          PROVE  AllowsIn(Course, t, es[n])[f] <=> Allows(n)
      <3> DEFINE e == es[n]
      <3>1. e.limiter \in 1 .. LastLimiter /\ e.macro \in BOOLEAN /\ (e.macro => e.limiter = LastLimiter)
        BY EvaluatedBy
      <3> HIDE DEF e, t
      <3>2. AllowsIn(Course, t, e)[f] <=>
               FamilyAllowed(e.limiter, IF e.macro THEN MacroDue(t) ELSE Due(e.limiter, t), f)
        BY <2>1, <3>1, FamiliesAllowed
      <3> QED
        BY <3>2 DEF e, t
    <2>3. CASE r.status = 429
      <3>1. es # <<>> /\ ToldLimit(Course, t, es, r)
        BY <2>1, <2>3 DEF Told, ToldLimit
      <3>2. Len(es) \in DOMAIN es
        <4> DEFINE R == [limiter : 1 .. World.last, macro : BOOLEAN, decisions : Seq(World.decisions)]
        <4>1. es \in Seq(R)
          BY <2>1 DEF Evals
        <4> HIDE DEF R, es
        <4>2. Len(es) \in Nat \ {0} /\ DOMAIN es = 1 .. Len(es)
          BY <3>1, <4>1, EmptySeq, LenProperties
        <4> QED
          BY <4>2
      <3>3. r.headers[f] # NoDecision <=> AllowsIn(Course, t, es[Len(es)])[f]
        <4> HIDE DEF es, t, r
        <4> QED
          BY <3>1 DEF ToldLimit
      <3>4. r.headers[f] # NoDecision <=> Allows(Len(es))
        BY <2>2, <3>2, <3>3
      <3> QED
        BY <2>3, <3>4
    <2>4. CASE r.status # 429
      <3>1. r.headers[f] # NoDecision <=> \E l \in 1 .. LastLimiter : Says(Course, t, es, DOMAIN es, l, f)
        BY <2>1, <2>4 DEF Told, ToldAll
      <3>2. ASSUME NEW l
            PROVE  /\ Says(Course, t, es, DOMAIN es, l, f) =>
                         l \in {es[n].limiter : n \in decided} /\ Allows(LastOf(l))
                   /\ l \in {es[n].limiter : n \in decided} /\ Allows(LastOf(l)) =>
                         l \in 1 .. LastLimiter /\ Says(Course, t, es, DOMAIN es, l, f)
        <4> DEFINE U == Spoken(es, l)
        <4>1. {n \in decided : es[n].limiter = l} = U
          BY DEF Spoken
        <4>2. /\ U # {} <=> l \in {es[n].limiter : n \in decided}
              /\ LastOf(l) = Max(U) /\ U \subseteq DOMAIN es /\ \A n \in U : es[n].limiter = l
          BY <4>1, ZenonT(40) DEF Spoken
        <4>3. \A n \in DOMAIN es : es[n].limiter \in 1 .. LastLimiter
          BY EvaluatedBy
        <4>4. \A n \in DOMAIN es : AllowsIn(Course, t, es[n])[f] <=> Allows(n)
          BY <2>2
        <4> DEFINE E == {es[n].limiter : n \in decided}
        <4> HIDE DEF es, E, LastOf, Allows, t
        <4>6. /\ U # {} => LastSay(es, DOMAIN es, l, Max(U))
              /\ \A n : LastSay(es, DOMAIN es, l, n) => U # {} /\ n = Max(U)
          BY <2>1, LastWord
        <4> HIDE DEF U
        <4>7. U # {} => Max(U) \in DOMAIN es /\ es[Max(U)].limiter = l
          BY <4>6 DEF LastSay
        <4>8. U # {} <=> l \in E
          BY <4>2 DEF E
        <4>9. ASSUME Says(Course, t, es, DOMAIN es, l, f) PROVE l \in E /\ Allows(LastOf(l))
          <5>1. PICK n \in DOMAIN es : LastSay(es, DOMAIN es, l, n) /\ AllowsIn(Course, t, es[n])[f]
            BY <4>9 DEF Says
          <5>2. U # {} /\ n = LastOf(l)
            BY <4>2, <4>6, <5>1
          <5>3. Allows(n)
            BY <4>4, <5>1
          <5> QED
            BY <4>8, <5>2, <5>3
        <4>10. ASSUME l \in E, Allows(LastOf(l))
               PROVE  l \in 1 .. LastLimiter /\ Says(Course, t, es, DOMAIN es, l, f)
          <5> DEFINE n == Max(U)
          <5>1. U # {} /\ n \in DOMAIN es /\ es[n].limiter = l /\ LastSay(es, DOMAIN es, l, n)
            BY <4>6, <4>7, <4>8, <4>10
          <5>2. Allows(n)
            BY <4>2, <4>10
          <5> HIDE DEF n
          <5>3. AllowsIn(Course, t, es[n])[f]
            BY <4>4, <5>1, <5>2
          <5> QED
            BY <4>3, <5>1, <5>3 DEF Says
        <4> QED
          BY <4>9, <4>10 DEF E
      <3>3. r.headers[f] # NoDecision <=>
                \E l \in {es[n].limiter : n \in decided} : Allows(LastOf(l))
        <4> DEFINE E == {es[n].limiter : n \in decided}
        <4>1. ASSUME NEW l
              PROVE  /\ Says(Course, t, es, DOMAIN es, l, f) => l \in E /\ Allows(LastOf(l))
                     /\ l \in E /\ Allows(LastOf(l)) =>
                           l \in 1 .. LastLimiter /\ Says(Course, t, es, DOMAIN es, l, f)
          BY <3>2
        <4> HIDE DEF E, LastOf, Allows, es, t, r
        <4>2. r.headers[f] # NoDecision <=> \E l \in E : Allows(LastOf(l))
          BY <3>1, <4>1
        <4> QED
          BY <4>2 DEF E, LastOf, Allows, es, t, r
      <3> QED
        BY <2>4, <3>3
    <2> QED
      BY <2>3, <2>4
  <1>2. Spec => []AllTold
    BY TellStart, AllToldInductive, PTL DEF Spec
  <1> QED
    BY <1>1, <1>2, PTL

-----------------------------------------------------------------------------
(* What the decisions of a request count.                                  *)

\* The requests, by the rules `as` that each has hit, that rule x has been hit for.
AskersOf(as, x) == {p \in Requests : x \in ToSet(as[p])}

\* The hits that d counts are of its own rule, by no more requests than hit it.
Earned(as, d) == d.blocked \/ d.limit - d.remaining <= Cardinality(AskersOf(as, <<d.limiter, d.rule>>))

Marked(as, es) == \A n \in DOMAIN es : \A m \in DOMAIN es[n].decisions : Earned(as, es[n].decisions[m])

\* The rules of limiter l that count the requests of t.
Counting(W, l, t) == W.due[l][t] \cup IF l = W.last THEN W.macro[t] ELSE {}

\* What is counted under the key of a rule are the requests that it has been hit for.
CountsAskers(W, ct, as) ==
    \A l \in 1 .. W.last : \A t \in W.targets : \A i \in Counting(W, l, t) : \A s \in W.stores[l][i] :
        Held(ct, <<s, W.keys[l][i][t]>>) <= Cardinality(AskersOf(as, <<l, i>>))

\* No other rule counts under the key of rule i of limiter l.
Apart(W) ==
    \A l, k \in 1 .. W.last : \A t, u \in W.targets :
        \A i \in Counting(W, l, t), j \in Counting(W, k, u) :
            W.keys[l][i][t] = W.keys[k][j][u] /\ W.stores[l][i] \cap W.stores[k][j] # {} => l = k /\ i = j

FinitelyMany(as) == \A x : IsFiniteSet(AskersOf(as, x))

Grows(as, bs) == \A x : Cardinality(AskersOf(as, x)) <= Cardinality(AskersOf(bs, x))

\* The rules that are still to be hit have not been.
Asks(label, a, td, paid) ==
    /\ \A x \in ToSet(paid) :
        \/ label \in {"handler", "done"}
        \/ label = "onRequest" /\ x[1] < a /\ x[2] > 0
        \/ label = "plugin" /\ (x[1] < a \/ (x[1] = a /\ x[2] \notin ToSet(td))) /\ x[2] > 0
        \/ label = "macro" /\ (x[2] > 0 \/ x[2] \notin ToSet(td))
    /\ IsInjective(td)
    /\ label = "plugin" => \A i \in ToSet(td) : i > 0
    /\ label = "macro" => \A i \in ToSet(td) : ~(i > 0)

\* One more request has hit rule h.
LEMMA AskersGrow ==
    ASSUME NEW as \in [Requests -> Seq(Hits)], FinitelyMany(as), NEW q \in Requests, NEW h \in Hits,
           h \notin ToSet(as[q]), NEW bs, bs = [as EXCEPT ![q] = Append(as[q], h)]
    PROVE  /\ FinitelyMany(bs) /\ Grows(as, bs)
           /\ \A x : Cardinality(AskersOf(as, x)) \in Nat /\ Cardinality(AskersOf(bs, x)) \in Nat
           /\ Cardinality(AskersOf(bs, h)) = Cardinality(AskersOf(as, h)) + 1
  <1>1. ToSet(bs[q]) = ToSet(as[q]) \cup {h} /\ \A p \in Requests \ {q} : bs[p] = as[p]
    <2>1. as[q] \in Seq(Hits)
      OBVIOUS
    <2> DEFINE s == as[q]
    <2> HIDE DEF s
    <2>2. ToSet(Append(s, h)) = ToSet(s) \cup {h}
      BY <2>1, Appended, ZenonT(40) DEF s
    <2> QED
      BY <2>2 DEF s
  <1>2. /\ AskersOf(bs, h) = AskersOf(as, h) \cup {q} /\ q \notin AskersOf(as, h)
        /\ \A x : x # h => AskersOf(bs, x) = AskersOf(as, x)
    BY <1>1 DEF AskersOf
  <1>3. \A x : IsFiniteSet(AskersOf(as, x))
    BY DEF FinitelyMany
  <1>4. \A x : Cardinality(AskersOf(as, x)) \in Nat
    BY <1>3, FS_CardinalityType
  <1> DEFINE A == AskersOf(as, h)
             B == AskersOf(bs, h)
  <1>5. IsFiniteSet(B) /\ Cardinality(B) = Cardinality(A) + 1
    <2>1. IsFiniteSet(A) /\ B = A \cup {q} /\ q \notin A
      BY <1>2, <1>3
    <2> HIDE DEF A, B
    <2> QED
      BY <2>1, FS_AddElement
  <1>6. FinitelyMany(bs)
    <2>1. ASSUME NEW x PROVE IsFiniteSet(AskersOf(bs, x))
      BY <1>2, <1>3, <1>5
    <2> QED
      BY <2>1 DEF FinitelyMany
  <1>7. ASSUME NEW x
        PROVE  /\ Cardinality(AskersOf(bs, x)) \in Nat
               /\ Cardinality(AskersOf(as, x)) <= Cardinality(AskersOf(bs, x))
    <2>1. CASE x = h
      <3>1. Cardinality(A) \in Nat
        BY <1>4
      <3> HIDE DEF A, B
      <3>2. Cardinality(B) \in Nat /\ Cardinality(A) <= Cardinality(B)
        BY <1>5, <3>1
      <3> QED
        BY <2>1, <3>2 DEF A, B
    <2>2. CASE x # h
      <3> DEFINE X == Cardinality(AskersOf(as, x))
                 Y == Cardinality(AskersOf(bs, x))
      <3>1. Y = X /\ X \in Nat
        BY <1>2, <1>4, <2>2
      <3> HIDE DEF X, Y
      <3>2. Y \in Nat /\ X <= Y
        BY <3>1
      <3> QED
        BY <3>2 DEF X, Y
    <2> QED
      BY <2>1, <2>2
  <1>8. Grows(as, bs)
    BY <1>7 DEF Grows
  <1> QED
    BY <1>4, <1>5, <1>6, <1>7, <1>8

\* The decisions of other requests stay earned.
LEMMA StaysMarked ==
    ASSUME NEW W, NEW es \in Evals(W), NEW as, NEW bs, FinitelyMany(as), FinitelyMany(bs), Grows(as, bs),
           \A d \in W.decisions : d.limit \in Nat /\ d.remaining \in Nat,
           Marked(as, es)
    PROVE  Marked(bs, es)
  <1>1. ASSUME NEW d \in W.decisions, Earned(as, d) PROVE Earned(bs, d)
    <2> DEFINE x == <<d.limiter, d.rule>>
               m == d.limit - d.remaining
               A == Cardinality(AskersOf(as, x))
               B == Cardinality(AskersOf(bs, x))
    <2>1. m \in Int
      OBVIOUS
    <2>2. A \in Nat /\ B \in Nat
      <3>1. IsFiniteSet(AskersOf(as, x)) /\ IsFiniteSet(AskersOf(bs, x))
        BY DEF FinitelyMany
      <3> QED
        BY <3>1, FS_CardinalityType
    <2>3. A <= B
      BY DEF Grows
    <2>4. d.blocked \/ m <= A
      BY <1>1 DEF Earned
    <2> HIDE DEF m, A, B
    <2>5. d.blocked \/ m <= B
      BY <2>1, <2>2, <2>3, <2>4
    <2> QED
      BY <2>5 DEF Earned, m, B
  <1> DEFINE R == [limiter : 1 .. W.last, macro : BOOLEAN, decisions : Seq(W.decisions)]
  <1>2. es \in Seq(R)
    BY DEF Evals
  <1>3. ASSUME NEW n \in DOMAIN es, NEW m \in DOMAIN es[n].decisions PROVE es[n].decisions[m] \in W.decisions
    <2>1. es[n] \in R
      <3> HIDE DEF R
      <3> QED
        BY <1>2
    <2>2. es[n].decisions \in Seq(W.decisions)
      BY <2>1
    <2> QED
      BY <2>2
  <1> QED
    BY <1>1, <1>3 DEF Marked

\* An evaluation is appended, or grows.
LEMMA AppendMarked ==
    ASSUME NEW W, NEW es \in Evals(W), NEW e \in Evaluation(W), NEW as, Marked(as, es),
           \A m \in DOMAIN e.decisions : Earned(as, e.decisions[m])
    PROVE  Marked(as, Append(es, e))
  <1> DEFINE R  == Evaluation(W)
             fs == Append(es, e)
             N  == Len(es)
  <1>1. e \in R
    OBVIOUS
  <1>2. es \in Seq(R)
    BY DEF Evals, Evaluation
  <1> HIDE DEF R
  <1>3. /\ fs[N + 1] = e /\ N \in Nat
        /\ DOMAIN es = 1 .. N /\ DOMAIN fs = 1 .. N + 1
        /\ \A n \in 1 .. N : fs[n] = es[n]
    BY <1>1, <1>2, AppendProperties
  <1> HIDE DEF fs, N
  <1>4. \A n \in 1 .. N + 1 : n \in 1 .. N \/ n = N + 1
    BY <1>3
  <1>5. Marked(as, fs)
    BY <1>3, <1>4 DEF Marked
  <1> QED
    BY <1>5 DEF fs

LEMMA GrownMarked ==
    ASSUME NEW W, NEW es \in Evals(W), es # <<>>, NEW ds \in Seq(W.decisions), NEW as, Marked(as, es),
           \A j \in DOMAIN ds : Earned(as, ds[j])
    PROVE  Marked(as, Grown(es, ds))
  <1> DEFINE n  == Len(es)
             fs == Grown(es, ds)
  <1> HIDE DEF fs
  <1>1. /\ DOMAIN fs = 1 .. n /\ DOMAIN es = 1 .. n /\ n \in 1 .. n
        /\ \A k \in 1 .. n : k # n => fs[k] = es[k]
        /\ \A m \in DOMAIN fs[n].decisions :
              \/ m \in DOMAIN es[n].decisions /\ fs[n].decisions[m] = es[n].decisions[m]
              \/ \E j \in DOMAIN ds : fs[n].decisions[m] = ds[j]
    BY GrownDecides DEF fs
  <1> HIDE DEF n
  <1>2. \A m \in DOMAIN fs[n].decisions : Earned(as, fs[n].decisions[m])
    BY <1>1 DEF Marked
  <1>3. \A k \in 1 .. n : k # n => \A m \in DOMAIN fs[k].decisions : Earned(as, fs[k].decisions[m])
    BY <1>1 DEF Marked
  <1>4. Marked(as, fs)
    BY <1>1, <1>2, <1>3 DEF Marked
  <1> QED
    BY <1>4 DEF fs

\* A hit of rule i of limiter l, for a request of u, counts under no other rule's key.
LEMMA HitCounts ==
    ASSUME NEW W, Apart(W), NEW ct, NEW dt, NEW as, NEW bs, CountsAskers(W, ct, as), Grows(as, bs),
           \A x : Cardinality(AskersOf(as, x)) \in Nat /\ Cardinality(AskersOf(bs, x)) \in Nat,
           NEW l \in 1 .. W.last, NEW u \in W.targets, NEW i \in Counting(W, l, u),
           Cardinality(AskersOf(bs, <<l, i>>)) = Cardinality(AskersOf(as, <<l, i>>)) + 1,
           NEW s \in W.stores[l][i], NEW c, c = <<s, W.keys[l][i][u]>>,
           \A d : /\ Held(ct, d) \in Nat
                  /\ Held(dt, d) = Held(ct, d) + IF d = c THEN 1 ELSE 0
    PROVE  /\ CountsAskers(W, dt, bs)
           /\ Held(ct, c) + 1 <= Cardinality(AskersOf(bs, <<l, i>>))
  <1>1. ASSUME NEW k \in 1 .. W.last, NEW t \in W.targets, NEW j \in Counting(W, k, t),
               NEW z \in W.stores[k][j]
        PROVE  Held(dt, <<z, W.keys[k][j][t]>>) <= Cardinality(AskersOf(bs, <<k, j>>))
    <2> DEFINE d == <<z, W.keys[k][j][t]>>
               A == Cardinality(AskersOf(as, <<k, j>>))
               B == Cardinality(AskersOf(bs, <<k, j>>))
    <2>1. Held(ct, d) <= A /\ A <= B /\ A \in Nat /\ B \in Nat /\ Held(ct, d) \in Nat
      BY DEF CountsAskers, Grows
    <2>2. Held(dt, d) = Held(ct, d) + IF d = c THEN 1 ELSE 0
      OBVIOUS
    <2>3. CASE d = c
      <3>1. z = s /\ W.keys[k][j][t] = W.keys[l][i][u]
        BY <2>3
      <3>2. k = l /\ j = i
        BY <3>1 DEF Apart
      <3>3. B = A + 1
        BY <3>2
      <3> HIDE DEF A, B, d
      <3>4. Held(dt, d) <= B
        BY <2>1, <2>2, <2>3, <3>3
      <3> QED
        BY <3>4 DEF B, d
    <2>4. CASE d # c
      <3> HIDE DEF A, B, d
      <3>1. Held(dt, d) <= B
        BY <2>1, <2>2, <2>4
      <3> QED
        BY <3>1 DEF B, d
    <2> QED
      BY <2>3, <2>4
  <1>2. Held(ct, c) + 1 <= Cardinality(AskersOf(bs, <<l, i>>))
    <2> DEFINE A == Cardinality(AskersOf(as, <<l, i>>))
               B == Cardinality(AskersOf(bs, <<l, i>>))
    <2>1. Held(ct, c) <= A /\ A \in Nat /\ Held(ct, c) \in Nat /\ B = A + 1
      BY DEF CountsAskers
    <2> HIDE DEF A, B
    <2>2. Held(ct, c) + 1 <= B
      BY <2>1
    <2> QED
      BY <2>2 DEF B
  <1>3. CountsAskers(W, dt, bs)
    BY <1>1 DEF CountsAskers
  <1> QED
    BY <1>2, <1>3

\* A hit that no store counts.
LEMMA MissCounts ==
    ASSUME NEW W, NEW ct, NEW as, NEW bs, CountsAskers(W, ct, as), Grows(as, bs),
           \A d : Held(ct, d) \in Nat,
           \A x : Cardinality(AskersOf(as, x)) \in Nat /\ Cardinality(AskersOf(bs, x)) \in Nat
    PROVE  CountsAskers(W, ct, bs)
  <1>1. ASSUME NEW k \in 1 .. W.last, NEW t \in W.targets, NEW j \in Counting(W, k, t),
               NEW z \in W.stores[k][j]
        PROVE  Held(ct, <<z, W.keys[k][j][t]>>) <= Cardinality(AskersOf(bs, <<k, j>>))
    <2> DEFINE d == <<z, W.keys[k][j][t]>>
               A == Cardinality(AskersOf(as, <<k, j>>))
               B == Cardinality(AskersOf(bs, <<k, j>>))
    <2>1. Held(ct, d) <= A /\ A <= B /\ A \in Nat /\ B \in Nat /\ Held(ct, d) \in Nat
      BY DEF CountsAskers, Grows
    <2> HIDE DEF A, B, d
    <2>2. Held(ct, d) <= B
      BY <2>1
    <2> QED
      BY <2>2 DEF B, d
  <1> QED
    BY <1>1 DEF CountsAskers

\* A limiter has its rules to hit, and the macro has its own.
LEMMA SetsOutAsking ==
    ASSUME NEW a, NEW td, NEW paid, Asks("onRequest", a, td, paid), NEW is, IsInjective(is)
    PROVE  /\ (\A i \in ToSet(is) : i > 0) => Asks("plugin", a, is, paid)
           /\ (\A i \in ToSet(is) : ~(i > 0)) => Asks("macro", a, is, paid)
           /\ Asks("handler", a, td, paid)
  BY DEF Asks

LEMMA PassAsking ==
    ASSUME NEW a \in Int, NEW td, NEW paid \in Seq(Hits), Asks("onRequest", a, td, paid)
    PROVE  Asks("onRequest", a + 1, td, paid)
  <1>1. \A x \in ToSet(paid) : x[1] \in Int
    <2>1. \A n \in DOMAIN paid : paid[n] \in Hits
      OBVIOUS
    <2> QED
      BY <2>1 DEF ToSet, Hits
  <1>2. ASSUME NEW x \in ToSet(paid), x[1] < a PROVE x[1] < a + 1
    BY <1>1, <1>2
  <1> QED
    BY <1>2 DEF Asks

\* The first of the rules to hit is hit.
LEMMA HitAsks ==
    ASSUME NEW label \in {"plugin", "macro"}, NEW a, NEW td \in Seq(Int), td # <<>>,
           NEW paid \in Seq(Hits), Asks(label, a, td, paid), NEW l \in Nat, label = "plugin" => l = a,
           NEW h, h = <<l, Head(td)>>
    PROVE  /\ h \notin ToSet(paid) /\ h \in Hits
           /\ Asks(label, a, Tail(td), Append(paid, h))
  <1> DEFINE i == Head(td)
             u == Tail(td)
  <1>1. /\ i \in Int /\ u \in Seq(Int) /\ Len(u) = Len(td) - 1 /\ i = td[1]
        /\ \A m \in 1 .. Len(td) - 1 : u[m] = td[m + 1]
        /\ ToSet(td) = {i} \cup ToSet(u)
    BY Taken
  <1>2. Len(td) \in Nat \ {0} /\ DOMAIN td = 1 .. Len(td) /\ DOMAIN u = 1 .. Len(td) - 1
    BY <1>1, EmptySeq, LenProperties
  <1> DEFINE N == Len(td)
  <1> HIDE DEF N, i, u
  <1>3. IsInjective(u) /\ i \notin ToSet(u)
    <2>1. IsInjective(td)
      BY DEF Asks
    <2>2. \A m \in 1 .. N - 1 : m + 1 \in 1 .. N /\ m + 1 # 1 /\ 1 \in 1 .. N
      BY <1>2 DEF N
    <2>3. \A m, k \in 1 .. N - 1 : m + 1 = k + 1 => m = k
      BY <1>2 DEF N
    <2>4. IsInjective(u)
      <3>1. ASSUME NEW m \in 1 .. N - 1, NEW k \in 1 .. N - 1, u[m] = u[k] PROVE m = k
        <4>1. td[m + 1] = td[k + 1] /\ m + 1 \in DOMAIN td /\ k + 1 \in DOMAIN td
          BY <1>1, <1>2, <2>2, <3>1 DEF N
        <4>2. m + 1 = k + 1
          BY <2>1, <4>1 DEF IsInjective
        <4> QED
          BY <2>3, <4>2
      <3> QED
        BY <1>2, <3>1 DEF IsInjective, N
    <2>5. i \notin ToSet(u)
      <3>1. ASSUME NEW m \in 1 .. N - 1, u[m] = i PROVE FALSE
        <4>1. td[m + 1] = td[1]
          BY <1>1, <3>1 DEF N
        <4> QED
          BY <1>2, <2>1, <2>2, <4>1 DEF IsInjective, N
      <3> QED
        BY <1>2, <3>1 DEF ToSet, N
    <2> QED
      BY <2>4, <2>5
  <1>4. h = <<l, i>> /\ h[1] = l /\ h[2] = i /\ h \in Hits
    BY <1>1 DEF Hits, i
  <1>5. ToSet(Append(paid, h)) = ToSet(paid) \cup {h}
    BY <1>4, Appended
  <1>6. i \in ToSet(td) /\ \A j \in ToSet(u) : j \in ToSet(td)
    BY <1>1
  <1>7. CASE label = "plugin"
    <2>1. /\ \A x \in ToSet(paid) : (x[1] < a \/ (x[1] = a /\ x[2] \notin ToSet(td))) /\ x[2] > 0
          /\ \A j \in ToSet(td) : j > 0
      BY <1>7 DEF Asks
    <2>2. l = a /\ ~(a < a)
      <3>1. l = a
        BY <1>7
      <3>2. ~(l < l)
        OBVIOUS
      <3> QED
        BY <3>1, <3>2
    <2>3. h \notin ToSet(paid)
      BY <1>4, <1>6, <2>1, <2>2
    <2>4. \A x \in ToSet(paid) \cup {h} : (x[1] < a \/ (x[1] = a /\ x[2] \notin ToSet(u))) /\ x[2] > 0
      BY <1>3, <1>4, <1>6, <2>1, <2>2
    <2>5. Asks(label, a, u, Append(paid, h))
      BY <1>3, <1>5, <1>6, <1>7, <2>1, <2>4 DEF Asks
    <2> QED
      BY <1>4, <2>3, <2>5 DEF u
  <1>8. CASE label = "macro"
    <2>1. /\ \A x \in ToSet(paid) : x[2] > 0 \/ x[2] \notin ToSet(td)
          /\ \A j \in ToSet(td) : ~(j > 0)
      BY <1>8 DEF Asks
    <2>2. h \notin ToSet(paid)
      BY <1>4, <1>6, <2>1
    <2>3. \A x \in ToSet(paid) \cup {h} : x[2] > 0 \/ x[2] \notin ToSet(u)
      BY <1>3, <1>4, <1>6, <2>1
    <2>4. Asks(label, a, u, Append(paid, h))
      BY <1>3, <1>5, <1>6, <1>8, <2>1, <2>3 DEF Asks
    <2> QED
      BY <1>4, <2>2, <2>4 DEF u
  <1> QED
    BY <1>7, <1>8

\* All have been hit.
LEMMA DoneAsking ==
    ASSUME NEW label \in {"plugin", "macro", "handler"}, NEW a \in Int, NEW td, NEW paid \in Seq(Hits),
           Asks(label, a, td, paid)
    PROVE  /\ label = "plugin" => Asks("onRequest", a + 1, td, paid)
           /\ Asks("handler", a, td, paid) /\ Asks("done", a, td, paid)
  <1>1. \A x \in ToSet(paid) : x[1] \in Int
    <2>1. \A n \in DOMAIN paid : paid[n] \in Hits
      OBVIOUS
    <2> QED
      BY <2>1 DEF ToSet, Hits
  <1>2. ASSUME NEW x \in ToSet(paid), x[1] < a \/ x[1] = a PROVE x[1] < a + 1
    BY <1>1, <1>2
  <1> QED
    BY <1>2 DEF Asks

\* The fast path hits its rule at once.
LEMMA FastAsks ==
    ASSUME NEW a \in Nat, NEW td, NEW paid \in Seq(Hits), Asks("onRequest", a, td, paid),
           NEW h, h = <<a, 1>>
    PROVE  /\ h \notin ToSet(paid) /\ h \in Hits
           /\ Asks("onRequest", a + 1, td, Append(paid, h)) /\ Asks("done", a, td, Append(paid, h))
  <1>1. h \in Hits /\ h[1] = a /\ h[2] = 1 /\ h[2] > 0 /\ a < a + 1 /\ ~(a < a)
    BY DEF Hits
  <1>2. \A x \in ToSet(paid) : x[1] \in Int
    <2>1. \A n \in DOMAIN paid : paid[n] \in Hits
      OBVIOUS
    <2> QED
      BY <2>1 DEF ToSet, Hits
  <1>3. ToSet(Append(paid, h)) = ToSet(paid) \cup {h}
    BY <1>1, Appended
  <1>4. \A x \in ToSet(paid) : x[1] < a /\ x[2] > 0
    BY DEF Asks
  <1>5. \A x \in ToSet(paid) : x[1] < a + 1
    BY <1>2, <1>4
  <1>6. h \notin ToSet(paid)
    BY <1>1, <1>4
  <1>7. \A x \in ToSet(paid) \cup {h} : x[1] < a + 1 /\ x[2] > 0
    BY <1>1, <1>4, <1>5
  <1>8. IsInjective(td)
    BY DEF Asks
  <1> QED
    BY <1>1, <1>3, <1>6, <1>7, <1>8 DEF Asks

Applying(l, t) == ToSet(Due(l, t)) \cup IF l = LastLimiter THEN ToSet(MacroDue(t)) ELSE {}

\* No two rules count under one key of one store.  Two limiters of one namespace, or
\* a limiter and its macro, may have rules of the same id; on one custom store these
\* would count each other's hits.
KeysApart ==
    phase \in Open =>
        \A l, k \in Limiters : \A t, u \in app.targets :
            \A i \in Applying(l, t), j \in Applying(k, u) :
                KeyOf(l, i, t) = KeyOf(k, j, u) /\ StoresOf(l, i) \cap StoresOf(k, j) # {}
                    => l = k /\ i = j

Tracked ==
    /\ AllPay
    /\ FinitelyMany(asked)
    /\ \A q \in Requests : Asks(pc[q], at[q], todo[q], asked[q]) /\ Marked(asked, evals[q])
    /\ phase \in Open => CountsAskers(World, count, asked)
    /\ phase \notin Open => DOMAIN count = {}

StepTracks(q) ==
    /\ FinitelyMany(asked') /\ Grows(asked, asked')
    /\ Asks(pc'[q], at'[q], todo'[q], asked'[q]) /\ Marked(asked', evals'[q])
    /\ CountsAskers(World, count', asked')

LEMMA ApplyingFacts ==
    ASSUME Served, phase \in Open
    PROVE  /\ \A l \in 1 .. World.last : \A t \in World.targets :
                 /\ Counting(World, l, t) = Applying(l, t) /\ Applying(l, t) \subseteq RuleIndices(l)
                 /\ \A i \in Applying(l, t) : /\ World.keys[l][i][t] = KeyOf(l, i, t)
                                              /\ World.stores[l][i] = StoresOf(l, i)
           /\ KeysApart => Apart(World)
  <1>1. /\ RulesKept /\ app \in Applications
    BY DEF Served, RulesKept, RegistriesKept
  <1>2. /\ World.last = LastLimiter /\ World.targets = app.targets /\ Limiters = 1 .. LastLimiter
        /\ LastLimiter \in Nat \ {0}
        /\ \A t \in app.targets : World.macro[t] = ToSet(MacroDue(t))
        /\ \A l \in Limiters :
              /\ \A t \in app.targets : World.due[l][t] = ToSet(Due(l, t))
              /\ \A i \in RuleIndices(l) :
                    /\ World.stores[l][i] = StoresOf(l, i)
                    /\ \A t \in app.targets : World.keys[l][i][t] = KeyOf(l, i, t)
    BY <1>1, WorldFacts
  <1>3. ASSUME NEW l \in 1 .. World.last, NEW t \in World.targets
        PROVE  /\ Counting(World, l, t) = Applying(l, t) /\ Applying(l, t) \subseteq RuleIndices(l)
               /\ \A i \in Applying(l, t) : /\ World.keys[l][i][t] = KeyOf(l, i, t)
                                            /\ World.stores[l][i] = StoresOf(l, i)
    <2>1. l \in Limiters /\ t \in app.targets
      BY <1>2
    <2>2. ToSet(Due(l, t)) \subseteq RuleIndices(l) /\ ToSet(MacroDue(t)) \subseteq RuleIndices(LastLimiter)
      BY <1>1, <2>1, DueFacts
    <2>3. Counting(World, l, t) = Applying(l, t)
      BY <1>2, <2>1 DEF Counting, Applying
    <2>4. Applying(l, t) \subseteq RuleIndices(l)
      BY <2>2 DEF Applying
    <2> QED
      BY <1>2, <2>1, <2>3, <2>4
  <1>4. ASSUME KeysApart PROVE Apart(World)
    <2> SUFFICES ASSUME NEW l \in 1 .. World.last, NEW k \in 1 .. World.last,
                        NEW t \in World.targets, NEW u \in World.targets,
                        NEW i \in Counting(World, l, t), NEW j \in Counting(World, k, u),
                        World.keys[l][i][t] = World.keys[k][j][u],
                        World.stores[l][i] \cap World.stores[k][j] # {}
                 PROVE  l = k /\ i = j
      BY DEF Apart
    <2>1. /\ l \in Limiters /\ k \in Limiters /\ t \in app.targets /\ u \in app.targets
      BY <1>2
    <2>2. /\ i \in Applying(l, t) /\ j \in Applying(k, u) /\ KeyOf(l, i, t) = KeyOf(k, j, u)
          /\ StoresOf(l, i) \cap StoresOf(k, j) # {}
      BY <1>3
    <2> QED
      BY <1>4, <2>1, <2>2 DEF KeysApart
  <1> QED
    BY <1>3, <1>4

LEMMA TrackingFacts ==
    ASSUME Tracked, NEW q \in Requests
    PROVE  /\ AllPay /\ Served /\ RequestsTyped /\ RulesKept /\ app \in Applications
           /\ Asks(pc[q], at[q], todo[q], asked[q]) /\ Marked(asked, evals[q])
           /\ FinitelyMany(asked) /\ (phase \in Open => CountsAskers(World, count, asked))
           /\ asked \in [Requests -> Seq(Hits)] /\ asked[q] \in Seq(Hits)
           /\ LastLimiter \in Nat \ {0} /\ Limiters = 1 .. LastLimiter /\ at[q] \in Int
           /\ World.last = LastLimiter /\ World.targets = app.targets /\ World.decisions = Decisions
           /\ evals[q] \in Evals(World) /\ todo[q] \in Seq(Int)
           /\ OnItsWay(World, pc[q], target[q], at[q], evals[q], todo[q], response[q].status)
           /\ pc[q] # "idle" => phase \in Open /\ target[q] \in app.targets
           /\ \A d : Held(count, d) \in Nat
           /\ \A x : Cardinality(AskersOf(asked, x)) \in Nat
  <1>1. /\ AllPay /\ Asks(pc[q], at[q], todo[q], asked[q]) /\ Marked(asked, evals[q])
        /\ FinitelyMany(asked) /\ (phase \in Open => CountsAskers(World, count, asked))
    BY DEF Tracked
  <1>2. /\ Served /\ RequestsTyped /\ RulesKept /\ app \in Applications
        /\ asked \in [Requests -> Seq(Hits)] /\ asked[q] \in Seq(Hits)
        /\ LastLimiter \in Nat \ {0} /\ Limiters = 1 .. LastLimiter /\ at[q] \in 1 .. LastLimiter + 1
        /\ pc[q] # "idle" => phase \in Open /\ target[q] \in app.targets
    BY <1>1, PayingFacts
  <1>3. /\ World.last = LastLimiter /\ World.targets = app.targets /\ World.decisions = Decisions
    BY <1>2, WorldFacts
  <1>4. /\ evals[q] \in Evals(World) /\ todo[q] \in Seq(Int) /\ at[q] \in Int
    BY <1>2 DEF RequestsTyped
  <1>5. OnItsWay(World, pc[q], target[q], at[q], evals[q], todo[q], response[q].status)
    BY <1>2 DEF Served
  <1>6. \A d : Held(count, d) \in Nat
    BY <1>2 DEF RequestsTyped, Held
  <1>7. ASSUME NEW x PROVE Cardinality(AskersOf(asked, x)) \in Nat
    <2>1. IsFiniteSet(AskersOf(asked, x))
      BY <1>1 DEF FinitelyMany
    <2> QED
      BY <2>1, FS_CardinalityType
  <1> QED
    BY <1>1, <1>2, <1>3, <1>4, <1>5, <1>6, <1>7

\* A step of q that hits no rule.
LEMMA QuietTracks ==
    ASSUME Tracked, phase \in Open, NEW q \in Requests, asked' = asked, count' = count,
           Asks(pc'[q], at'[q], todo'[q], asked[q]), Marked(asked, evals'[q])
    PROVE  StepTracks(q)
  <1>1. /\ FinitelyMany(asked) /\ CountsAskers(World, count, asked)
        /\ \A x : Cardinality(AskersOf(asked, x)) \in Nat
    BY TrackingFacts
  <1>2. Grows(asked, asked)
    BY <1>1 DEF Grows
  <1> QED
    BY <1>1, <1>2 DEF StepTracks

LEMMA ReceiveTracks ==
    ASSUME Tracked, NEW q \in Requests, Receive(q)
    PROVE  StepTracks(q)
  <1>1. /\ pc[q] = "idle" /\ pc' = [pc EXCEPT ![q] = "onRequest"] /\ phase \in Open
        /\ at' = at /\ todo' = todo /\ evals' = evals /\ asked' = asked /\ count' = count
    BY DEF Receive, Goto, Open
  <1>2. RequestsTyped /\ Asks("idle", at[q], todo[q], asked[q]) /\ Marked(asked, evals[q])
    BY <1>1, TrackingFacts
  <1>3. pc'[q] = "onRequest"
    BY <1>1, <1>2 DEF RequestsTyped
  <1>4. Asks("onRequest", at[q], todo[q], asked[q])
    BY <1>2 DEF Asks
  <1> QED
    BY <1>1, <1>2, <1>3, <1>4, QuietTracks

LEMMA OnRequestTracks ==
    ASSUME Tracked, NEW q \in Requests, OnRequest(q)
    PROVE  StepTracks(q)
  <1> DEFINE a == at[q]
             t == target[q]
             es == evals[q]
             due == Due(a, t)
  <1>1. pc[q] = "onRequest" /\ a \in Limiters /\ asked' = asked /\ count' = count
    BY DEF OnRequest
  <1>2. /\ RequestsTyped /\ RulesKept /\ phase \in Open /\ a \in Int /\ asked[q] \in Seq(Hits)
        /\ Limiters = 1 .. World.last /\ es \in Evals(World)
        /\ Asks("onRequest", a, todo[q], asked[q]) /\ Marked(asked, es)
    BY <1>1, TrackingFacts
  <1>3. CASE due = <<>>
    <2>1. /\ pc' = [pc EXCEPT ![q] = "onRequest"] /\ at' = [at EXCEPT ![q] = a + 1]
          /\ evals' = evals /\ todo' = todo
      BY <1>1, <1>3 DEF OnRequest, GoOn, Goto
    <2>2. pc'[q] = "onRequest" /\ at'[q] = a + 1
      BY <1>2, <2>1 DEF RequestsTyped
    <2>3. Asks("onRequest", a + 1, todo[q], asked[q])
      BY <1>2, PassAsking
    <2> QED
      BY <1>1, <1>2, <2>1, <2>2, <2>3, QuietTracks
  <1>4. CASE due # <<>>
    <2> DEFINE e == [limiter |-> a, macro |-> FALSE, decisions |-> <<>>]
    <2>1. /\ pc' = [pc EXCEPT ![q] = "plugin"] /\ at' = at /\ todo' = [todo EXCEPT ![q] = due]
          /\ evals' = [evals EXCEPT ![q] = Append(es, [limiter |-> a, macro |-> "plugin" = "macro", decisions |-> <<>>])]
      BY <1>1, <1>4 DEF OnRequest, Evaluate, Goto
    <2>2. ("plugin" = "macro") = FALSE
      OBVIOUS
    <2>3. evals' = [evals EXCEPT ![q] = Append(es, e)]
      BY <2>1, <2>2
    <2>4. pc'[q] = "plugin" /\ evals'[q] = Append(es, e) /\ todo'[q] = due
      BY <1>2, <2>1, <2>3 DEF RequestsTyped
    <2>5. e \in Evaluation(World) /\ e.decisions = <<>>
      <3>1. <<>> \in Seq(World.decisions) /\ a \in 1 .. World.last
        BY <1>1, <1>2
      <3> QED
        BY <3>1 DEF Evaluation
    <2> HIDE DEF e, due, es
    <2>6. Marked(asked, Append(es, e))
      BY <1>2, <2>5, AppendMarked
    <2>7. Asks("plugin", a, due, asked[q])
      <3>1. IsInjective(due) /\ \A i \in ToSet(due) : i > 0
        BY <1>1, <1>2, DueInOrder DEF due
      <3> QED
        BY <1>2, <3>1, SetsOutAsking
    <2>8. at'[q] = a
      BY <2>1
    <2> QED
      BY <1>1, <1>2, <2>4, <2>6, <2>7, <2>8, QuietTracks
  <1> QED
    BY <1>3, <1>4

LEMMA BeforeHandleTracks ==
    ASSUME Tracked, NEW q \in Requests, BeforeHandle(q)
    PROVE  StepTracks(q)
  <1> DEFINE a == at[q]
             t == target[q]
             es == evals[q]
             due == MacroDue(t)
  <1>1. pc[q] = "onRequest" /\ at' = at /\ asked' = asked /\ count' = count
    BY DEF BeforeHandle
  <1>2. /\ RequestsTyped /\ RulesKept /\ phase \in Open /\ a \in Int /\ asked[q] \in Seq(Hits)
        /\ World.last = LastLimiter /\ LastLimiter \in Nat \ {0} /\ Limiters = 1 .. LastLimiter
        /\ es \in Evals(World)
        /\ Asks("onRequest", a, todo[q], asked[q]) /\ Marked(asked, es)
    BY <1>1, TrackingFacts
  <1>3. LastLimiter \in Limiters /\ LastLimiter \in 1 .. World.last
    BY <1>2
  <1>4. CASE due = <<>>
    <2>1. pc' = [pc EXCEPT ![q] = "handler"] /\ evals' = evals /\ todo' = todo
      BY <1>1, <1>4 DEF BeforeHandle, Goto
    <2>2. pc'[q] = "handler"
      BY <1>2, <2>1 DEF RequestsTyped
    <2>3. Asks("handler", a, todo[q], asked[q])
      BY <1>2 DEF Asks
    <2> QED
      BY <1>1, <1>2, <2>1, <2>2, <2>3, QuietTracks
  <1>5. CASE due # <<>>
    <2> DEFINE e == [limiter |-> LastLimiter, macro |-> TRUE, decisions |-> <<>>]
    <2>1. /\ pc' = [pc EXCEPT ![q] = "macro"] /\ todo' = [todo EXCEPT ![q] = due]
          /\ evals' = [evals EXCEPT ![q] = Append(es, [limiter |-> LastLimiter, macro |-> "macro" = "macro", decisions |-> <<>>])]
      BY <1>1, <1>5 DEF BeforeHandle, Evaluate, Goto
    <2>2. ("macro" = "macro") = TRUE
      OBVIOUS
    <2>3. evals' = [evals EXCEPT ![q] = Append(es, e)]
      BY <2>1, <2>2
    <2>4. pc'[q] = "macro" /\ evals'[q] = Append(es, e) /\ todo'[q] = due
      BY <1>2, <2>1, <2>3 DEF RequestsTyped
    <2>5. e \in Evaluation(World) /\ e.decisions = <<>>
      <3>1. <<>> \in Seq(World.decisions)
        OBVIOUS
      <3> QED
        BY <1>3, <3>1 DEF Evaluation
    <2> HIDE DEF e, due, es
    <2>6. Marked(asked, Append(es, e))
      BY <1>2, <2>5, AppendMarked
    <2>7. Asks("macro", a, due, asked[q])
      <3>1. IsInjective(due) /\ \A i \in ToSet(due) : ~(i > 0)
        BY <1>2, <1>3, DueInOrder DEF due
      <3> QED
        BY <1>2, <3>1, SetsOutAsking
    <2>8. at'[q] = a
      BY <1>1
    <2> QED
      BY <1>1, <1>2, <2>4, <2>6, <2>7, <2>8, QuietTracks
  <1> QED
    BY <1>4, <1>5

LEMMA ConcludeTracks ==
    ASSUME Tracked, NEW q \in Requests, Conclude(q)
    PROVE  StepTracks(q)
  <1> DEFINE label == pc[q]
             a == at[q]
             e == LastEvaluation(q)
             d == HeaderOf(e.decisions)
             allowed == AllowedFamilies(e.limiter, Evaluating(q))
  <1>1. /\ label \in {"plugin", "macro"} /\ asked' = asked /\ count' = count
        /\ todo' = todo /\ evals' = evals
        /\ (Limited(q, e.limiter, d, allowed) /\ at' = at) \/ GoOn(q)
    BY DEF Conclude, ConcludeAllowed, LastEvaluation
  <1>2. /\ RequestsTyped /\ phase \in Open /\ a \in Int /\ asked[q] \in Seq(Hits)
        /\ Asks(label, a, todo[q], asked[q]) /\ Marked(asked, evals[q])
    BY <1>1, TrackingFacts
  <1>3. /\ label = "plugin" => Asks("onRequest", a + 1, todo[q], asked[q])
        /\ Asks("handler", a, todo[q], asked[q]) /\ Asks("done", a, todo[q], asked[q])
    <2> HIDE DEF label, a
    <2> QED
      BY <1>1, <1>2, DoneAsking
  <1>4. \/ pc'[q] = "done" /\ at'[q] = a
        \/ pc'[q] = "onRequest" /\ at'[q] = a + 1 /\ label = "plugin"
        \/ pc'[q] = "handler" /\ at'[q] = a
    <2>1. CASE Limited(q, e.limiter, d, allowed) /\ at' = at
      <3>1. pc' = [pc EXCEPT ![q] = "done"]
        BY <2>1 DEF Limited, Goto
      <3> QED
        BY <1>2, <2>1, <3>1 DEF RequestsTyped
    <2>2. CASE GoOn(q) /\ label = "plugin"
      <3>1. pc' = [pc EXCEPT ![q] = "onRequest"] /\ at' = [at EXCEPT ![q] = at[q] + 1]
        BY <2>2 DEF GoOn, Goto
      <3> QED
        BY <1>2, <2>2, <3>1 DEF RequestsTyped
    <2>3. CASE GoOn(q) /\ label = "macro"
      <3>1. pc' = [pc EXCEPT ![q] = "handler"] /\ at' = [at EXCEPT ![q] = at[q]]
        BY <2>3 DEF GoOn, Goto
      <3> QED
        BY <1>2, <3>1 DEF RequestsTyped
    <2> QED
      BY <1>1, <2>1, <2>2, <2>3
  <1>5. Asks(pc'[q], at'[q], todo'[q], asked[q])
    BY <1>1, <1>3, <1>4
  <1>6. Marked(asked, evals'[q])
    BY <1>1, <1>2
  <1> QED
    BY <1>1, <1>2, <1>5, <1>6, QuietTracks

LEMMA AnswerTracks ==
    ASSUME Tracked, NEW q \in Requests, HandlerThrows(q) \/ Respond(q)
    PROVE  StepTracks(q)
  <1>1. /\ pc[q] = "handler" /\ pc' = [pc EXCEPT ![q] = "done"] /\ count' = count
        /\ at' = at /\ todo' = todo /\ evals' = evals /\ asked' = asked
    BY DEF HandlerThrows, Respond, Goto
  <1>2. /\ RequestsTyped /\ phase \in Open
        /\ Asks("handler", at[q], todo[q], asked[q]) /\ Marked(asked, evals[q])
    BY <1>1, TrackingFacts
  <1>3. pc'[q] = "done"
    BY <1>1, <1>2 DEF RequestsTyped
  <1>4. Asks("done", at[q], todo[q], asked[q])
    BY <1>2 DEF Asks
  <1> QED
    BY <1>1, <1>2, <1>3, <1>4, QuietTracks

\* A hit of rule i of limiter l for request q, counted by a store or by none.
LEMMA ChargeTracks ==
    ASSUME Tracked, KeysApart, phase \in Open, NEW q \in Requests, target[q] \in app.targets,
           NEW l \in Limiters, NEW i \in Applying(l, target[q]),
           NEW h, h = <<l, i>>, h \in Hits, h \notin ToSet(asked[q]),
           asked' = [asked EXCEPT ![q] = Append(asked[q], h)],
           NEW s, NEW c, c = <<s, KeyOf(l, i, target[q])>>,
           NEW miss \in BOOLEAN, miss => count' = count,
           ~miss => s \in StoresOf(l, i) /\ count' = Charged(c)
    PROVE  /\ FinitelyMany(asked') /\ Grows(asked, asked') /\ CountsAskers(World, count', asked')
           /\ ~miss => Counted(c) + 1 <= Cardinality(AskersOf(asked', h))
  <1> DEFINE u == target[q]
             W == World
             bs == asked'
             ct == count
             dt == count'
  <1>1. /\ Served /\ asked \in [Requests -> Seq(Hits)] /\ FinitelyMany(asked) /\ RequestsTyped
        /\ CountsAskers(W, ct, asked) /\ \A d : Held(ct, d) \in Nat
        /\ W.last = LastLimiter /\ Limiters = 1 .. LastLimiter /\ W.targets = app.targets
    BY TrackingFacts
  <1>2. /\ FinitelyMany(bs) /\ Grows(asked, bs)
        /\ \A x : Cardinality(AskersOf(asked, x)) \in Nat /\ Cardinality(AskersOf(bs, x)) \in Nat
        /\ Cardinality(AskersOf(bs, h)) = Cardinality(AskersOf(asked, h)) + 1
    <2>1. bs = [asked EXCEPT ![q] = Append(asked[q], h)]
      OBVIOUS
    <2> HIDE DEF bs
    <2> QED
      BY <1>1, <2>1, AskersGrow
  <1>3. /\ Apart(W) /\ l \in 1 .. W.last /\ u \in W.targets /\ i \in Counting(W, l, u)
        /\ W.stores[l][i] = StoresOf(l, i) /\ W.keys[l][i][u] = KeyOf(l, i, u)
    BY <1>1, ApplyingFacts
  <1>4. CASE miss
    <2>1. dt = ct
      BY <1>4
    <2> HIDE DEF W, bs, ct, dt
    <2>2. CountsAskers(W, ct, bs)
      BY <1>1, <1>2, MissCounts
    <2> QED
      BY <1>2, <1>4, <2>1, <2>2 DEF W, bs, ct, dt
  <1>5. CASE ~miss
    <2>1. /\ Counted(c) = Held(ct, c)
          /\ \A d : /\ Held(ct, d) \in Nat
                    /\ Held(dt, d) = Held(ct, d) + IF d = c THEN 1 ELSE 0
      <3>1. \A d \in DOMAIN count : count[d] \in Nat
        BY <1>1 DEF RequestsTyped
      <3>2. count' = Charged(c)
        BY <1>5
      <3> QED
        BY <3>1, <3>2, ChargeCounts
    <2>2. s \in W.stores[l][i] /\ c = <<s, W.keys[l][i][u]>>
      BY <1>3, <1>5
    <2>3. Cardinality(AskersOf(bs, <<l, i>>)) = Cardinality(AskersOf(asked, <<l, i>>)) + 1
      BY <1>2
    <2> HIDE DEF W, bs, ct, dt, u
    <2>4. /\ CountsAskers(W, dt, bs)
          /\ Held(ct, c) + 1 <= Cardinality(AskersOf(bs, <<l, i>>))
      BY <1>1, <1>2, <1>3, <2>1, <2>2, <2>3, HitCounts
    <2> QED
      BY <1>2, <1>5, <2>1, <2>4 DEF W, bs, ct, dt
  <1> QED
    BY <1>4, <1>5

\* The decision of a hit that counts its askers is earned.
LEMMA DecisionEarned ==
    ASSUME RulesKept, phase \in Open, NEW l \in Limiters, NEW i \in RuleIndices(l), NEW n \in Nat,
           NEW bs, n <= Cardinality(AskersOf(bs, <<l, i>>))
    PROVE  Earned(bs, ToDecision(l, i, n))
  <1> DEFINE d == ToDecision(l, i, n)
  <1>1. d.limiter = l /\ d.rule = i /\ (~d.blocked => d.limit - d.remaining = n)
    BY ToDecisionIs, DecisionCounts
  <1> HIDE DEF d
  <1>2. Earned(bs, d)
    BY <1>1 DEF Earned
  <1> QED
    BY <1>2 DEF d

\* What a decision counts are numbers.
LEMMA DecisionsCount == \A d \in Decisions : d.limit \in Nat /\ d.remaining \in Nat
  BY DEF Decisions

\* The decisions of a hit are earned.
LEMMA HitEarned ==
    ASSUME RulesKept, phase \in Open, NEW l \in Limiters, NEW i \in RuleIndices(l), NEW s, NEW c, NEW bs,
           s # NoStore => Counted(c) + 1 \in Nat /\ Counted(c) + 1 <= Cardinality(AskersOf(bs, <<l, i>>))
    PROVE  \A m \in DOMAIN HitDecides(l, i, s, c) : Earned(bs, HitDecides(l, i, s, c)[m])
  <1> DEFINE ds == HitDecides(l, i, s, c)
             d == ToDecision(l, i, Counted(c) + 1)
             b == SynthesizeBlock(l, i)
  <1>1. s # NoStore => Earned(bs, d)
    BY DecisionEarned
  <1>2. Earned(bs, b)
    <2>1. b.blocked
      BY ToDecisionIs
    <2> HIDE DEF b
    <2> QED
      BY <2>1 DEF Earned
  <1>3. PolicyOf(l, i) \in {"allow", "block"}
    BY RuleFacts
  <1>4. (s # NoStore /\ ds = <<d>>) \/ ds = <<b>> \/ ds = <<>>
    BY <1>3 DEF HitDecides
  <1> HIDE DEF d, b, ds
  <1>5. \A m \in DOMAIN ds : (s # NoStore /\ ds[m] = d) \/ ds[m] = b
    BY <1>4
  <1>6. \A m \in DOMAIN ds : Earned(bs, ds[m])
    BY <1>1, <1>2, <1>5
  <1> QED
    BY <1>6 DEF ds

\* The rule in hand applies to the request.
LEMMA InHandApplies ==
    ASSUME Tracked, NEW q \in Requests, pc[q] \in {"plugin", "macro"}, todo[q] # <<>>
    PROVE  LET l == evals[q][Len(evals[q])].limiter IN
           /\ l \in Limiters /\ l \in Nat /\ Head(todo[q]) \in Applying(l, target[q])
           /\ Head(todo[q]) \in RuleIndices(l)
           /\ pc[q] = "plugin" => l = at[q]
           /\ phase \in Open /\ target[q] \in app.targets /\ evals[q] # <<>>
  <1> DEFINE es == evals[q]
             e == es[Len(es)]
             l == e.limiter
             i == Head(todo[q])
             t == target[q]
  <1>1. /\ Served /\ RulesKept /\ World.last = LastLimiter /\ Limiters = 1 .. LastLimiter
        /\ OnItsWay(World, pc[q], t, at[q], es, todo[q], response[q].status)
        /\ app \in Applications
    BY TrackingFacts
  <1>2. /\ l \in Limiters /\ l \in Nat /\ phase \in Open /\ t \in app.targets /\ es # <<>>
        /\ todo[q] \in Seq(Int) /\ ToSet(todo[q]) \subseteq RuleIndices(l)
    BY <1>1, InHand
  <1>3. InEvaluation(World, pc[q], t, at[q], es, todo[q])
    BY <1>1 DEF OnItsWay
  <1>4. i \in ToSet(todo[q])
    BY <1>2, Taken
  <1>5. /\ l = IF pc[q] = "macro" THEN World.last ELSE at[q]
        /\ i \in UnderWay(World, pc[q], t, l)
    BY <1>3, <1>4 DEF InEvaluation
  <1>6. /\ \A k \in Limiters : World.due[k][t] = ToSet(Due(k, t))
        /\ World.macro[t] = ToSet(MacroDue(t))
    BY <1>1, <1>2, WorldFacts
  <1>7. i \in Applying(l, t)
    <2> HIDE DEF i, t, l
    <2> QED
      BY <1>1, <1>2, <1>5, <1>6 DEF UnderWay, Applying
  <1> QED
    BY <1>2, <1>4, <1>5, <1>7

LEMMA HitRuleTracks ==
    ASSUME Tracked, KeysApart, NEW q \in Requests, HitRule(q)
    PROVE  StepTracks(q)
  <1> DEFINE es == evals[q]
             l == es[Len(es)].limiter
             td == todo[q]
             i == Head(td)
             t == target[q]
             paid == asked[q]
             h == <<l, i>>
             s == Serving(l, i)
             c == <<s, KeyOf(l, i, t)>>
             ds == HitDecides(l, i, s, c)
  <1>1. /\ pc[q] \in {"plugin", "macro"} /\ td # <<>>
        /\ pc' = pc /\ at' = at
        /\ todo' = [todo EXCEPT ![q] = Tail(td)]
        /\ asked' = [asked EXCEPT ![q] = Append(paid, h)]
        /\ count' = IF s = NoStore THEN count ELSE Charged(c)
    BY DEF HitRule
  <1>2. evals' = [evals EXCEPT ![q] = Grown(es, ds)]
    BY DEF HitRule, HitDecides, Grown
  <1>3. /\ l \in Limiters /\ l \in Nat /\ i \in Applying(l, t) /\ i \in RuleIndices(l)
        /\ pc[q] = "plugin" => l = at[q]
        /\ phase \in Open /\ t \in app.targets /\ es # <<>>
    BY <1>1, InHandApplies
  <1>4. /\ RulesKept /\ RequestsTyped /\ asked \in [Requests -> Seq(Hits)] /\ paid \in Seq(Hits)
        /\ Asks(pc[q], at[q], td, paid) /\ Marked(asked, es) /\ FinitelyMany(asked)
        /\ es \in Evals(World) /\ td \in Seq(Int) /\ World.decisions = Decisions
    BY TrackingFacts
  <1>5. todo'[q] = Tail(td) /\ evals'[q] = Grown(es, ds) /\ asked'[q] = Append(paid, h)
    BY <1>1, <1>2, <1>4 DEF RequestsTyped
  <1>6. /\ h \notin ToSet(paid) /\ h \in Hits
        /\ Asks(pc[q], at[q], Tail(td), Append(paid, h))
    <2> DEFINE label == pc[q]
               a == at[q]
    <2>1. /\ label \in {"plugin", "macro"} /\ td # <<>> /\ td \in Seq(Int) /\ paid \in Seq(Hits)
          /\ Asks(label, a, td, paid) /\ l \in Nat /\ (label = "plugin" => l = a) /\ h = <<l, Head(td)>>
      BY <1>1, <1>3, <1>4
    <2> HIDE DEF label, a, td, paid, l, h
    <2>2. /\ h \notin ToSet(paid) /\ h \in Hits
          /\ Asks(label, a, Tail(td), Append(paid, h))
      BY <2>1, HitAsks
    <2> QED
      BY <2>2 DEF label, a
  <1>7. s # NoStore => s \in StoresOf(l, i)
    <2> HIDE DEF l, i
    <2> QED
      BY <1>3, <1>4, StoreFacts
  <1>8. /\ FinitelyMany(asked') /\ Grows(asked, asked') /\ CountsAskers(World, count', asked')
        /\ s # NoStore => Counted(c) + 1 <= Cardinality(AskersOf(asked', h))
    <2> DEFINE miss == s = NoStore
    <2>1. /\ miss \in BOOLEAN /\ (miss => count' = count)
          /\ ~miss => s \in StoresOf(l, i) /\ count' = Charged(c)
      BY <1>1, <1>7
    <2>2. /\ h = <<l, i>> /\ c = <<s, KeyOf(l, i, target[q])>>
          /\ asked' = [asked EXCEPT ![q] = Append(asked[q], h)] /\ h \notin ToSet(asked[q])
          /\ i \in Applying(l, target[q]) /\ target[q] \in app.targets
      BY <1>1, <1>3, <1>6
    <2> HIDE DEF miss, s, c, h, l, i, td, es, t, paid
    <2>3. /\ FinitelyMany(asked') /\ Grows(asked, asked') /\ CountsAskers(World, count', asked')
          /\ ~miss => Counted(c) + 1 <= Cardinality(AskersOf(asked', h))
      BY <1>3, <1>6, <2>1, <2>2, ChargeTracks
    <2> QED
      BY <2>3 DEF miss
  <1>9. Counted(c) + 1 \in Nat
    <2>1. Counted(c) \in Nat
      BY <1>4 DEF Counted, RequestsTyped
    <2> HIDE DEF c
    <2> QED
      BY <2>1
  <1>10. ds \in Seq(World.decisions) /\ \A m \in DOMAIN ds : Earned(asked', ds[m])
    <2>1. s = Serving(l, i) /\ h = <<l, i>>
      OBVIOUS
    <2> HIDE DEF l, i, t, s, c, h
    <2>2. s # NoStore => Counted(c) + 1 \in Nat
                         /\ Counted(c) + 1 <= Cardinality(AskersOf(asked', <<l, i>>))
      BY <1>8, <1>9, <2>1
    <2>3. \A m \in DOMAIN ds : Earned(asked', ds[m])
      BY <1>3, <1>4, <2>2, HitEarned
    <2>4. ds \in Seq(World.decisions)
      BY <1>3, <1>4, <2>1, HitFacts
    <2> QED
      BY <2>3, <2>4
  <1>11. Marked(asked', Grown(es, ds))
    <2> DEFINE bs == asked'
               as == asked
               W == World
    <2>1. /\ es \in Evals(W) /\ FinitelyMany(as) /\ FinitelyMany(bs) /\ Grows(as, bs) /\ Marked(as, es)
          /\ \A d \in W.decisions : d.limit \in Nat /\ d.remaining \in Nat
          /\ es # <<>> /\ ds \in Seq(W.decisions) /\ \A m \in DOMAIN ds : Earned(bs, ds[m])
      BY <1>3, <1>4, <1>8, <1>10, DecisionsCount
    <2> HIDE DEF bs, as, W, es, ds
    <2>2. Marked(bs, es)
      BY <2>1, StaysMarked
    <2>3. Marked(bs, Grown(es, ds))
      BY <2>1, <2>2, GrownMarked
    <2> QED
      BY <2>3 DEF bs
  <1>12. Asks(pc'[q], at'[q], todo'[q], asked'[q]) /\ Marked(asked', evals'[q])
    BY <1>1, <1>5, <1>6, <1>11
  <1> QED
    BY <1>8, <1>12, Zenon DEF StepTracks

LEMMA FastRequestTracks ==
    ASSUME Tracked, KeysApart, NEW q \in Requests, FastRequest(q)
    PROVE  StepTracks(q)
  <1> DEFINE a == at[q]
             t == target[q]
             es == evals[q]
             td == todo[q]
             paid == asked[q]
             h == <<a, 1>>
             s == RuleStore(a, 1)
             c == <<s, KeyOf(a, 1, t)>>
             d == ToDecision(a, 1, Counted(c) + 1)
             e == [limiter |-> a, macro |-> FALSE, decisions |-> <<d>>]
             allowed == [f \in Families |-> FastAllowed(a, f)]
  <1>1. /\ pc[q] = "onRequest" /\ a \in Limiters /\ FastEligible(a) /\ FastHandle(q)
        /\ todo' = todo
    BY DEF FastRequest
  <1>2. /\ RequestsTyped /\ RulesKept /\ phase \in Open /\ t \in app.targets
        /\ asked \in [Requests -> Seq(Hits)] /\ paid \in Seq(Hits) /\ a \in Int
        /\ World.last = LastLimiter /\ LastLimiter \in Nat \ {0} /\ Limiters = 1 .. LastLimiter
        /\ World.decisions = Decisions /\ es \in Evals(World)
        /\ Asks("onRequest", a, td, paid) /\ Marked(asked, es) /\ FinitelyMany(asked)
    BY <1>1, TrackingFacts
  <1>3. CASE ~MethodMatches(t[1], RuleOf(a, 1))
    <2>1. /\ pc' = [pc EXCEPT ![q] = "onRequest"] /\ at' = [at EXCEPT ![q] = a + 1]
          /\ evals' = evals /\ asked' = asked /\ count' = count
      BY <1>1, <1>3 DEF FastHandle, GoOn, Goto
    <2>2. pc'[q] = "onRequest" /\ at'[q] = a + 1
      BY <1>2, <2>1 DEF RequestsTyped
    <2>3. Asks("onRequest", a + 1, td, paid)
      BY <1>2, PassAsking
    <2> QED
      BY <1>1, <1>2, <2>1, <2>2, <2>3, QuietTracks
  <1>4. CASE MethodMatches(t[1], RuleOf(a, 1))
    <2>1. /\ count' = Charged(c)
          /\ asked' = [asked EXCEPT ![q] = Append(paid, h)]
          /\ evals' = [evals EXCEPT ![q] = Append(es, e)]
          /\ IF d.blocked THEN Limited(q, a, d, allowed) /\ at' = at ELSE GoOn(q)
      <3>1. count' = Charged(c)
        BY <1>1, <1>4 DEF FastHandle
      <3>2. asked' = [asked EXCEPT ![q] = Append(paid, h)]
        BY <1>1, <1>4 DEF FastHandle
      <3>3. evals' = [evals EXCEPT ![q] = Append(es, e)]
        BY <1>1, <1>4 DEF FastHandle
      <3>4. IF d.blocked THEN Limited(q, a, d, allowed) /\ at' = at ELSE GoOn(q)
        BY <1>1, <1>4 DEF FastHandle
      <3> QED
        BY <3>1, <3>2, <3>3, <3>4
    <2>2. 1 \in RuleIndices(a) /\ s \in StoresOf(a, 1) /\ 1 \in Applying(a, t)
      <3>1. Due(a, t) = << 1 >>
        <4>1. Due(a, t) = IF MethodMatches(t[1], RuleOf(a, 1)) THEN <<1>> ELSE <<>>
          <5> HIDE DEF a, t
          <5> QED
            BY <1>1, <1>2, FastOwes
        <4> QED
          BY <1>4, <4>1
      <3>2. 1 \in RuleIndices(a) /\ s \in StoresOf(a, 1)
        /\ ToSet(Due(a, t)) = IF MethodMatches(t[1], RuleOf(a, 1)) THEN {1} ELSE {}
        <4> HIDE DEF a, t
        <4> QED
          BY <1>1, <1>2, FastFacts DEF s
      <3> HIDE DEF a, t
      <3>3. 1 \in ToSet(Due(a, t))
        BY <1>4, <3>2
      <3> QED
        BY <3>2, <3>3 DEF Applying
    <2>3. a \in Nat
      BY <1>1, <1>2
    <2>4. /\ h \notin ToSet(paid) /\ h \in Hits
          /\ Asks("onRequest", a + 1, td, Append(paid, h)) /\ Asks("done", a, td, Append(paid, h))
      <3>1. h = <<a, 1>> /\ Asks("onRequest", a, td, paid) /\ paid \in Seq(Hits)
        BY <1>2
      <3> HIDE DEF a, td, paid, h
      <3> QED
        BY <2>3, <3>1, FastAsks
    <2>5. /\ FinitelyMany(asked') /\ Grows(asked, asked') /\ CountsAskers(World, count', asked')
          /\ Counted(c) + 1 <= Cardinality(AskersOf(asked', h))
      <3> DEFINE i == 1
                 miss == FALSE
      <3>1. /\ h = <<a, i>> /\ c = <<s, KeyOf(a, i, target[q])>> /\ h \in Hits /\ h \notin ToSet(asked[q])
            /\ asked' = [asked EXCEPT ![q] = Append(asked[q], h)]
            /\ i \in Applying(a, target[q]) /\ target[q] \in app.targets /\ a \in Limiters
            /\ miss \in BOOLEAN /\ (miss => count' = count)
            /\ ~miss => s \in StoresOf(a, i) /\ count' = Charged(c)
        BY <1>1, <1>2, <2>1, <2>2, <2>4
      <3> HIDE DEF i, miss, s, c, h, a, td, t, paid
      <3>2. /\ FinitelyMany(asked') /\ Grows(asked, asked') /\ CountsAskers(World, count', asked')
            /\ ~miss => Counted(c) + 1 <= Cardinality(AskersOf(asked', h))
        BY <1>2, <3>1, ChargeTracks
      <3>3. ~miss
        BY DEF miss
      <3> QED
        BY <3>2, <3>3
    <2>6. Earned(asked', d) /\ d \in Decisions
      <3>1. Counted(c) + 1 \in Nat
        <4>1. Counted(c) \in Nat
          BY <1>2 DEF Counted, RequestsTyped
        <4> QED
          BY <4>1
      <3>2. Counted(c) + 1 <= Cardinality(AskersOf(asked', <<a, 1>>))
        BY <2>5
      <3> DEFINE n == Counted(c) + 1
                 bs == asked'
      <3>3. n \in Nat /\ n <= Cardinality(AskersOf(bs, <<a, 1>>)) /\ d = ToDecision(a, 1, n)
        BY <3>1, <3>2
      <3> HIDE DEF n, bs, a, c, d
      <3>4. Earned(bs, ToDecision(a, 1, n)) /\ ToDecision(a, 1, n) \in Decisions
        BY <1>1, <1>2, <2>2, <3>3, DecisionEarned, ToDecisionIs
      <3> QED
        BY <3>3, <3>4 DEF bs
    <2> HIDE DEF d
    <2>7. e \in Evaluation(World) /\ \A m \in DOMAIN e.decisions : Earned(asked', e.decisions[m])
      <3> DEFINE ds == <<d>>
      <3>1. ds \in Seq(World.decisions) /\ a \in 1 .. World.last /\ DOMAIN ds = {1} /\ ds[1] = d
        BY <1>1, <1>2, <2>6, Single
      <3>2. e.decisions = ds
        OBVIOUS
      <3> HIDE DEF ds
      <3>3. e \in Evaluation(World)
        BY <3>1 DEF Evaluation, ds
      <3> HIDE DEF e
      <3>4. \A m \in DOMAIN e.decisions : Earned(asked', e.decisions[m])
        BY <2>6, <3>1, <3>2
      <3> QED
        BY <3>3, <3>4
    <2> HIDE DEF e
    <2>8. Marked(asked', Append(es, e))
      <3> DEFINE bs == asked'
                 as == asked
                 W == World
      <3>1. /\ es \in Evals(W) /\ FinitelyMany(as) /\ FinitelyMany(bs) /\ Grows(as, bs) /\ Marked(as, es)
            /\ \A x \in W.decisions : x.limit \in Nat /\ x.remaining \in Nat
            /\ e \in Evaluation(W) /\ \A m \in DOMAIN e.decisions : Earned(bs, e.decisions[m])
        BY <1>2, <2>5, <2>7, DecisionsCount
      <3> HIDE DEF bs, as, W, es
      <3>2. Marked(bs, es)
        BY <3>1, StaysMarked
      <3>3. Marked(bs, Append(es, e))
        BY <3>1, <3>2, AppendMarked
      <3> QED
        BY <3>3 DEF bs
    <2>9. asked'[q] = Append(paid, h) /\ evals'[q] = Append(es, e) /\ todo'[q] = td
      BY <1>1, <1>2, <2>1 DEF RequestsTyped
    <2>10. \/ pc'[q] = "done" /\ at'[q] = a
           \/ pc'[q] = "onRequest" /\ at'[q] = a + 1
      <3>1. CASE d.blocked
        <4>1. pc' = [pc EXCEPT ![q] = "done"] /\ at' = at
          BY <2>1, <3>1 DEF Limited, Goto
        <4> QED
          BY <1>2, <4>1 DEF RequestsTyped
      <3>2. CASE ~d.blocked
        <4>1. /\ pc' = [pc EXCEPT ![q] = "onRequest"] /\ at' = [at EXCEPT ![q] = a + 1]
          BY <1>1, <2>1, <3>2 DEF GoOn, Goto
        <4> QED
          BY <1>2, <4>1 DEF RequestsTyped
      <3> QED
        BY <3>1, <3>2
    <2>11. Asks(pc'[q], at'[q], todo'[q], asked'[q])
      BY <2>4, <2>9, <2>10
    <2>12. Marked(asked', evals'[q])
      BY <2>8, <2>9
    <2> QED
      BY <2>5, <2>11, <2>12 DEF StepTracks
  <1> QED
    BY <1>3, <1>4

\* Before the first request nothing has been hit.
LEMMA NoneAsked ==
    ASSUME NEW W, NEW ct, DOMAIN ct = {}, NEW as, \A q \in Requests : as[q] = <<>>
    PROVE  FinitelyMany(as) /\ CountsAskers(W, ct, as)
  <1>1. ToSet(<<>>) = {}
    BY DEF ToSet
  <1>2. \A x : AskersOf(as, x) = {}
    BY <1>1 DEF AskersOf
  <1>3. IsFiniteSet({}) /\ Cardinality({}) = 0
    BY FS_EmptySet
  <1>4. FinitelyMany(as)
    BY <1>2, <1>3 DEF FinitelyMany
  <1>5. \A d : Held(ct, d) = 0
    BY DEF Held
  <1>6. \A x : Cardinality(AskersOf(as, x)) = 0
    BY <1>2, <1>3
  <1>7. CountsAskers(W, ct, as)
    <2>1. ASSUME NEW d, NEW x PROVE Held(ct, d) <= Cardinality(AskersOf(as, x))
      <3> DEFINE n == Held(ct, d)
                 m == Cardinality(AskersOf(as, x))
      <3>1. n = 0 /\ m = 0
        BY <1>5, <1>6
      <3> HIDE DEF n, m
      <3>2. n <= m
        BY <3>1
      <3> QED
        BY <3>2 DEF n, m
    <2> QED
      BY <2>1 DEF CountsAskers
  <1> QED
    BY <1>4, <1>7

LEMMA TrackStart == Init => Tracked
  <1> SUFFICES ASSUME Init PROVE Tracked
    OBVIOUS
  <1>1. AllPay
    BY PayStart
  <1>2. /\ pc = [q \in Requests |-> "idle"] /\ evals = [q \in Requests |-> <<>>]
        /\ todo = [q \in Requests |-> <<>>] /\ asked = [q \in Requests |-> <<>>]
        /\ count = [c \in {} |-> 0] /\ phase = "installing"
    BY DEF Init
  <1>3. phase \notin Open /\ DOMAIN count = {}
    BY <1>2 DEF Open
  <1>4. FinitelyMany(asked)
    BY <1>2, <1>3, NoneAsked
  <1>5. ASSUME NEW q \in Requests PROVE Asks(pc[q], at[q], todo[q], asked[q]) /\ Marked(asked, evals[q])
    <2>1. pc[q] = "idle" /\ evals[q] = <<>> /\ todo[q] = <<>> /\ asked[q] = <<>>
      BY <1>2
    <2>2. DOMAIN <<>> = {} /\ ToSet(<<>>) = {}
      BY DEF ToSet
    <2>3. Asks("idle", at[q], <<>>, <<>>)
      BY <2>2 DEF Asks, IsInjective
    <2>4. Marked(asked, <<>>)
      BY <2>2 DEF Marked
    <2> QED
      BY <2>1, <2>3, <2>4
  <1> QED
    BY <1>1, <1>3, <1>4, <1>5 DEF Tracked

\* While the application is set up nothing is hit.
LEMMA SetUpTracks ==
    ASSUME Tracked, AllPay', phase \notin Open, UNCHANGED request
    PROVE  Tracked'
  <1>1. /\ pc' = pc /\ at' = at /\ todo' = todo /\ evals' = evals /\ asked' = asked /\ count' = count
    BY DEF request
  <1>2. /\ DOMAIN count = {} /\ FinitelyMany(asked)
        /\ \A q \in Requests : Asks(pc[q], at[q], todo[q], asked[q]) /\ Marked(asked, evals[q])
    BY DEF Tracked
  <1>3. \A q \in Requests : asked[q] = <<>>
    BY DEF Tracked, AllPay, Served, Pays, Tallied
  <1>4. CountsAskers(World', count', asked')
    <2> DEFINE W == World'
    <2> HIDE DEF W
    <2>1. CountsAskers(W, count, asked)
      BY <1>2, <1>3, NoneAsked
    <2> QED
      BY <1>1, <2>1 DEF W
  <1> QED
    BY <1>1, <1>2, <1>4 DEF Tracked

\* A stop hits nothing.
LEMMA StopTracks ==
    ASSUME Tracked, AllPay', World' = World, phase' \in Open <=> phase \in Open, UNCHANGED request
    PROVE  Tracked'
  <1>1. /\ pc' = pc /\ at' = at /\ todo' = todo /\ evals' = evals /\ asked' = asked /\ count' = count
    BY DEF request
  <1>2. CountsAskers(World, count, asked)' <=> CountsAskers(World, count, asked)
    <2> DEFINE W == World
    <2> HIDE DEF W
    <2>1. CountsAskers(W', count', asked') <=> CountsAskers(W, count, asked)
      BY <1>1 DEF W
    <2> QED
      BY <2>1 DEF W
  <1> QED
    BY <1>1, <1>2 DEF Tracked

\* A step of one request leaves what the others have hit alone.
LEMMA OthersTrack ==
    ASSUME Tracked, AllPay', UNCHANGED setup, phase \in Open, NEW q \in Requests,
           StepKeeps(q), StepPays(q), StepTracks(q)
    PROVE  Tracked'
  <1>1. World' = World /\ phase' = phase
    <2>1. app' = app /\ rules' = rules /\ registry' = registry /\ phase' = phase
      BY DEF setup
    <2> QED
      BY <2>1, WorldStays
  <1>2. /\ FinitelyMany(asked') /\ Grows(asked, asked')
        /\ Asks(pc'[q], at'[q], todo'[q], asked'[q]) /\ Marked(asked', evals'[q])
        /\ CountsAskers(World, count', asked')
    BY DEF StepTracks
  <1>3. ASSUME NEW p \in Requests
        PROVE  Asks(pc'[p], at'[p], todo'[p], asked'[p]) /\ Marked(asked', evals'[p])
    <2>1. CASE p = q
      BY <1>2, <2>1
    <2>2. CASE p # q
      <3>1. /\ pc'[p] = pc[p] /\ at'[p] = at[p] /\ todo'[p] = todo[p] /\ evals'[p] = evals[p]
        BY <2>2 DEF StepKeeps
      <3>2. asked'[p] = asked[p]
        BY <2>2 DEF StepPays
      <3>3. /\ Asks(pc[p], at[p], todo[p], asked[p]) /\ Marked(asked, evals[p]) /\ FinitelyMany(asked)
            /\ evals[p] \in Evals(World) /\ World.decisions = Decisions
        BY TrackingFacts
      <3>4. Marked(asked', evals[p])
        <4> DEFINE W == World
                   bs == asked'
        <4>1. /\ evals[p] \in Evals(W) /\ FinitelyMany(bs) /\ Grows(asked, bs)
              /\ \A x \in W.decisions : x.limit \in Nat /\ x.remaining \in Nat
          BY <1>2, <3>3, DecisionsCount
        <4> HIDE DEF W, bs
        <4>2. Marked(bs, evals[p])
          BY <3>3, <4>1, StaysMarked
        <4> QED
          BY <4>2 DEF bs
      <3> QED
        BY <3>1, <3>2, <3>3, <3>4
    <2> QED
      BY <2>1, <2>2
  <1>4. CountsAskers(World', count', asked')
    BY <1>1, <1>2
  <1> QED
    BY <1>1, <1>2, <1>3, <1>4 DEF Tracked

LEMMA TrackedInductive == Tracked /\ KeysApart /\ [Next]_vars => Tracked'
  <1> SUFFICES ASSUME Tracked, KeysApart, [Next]_vars PROVE Tracked'
    OBVIOUS
  <1>0. /\ AllPay /\ AllPay' /\ Served
        /\ RegistriesKept /\ app \in Applications
    <2>1. AllPay /\ AllPay' /\ Served
      BY AllPayInductive DEF Tracked, AllPay
    <2> QED
      BY <2>1 DEF Served, RulesKept, RegistriesKept
  <1>1. CASE Install
    BY <1>0, <1>1, SetUpTracks DEF Install, Open
  <1>2. CASE Declare
    BY <1>0, <1>2, SetUpTracks DEF Declare, Open
  <1>3. CASE Stop
    <2>1. /\ app' = app /\ rules' = rules /\ registry' = registry /\ phase' = "stopping"
          /\ phase = "serving" /\ UNCHANGED request
      BY <1>3 DEF Stop
    <2>2. World' = World
      BY <2>1, WorldStays
    <2>3. phase' \in Open <=> phase \in Open
      BY <2>1 DEF Open
    <2> QED
      BY <1>0, <2>1, <2>2, <2>3, StopTracks
  <1>4. CASE OnStop
    <2>1. app' = app /\ rules' = rules /\ phase = "stopping" /\ UNCHANGED request
      BY <1>4 DEF OnStop
    <2>2. /\ phase' \in Open /\ phase \in Open
          /\ \A l \in DOMAIN registry : /\ registry'[l].cache = registry[l].cache
                                        /\ registry'[l].fallback = registry[l].fallback
      BY <1>0, <1>4, OnStopKeepsStores
    <2>3. Limiters = DOMAIN registry
      <3>1. registry \in Seq(Registries) /\ Len(registry) = Len(app.limiters)
        BY <1>0, <2>1 DEF RegistriesKept, Installed
      <3>2. Limiters = 1 .. Len(app.limiters)
        BY <1>0, ApplicationFacts DEF Limiters
      <3> QED
        BY <3>1, <3>2
    <2>4. World' = World
      BY <2>1, <2>2, <2>3, WorldStays
    <2> QED
      BY <1>0, <2>1, <2>2, <2>4, StopTracks
  <1>5. ASSUME NEW q \in Requests, RequestStep(q) PROVE Tracked'
    <2>1. UNCHANGED setup
      BY <1>5 DEF RequestStep, Receive, FastRequest, OnRequest, BeforeHandle, HitRule, Conclude,
                  HandlerThrows, Respond
    <2>2. StepKeeps(q)
      BY <1>0, <1>5, ReceiveKeeps, FastRequestKeeps, OnRequestKeeps, BeforeHandleKeeps,
         HitRuleKeeps, ConcludeKeeps, HandlerThrowsKeeps, RespondKeeps DEF RequestStep
    <2>3. StepPays(q)
      BY <1>0, <1>5, ReceivePays, FastRequestPays, OnRequestPays, BeforeHandlePays, HitRulePays,
         ConcludePays, AnswerPays DEF RequestStep
    <2>4. StepTracks(q)
      BY <1>5, ReceiveTracks, FastRequestTracks, OnRequestTracks, BeforeHandleTracks, HitRuleTracks,
         ConcludeTracks, AnswerTracks DEF RequestStep
    <2>5. phase \in Open
      <3>1. pc[q] # "idle" => phase \in Open
        BY TrackingFacts, Zenon
      <3>2. phase = "serving" \/ pc[q] # "idle"
        BY <1>5 DEF RequestStep, Receive, FastRequest, OnRequest, BeforeHandle, HitRule, Conclude,
                    HandlerThrows, Respond
      <3> QED
        BY <3>1, <3>2 DEF Open
    <2> QED
      BY <1>0, <2>1, <2>2, <2>3, <2>4, <2>5, OthersTrack, Zenon
  <1>6. CASE UNCHANGED vars
    <2>1. /\ app' = app /\ rules' = rules /\ registry' = registry /\ phase' = phase
          /\ UNCHANGED request
      BY <1>6 DEF vars, request
    <2>2. World' = World
      BY <2>1, WorldStays
    <2> QED
      BY <1>0, <2>1, <2>2, StopTracks
  <1> QED
    BY <1>1, <1>2, <1>3, <1>4, <1>5, <1>6 DEF Next

\* Decision d is fit to be shown in an answer, after evaluations es.
Honest(d, limited, es, as) ==
    /\ d.blocked <=> limited
    /\ \/ d.limit - d.remaining <= Cardinality({p \in Requests : <<d.limiter, d.rule>> \in ToSet(as[p])})
       \/ d.blocked
    /\ \E n \in DOMAIN es :
          LET ds == ToSet(es[n].decisions)
          IN  d \in ds /\ (\A e \in ds : e.blocked => d.blocked) /\ \A e \in ds : d.remaining <= e.remaining

\* The headers are honest for as long as no two rules count under one key.
LEMMA HonestWhereApart == Spec /\ []KeysApart => []HeadersHonest
  <1>1. AllTold /\ Tracked => HeadersHonest
    <2> SUFFICES ASSUME AllTold, Tracked, NEW q \in Requests, pc[q] = "done"
                 PROVE  /\ response[q].status = 429 <=> \E d \in AllDecisions(q) : d.blocked
                        /\ response[q].status = 429 => response[q].retryAfter >= 1
                        /\ \A f \in Families : LET d == response[q].headers[f] IN
                              d # NoDecision =>
                                  /\ d.blocked <=> response[q].status = 429
                                  /\ d.limit - d.remaining <=
                                        Cardinality({p \in Requests :
                                                        <<d.limiter, d.rule>> \in ToSet(asked[p])})
                                     \/ d.blocked
                                  /\ \E n \in DOMAIN evals[q] :
                                        LET ds == ToSet(evals[q][n].decisions)
                                        IN  /\ d \in ds
                                            /\ \A e \in ds : e.blocked => d.blocked
                                            /\ \A e \in ds : d.remaining <= e.remaining
      BY DEF HeadersHonest, Answered
    <2> DEFINE es == evals[q]
               r == response[q]
               C == Course
               t == target[q]
    <2>1. /\ Told(C, t, es, r) /\ es \in Evals(World) /\ Marked(asked, es)
          /\ World.last = LastLimiter
      BY TellingFacts, TrackingFacts DEF Tells, Story
    <2>2. \A n \in DOMAIN es : ToSet(es[n].decisions) = {es[n].decisions[m] : m \in DOMAIN es[n].decisions}
      BY DEF ToSet
    <2>3. ASSUME NEW d
          PROVE  d \in AllDecisions(q) <=> \E n \in DOMAIN es : \E m \in DOMAIN es[n].decisions :
                                              d = es[n].decisions[m]
      BY <2>2 DEF AllDecisions
    <2> DEFINE All == AllDecisions(q)
    <2> HIDE DEF All
    <2>4. \A d : d \in All <=> \E n \in DOMAIN es : \E m \in DOMAIN es[n].decisions :
                                              d = es[n].decisions[m]
      BY <2>3 DEF All
    <2> HIDE DEF es, r, C, t
    <2>5. es # <<>> => Len(es) \in DOMAIN es
      <3> DEFINE R == [limiter : 1 .. World.last, macro : BOOLEAN, decisions : Seq(World.decisions)]
      <3>1. es \in Seq(R)
        BY <2>1 DEF Evals
      <3> HIDE DEF R
      <3> QED
        BY <3>1, EmptySeq, LenProperties
    <2>6. r.status = 429 => /\ r.retryAfter = 1
                            /\ \E d \in All : d.blocked
                            /\ \A f \in Families : r.headers[f] # NoDecision =>
                                  r.headers[f].blocked /\ \E n \in DOMAIN es : Backs(es[n], r.headers[f])
      <3> SUFFICES ASSUME r.status = 429
                   PROVE  /\ r.retryAfter = 1
                          /\ \E d \in All : d.blocked
                          /\ \A f \in Families : r.headers[f] # NoDecision =>
                                r.headers[f].blocked /\ \E n \in DOMAIN es : Backs(es[n], r.headers[f])
        OBVIOUS
      <3>1. ToldLimit(C, t, es, r)
        BY <2>1 DEF Told
      <3>2. es # <<>> /\ r.retryAfter = 1
        BY <3>1 DEF ToldLimit
      <3> DEFINE N == Len(es)
      <3>3. PICK m \in DOMAIN es[N].decisions :
                /\ Backs(es[N], es[N].decisions[m]) /\ es[N].decisions[m].blocked
                /\ \A f \in Families : r.headers[f] = IF AllowsIn(C, t, es[N])[f] THEN es[N].decisions[m]
                                                      ELSE NoDecision
        BY <3>1 DEF ToldLimit
      <3>4. N \in DOMAIN es
        BY <2>5, <3>2
      <3> HIDE DEF N
      <3>5. \E d \in All : d.blocked
        BY <2>4, <3>3, <3>4
      <3>6. ASSUME NEW f \in Families, r.headers[f] # NoDecision
            PROVE  r.headers[f].blocked /\ \E n \in DOMAIN es : Backs(es[n], r.headers[f])
        <4>1. r.headers[f] = es[N].decisions[m]
          BY <3>3, <3>6
        <4> QED
          BY <3>3, <3>4, <4>1
      <3> QED
        BY <3>2, <3>5, <3>6
    <2>7. r.status # 429 => /\ \A d \in All : ~d.blocked
                            /\ \A f \in Families : r.headers[f] # NoDecision =>
                                  \E n \in DOMAIN es : Backs(es[n], r.headers[f])
      <3>1. r.status # 429 => /\ NoneBlocked(es, DOMAIN es)
                              /\ \A f \in Families : r.headers[f] # NoDecision =>
                                    \E n \in DOMAIN es : Backs(es[n], r.headers[f])
        BY <2>1 DEF Told, ToldAll, ToldNothing
      <3> QED
        BY <2>4, <3>1 DEF NoneBlocked
    <2>8. r.status = 429 <=> \E d \in All : d.blocked
      BY <2>6, <2>7
    <2>9. r.status = 429 => r.retryAfter >= 1
      BY <2>6
    <2>10. ASSUME NEW f \in Families, r.headers[f] # NoDecision
           PROVE  Honest(r.headers[f], r.status = 429, es, asked)
      <3> DEFINE d == r.headers[f]
      <3>1. PICK n \in DOMAIN es : Backs(es[n], d)
        BY <2>6, <2>7, <2>10
      <3>9. d = r.headers[f]
        OBVIOUS
      <3> HIDE DEF d
      <3>2. PICK m \in DOMAIN es[n].decisions : es[n].decisions[m] = d
        BY <3>1 DEF Backs
      <3>3. d \in All
        BY <2>4, <3>2
      <3>4. d.blocked <=> r.status = 429
        BY <2>6, <2>7, <2>10, <3>9, <3>3
      <3>5. Earned(asked, d)
        BY <2>1, <3>2 DEF Marked
      <3>6. \/ d.limit - d.remaining <=
                    Cardinality({p \in Requests : <<d.limiter, d.rule>> \in ToSet(asked[p])})
            \/ d.blocked
        BY <3>5 DEF Earned, AskersOf
      <3>7. LET ds == ToSet(es[n].decisions)
            IN  /\ d \in ds
                /\ \A e \in ds : e.blocked => d.blocked
                /\ \A e \in ds : d.remaining <= e.remaining
        <4>1. ToSet(es[n].decisions) = {es[n].decisions[k] : k \in DOMAIN es[n].decisions}
          BY DEF ToSet
        <4>2. \A k \in DOMAIN es[n].decisions : /\ es[n].decisions[k].blocked => d.blocked
                                                /\ d.remaining <= es[n].decisions[k].remaining
          BY <3>1 DEF Backs
        <4> QED
          BY <3>2, <4>1, <4>2
      <3>8. Honest(d, r.status = 429, es, asked)
        BY <3>4, <3>6, <3>7 DEF Honest
      <3> QED
        BY <3>8 DEF d
    <2>11. /\ response[q].status = 429 <=> \E d \in AllDecisions(q) : d.blocked
           /\ response[q].status = 429 => response[q].retryAfter >= 1
      BY <2>8, <2>9 DEF All, r
    <2>12. ASSUME NEW f \in Families, response[q].headers[f] # NoDecision
           PROVE  Honest(response[q].headers[f], response[q].status = 429, evals[q], asked)
      BY <2>10, <2>12 DEF r, es
    <2> QED
      BY <2>11, <2>12 DEF Honest
  <1>2. Spec => []AllTold
    BY TellStart, AllToldInductive, PTL DEF Spec
  <1>3. Spec /\ []KeysApart => []Tracked
    BY TrackStart, TrackedInductive, PTL DEF Spec
  <1> QED
    BY <1>1, <1>2, <1>3, PTL

-----------------------------------------------------------------------------
(* Which options keep the rules' counts apart.                             *)

\* A fallback store of the user's own is the one the limiter's options give.
FallbackKept ==
    \A l \in DOMAIN registry :
        registry[l].fallback \in CustomStores =>
            app.limiters[l].fallbackStore = CustomConfig(registry[l].fallback)

\* A custom configuration is the store's that it holds.
LEMMA CustomConfigs ==
    ASSUME NEW c, c \in StoreConfigs \/ c.kind # "custom", c.kind = "custom"
    PROVE  c = CustomConfig(c.store) /\ c.store \in CustomStores
  BY DEF StoreConfigs, CustomConfig

\* The fallback store comes with the registry ...
LEMMA FallbackCreated ==
    ASSUME NEW l \in Nat \ {0}, NEW o, HasStoreOptions(o),
           CreateStoreRegistry(l, o).fallback \in CustomStores
    PROVE  o.fallbackStore = CustomConfig(CreateStoreRegistry(l, o).fallback)
  <1> DEFINE e == EmptyRegistry(l)
             b == Built(e, o.fallbackStore)
             f == BuildStore(e, o.fallbackStore)
  <1>1. o.fallbackStore \in StoreConfigs \cup {NoFallback, MemoryFallback}
    BY DEF HasStoreOptions
  <1>2. NoStore \notin CustomStores
    BY CustomObjects DEF NoStore
  <1>3. e.fallback = NoStore /\ e.owner = l /\ e.built = 0
    BY DEF EmptyRegistry
  <1>4. o.fallbackStore # NoFallback
    BY <1>2, <1>3 DEF CreateStoreRegistry
  <1>5. CreateStoreRegistry(l, o).fallback = f
    <2> DEFINE n == RegisterStore(b, f, o.cleanupInterval)
    <2>1. CreateStoreRegistry(l, o) = [n EXCEPT !.fallback = f]
      BY <1>4 DEF CreateStoreRegistry
    <2>2. "fallback" \in DOMAIN n
      BY DEF RegisterStore, Built, EmptyRegistry
    <2> HIDE DEF n, f
    <2> QED
      BY <2>1, <2>2
  <1>6. o.fallbackStore.kind = "custom"
    <2> SUFFICES ASSUME o.fallbackStore.kind # "custom" PROVE FALSE
      OBVIOUS
    <2>1. f = <<l, 1>>
      BY <1>3 DEF BuildStore
    <2>2. <<l, 1>> \in Nat \X Nat
      OBVIOUS
    <2> QED
      BY <1>5, <2>1, <2>2, CustomObjects
  <1>7. o.fallbackStore = CustomConfig(o.fallbackStore.store)
    BY <1>1, <1>6, CustomConfigs DEF NoFallback, MemoryFallback
  <1>8. f = o.fallbackStore.store
    BY <1>6 DEF BuildStore
  <1> QED
    BY <1>5, <1>7, <1>8

\* ... and nothing replaces it.
LEMMA FallbackInductive == RulesKept /\ FallbackKept /\ [Next]_vars => FallbackKept'
  <1> SUFFICES ASSUME RulesKept, FallbackKept, [Next]_vars PROVE FallbackKept'
    OBVIOUS
  <1> DEFINE N == Len(app.limiters)
  <1>0. /\ RegistriesKept /\ app \in Applications /\ registry \in Seq(Registries)
    BY DEF RulesKept, RegistriesKept
  <1>1. CASE Install
    <2> DEFINE l == Len(registry) + 1
               o == app.limiters[l]
               r == CreateStoreRegistry(l, o)
               out == WithStoresFor(r, CompileRules(o), o)
    <2>1. app' = app /\ (registry' = registry \/ registry' = Append(registry, out.registry))
      BY <1>1 DEF Install
    <2>2. l \in 1 .. N /\ l \in Nat \ {0} /\ Len(registry) \in Nat
      <3>1. phase = "installing" /\ Len(registry) < N /\ N \in Nat
        BY <1>0, <1>1, ApplicationFacts DEF Install, RegistriesKept
      <3> QED
        BY <1>0, <3>1
    <2>3. /\ HasStoreOptions(o) /\ CompileRules(o) \in Seq(ToSet(CompileRules(o)))
          /\ \A rule \in ToSet(CompileRules(o)) : rule.store \in StoreKeys
      BY <1>0, <2>2, ApplicationFacts DEF IsRule, StoreKeys
    <2>4. Sound(r, l, o) /\ (r.fallback \in CustomStores => o.fallbackStore = CustomConfig(r.fallback))
      <3> HIDE DEF l, o
      <3> QED
        BY <2>2, <2>3, CreatesSound, FallbackCreated
    <2>5. out.registry.fallback = r.fallback /\ out.registry \in Registries
      <3> HIDE DEF l, o, r
      <3> QED
        BY <2>2, <2>3, <2>4, LookupsSound DEF Extends, Sound
    <2> HIDE DEF out, r
    <2>6. ASSUME registry' = Append(registry, out.registry), NEW i \in DOMAIN registry'
          PROVE  \/ i \in DOMAIN registry /\ registry'[i] = registry[i]
                 \/ i = l /\ registry'[i] = out.registry
      BY <1>0, <2>5, <2>6, AppendProperties
    <2> QED
      BY <2>1, <2>4, <2>5, <2>6 DEF FallbackKept
  <1>2. CASE Declare
    <2> DEFINE o == app.limiters[N]
               out == WithStoresFor(registry[N], app.routes, o)
    <2>1. /\ app' = app /\ registry' = [registry EXCEPT ![N] = out.registry]
          /\ Len(registry) = N /\ N \in Nat \ {0}
          /\ stopAt = 1
      BY <1>0, <1>2, ApplicationFacts DEF Declare, LastLimiter, RegistriesKept, Installed
    <2>2. N \in DOMAIN registry /\ N \in 1 .. N
      BY <1>0, <2>1
    <2>3. Sound(registry[N], N, o) /\ HasStoreOptions(o)
      BY <1>0, <2>1, <2>2, ApplicationFacts DEF RegistriesKept
    <2>4. /\ app.routes \in Seq(ToSet(app.routes))
          /\ \A rule \in ToSet(app.routes) : rule.store \in StoreKeys
      BY <1>0, ApplicationFacts DEF IsRule, StoreKeys
    <2>5. out.registry.fallback = registry[N].fallback
      <3> DEFINE r == registry[N]
      <3> HIDE DEF r, o, N
      <3>1. Sound(r, N, o)
        BY <2>3 DEF r
      <3>2. N \in Nat \ {0} /\ HasStoreOptions(o)
        BY <2>1, <2>3
      <3>3. Extends(WithStoresFor(r, app.routes, o).registry, r)
        BY <2>4, <3>1, <3>2, LookupsSound
      <3> QED
        BY <3>3 DEF Extends, r
    <2> HIDE DEF out, N
    <2>6. DOMAIN registry' = DOMAIN registry
          /\ \A i \in DOMAIN registry : registry'[i] = IF i = N THEN out.registry ELSE registry[i]
      BY <2>1
    <2> QED
      BY <2>1, <2>5, <2>6 DEF FallbackKept
  <1>3. CASE Stop
    BY <1>3 DEF Stop, FallbackKept
  <1>4. CASE OnStop
    <2>1. app' = app /\ registry' = [registry EXCEPT ![stopAt] = Close(registry[stopAt])]
      BY <1>4 DEF OnStop
    <2>2. ASSUME NEW r PROVE Close(r).fallback = r.fallback
      BY DEF Close
    <2> QED
      BY <2>1, <2>2 DEF FallbackKept
  <1>5. CASE UNCHANGED setup
    BY <1>5, Zenon DEF setup, FallbackKept
  <1>6. ASSUME NEW q \in Requests, RequestStep(q) PROVE UNCHANGED setup
    BY <1>6 DEF RequestStep, Receive, FastRequest, OnRequest, BeforeHandle, HitRule, Conclude,
                HandlerThrows, Respond
  <1>7. CASE UNCHANGED vars
    BY <1>5, <1>7 DEF vars, setup
  <1> QED
    BY <1>1, <1>2, <1>3, <1>4, <1>5, <1>6, <1>7 DEF Next

\* The macro has the rules of the routes that the request leads to.
LEMMA MacroLeads ==
    ASSUME app \in Applications, NEW t, NEW i \in ToSet(MacroDue(t))
    PROVE  /\ -i \in DOMAIN app.routes /\ -i \in Nat \ {0} /\ i \in Int /\ i < 0
           /\ MethodMatches(t[1], app.routes[-i]) /\ t[2] = app.routes[-i].path
  <1> DEFINE J == {j \in DOMAIN app.routes :
                      MethodMatches(t[1], app.routes[j]) /\ t[2] = app.routes[j].path}
             C == {-j : j \in J}
  <1>1. app.routes \in Seq(ToSet(app.routes))
    BY ApplicationFacts
  <1>2. PICK m \in Nat : DOMAIN app.routes = 1 .. m
    BY <1>1, LenProperties
  <1>3. ToSet(<<>>) = {}
    BY DEF ToSet
  <1>4. MacroDue(t) = OnlyIn([j \in 1 .. m |-> -j], C)
    BY <1>2, <1>3 DEF MacroDue
  <1>5. [j \in 1 .. m |-> -j] \in Seq(Int)
    OBVIOUS
  <1>6. i \in C
    <2> DEFINE v == [j \in 1 .. m |-> -j]
    <2>1. MacroDue(t) = OnlyIn(v, C) /\ v \in Seq(Int)
      BY <1>4, <1>5
    <2> HIDE DEF C, v
    <2>2. ToSet(OnlyIn(v, C)) = ToSet(v) \cap C
      BY <2>1, OnlyInKeeps
    <2> QED
      BY <2>1, <2>2
  <1>7. PICK j \in J : i = -j
    BY <1>6
  <1>8. j \in 1 .. m
    BY <1>2, <1>7
  <1>9. -i = j /\ j \in Nat \ {0} /\ i \in Int /\ i < 0
    BY <1>7, <1>8
  <1> QED
    BY <1>7, <1>9

\* A rule that applies is one of those written, and so are its key and its stores.
LEMMA AppliesAsWritten ==
    ASSUME RulesKept, FallbackKept, phase \in Open, NEW l \in Limiters, NEW t \in app.targets,
           NEW i \in Applying(l, t)
    PROVE  /\ i \in WrittenIndices(app, l) /\ MayApply(app, l, i, t)
           /\ WrittenKey(app, l, i, t) = KeyOf(l, i, t)
           /\ \A s \in StoresOf(l, i) : \/ s \in CustomStoresOf(app, l, i)
                                        \/ s \notin CustomStores /\ \E m \in Nat : s = <<l, m>>
           /\ i > 0 => i \in DOMAIN rules[l]
           /\ i \in Int
  <1> DEFINE N == Len(app.limiters)
             o == app.limiters[l]
             r == registry[l]
  <1>1. /\ RegistriesKept /\ app \in Applications /\ registry \in Seq(Registries)
        /\ l \in DOMAIN registry
    <2>1. RegistriesKept /\ app \in Applications /\ registry \in Seq(Registries) /\ Len(registry) = N
      BY DEF RulesKept, RegistriesKept, Open, Installed
    <2> QED
      BY <2>1, ApplicationFacts DEF Limiters
  <1>2. rules[l] = CompileRules(o)
    BY <1>1 DEF RulesKept
  <1>3. PICK n \in Nat : DOMAIN rules[l] = 1 .. n
    <2>1. CompileRules(o) \in Seq(ToSet(CompileRules(o)))
      BY <1>1, ApplicationFacts DEF Limiters
    <2> QED
      BY <1>2, <2>1, LenProperties
  <1>4. \/ i \in DOMAIN rules[l] /\ i \in Nat /\ i > 0 /\ ~(i < 0) /\ i \in Int
        \/ l = LastLimiter /\ i \in ToSet(MacroDue(t))
    <2>1. ToSet(Due(l, t)) \subseteq DOMAIN rules[l]
      BY DueFacts
    <2> QED
      BY <1>3, <2>1 DEF Applying
  <1>5. /\ i \in WrittenIndices(app, l) /\ MayApply(app, l, i, t) /\ i \in Int
        /\ WrittenRule(app, l, i) = RuleOf(l, i)
        /\ i > 0 => i \in DOMAIN rules[l]
    <2>1. CASE i \in DOMAIN rules[l] /\ i \in Nat /\ i > 0 /\ ~(i < 0)
      BY <1>2, <2>1 DEF WrittenIndices, MayApply, WrittenRule, RuleOf
    <2>2. CASE l = LastLimiter /\ i \in ToSet(MacroDue(t))
      <3>1. /\ -i \in DOMAIN app.routes /\ -i \in Nat \ {0} /\ i \in Int /\ i < 0
            /\ MethodMatches(t[1], app.routes[-i]) /\ t[2] = app.routes[-i].path
        BY <1>1, <2>2, MacroLeads
      <3>2. ~(i > 0) /\ i = -(-i)
        BY <3>1
      <3>3. WrittenRule(app, l, i) = app.routes[-i] /\ RuleOf(l, i) = app.routes[-i]
        BY <3>2 DEF WrittenRule, RuleOf
      <3>4. i \in WrittenIndices(app, l)
        BY <2>2, <3>1, <3>2 DEF WrittenIndices, LastLimiter
      <3> QED
        BY <3>1, <3>2, <3>3, <3>4 DEF MayApply
    <2> QED
      BY <1>4, <2>1, <2>2
  <1>6. WrittenKey(app, l, i, t) = KeyOf(l, i, t)
    BY <1>5 DEF WrittenKey, KeyOf, RuleId
  <1>7. ASSUME NEW s \in StoresOf(l, i)
        PROVE  \/ s \in CustomStoresOf(app, l, i)
               \/ s \notin CustomStores /\ \E m \in Nat : s = <<l, m>>
    <2> DEFINE key == RuleOf(l, i).store
               own == ConfigFor(key, o)
    <2>1. /\ i \in RuleIndices(l)
          /\ Usable(r, l, o)
          /\ key \in DOMAIN r.cache
      <3>1. i \in RuleIndices(l)
        BY <1>4, DueFacts DEF RuleIndices
      <3> QED
        BY <3>1, RuleFacts DEF Stored
    <2>2. s \in ToSet(r.activeStores)
      BY <2>1 DEF StoresOf, RuleStore, StoreFor, RuleStoreCacheKey, Usable, Caches
    <2>3. CASE s \notin CustomStores
      <3>1. PICK m \in 1 .. r.built : s = <<r.owner, m>>
        BY <2>1, <2>2, <2>3 DEF Usable, Tracks
      <3>2. r.owner = l /\ m \in Nat
        BY <2>1 DEF Usable, Registries
      <3> QED
        BY <2>3, <3>1, <3>2
    <2>4. CASE s \in CustomStores /\ s = r.fallback
      <3>1. o.fallbackStore = CustomConfig(s)
        BY <1>1, <2>4 DEF FallbackKept
      <3> QED
        BY <2>4, <3>1 DEF CustomStoresOf
    <2>5. CASE s \in CustomStores /\ s = r.cache[key]
      <3>1. own.kind = "custom" /\ s = own.store
        BY <2>1, <2>5 DEF Usable, Caches
      <3>2. key \in StoreConfigs \cup {UndefinedStore} /\ o.store \in StoreConfigs \cup {UndefinedStore}
        <4>1. HasStoreOptions(o)
          BY <1>1, ApplicationFacts DEF Limiters
        <4>2. key \in StoreKeys
          BY <2>1 DEF Usable, Registries
        <4> QED
          BY <4>1, <4>2 DEF HasStoreOptions, StoreKeys
      <3>3. own \in StoreConfigs \/ own.kind # "custom"
        BY <3>2 DEF ConfigFor, UndefinedStore
      <3>4. own = CustomConfig(s)
        <4> HIDE DEF own
        <4> QED
          BY <3>1, <3>3, CustomConfigs
      <3>5. own = IF WrittenRule(app, l, i).store = UndefinedStore THEN app.limiters[l].store
                  ELSE WrittenRule(app, l, i).store
        BY <1>5 DEF ConfigFor
      <3> HIDE DEF own
      <3> QED
        BY <2>5, <3>4, <3>5 DEF CustomStoresOf
    <2>6. s = r.fallback \/ s = r.cache[key]
      BY DEF StoresOf, RuleStore, StoreFor, RuleStoreCacheKey
    <2> QED
      BY <2>3, <2>4, <2>5, <2>6
  <1> QED
    BY <1>5, <1>6, <1>7

\* What the options keep apart stays apart in every state.
LEMMA OptionsKeepApart ==
    ASSUME CountApart, RulesKept, FallbackKept
    PROVE  KeysApart
  <1> SUFFICES ASSUME phase \in Open, NEW l \in Limiters, NEW k \in Limiters,
                      NEW t \in app.targets, NEW u \in app.targets,
                      NEW i \in Applying(l, t), NEW j \in Applying(k, u),
                      KeyOf(l, i, t) = KeyOf(k, j, u), NEW s \in StoresOf(l, i), s \in StoresOf(k, j)
               PROVE  l = k /\ i = j
    BY DEF KeysApart
  <1>1. app \in Applications /\ l \in DOMAIN app.limiters /\ k \in DOMAIN app.limiters
    BY DEF RulesKept, RegistriesKept, Limiters
  <1>2. /\ i \in WrittenIndices(app, l) /\ MayApply(app, l, i, t) /\ i \in Int
        /\ WrittenKey(app, l, i, t) = KeyOf(l, i, t)
        /\ \/ s \in CustomStoresOf(app, l, i)
           \/ s \notin CustomStores /\ \E m \in Nat : s = <<l, m>>
        /\ i > 0 => i \in DOMAIN rules[l]
    BY AppliesAsWritten
  <1>3. /\ j \in WrittenIndices(app, k) /\ MayApply(app, k, j, u) /\ j \in Int
        /\ WrittenKey(app, k, j, u) = KeyOf(k, j, u)
        /\ \/ s \in CustomStoresOf(app, k, j)
           \/ s \notin CustomStores /\ \E m \in Nat : s = <<k, m>>
        /\ j > 0 => j \in DOMAIN rules[k]
    BY AppliesAsWritten
  <1>4. l # k => CustomStoresOf(app, l, i) \cap CustomStoresOf(app, k, j) # {}
    <2>1. \A x : x \in CustomStoresOf(app, l, i) \/ x \in CustomStoresOf(app, k, j) => x \in CustomStores
      BY DEF CustomStoresOf
    <2> QED
      BY <1>2, <1>3, <2>1
  <1>5. l = k /\ (i = j \/ (i > 0 /\ j > 0))
    BY <1>1, <1>2, <1>3, <1>4 DEF CountApart
  <1>6. ASSUME i > 0, j > 0 PROVE i = j
    <2>1. i \in DOMAIN rules[l] /\ j \in DOMAIN rules[l] /\ ~(i < 0) /\ ~(j < 0)
      BY <1>2, <1>3, <1>5, <1>6
    <2>2. rules[l] = CompileRules(app.limiters[l]) /\ ~CompileThrows(app.limiters[l])
      <3>1. l \in DOMAIN registry
        <4>1. RegistriesKept /\ registry \in Seq(Registries) /\ Len(registry) = Len(app.limiters)
          BY DEF RulesKept, RegistriesKept, Open, Installed
        <4> QED
          BY <1>1, <4>1, ApplicationFacts
      <3> QED
        BY <3>1 DEF RulesKept
    <2>3. ~HasDuplicateId(rules[l])
      BY <2>2 DEF CompileThrows
    <2>4. rules[l][i].id = rules[l][j].id
      BY <1>5, <1>6, <2>1 DEF KeyOf, RuleId, RuleOf
    <2> QED
      BY <2>1, <2>3, <2>4 DEF HasDuplicateId
  <1> QED
    BY <1>5, <1>6

\* The headers of every answer are honest, however requests overlap with one another
\* and with the stop, in every application whose options give no two rules one key of
\* one store: the 429 is a rule's, and what is shown is a strictest decision, made for
\* this very request, that counts no more hits than requests its rule was hit for.
THEOREM HeadersAreHonest == ASSUME CountApart PROVE Spec => []HeadersHonest
  <1>1. Init => FallbackKept
    <2>1. \A l : l \notin DOMAIN <<>>
      OBVIOUS
    <2> QED
      BY <2>1 DEF Init, FallbackKept
  <1>2. Spec => []RulesKept
    BY RulesStart, RulesInductive, PTL DEF Spec
  <1>3. Spec => []FallbackKept
    BY <1>1, <1>2, FallbackInductive, PTL DEF Spec
  <1>4. RulesKept /\ FallbackKept => KeysApart
    BY OptionsKeepApart
  <1> QED
    BY <1>2, <1>3, <1>4, HonestWhereApart, PTL
=============================================================================
