------------------------ MODULE HeaderDecisionProofs ------------------------
(***************************************************************************)
(* What the loop of pickHeaderDecision computes, for any number of         *)
(* decisions.                                                              *)
(***************************************************************************)
EXTENDS HeaderDecisions, WellFoundedInduction, TLAPS

\* The numbers decisions are compared by.
Comparable(D) ==
    \A d \in D : d.remaining \in Int /\ d.retryAfter \in Int /\ d.limit \in Int

\* Induction along an initial segment of the naturals, on the set of numbers that
\* have the property.
LEMMA Induction ==
    ASSUME NEW N \in Nat, NEW T, 0 \in T, \A n \in 0 .. N - 1 : n \in T => n + 1 \in T
    PROVE  0 .. N \subseteq T
  <1> DEFINE U == (0 .. N) \ T
  <1> SUFFICES ASSUME U # {} PROVE FALSE
    OBVIOUS
  <1>1. U \subseteq Nat
    OBVIOUS
  <1>2. PICK x \in U : \A y \in U : ~(<<y, x>> \in OpToRel(<, Nat))
    BY <1>1, NatLessThanWellFounded, WFMin
  <1>3. x \in 0 .. N /\ x \notin T
    BY <1>2
  <1>4. x # 0 /\ x - 1 \in 0 .. N - 1
    BY <1>3
  <1>5. x - 1 \in Nat /\ x \in Nat /\ x - 1 < x /\ (x - 1) + 1 = x
    BY <1>4
  <1>6. <<x - 1, x>> \in OpToRel(<, Nat)
    BY <1>5 DEF OpToRel
  <1>7. x - 1 \notin U
    BY <1>2, <1>6
  <1>8. x - 1 \in T
    BY <1>4, <1>7
  <1> QED
    BY <1>3, <1>4, <1>5, <1>8

\* f is the run of N steps from a.
IsRun(f, S, a, N, step) ==
    f \in [0 .. N -> S] /\ f[0] = a /\ \A n \in 1 .. N : f[n] = step[n][f[n - 1]]

\* Every step function has a run.
LEMMA Iteration ==
    ASSUME NEW S, NEW a \in S, NEW N \in Nat, NEW step \in [1 .. N -> [S -> S]]
    PROVE  \E f : IsRun(f, S, a, N, step)
  <1> DEFINE Runs(m) == \E f \in [0 .. m -> S] :
                   f[0] = a /\ \A n \in 1 .. m : f[n] = step[n][f[n - 1]]
             T == {m \in 0 .. N : Runs(m)}
  <1>1. 0 \in T
    <2>1. [n \in 0 .. 0 |-> a] \in [0 .. 0 -> S] /\ [n \in 0 .. 0 |-> a][0] = a
      OBVIOUS
    <2>2. 1 .. 0 = {}
      OBVIOUS
    <2>3. Runs(0)
      BY <2>1, <2>2
    <2> HIDE DEF Runs
    <2> QED
      BY <2>3
  <1>2. ASSUME NEW m \in 0 .. N - 1, m \in T PROVE m + 1 \in T
    <2>1. PICK f \in [0 .. m -> S] :
              f[0] = a /\ \A n \in 1 .. m : f[n] = step[n][f[n - 1]]
      BY <1>2
    <2> DEFINE next == step[m + 1][f[m]]
               g == [n \in 0 .. m + 1 |-> IF n = m + 1 THEN next ELSE f[n]]
    <2>2. m \in Nat /\ m + 1 \in 1 .. N /\ m \in 0 .. m
      OBVIOUS
    <2>3. next \in S
      BY <2>1, <2>2
    <2> HIDE DEF next
    <2>4. g \in [0 .. m + 1 -> S]
      BY <2>2, <2>3
    <2>5. g[0] = a
      BY <2>1, <2>2
    <2>6. ASSUME NEW n \in 1 .. m + 1 PROVE g[n] = step[n][g[n - 1]]
      <3>1. CASE n = m + 1
        BY <2>2, <3>1 DEF next
      <3>2. CASE n \in 1 .. m
        <4>1. g[n] = f[n] /\ g[n - 1] = f[n - 1]
          BY <2>2, <3>2
        <4> QED
          BY <2>1, <3>2, <4>1
      <3> QED
        BY <2>2, <3>1, <3>2
    <2>7. m + 1 \in 0 .. N
      BY <2>2
    <2> HIDE DEF g
    <2> QED
      BY <2>4, <2>5, <2>6, <2>7
  <1> HIDE DEF T
  <1>3. N \in T
    <2>1. \A m \in 0 .. N - 1 : m \in T => m + 1 \in T
      BY <1>2
    <2>2. 0 .. N \subseteq T
      BY <1>1, <2>1, Induction
    <2> QED
      BY <2>2
  <1> QED
    BY <1>3 DEF T, IsRun

\* One turn of the loop: the place of the best so far, then of the best with n.
BestOf(ds, pool, b, n) ==
    IF n \in pool /\ (b = 0 \/ IsBetterDecision(ds[n], ds[b])) THEN n ELSE b

LEMMA BestPlacesRun ==
    ASSUME NEW D, NEW ds \in Seq(D), NEW pool
    PROVE  /\ BestPlaces(ds, pool) \in [0 .. Len(ds) -> 0 .. Len(ds)]
           /\ BestPlaces(ds, pool)[0] = 0
           /\ \A n \in 1 .. Len(ds) :
                  BestPlaces(ds, pool)[n] = BestOf(ds, pool, BestPlaces(ds, pool)[n - 1], n)
  <1> DEFINE N == Len(ds)
             step == [n \in 1 .. N |-> [b \in 0 .. N |-> BestOf(ds, pool, b, n)]]
             Body(g) == [n \in 0 .. N |-> IF n = 0 THEN 0
            ELSE IF n \in pool /\ (g[n - 1] = 0 \/ IsBetterDecision(ds[n], ds[g[n - 1]]))
                 THEN n ELSE g[n - 1]]
  <1>1. N \in Nat /\ 0 \in 0 .. N
    OBVIOUS
  <1> HIDE DEF N
  <1>2. step \in [1 .. N -> [0 .. N -> 0 .. N]]
    BY <1>1 DEF BestOf
  <1>3. PICK f \in [0 .. N -> 0 .. N] :
            f[0] = 0 /\ \A n \in 1 .. N : f[n] = step[n][f[n - 1]]
    <2> HIDE DEF step
    <2>1. \E f : IsRun(f, 0 .. N, 0, N, step)
      BY <1>1, <1>2, Iteration
    <2> QED
      BY <2>1 DEF IsRun
  <1>4. ASSUME NEW n \in 1 .. N PROVE f[n] = BestOf(ds, pool, f[n - 1], n)
    <2>1. n - 1 \in 0 .. N
      BY <1>1
    <2>2. f[n - 1] \in 0 .. N
      BY <1>3, <2>1
    <2> QED
      BY <1>3, <2>2
  <1>5. f = Body(f)
    BY <1>1, <1>3, <1>4 DEF BestOf
  <1> DEFINE L == BestPlaces(ds, pool)
  <1>6. L = (CHOOSE g : g = Body(g))
    BY DEF BestPlaces, N
  <1>7. L = Body(L)
    <2> HIDE DEF Body, L
    <2> QED
      BY <1>5, <1>6
  <1> HIDE DEF L
  <1>8. /\ DOMAIN L = 0 .. N /\ L[0] = 0
        /\ \A n \in 1 .. N : L[n] = BestOf(ds, pool, L[n - 1], n)
    <2>1. ASSUME NEW g
          PROVE  /\ DOMAIN Body(g) = 0 .. N /\ Body(g)[0] = 0
                 /\ \A n \in 1 .. N : Body(g)[n] = BestOf(ds, pool, g[n - 1], n)
      BY <1>1 DEF BestOf
    <2> HIDE DEF Body
    <2> QED
      BY <1>7, <2>1
  <1>9. 0 .. N \subseteq {n \in 0 .. N : L[n] \in 0 .. N}
    <2> DEFINE T == {n \in 0 .. N : L[n] \in 0 .. N}
    <2>1. 0 \in T
      BY <1>1, <1>8
    <2>2. ASSUME NEW n \in 0 .. N - 1, n \in T PROVE n + 1 \in T
      <3>1. n + 1 \in 1 .. N /\ n + 1 \in 0 .. N /\ (n + 1) - 1 = n
        BY <1>1
      <3>2. L[n + 1] = BestOf(ds, pool, L[n], n + 1)
        BY <1>8, <3>1
      <3> QED
        BY <2>2, <3>1, <3>2 DEF BestOf
    <2>3. \A n \in 0 .. N - 1 : n \in T => n + 1 \in T
      BY <2>2
    <2> HIDE DEF T
    <2>4. 0 .. N \subseteq T
      BY <1>1, <2>1, <2>3, Induction
    <2> QED
      BY <2>4 DEF T
  <1>10. L \in [0 .. N -> 0 .. N]
    <2>1. L = [n \in 0 .. N |-> L[n]]
      BY <1>7, <1>8
    <2> QED
      BY <1>9, <2>1
  <1> QED
    BY <1>8, <1>10 DEF L, N

\* b is the place of the strictest decision of the pool among the first n.
Leads(ds, pool, b, n) ==
    /\ b = 0 => \A j \in pool : ~(j <= n)
    /\ b # 0 => /\ b \in pool /\ b <= n
                /\ \A j \in pool \ {b} : j <= n => StricterThan(ds, b, j)

LEMMA BetterIsStricter ==
    ASSUME NEW D, Comparable(D), NEW ds \in Seq(D), NEW b \in DOMAIN ds, NEW n \in DOMAIN ds, b < n
    PROVE  /\ ~IsBetterDecision(ds[n], ds[b]) => StricterThan(ds, b, n)
           /\ IsBetterDecision(ds[n], ds[b]) =>
                /\ StricterThan(ds, n, b)
                /\ \A j \in DOMAIN ds : StricterThan(ds, b, j) => StricterThan(ds, n, j)
  <1>1. \A j \in DOMAIN ds : /\ ds[j].remaining \in Int /\ ds[j].retryAfter \in Int
                             /\ ds[j].limit \in Int /\ j \in Int
    <2>1. \A j \in DOMAIN ds : ds[j] \in D /\ j \in Nat
      OBVIOUS
    <2>2. \A d \in D : d.remaining \in Int /\ d.retryAfter \in Int /\ d.limit \in Int
      BY DEF Comparable
    <2> QED
      BY <2>1, <2>2
  <1>2. ~IsBetterDecision(ds[n], ds[b]) => StricterThan(ds, b, n)
    BY <1>1, SMT DEF IsBetterDecision, StricterThan
  <1>3. IsBetterDecision(ds[n], ds[b]) => StricterThan(ds, n, b)
    BY <1>1, SMT DEF IsBetterDecision, StricterThan
  <1>4. ASSUME IsBetterDecision(ds[n], ds[b]), NEW j \in DOMAIN ds, StricterThan(ds, b, j)
        PROVE  StricterThan(ds, n, j)
    BY <1>1, <1>4, SMT DEF IsBetterDecision, StricterThan
  <1> QED
    BY <1>2, <1>3, <1>4

\* The decision picked is the strictest of the pool, ties broken by evaluation order.
LEMMA PicksStrictest ==
    ASSUME NEW D, Comparable(D), NEW ds \in Seq(D), NEW pool, pool \subseteq DOMAIN ds, pool # {}
    PROVE  \E m \in pool : /\ ds[m] = PickHeaderDecision(ds, pool)
                           /\ \A n \in pool \ {m} : StricterThan(ds, m, n)
  <1> DEFINE N == Len(ds)
             L == BestPlaces(ds, pool)
             T == {n \in 0 .. N : Leads(ds, pool, L[n], n)}
  <1>1. /\ N \in Nat /\ DOMAIN ds = 1 .. N
        /\ L \in [0 .. N -> 0 .. N] /\ L[0] = 0
        /\ \A n \in 1 .. N : L[n] = BestOf(ds, pool, L[n - 1], n)
    BY BestPlacesRun
  <1> HIDE DEF N, L
  <1>2. 0 \in T
    <2>1. \A j \in pool : ~(j <= 0)
      BY <1>1
    <2>2. 0 \in 0 .. N
      BY <1>1
    <2> QED
      BY <1>1, <2>1, <2>2 DEF Leads
  <1>3. ASSUME NEW n \in 0 .. N - 1, n \in T PROVE n + 1 \in T
    <2> DEFINE b == L[n]
               k == n + 1
    <2>1. k \in 1 .. N /\ k \in 0 .. N /\ k - 1 = n /\ n \in 0 .. N /\ n \in Nat
      BY <1>1
    <2>2. L[k] = BestOf(ds, pool, b, k) /\ b \in 0 .. N /\ Leads(ds, pool, b, n)
      BY <1>1, <1>3, <2>1
    <2>3. ASSUME NEW j \in pool PROVE j \in Nat /\ (j <= k <=> j <= n \/ j = k)
      <3>1. j \in Nat
        BY <1>1
      <3>2. \A x, y \in Nat : x <= y + 1 <=> x <= y \/ x = y + 1
        BY SMT
      <3> QED
        BY <2>1, <3>1, <3>2
    <2>4. k \in Nat /\ ~(k <= n) /\ k # 0
      BY <2>1
    <2> HIDE DEF b, k
    <2>5. CASE k \notin pool
      <3>1. L[k] = b
        BY <2>2, <2>5 DEF BestOf
      <3>2. b # 0 => b <= k
        BY <2>2, <2>3 DEF Leads
      <3> QED
        BY <2>1, <2>2, <2>3, <2>5, <3>1, <3>2 DEF Leads, k
    <2>6. CASE k \in pool /\ b = 0
      <3>1. L[k] = k
        BY <2>2, <2>6 DEF BestOf
      <3>2. \A j \in pool \ {k} : ~(j <= k)
        BY <2>2, <2>3, <2>6 DEF Leads
      <3>3. Leads(ds, pool, k, k)
        BY <2>4, <2>6, <3>2 DEF Leads
      <3> QED
        BY <2>1, <3>1, <3>3 DEF k
    <2>7. CASE k \in pool /\ b # 0
      <3>1. b \in pool /\ b <= n /\ b \in DOMAIN ds /\ k \in DOMAIN ds
        BY <2>2, <2>7 DEF Leads
      <3>2. b < k
        BY <1>1, <2>1, <3>1 DEF k
      <3>3. CASE IsBetterDecision(ds[k], ds[b])
        <4>1. L[k] = k
          BY <2>2, <2>7, <3>3 DEF BestOf
        <4>2. \A j \in pool \ {k} : j <= k => StricterThan(ds, k, j)
          BY <2>2, <2>3, <2>7, <3>1, <3>2, <3>3, BetterIsStricter DEF Leads
        <4>3. Leads(ds, pool, k, k)
          BY <2>4, <2>7, <4>2 DEF Leads
        <4> QED
          BY <2>1, <4>1, <4>3 DEF k
      <3>4. CASE ~IsBetterDecision(ds[k], ds[b])
        <4>1. L[k] = b
          BY <2>2, <2>7, <3>4 DEF BestOf
        <4>2. StricterThan(ds, b, k)
          BY <3>1, <3>2, <3>4, BetterIsStricter
        <4>3. b <= k
          BY <2>3, <3>1
        <4>4. \A j \in pool \ {b} : j <= k => StricterThan(ds, b, j)
          BY <2>2, <2>3, <2>7, <4>2 DEF Leads
        <4>5. Leads(ds, pool, b, k)
          BY <2>7, <3>1, <4>3, <4>4 DEF Leads
        <4> QED
          BY <2>1, <4>1, <4>5 DEF k
      <3> QED
        BY <3>3, <3>4
    <2> QED
      BY <2>5, <2>6, <2>7 DEF k
  <1>4. \A n \in 0 .. N - 1 : n \in T => n + 1 \in T
    BY <1>3
  <1> HIDE DEF T
  <1>5. 0 .. N \subseteq T
    BY <1>1, <1>2, <1>4, Induction
  <1>6. Leads(ds, pool, L[N], N)
    BY <1>1, <1>5 DEF T
  <1>7. \A j \in pool : j <= N
    BY <1>1
  <1>8. PICK j \in pool : TRUE
    OBVIOUS
  <1>9. L[N] # 0
    BY <1>6, <1>7, <1>8 DEF Leads
  <1>10. L[N] \in pool /\ \A n \in pool \ {L[N]} : StricterThan(ds, L[N], n)
    BY <1>6, <1>7, <1>9 DEF Leads
  <1>11. PickHeaderDecision(ds, pool) = ds[L[N]]
    BY DEF PickHeaderDecision, L, N
  <1> QED
    BY <1>10, <1>11
-----------------------------------------------------------------------------
(* The decision that fills the headers, and the verdict.                   *)

Blocking(ds) == {n \in DOMAIN ds : ds[n].blocked}

Pool(ds) == IF Blocking(ds) = {} THEN DOMAIN ds ELSE Blocking(ds)

LEMMA HeaderIsStrictest ==
    ASSUME NEW D, Comparable(D), NEW ds \in Seq(D), ds # <<>>
    PROVE  \E m \in Pool(ds) : /\ ds[m] = HeaderOf(ds) /\ HeaderOf(ds) \in D
                               /\ \A n \in Pool(ds) \ {m} : StricterThan(ds, m, n)
  <1>1. HeaderOf(ds) = PickHeaderDecision(ds, Pool(ds))
    BY DEF HeaderOf, Pool, Blocking
  <1>2. DOMAIN ds # {}
    <2>1. Len(ds) \in Nat /\ DOMAIN ds = 1 .. Len(ds) /\ Len(ds) # 0
      OBVIOUS
    <2>2. 1 \in 1 .. Len(ds)
      BY <2>1
    <2> QED
      BY <2>1, <2>2
  <1>3. Pool(ds) \subseteq DOMAIN ds /\ Pool(ds) # {}
    BY <1>2 DEF Pool, Blocking
  <1>4. PICK m \in Pool(ds) : /\ ds[m] = PickHeaderDecision(ds, Pool(ds))
                              /\ \A n \in Pool(ds) \ {m} : StricterThan(ds, m, n)
    BY <1>3, PicksStrictest
  <1>5. ds[m] \in D
    BY <1>3, <1>4
  <1> QED
    BY <1>1, <1>4, <1>5
=============================================================================
