-------------------------- MODULE RedisStateProofs --------------------------
(***************************************************************************)
(* Theorems about RedisState, for any hits, instances and rules, and any   *)
(* lost, late and refused EVALs and failed hits: what is stored is         *)
(* well-typed; no path is stricter than the charges allow; bans and rates  *)
(* of the script and of the sliding window hold; and a path by itself      *)
(* answers what the algorithm answers in the process.                      *)
(***************************************************************************)
EXTENDS RedisState, AlgorithmLemmas, FiniteSetTheorems

-----------------------------------------------------------------------------
(* Hits that come late: at `now`, while the server's time is c.            *)

LEMMA TimesLimit ==
    ASSUME NEW r \in Rules, NEW now \in Nat, NEW c \in Nat, now <= c
    PROVE  /\ now * r.limit \in Nat /\ c * r.limit \in Nat /\ now * r.limit <= c * r.limit
           /\ c * r.limit = now * r.limit + (c - now) * r.limit
           /\ (c - now) * r.limit \in Nat
  <1>1. \A x, y, z \in Nat : x <= y => x * z <= y * z /\ x * z \in Nat /\ y * z \in Nat
                                           /\ (y - x) * z = y * z - x * z
    BY SMT
  <1>2. r.limit \in Nat
    BY DEF Rules
  <1> QED
    BY <1>1, <1>2, SMT

\* A ban that reaches no further than r.ban from c does so after the hit, too.
LEMMA LateBan ==
    ASSUME NEW r \in Rules, NEW c \in Nat, NEW now \in 0 .. c, NEW s, s.banUntil \in Nat,
           s.banUntil <= c + r.ban, NEW over \in BOOLEAN
    PROVE  /\ ArmBan(r, now, ActiveBanUntil(s, now), over) \in Nat
           /\ ArmBan(r, now, ActiveBanUntil(s, now), over) <= c + r.ban
  BY SMT DEF ArmBan, ActiveBanUntil, Rules

LEMMA LateExpiry ==
    ASSUME NEW r \in Rules, NEW c \in Nat, NEW t \in Nat, NEW ban \in Nat,
           t <= c + 2 * r.window, ban <= c + r.ban
    PROVE  /\ ExpiryFor(t, ban) \in Nat
           /\ ExpiryFor(t, ban) <= c + Larger(2 * r.window, r.ban)
  BY SMT DEF ExpiryFor, Larger, Rules

LEMMA LateTokenBucket ==
    ASSUME NEW r \in Rules, NEW c \in Nat, NEW now \in 0 .. c,
           NEW s \in TokenStates(r) \cup {NoState}, InReach(r, c, s)
    PROVE  /\ InReach(r, c, TokenBucketHit(r, now, s).state)
           /\ TokenBucketHit(r, now, s).expiresAt <= c + Larger(2 * r.window, r.ban)
  <1> DEFINE out == TokenBucketHit(r, now, s)
             t == out.state
             price == r.cost * r.window
             short == ~(ActiveBanUntil(s, now) > now) /\ Refilled(r, now, s) < price
             missing == Capacity(r) - t.tokens
             full == CeilDiv(missing, r.limit)
  <1>1. t \in TokenStates(r)
    BY TokenBucketType
  <1>2. /\ t.tokens \in 0 .. Capacity(r) /\ t.banUntil \in Nat /\ t.algorithm = "token-bucket"
        /\ Capacity(r) \in Nat /\ r.limit \in Nat \ {0} /\ r.window \in Nat \ {0}
    BY <1>1, CapacityNat DEF TokenStates, Rules
  <1>3. SameState(s, "token-bucket") = s /\ s.banUntil \in Nat /\ s.banUntil <= c + r.ban
    BY DEF SameState, TokenStates, NoState, InReach
  <1>4. /\ t.banUntil = ArmBan(r, now, ActiveBanUntil(s, now), short)
        /\ out.expiresAt = ExpiryFor(now + full, t.banUntil)
    BY <1>3 DEF TokenBucketHit, HitResult
  <1> HIDE DEF out, t
  <1>5. short \in BOOLEAN
    OBVIOUS
  <1> HIDE DEF short
  <1>6. t.banUntil <= c + r.ban
    BY <1>3, <1>4, <1>5, LateBan
  <1>7. missing \in Nat /\ missing <= r.window * r.limit
    <2>1. Capacity(r) = r.window * r.limit
      BY <1>2, SMT DEF Capacity
    <2> QED
      BY <1>2, <2>1, SMT
  <1> HIDE DEF missing
  <1>8. full \in Nat /\ full <= r.window
    BY <1>2, <1>7, CeilDivNat, CeilDivAtMost
  <1> HIDE DEF full
  <1>9. now + full \in Nat /\ now + full <= c + 2 * r.window
    BY <1>2, <1>8, SMT
  <1> QED
    BY <1>2, <1>4, <1>6, <1>9, LateExpiry DEF InReach, out, t

LEMMA LateGcra ==
    ASSUME NEW r \in Rules, NEW c \in Nat, NEW now \in 0 .. c,
           NEW s \in GcraStates \cup {NoState}, InReach(r, c, s)
    PROVE  /\ InReach(r, c, GcraHit(r, now, s).state)
           /\ GcraHit(r, now, s).expiresAt <= c + Larger(2 * r.window, r.ban)
  <1> DEFINE out == GcraHit(r, now, s)
             t == out.state
             present == now * r.limit
             C == Capacity(r)
             from == Tat(r, now, s)
             nextTat == NextTat(r, now, from)
             banned == ActiveBanUntil(s, now) > now
             early == ~banned /\ present < nextTat - C
             used == Larger(t.tat - present, 0)
             life == CeilDiv(C + used, r.limit)
             bound == c * r.limit
             ahead == (c - now) * r.limit
  <1>1. t \in GcraStates
    BY GcraType
  <1>2. /\ t.tat \in Nat /\ t.banUntil \in Nat /\ t.algorithm = "gcra"
        /\ C \in Nat /\ r.limit \in Nat \ {0} /\ r.window \in Nat \ {0}
    BY <1>1, CapacityNat DEF GcraStates, Rules
  <1>3. SameState(s, "gcra") = s /\ s.banUntil \in Nat /\ s.banUntil <= c + r.ban
    BY DEF SameState, GcraStates, NoState, InReach
  <1>4. /\ t.banUntil = ArmBan(r, now, ActiveBanUntil(s, now), early)
        /\ out.expiresAt = ExpiryFor(now + life, t.banUntil)
        /\ t.tat = IF banned \/ early THEN from ELSE nextTat
    BY <1>3 DEF GcraHit, HitResult
  <1>5. /\ present \in Nat /\ bound \in Nat /\ present <= bound
        /\ bound = present + ahead /\ ahead \in Nat
    BY TimesLimit
  <1>6. from <= bound + C /\ from \in Nat
    <2>1. CASE s = NoState
      BY <1>2, <1>5, <2>1, SMT DEF Tat, NoState
    <2>2. CASE s \in GcraStates
      BY <2>2 DEF Tat, GcraStates, InReach
    <2> QED
      BY <2>1, <2>2
  <1>7. nextTat \in Nat
    <2>1. r.window * r.cost \in Nat
      BY SMT DEF Rules
    <2> HIDE DEF present, from
    <2> QED
      BY <1>5, <1>6, <2>1, SMT DEF NextTat, Larger, present
  <1> HIDE DEF out, t, nextTat, from, present, bound, banned, ahead
  <1>8. early \in BOOLEAN
    OBVIOUS
  <1>9. t.tat <= bound + C
    <2> HIDE DEF C
    <2> QED
      BY <1>2, <1>4, <1>5, <1>6, <1>7, SMT
  <1> HIDE DEF early
  <1>10. t.banUntil <= c + r.ban
    BY <1>3, <1>4, <1>8, LateBan
  <1>11. used \in Nat /\ used <= ahead + C
    BY <1>2, <1>5, <1>9, SMT DEF Larger
  <1> HIDE DEF used
  <1>12. life \in Nat /\ life <= (c - now) + 2 * r.window
    <2> DEFINE span == (c - now) + 2 * r.window
    <2>1. C = r.window * r.limit
      BY <1>2, SMT DEF Capacity
    <2>2. span \in Nat /\ span * r.limit = ahead + (C + C)
      <3>1. \A x, y, z \in Nat : (x + 2 * y) * z = x * z + (y * z + y * z)
        BY SMT
      <3>2. c - now \in Nat
        OBVIOUS
      <3> QED
        BY <1>2, <2>1, <3>1, <3>2 DEF ahead
    <2> HIDE DEF span, C
    <2>3. C + used \in Nat /\ C + used <= span * r.limit
      BY <1>2, <1>5, <1>11, <2>2, SMT
    <2>4. life \in Nat /\ life <= span
      BY <1>2, <2>2, <2>3, CeilDivNat, CeilDivAtMost
    <2> QED
      BY <2>4 DEF span
  <1> HIDE DEF life
  <1>13. now + life \in Nat /\ now + life <= c + 2 * r.window
    BY <1>2, <1>12, SMT
  <1>14. out.expiresAt <= c + Larger(2 * r.window, r.ban)
    BY <1>2, <1>4, <1>10, <1>13, LateExpiry
  <1> QED
    BY <1>2, <1>9, <1>10, <1>14 DEF InReach, out, t, bound, C

LEMMA EvaluateLate ==
    ASSUME NEW r \in Rules, Metered(r), NEW c \in Nat, NEW now \in 0 .. c,
           NEW s \in StatesOf(r) \cup {NoState}, InReach(r, c, s)
    PROVE  /\ InReach(r, c, EvaluateAlgorithmHit(r, now, s).state)
           /\ EvaluateAlgorithmHit(r, now, s).expiresAt <= c + Larger(2 * r.window, r.ban)
  <1>1. CASE r.algorithm = "token-bucket"
    BY <1>1, LateTokenBucket DEF EvaluateAlgorithmHit, StatesOf
  <1>2. CASE r.algorithm = "gcra"
    BY <1>2, LateGcra DEF EvaluateAlgorithmHit, StatesOf
  <1> QED
    BY <1>1, <1>2 DEF Metered

-----------------------------------------------------------------------------
(* What is stored is never ahead of what was charged.                      *)

\* s holds no more than an arrival time that has taken every charge does.
NotAhead(r, debt, s) ==
    /\ s # NoState /\ r.algorithm = "token-bucket" =>
           Capacity(r) - s.tokens <= Larger(debt - s.updatedAt * r.limit, 0)
    /\ s # NoState /\ r.algorithm = "gcra" /\ r.cost <= r.limit => s.tat <= debt

LEMMA NotAheadLater ==
    ASSUME NEW r \in Rules, Metered(r), NEW s \in StatesOf(r) \cup {NoState},
           NEW debt \in Nat, NEW more \in Nat, debt <= more, NotAhead(r, debt, s)
    PROVE  NotAhead(r, more, s)
  <1>1. CASE s = NoState
    BY <1>1 DEF NotAhead
  <1>2. CASE s # NoState /\ r.algorithm = "token-bucket"
    <2> DEFINE then == s.updatedAt * r.limit
               missing == Capacity(r) - s.tokens
    <2>1. then \in Nat /\ missing \in Int
      BY <1>2, CapacityNat, SMT DEF StatesOf, TokenStates, Rules
    <2>2. missing <= Larger(debt - then, 0)
      BY <1>2 DEF NotAhead
    <2> HIDE DEF then, missing
    <2>3. missing <= Larger(more - then, 0)
      BY <2>1, <2>2, SMT DEF Larger
    <2> QED
      BY <1>2, <2>3 DEF NotAhead, then, missing
  <1>3. CASE s # NoState /\ r.algorithm = "gcra"
    BY <1>3, SMT DEF NotAhead, StatesOf, GcraStates
  <1> QED
    BY <1>1, <1>2, <1>3 DEF Metered

\* At no time is the level of a bucket above that of the debt.
LEMMA NotAheadLevelOfBucket ==
    ASSUME NEW r \in Rules, r.algorithm = "token-bucket", NEW s \in StatesOf(r) \cup {NoState},
           NEW debt \in Nat, NotAhead(r, debt, s), NEW now \in Nat
    PROVE  Level(r, now, s) <= Larger(debt - now * r.limit, 0)
  <1> DEFINE present == now * r.limit
  <1>1. present \in Nat /\ r.limit \in Nat /\ Capacity(r) \in Nat
    BY CapacityNat, SMT DEF Rules
  <1>2. CASE s = NoState
    <2> HIDE DEF present
    <2>1. 0 <= Larger(debt - present, 0)
      BY <1>1, SMT DEF Larger
    <2> QED
      BY <1>2, <2>1, LevelEmpty DEF present, Metered
  <1>3. CASE s # NoState
    <2> DEFINE then == s.updatedAt * r.limit
               refill == Larger(now - s.updatedAt, 0) * r.limit
    <2>1. /\ s.tokens \in Nat /\ s.tokens <= Capacity(r) /\ s.updatedAt \in Nat
          /\ s.algorithm = "token-bucket"
      BY <1>1, <1>3, SMT DEF StatesOf, TokenStates
    <2>2. Level(r, now, s) = Capacity(r) - Smaller(Capacity(r), s.tokens + refill)
      BY <1>3, <2>1 DEF Level, Refilled
    <2>3. Capacity(r) - s.tokens <= Larger(debt - then, 0)
      BY <1>3 DEF NotAhead
    <2>4. /\ then \in Nat /\ refill \in Nat
          /\ now >= s.updatedAt => present = then + refill
          /\ now < s.updatedAt => refill = 0 /\ present <= then
      <3>1. \A x, y, z \in Nat : x * z \in Nat /\ y * z \in Nat /\ (x <= y => x * z <= y * z)
                                     /\ (x <= y => y * z = x * z + (y - x) * z)
                                     /\ (x <= y => (y - x) * z \in Nat) /\ 0 * z = 0
        BY SMT
      <3>2. CASE now >= s.updatedAt
        <4>1. Larger(now - s.updatedAt, 0) = now - s.updatedAt
          BY <2>1, <3>2, SMT DEF Larger
        <4> QED
          BY <1>1, <2>1, <3>1, <3>2, <4>1
      <3>3. CASE now < s.updatedAt
        <4>1. Larger(now - s.updatedAt, 0) = 0
          BY <2>1, <3>3, SMT DEF Larger
        <4> QED
          BY <1>1, <2>1, <3>1, <3>3, <4>1
      <3> QED
        BY <2>1, <3>2, <3>3
    <2> HIDE DEF present, then, refill
    <2>5. Capacity(r) - Smaller(Capacity(r), s.tokens + refill) <= Larger(debt - present, 0)
      BY <1>1, <2>1, <2>3, <2>4, SMT DEF Larger, Smaller
    <2> QED
      BY <2>2, <2>5 DEF present
  <1> QED
    BY <1>2, <1>3

\* Nor that of a gcra state whose rule can be met.
LEMMA NotAheadLevel ==
    ASSUME NEW r \in Rules, Metered(r), NEW s \in StatesOf(r) \cup {NoState},
           NEW debt \in Nat, NotAhead(r, debt, s), NEW now \in Nat, r.cost <= r.limit
    PROVE  Level(r, now, s) <= Larger(debt - now * r.limit, 0)
  <1> DEFINE present == now * r.limit
  <1>1. present \in Nat /\ r.limit \in Nat /\ Capacity(r) \in Nat
    BY CapacityNat, SMT DEF Rules
  <1>2. CASE s = NoState
    <2> HIDE DEF present
    <2>1. 0 <= Larger(debt - present, 0)
      BY <1>1, SMT DEF Larger
    <2> QED
      BY <1>2, <2>1, LevelEmpty DEF present
  <1>3. CASE s # NoState /\ r.algorithm = "token-bucket"
    BY <1>3, NotAheadLevelOfBucket
  <1>4. CASE s # NoState /\ r.algorithm = "gcra"
    <2>1. s.tat \in Nat /\ Tat(r, now, s) = s.tat /\ s.tat <= debt
      BY <1>4 DEF StatesOf, GcraStates, Tat, NotAhead
    <2>2. Level(r, now, s) = Larger(s.tat - present, 0)
      BY <1>4, <2>1 DEF Level
    <2> HIDE DEF present
    <2>3. Larger(s.tat - present, 0) <= Larger(debt - present, 0)
      BY <1>1, <2>1, SMT DEF Larger
    <2> QED
      BY <2>2, <2>3 DEF present
  <1> QED
    BY <1>2, <1>3, <1>4 DEF Metered

\* The debt after a hit.
DebtAfter(r, now, debt, blocked) == IF blocked THEN debt ELSE NextTat(r, now, debt)

LEMMA NextTatGrows ==
    ASSUME NEW r \in Rules, NEW now \in Nat, NEW debt \in Nat
    PROVE  /\ NextTat(r, now, debt) \in Nat
           /\ debt <= NextTat(r, now, debt)
           /\ \A from \in Nat : from <= debt => NextTat(r, now, from) <= NextTat(r, now, debt)
           /\ NextTat(r, now, now * r.limit) <= NextTat(r, now, debt)
  <1> DEFINE present == now * r.limit
             price == r.window * r.cost
  <1>1. present \in Nat /\ price \in Nat
    BY SMT DEF Rules
  <1>2. \A from : NextTat(r, now, from) = Larger(from, present) + price
    BY DEF NextTat
  <1> HIDE DEF present, price
  <1>3. \A from \in Nat : /\ Larger(from, present) + price \in Nat
                          /\ from <= Larger(from, present) + price
                          /\ Larger(present, present) <= Larger(from, present)
    BY <1>1, SMT DEF Larger
  <1>4. \A from \in Nat : from <= debt => Larger(from, present) <= Larger(debt, present)
    BY <1>1, SMT DEF Larger
  <1>5. \A a, b \in Int : a <= b => a + price <= b + price
    BY <1>1, SMT
  <1>6. \A from \in Nat : Larger(from, present) \in Int
    BY <1>1, SMT DEF Larger
  <1> QED
    BY <1>1, <1>2, <1>3, <1>4, <1>5, <1>6 DEF present

\* A hit that is charged as it is stored keeps it so.
LEMMA NotAheadKept ==
    ASSUME NEW r \in Rules, Metered(r), NEW now \in Nat, NEW s \in StatesOf(r) \cup {NoState},
           NEW debt \in Nat, NotAhead(r, debt, s)
    PROVE  LET out == EvaluateAlgorithmHit(r, now, s)
           IN  NotAhead(r, DebtAfter(r, now, debt, out.hit.blocked), out.state)
  <1> DEFINE out == EvaluateAlgorithmHit(r, now, s)
             t == out.state
             after == DebtAfter(r, now, debt, out.hit.blocked)
             present == now * r.limit
             price == r.cost * r.window
  <1>1. /\ present \in Nat /\ price \in Nat /\ Capacity(r) \in Nat /\ r.limit \in Nat
        /\ r.window * r.cost = price
    BY CapacityNat, SMT DEF Rules
  <1>2. MeteredStep(r, now, s, out)
    BY EvaluateMetered
  <1>3. t \in StatesOf(r)
    BY EvaluateType
  <1>4. NextTat(r, now, debt) = Larger(debt, present) + price
    BY <1>1 DEF NextTat
  <1>5. CASE r.algorithm = "token-bucket"
    <2>1. /\ t.algorithm = "token-bucket" /\ t.updatedAt = now /\ t.tokens \in Nat
          /\ t.tokens <= Capacity(r) /\ t # NoState
      BY <1>1, <1>3, <1>5, SMT DEF StatesOf, TokenStates, NoState, EvaluateAlgorithmHit,
                                   TokenBucketHit
    <2>2. Level(r, now, t) = Capacity(r) - t.tokens
      <3>1. Refilled(r, now, t) = t.tokens
        BY <1>3, <1>5, <2>1, RefilledRange DEF StatesOf
      <3> QED
        BY <1>5, <3>1 DEF Level
    <2>3. Level(r, now, s) \in Nat
      BY LevelNat
    <2>4. Level(r, now, s) <= Larger(debt - present, 0)
      BY <1>5, NotAheadLevelOfBucket
    <2>5. CASE out.hit.blocked
      BY <1>2, <1>5, <2>1, <2>2, <2>4, <2>5 DEF MeteredStep, NotAhead, DebtAfter
    <2>6. CASE ~out.hit.blocked
      <3>1. Capacity(r) - t.tokens = Level(r, now, s) + price
        BY <1>2, <2>2, <2>6 DEF MeteredStep
      <3>2. after = Larger(debt, present) + price
        BY <1>4, <2>6 DEF DebtAfter
      <3> HIDE DEF present, price, t, after
      <3>3. Level(r, now, s) + price <= Larger((Larger(debt, present) + price) - present, 0)
        BY <1>1, <2>3, <2>4, SMT DEF Larger
      <3>4. Capacity(r) - t.tokens <= Larger(after - t.updatedAt * r.limit, 0)
        BY <2>1, <3>1, <3>2, <3>3 DEF present
      <3>5. NotAhead(r, after, t)
        BY <1>5, <3>4 DEF NotAhead
      <3> QED
        BY <3>5 DEF after, t
    <2> QED
      BY <2>5, <2>6
  <1>6. CASE r.algorithm = "gcra"
    <2> DEFINE from == Tat(r, now, s)
               banned == ActiveBanUntil(s, now) > now
               early == present < NextTat(r, now, from) - Capacity(r)
    <2>1. s \in GcraStates \cup {NoState} /\ out = GcraHit(r, now, s)
      BY <1>6 DEF StatesOf, EvaluateAlgorithmHit
    <2>2. SameState(s, "gcra") = s /\ s.banUntil \in Nat
      BY <2>1 DEF SameState, GcraStates, NoState
    <2>3. out.hit.blocked <=> s.banUntil > now \/ early
      BY <2>1, GcraBlocks
    <2>4. banned <=> s.banUntil > now
      BY <2>2, SMT DEF ActiveBanUntil
    <2>5. t.tat = IF out.hit.blocked THEN from ELSE NextTat(r, now, from)
      <3>1. t.tat = IF banned \/ (~banned /\ early) THEN from ELSE NextTat(r, now, from)
        BY <2>1, <2>2 DEF GcraHit
      <3> QED
        BY <2>3, <2>4, <3>1
    <2>6. ASSUME r.cost <= r.limit PROVE t.tat <= after
      <3>1. CASE s = NoState
        <4>1. from = present /\ ~(s.banUntil > now)
          BY <3>1, SMT DEF Tat, NoState
        <4>2. price <= Capacity(r)
          <5>1. \A x, y, z \in Nat : x <= y => x * z <= y * z
            BY SMT
          <5> QED
            BY <2>6, <5>1 DEF Capacity, Rules
        <4>3. ~early
          <5>1. NextTat(r, now, from) = Larger(present, present) + price
            BY <1>1, <4>1 DEF NextTat
          <5> HIDE DEF present, price
          <5>2. ~(present < (Larger(present, present) + price) - Capacity(r))
            BY <1>1, <4>2, SMT DEF Larger
          <5> QED
            BY <5>1, <5>2 DEF present
        <4>4. ~out.hit.blocked
          BY <2>3, <4>1, <4>3
        <4> QED
          BY <2>5, <4>1, <4>4, NextTatGrows DEF DebtAfter
      <3>2. CASE s # NoState
        <4>1. from = s.tat /\ from \in Nat /\ from <= debt
          BY <1>6, <2>1, <2>6, <3>2 DEF Tat, GcraStates, NotAhead
        <4> QED
          BY <2>5, <4>1, NextTatGrows DEF DebtAfter
      <3> QED
        BY <3>1, <3>2
    <2> QED
      BY <1>6, <2>6 DEF NotAhead
  <1> QED
    BY <1>5, <1>6 DEF Metered

-----------------------------------------------------------------------------
(* The inductive invariant of the types.                                   *)

\* A state the process may find or have found.
Sound(r, c, debt, s) ==
    /\ s \in StatesOf(r) \cup {NoState}
    /\ InReach(r, c, s)
    /\ Metered(r) => NotAhead(r, debt, s)

\* A number of the script.
SoundNumber(r, c, debt, s) ==
    /\ r.algorithm = "gcra"
    /\ s = Number(s.tat) /\ s.tat \in Nat
    /\ s.tat <= debt /\ s.tat <= c * r.limit + Capacity(r)

KeySound(r, c, debt, key) ==
    /\ key = [value |-> key.value, expires |-> key.expires]
    /\ key.expires \in Nat \cup {Gone}
    /\ key.expires <= c + Larger(2 * r.window, r.ban) + MaxLag
    /\ Sound(r, c, debt, key.value) \/ SoundNumber(r, c, debt, key.value)

IsJob(j) ==
    /\ j = [now |-> j.now, next |-> j.next, current |-> j.current, previous |-> j.previous]
    /\ j.now \in Nat /\ j.current \in Nat /\ j.previous \in Nat

\* The outcome a hit is about to write is that of a sound state.
Pending(r, c, debt, j) ==
    \E s \in StatesOf(r) \cup {NoState} :
        Sound(r, c, debt, s) /\ j.next = EvaluateAlgorithmHit(r, j.now, s)

Commands == {"eval", "get", "psetex"} \cup Sliding

Places == Commands \cup {"idle", "done", "failed"}

\* A hit at p that knows j.
HitSound(r, c, debt, ps, p, j) ==
    /\ IsJob(j) /\ j.now <= c
    /\ p \in Places
    /\ p \in Sliding => r.algorithm = "sliding-window"
    /\ p = "eval" => r.algorithm = "gcra"
    /\ p \in {"get", "psetex"} => Metered(r)
    /\ p \in Commands => c - j.now <= MaxLag
    /\ p = "psetex" => "portable" \in ps /\ Pending(r, c, debt, j)

HitsSound ==
    /\ pc \in [Hits -> Places]
    /\ DOMAIN job = Hits
    /\ \A h \in Hits : HitSound(rule, clock, charged, paths, pc[h], job[h])
    /\ \A h \in Hits : pc[h] = "eval" => InstanceOf[h] \in AtomicSupported

LateSound ==
    \A l \in late : /\ l \in Hits \X (0 .. clock)
                    /\ clock - l[2] <= MaxLag
                    /\ rule.algorithm = "gcra"

ServerRanges ==
    /\ rule \in RuleChoices
    /\ clock \in 0 .. MaxClock
    /\ windowKeys \in [0 .. MaxClock -> KeysHolding(Nat)]
    /\ banKey \in KeysHolding({0, 1})
    /\ banKey.expires # NoExpiry

FlagRanges ==
    /\ useGcraAtomic \in [Instances -> BOOLEAN]
    /\ \A i \in Instances : useGcraAtomic[i] => i \in AtomicSupported
    /\ failures \in 0 .. MaxFailures

HistoryRanges ==
    /\ paths \subseteq {"script", "portable", "sliding"}
    /\ charged \in Nat
    /\ reference \in {NoState, Unknown} \cup StatesOf(rule)
    /\ promised \in Nat
    /\ admitted \in [0 .. MaxClock -> Nat]

TypeInv ==
    /\ ServerRanges
    /\ FlagRanges
    /\ HistoryRanges
    /\ KeySound(rule, clock, charged, stateKey)
    /\ HitsSound
    /\ LateSound

-----------------------------------------------------------------------------
(* Later times and larger debts keep what is sound.                        *)

LEMMA RuleIsRule ==
    ASSUME NEW r \in RuleChoices
    PROVE  r \in Rules /\ r.algorithm # "fixed-window"
  BY ChoicesType

LEMMA InReachLater ==
    ASSUME NEW r \in Rules, NEW c \in Nat, NEW d \in Nat, c <= d,
           NEW s \in StatesOf(r) \cup {NoState}, InReach(r, c, s)
    PROVE  InReach(r, d, s)
  <1>1. s.banUntil \in Nat
    BY BanUntilNat
  <1>2. s.banUntil <= d + r.ban
    BY <1>1, SMT DEF InReach, Rules
  <1>3. s.algorithm = "fixed-window" => s.resetAt <= d + r.window
    BY SMT DEF InReach, Rules, StatesOf, FixedStates, SlidingStates, TokenStates, GcraStates,
               NoState, AlgorithmNames
  <1>4. ASSUME s.algorithm = "gcra" PROVE s.tat <= d * r.limit + Capacity(r)
    <2>1. s.tat \in Nat
      BY <1>4 DEF Rules, StatesOf, FixedStates, SlidingStates, TokenStates, GcraStates,
                  NoState, AlgorithmNames
    <2>2. c * r.limit \in Nat /\ d * r.limit \in Nat /\ c * r.limit <= d * r.limit
      BY TimesLimit
    <2>3. s.tat <= c * r.limit + Capacity(r) /\ Capacity(r) \in Nat
      BY <1>4, CapacityNat DEF InReach
    <2> QED
      BY <2>1, <2>2, <2>3, SMT
  <1> QED
    BY <1>2, <1>3, <1>4 DEF InReach

LEMMA SoundLater ==
    ASSUME NEW r \in Rules, NEW c \in Nat, NEW d \in Nat, c <= d,
           NEW debt \in Nat, NEW more \in Nat, debt <= more, NEW s, Sound(r, c, debt, s)
    PROVE  Sound(r, d, more, s)
  <1>1. s \in StatesOf(r) \cup {NoState}
    BY DEF Sound
  <1> QED
    BY <1>1, InReachLater, NotAheadLater DEF Sound

LEMMA KeySoundLater ==
    ASSUME NEW r \in Rules, NEW c \in Nat, NEW d \in Nat, c <= d,
           NEW debt \in Nat, NEW more \in Nat, debt <= more, NEW key, KeySound(r, c, debt, key)
    PROVE  KeySound(r, d, more, key)
  <1>1. Sound(r, c, debt, key.value) => Sound(r, d, more, key.value)
    BY SoundLater
  <1>2. ASSUME SoundNumber(r, c, debt, key.value) PROVE SoundNumber(r, d, more, key.value)
    <2>1. c * r.limit \in Nat /\ d * r.limit \in Nat /\ c * r.limit <= d * r.limit
      BY TimesLimit
    <2>2. Capacity(r) \in Nat
      BY CapacityNat
    <2>3. /\ key.value.tat \in Nat /\ key.value.tat <= debt
          /\ key.value.tat <= c * r.limit + Capacity(r)
      BY <1>2 DEF SoundNumber
    <2>4. key.value.tat <= more /\ key.value.tat <= d * r.limit + Capacity(r)
      BY <2>1, <2>2, <2>3, SMT
    <2> QED
      BY <1>2, <2>4 DEF SoundNumber
  <1>3. key.expires <= d + Larger(2 * r.window, r.ban) + MaxLag
    <2>1. key.expires \in Int /\ key.expires <= c + Larger(2 * r.window, r.ban) + MaxLag
      BY SMT DEF KeySound, Gone
    <2>2. Larger(2 * r.window, r.ban) \in Nat
      BY SMT DEF Larger, Rules
    <2> QED
      BY <2>1, <2>2, MaxLagType, SMT
  <1> QED
    BY <1>1, <1>2, <1>3 DEF KeySound

\* No state is sound at any time.
LEMMA EmptySound ==
    ASSUME NEW r \in Rules, NEW c \in Nat, NEW debt \in Nat
    PROVE  Sound(r, c, debt, NoState)
  <1>1. NoState.banUntil = 0 /\ NoState.algorithm = "none"
    BY DEF NoState
  <1>2. 0 <= c + r.ban
    BY SMT DEF Rules
  <1> QED
    BY <1>1, <1>2 DEF Sound, InReach, NotAhead

\* A hit that does not move, at the same time.
LEMMA HitSoundKept ==
    ASSUME NEW r \in Rules, NEW c \in Nat, NEW debt \in Nat, NEW more \in Nat, debt <= more,
           NEW ps, NEW qs, ps \subseteq qs, NEW p, NEW j, HitSound(r, c, debt, ps, p, j)
    PROVE  HitSound(r, c, more, qs, p, j)
  <1>1. c <= c
    OBVIOUS
  <1>2. Pending(r, c, debt, j) => Pending(r, c, more, j)
    BY <1>1, SoundLater DEF Pending
  <1> QED
    BY <1>2 DEF HitSound

\* A hit that does not move while the clock does.
LEMMA HitSoundTicks ==
    ASSUME NEW r \in Rules, NEW c \in Nat, NEW debt \in Nat,
           NEW ps, NEW p, NEW j, HitSound(r, c, debt, ps, p, j),
           p \notin {"idle", "done", "failed"} => c - j.now < MaxLag
    PROVE  HitSound(r, c + 1, debt, ps, p, j)
  <1>1. c + 1 \in Nat /\ c <= c + 1 /\ debt <= debt
    OBVIOUS
  <1>2. Pending(r, c, debt, j) => Pending(r, c + 1, debt, j)
    BY <1>1, SoundLater DEF Pending
  <1>3. j.now \in Nat /\ j.now <= c
    BY DEF HitSound, IsJob
  <1>4. ASSUME p \in Commands PROVE (c + 1) - j.now <= MaxLag
    <2>1. p \notin {"idle", "done", "failed"}
      BY <1>4 DEF Commands, Sliding
    <2> QED
      BY <1>3, <2>1, MaxLagType, SMT
  <1>5. j.now <= c + 1
    BY <1>3, SMT
  <1> QED
    BY <1>2, <1>4, <1>5 DEF HitSound

-----------------------------------------------------------------------------
(* The parts of a step.                                                    *)

\* A hit moves to p with j, and no other does.
LEMMA HitMoves ==
    ASSUME TypeInv, NEW h \in Hits, NEW p, NEW j,
           pc' = [pc EXCEPT ![h] = p], job' = [job EXCEPT ![h] = j],
           rule' = rule, clock' = clock,
           charged' \in Nat, charged <= charged', paths \subseteq paths',
           HitSound(rule, clock, charged', paths', p, j),
           p = "eval" => InstanceOf[h] \in AtomicSupported
    PROVE  HitsSound'
  <1>1. rule \in Rules /\ clock \in Nat /\ charged \in Nat
    BY RuleIsRule, MaxClockType DEF TypeInv, ServerRanges, HistoryRanges
  <1>2. /\ pc \in [Hits -> Places] /\ DOMAIN job = Hits
        /\ \A g \in Hits : HitSound(rule, clock, charged, paths, pc[g], job[g])
        /\ \A g \in Hits : pc[g] = "eval" => InstanceOf[g] \in AtomicSupported
    BY DEF TypeInv, HitsSound
  <1>3. p \in Places
    BY DEF HitSound
  <1>4. pc' \in [Hits -> Places] /\ DOMAIN job' = Hits
    BY <1>2, <1>3
  <1>5. ASSUME NEW g \in Hits
        PROVE  /\ HitSound(rule, clock, charged', paths', pc'[g], job'[g])
               /\ pc'[g] = "eval" => InstanceOf[g] \in AtomicSupported
    <2>1. CASE g = h
      BY <1>2, <2>1
    <2>2. CASE g # h
      <3>1. pc'[g] = pc[g] /\ job'[g] = job[g]
        BY <1>2, <2>2
      <3>2. HitSound(rule, clock, charged', paths', pc[g], job[g])
        BY <1>1, <1>2, HitSoundKept
      <3> QED
        BY <1>2, <3>1, <3>2
    <2> QED
      BY <2>1, <2>2
  <1>6. \A g \in Hits : HitSound(rule, clock, charged, paths, pc[g], job[g])'
    BY <1>5
  <1> QED
    BY <1>4, <1>5, <1>6 DEF HitsSound

\* No hit moves, and the clock does not either.
LEMMA HitsStay ==
    ASSUME TypeInv, UNCHANGED <<rule, clock, pc, job>>,
           charged' \in Nat, charged <= charged', paths \subseteq paths'
    PROVE  HitsSound'
  <1>1. rule \in Rules /\ clock \in Nat /\ charged \in Nat
    BY RuleIsRule, MaxClockType DEF TypeInv, ServerRanges, HistoryRanges
  <1>2. /\ pc \in [Hits -> Places] /\ DOMAIN job = Hits
        /\ \A g \in Hits : HitSound(rule, clock, charged, paths, pc[g], job[g])
        /\ \A g \in Hits : pc[g] = "eval" => InstanceOf[g] \in AtomicSupported
    BY DEF TypeInv, HitsSound
  <1>3. \A g \in Hits : HitSound(rule, clock, charged', paths', pc[g], job[g])
    BY <1>1, <1>2, HitSoundKept
  <1>4. \A g \in Hits : HitSound(rule, clock, charged, paths, pc[g], job[g])'
    BY <1>3
  <1> QED
    BY <1>2, <1>4 DEF HitsSound

\* What is known of a hit.
LEMMA HitKnown ==
    ASSUME TypeInv, NEW h \in Hits
    PROVE  /\ HitSound(rule, clock, charged, paths, pc[h], job[h])
           /\ job[h].now \in 0 .. clock /\ job[h].now \in 0 .. MaxClock
           /\ job[h].now \in Nat /\ clock \in Nat
           /\ rule \in Rules /\ rule.algorithm # "fixed-window" /\ charged \in Nat
  <1>1. HitSound(rule, clock, charged, paths, pc[h], job[h])
    BY DEF TypeInv, HitsSound
  <1>2. clock \in 0 .. MaxClock
    BY DEF TypeInv, ServerRanges
  <1>3. job[h].now \in Nat /\ job[h].now <= clock
    BY <1>1 DEF HitSound, IsJob
  <1>4. rule \in Rules /\ rule.algorithm # "fixed-window"
    BY RuleIsRule DEF TypeInv, ServerRanges
  <1>5. charged \in Nat
    BY DEF TypeInv, HistoryRanges
  <1> QED
    BY <1>1, <1>2, <1>3, <1>4, <1>5, MaxClockType, SMT

\* What is found under the state key is sound, or a number.
LEMMA StoredSound ==
    ASSUME TypeInv
    PROVE  Sound(rule, clock, charged, Stored) \/ SoundNumber(rule, clock, charged, Stored)
  <1>1. rule \in Rules /\ clock \in Nat /\ charged \in Nat
    BY RuleIsRule, MaxClockType DEF TypeInv, ServerRanges, HistoryRanges
  <1>2. Stored = NoState \/ Stored = stateKey.value
    BY DEF Stored, Get
  <1>3. Sound(rule, clock, charged, NoState)
    BY <1>1, EmptySound
  <1> QED
    BY <1>2, <1>3 DEF TypeInv, KeySound

\* What the process makes of it.
LEMMA ReadSound ==
    ASSUME TypeInv
    PROVE  Sound(rule, clock, charged, SameState(Stored, rule.algorithm))
  <1>1. rule \in Rules /\ clock \in Nat /\ charged \in Nat
    BY RuleIsRule, MaxClockType DEF TypeInv, ServerRanges, HistoryRanges
  <1>2. Sound(rule, clock, charged, NoState)
    BY <1>1, EmptySound
  <1>3. SameState(Stored, rule.algorithm) \in {Stored, NoState}
    BY DEF SameState
  <1>4. ASSUME SoundNumber(rule, clock, charged, Stored)
        PROVE  SameState(Stored, rule.algorithm) = NoState
    <2>1. Stored = Number(Stored.tat) /\ rule.algorithm = "gcra"
      BY <1>4 DEF SoundNumber
    <2>2. Stored.algorithm = "number"
      BY <2>1 DEF Number
    <2> QED
      BY <2>1, <2>2 DEF SameState
  <1> QED
    BY <1>2, <1>3, <1>4, StoredSound

\* A hit follows the reference, or loses it.
LEMMA FollowTyped ==
    ASSUME TypeInv, NEW now \in Nat, NEW path \in {"script", "portable", "sliding"},
           Follow(now, path)
    PROVE  /\ paths' \subseteq {"script", "portable", "sliding"} /\ paths \subseteq paths'
           /\ path \in paths'
           /\ reference' \in {NoState, Unknown} \cup StatesOf(rule)
  <1>1. rule \in Rules
    BY RuleIsRule DEF TypeInv, ServerRanges
  <1>2. /\ paths \subseteq {"script", "portable", "sliding"} /\ paths' = paths \cup {path}
        /\ reference \in {NoState, Unknown} \cup StatesOf(rule)
    BY DEF TypeInv, HistoryRanges, Follow
  <1>3. \/ reference' = Unknown
        \/ reference # Unknown /\ reference' = EvaluateAlgorithmHit(rule, now, reference).state
    BY DEF Follow
  <1>4. reference # Unknown => EvaluateAlgorithmHit(rule, now, reference).state \in StatesOf(rule)
    BY <1>1, <1>2, EvaluateType
  <1> QED
    BY <1>2, <1>3, <1>4

\* What an answer does to the history.
LEMMA AnswerTyped ==
    ASSUME TypeInv, NEW h \in Hits, NEW now \in Nat, NEW hit, hit.banUntil \in Nat,
           Answer(h, now, hit)
    PROVE  promised' \in Nat /\ admitted' \in [0 .. MaxClock -> Nat]
  <1>1. promised \in Nat /\ admitted \in [0 .. MaxClock -> Nat]
    BY DEF TypeInv, HistoryRanges
  <1>2. promised' = Larger(promised, hit.banUntil)
    BY DEF Answer
  <1>3. promised' \in Nat
    BY <1>1, <1>2, SMT DEF Larger
  <1>4. \/ admitted' = admitted
        \/ admitted' = [t \in 0 .. MaxClock |-> admitted[t] + IF now <= t THEN 1 ELSE 0]
    BY <1>1 DEF Answer
  <1>5. \A t \in 0 .. MaxClock : (admitted[t] + IF now <= t THEN 1 ELSE 0) \in Nat
    BY <1>1
  <1> QED
    BY <1>1, <1>3, <1>4, <1>5

\* A hit that is done knows nothing any more.
LEMMA NoJobSound ==
    ASSUME NEW r \in Rules, NEW c \in Nat, NEW debt, NEW ps, NEW p \in {"idle", "done", "failed"}
    PROVE  HitSound(r, c, debt, ps, p, NoJob) /\ IsJob(NoJob)
  <1>1. IsJob(NoJob) /\ NoJob.now = 0
    BY DEF IsJob, NoJob
  <1>2. 0 <= c
    OBVIOUS
  <1>3. p \in Places /\ p \notin Commands /\ p \notin Sliding
            /\ p \notin {"eval", "get", "psetex"}
    BY DEF Places, Commands, Sliding
  <1> QED
    BY <1>1, <1>2, <1>3 DEF HitSound

-----------------------------------------------------------------------------
(* The script.                                                             *)

\* The quantities of the script are numbers, those it reads within reach.
LEMMA ScriptTyped ==
    ASSUME TypeInv, rule.algorithm = "gcra", NEW now \in 0 .. clock
    PROVE  /\ ScriptTat(now) \in Nat /\ ScriptNextTat(now) \in Nat
           /\ ScriptNextTat(now) <= NextTat(rule, now, charged)
           /\ RunningBan \in Nat /\ ScriptBanTtl(now) \in Nat
           /\ ScriptHit(now).banUntil \in Nat
           /\ ScriptTat(now) <= clock * rule.limit + Capacity(rule)
           /\ ScriptAdmits(now) => ScriptNextTat(now) <= now * rule.limit + Capacity(rule)
  <1> DEFINE present == now * rule.limit
             price == rule.window * rule.cost
             bound == clock * rule.limit
  <1>1. rule \in Rules /\ clock \in Nat /\ charged \in Nat /\ now \in Nat /\ now <= clock
    BY RuleIsRule, MaxClockType DEF TypeInv, ServerRanges, HistoryRanges
  <1>2. /\ present \in Nat /\ bound \in Nat /\ present <= bound /\ price \in Nat
        /\ Capacity(rule) \in Nat
    <2>1. price \in Nat
      BY <1>1, SMT DEF Rules
    <2> QED
      BY <1>1, <2>1, TimesLimit, CapacityNat
  <1>3. \/ ScriptTat(now) = present
        \/ /\ ScriptTat(now) \in Nat /\ ScriptTat(now) <= charged
           /\ ScriptTat(now) <= bound + Capacity(rule)
    <2>1. CASE Stored.algorithm = "number"
      <3>1. ~Sound(rule, clock, charged, Stored)
        BY <1>1, <2>1 DEF Sound, StatesOf, FixedStates, SlidingStates, TokenStates, GcraStates,
                          NoState, Rules, AlgorithmNames
      <3>2. SoundNumber(rule, clock, charged, Stored)
        BY <3>1, StoredSound
      <3> QED
        BY <2>1, <3>2 DEF ScriptTat, SoundNumber
    <2>2. CASE Stored.algorithm # "number"
      BY <2>2 DEF ScriptTat
    <2> QED
      BY <2>1, <2>2
  <1>4. ScriptTat(now) \in Nat /\ ScriptTat(now) <= bound + Capacity(rule)
    <2> HIDE DEF present, bound
    <2> QED
      BY <1>2, <1>3, SMT
  <1>5. ScriptNextTat(now) = NextTat(rule, now, ScriptTat(now))
    BY DEF ScriptNextTat, NextTat
  <1>6. ScriptNextTat(now) \in Nat
    BY <1>1, <1>4, <1>5, NextTatGrows
  <1>7. ScriptNextTat(now) <= NextTat(rule, now, charged)
    BY <1>1, <1>3, <1>4, <1>5, NextTatGrows
  <1>8. RunningBan \in Nat
    <2>1. Pttl(banKey, clock) \in Int
      BY <1>1 DEF TypeInv, ServerRanges, KeysHolding, Pttl, NoExpiry, Gone
    <2> QED
      BY <2>1, SMT DEF RunningBan, Larger
  <1>9. ScriptBanTtl(now) \in Nat
    BY <1>1, <1>8 DEF ScriptBanTtl, Rules
  <1>10. ScriptHit(now).banUntil \in Nat
    <2>1. ScriptHit(now).banUntil
              = IF ScriptBanTtl(now) > 0 THEN now + ScriptBanTtl(now) ELSE 0
      BY DEF ScriptHit, HitResult
    <2> QED
      BY <1>1, <1>9, <2>1
  <1>11. ScriptAdmits(now) => ScriptNextTat(now) <= present + Capacity(rule)
    <2>1. ScriptWait(now) = ScriptNextTat(now) - Capacity(rule) - present
      BY DEF ScriptWait
    <2> HIDE DEF present
    <2> QED
      BY <1>2, <1>6, <2>1, SMT DEF ScriptAdmits
  <1> QED
    BY <1>4, <1>6, <1>7, <1>8, <1>9, <1>10, <1>11

\* A key that was set expires after it was; what was stored is past by then.
LEMMA ScriptTtlCovers ==
    ASSUME TypeInv, rule.algorithm = "gcra", NEW now \in 0 .. clock, ScriptAdmits(now)
    PROVE  /\ ScriptTtl(now) \in Nat /\ 1 <= ScriptTtl(now)
           /\ ScriptTtl(now) <= 2 * rule.window
           /\ Capacity(rule) + ScriptNextTat(now) <= now * rule.limit + ScriptTtl(now) * rule.limit
  <1> DEFINE present == now * rule.limit
             C == Capacity(rule)
             next == ScriptNextTat(now)
             span == C + next - present
             life == CeilDiv(span, rule.limit)
  <1>1. /\ rule \in Rules /\ rule.limit \in Nat \ {0} /\ rule.window \in Nat \ {0}
        /\ now \in Nat
    BY RuleIsRule, MaxClockType DEF TypeInv, ServerRanges, Rules
  <1>2. present \in Nat /\ C \in Nat
    BY <1>1, CapacityNat, SMT
  <1>3. next \in Nat /\ next <= present + C
    BY ScriptTyped
  <1>4. present <= next
    <2>1. ScriptTat(now) \in Nat /\ rule.window * rule.cost \in Nat
      BY <1>1, ScriptTyped, SMT DEF Rules
    <2>2. next = Larger(ScriptTat(now), present) + rule.window * rule.cost
      BY DEF ScriptNextTat
    <2> HIDE DEF present
    <2> QED
      BY <1>2, <2>1, <2>2, SMT DEF Larger
  <1>5. C = rule.window * rule.limit
    BY <1>1, SMT DEF Capacity
  <1>6. ScriptTtl(now) = Larger(1, life)
    BY DEF ScriptTtl
  <1> HIDE DEF present, C, next
  <1>7. span \in Nat /\ span <= C + C /\ span + present = C + next
    BY <1>2, <1>3, <1>4, SMT
  <1> HIDE DEF span
  <1>8. 2 * rule.window \in Nat /\ (2 * rule.window) * rule.limit = C + C
    <2>1. \A y, z \in Nat : (2 * y) * z = y * z + y * z
      BY SMT
    <2> QED
      BY <1>1, <1>5, <2>1
  <1>9. life \in Nat /\ life <= 2 * rule.window /\ span <= life * rule.limit
    <2>1. span <= (2 * rule.window) * rule.limit
      BY <1>7, <1>8
    <2> QED
      BY <1>1, <1>7, <1>8, <2>1, CeilDivNat, CeilDivAtMost, CeilDivCovers
  <1> HIDE DEF life
  <1> DEFINE ttl == ScriptTtl(now)
  <1>10. ttl \in Nat /\ 1 <= ttl /\ ttl <= 2 * rule.window /\ life <= ttl
    BY <1>1, <1>6, <1>9, SMT DEF Larger
  <1> HIDE DEF ttl
  <1>11. life * rule.limit <= ttl * rule.limit /\ life * rule.limit \in Nat
             /\ ttl * rule.limit \in Nat
    <2>1. \A x, y, z \in Nat : (x <= y => x * z <= y * z) /\ x * z \in Nat
      BY SMT
    <2> QED
      BY <1>1, <1>9, <1>10, <2>1
  <1>12. C + next <= present + ttl * rule.limit
    BY <1>2, <1>3, <1>7, <1>9, <1>11, SMT
  <1> QED
    BY <1>10, <1>12 DEF ttl, C, next, present

LEMMA ScriptKeepsTypes ==
    ASSUME TypeInv, rule.algorithm = "gcra", NEW now \in 0 .. clock, ScriptRuns(now)
    PROVE  /\ charged' \in Nat /\ charged <= charged'
           /\ KeySound(rule, clock, charged', stateKey')
           /\ banKey' \in KeysHolding({0, 1}) /\ banKey'.expires # NoExpiry
           /\ paths' \subseteq {"script", "portable", "sliding"} /\ paths \subseteq paths'
           /\ reference' \in {NoState, Unknown} \cup StatesOf(rule)
  <1>1. rule \in Rules /\ clock \in Nat /\ charged \in Nat /\ now \in Nat /\ now <= clock
    BY RuleIsRule, MaxClockType DEF TypeInv, ServerRanges, HistoryRanges
  <1>2. /\ charged' = IF ScriptAdmits(now) THEN NextTat(rule, now, charged) ELSE charged
        /\ stateKey' = ScriptState(now)
        /\ Follow(now, "script")
        /\ banKey' = IF ScriptEarly(now) /\ ScriptBanTtl(now) > 0
                     THEN Psetex(1, clock, ScriptBanTtl(now)) ELSE banKey
    BY DEF ScriptRuns, Charge
  <1>3. charged' \in Nat /\ charged <= charged'
    BY <1>1, <1>2, NextTatGrows
  <1>4. /\ paths' \subseteq {"script", "portable", "sliding"} /\ paths \subseteq paths'
        /\ reference' \in {NoState, Unknown} \cup StatesOf(rule)
    BY <1>1, <1>2, FollowTyped
  <1>5. banKey' \in KeysHolding({0, 1}) /\ banKey'.expires # NoExpiry
    <2>1. ScriptBanTtl(now) \in Nat
      BY ScriptTyped
    <2>2. Psetex(1, clock, ScriptBanTtl(now)) \in KeysHolding({0, 1})
              /\ Psetex(1, clock, ScriptBanTtl(now)).expires # NoExpiry
      BY <1>1, <2>1 DEF Psetex, KeysHolding, NoExpiry
    <2> QED
      BY <1>2, <2>2 DEF TypeInv, ServerRanges
  <1>6. CASE ScriptAdmits(now)
    <2> DEFINE key == Psetex(Number(ScriptNextTat(now)), clock, ScriptTtl(now))
    <2>1. stateKey' = key
      BY <1>2, <1>6 DEF ScriptState
    <2>2. /\ key = [value |-> key.value, expires |-> key.expires]
          /\ key.value = Number(ScriptNextTat(now)) /\ key.value.tat = ScriptNextTat(now)
          /\ key.expires = clock + ScriptTtl(now)
      BY DEF Psetex, Number
    <2> HIDE DEF key
    <2>3. key.expires \in Nat /\ key.expires <= clock + Larger(2 * rule.window, rule.ban) + MaxLag
      BY <1>1, <1>6, <2>2, ScriptTtlCovers, MaxLagType, SMT DEF Larger, Rules
    <2>4. SoundNumber(rule, clock, charged', key.value)
      <3> DEFINE next == ScriptNextTat(now)
                 present == now * rule.limit
                 bound == clock * rule.limit
      <3>1. next \in Nat /\ next <= charged' /\ next <= present + Capacity(rule)
        BY <1>2, <1>6, ScriptTyped
      <3>2. present \in Nat /\ bound \in Nat /\ present <= bound /\ Capacity(rule) \in Nat
        BY <1>1, TimesLimit, CapacityNat
      <3> HIDE DEF next, present, bound
      <3>3. next <= bound + Capacity(rule)
        BY <3>1, <3>2, SMT
      <3> QED
        BY <2>2, <3>1, <3>3 DEF SoundNumber, next, bound
    <2>5. KeySound(rule, clock, charged', key)
      BY <2>2, <2>3, <2>4 DEF KeySound
    <2> QED
      BY <1>3, <1>4, <1>5, <2>1, <2>5
  <1>7. CASE ~ScriptAdmits(now)
    <2>1. stateKey' = stateKey
      BY <1>2, <1>7 DEF ScriptState
    <2>2. KeySound(rule, clock, charged', stateKey)
      BY <1>1, <1>3, KeySoundLater DEF TypeInv
    <2> QED
      BY <1>3, <1>4, <1>5, <2>1, <2>2
  <1> QED
    BY <1>6, <1>7

-----------------------------------------------------------------------------
(* The portable path and the sliding window.                               *)

\* A hit that has read evaluates what it found.
LEMMA ReadPends ==
    ASSUME TypeInv, NEW h \in Hits, NEW ps, "portable" \in ps, pc[h] = "get"
    PROVE  HitSound(rule, clock, charged, ps, "psetex",
                    [job[h] EXCEPT !.next = Evaluated(job[h].now)])
  <1> DEFINE j == [job[h] EXCEPT !.next = Evaluated(job[h].now)]
             s == SameState(Stored, rule.algorithm)
  <1>1. HitSound(rule, clock, charged, paths, pc[h], job[h])
    BY HitKnown
  <1>2. IsJob(job[h]) /\ job[h].now <= clock /\ Metered(rule) /\ clock - job[h].now <= MaxLag
    BY <1>1 DEF HitSound, Commands
  <1>3. /\ IsJob(j) /\ j.now = job[h].now /\ j.next = Evaluated(job[h].now)
    BY <1>2 DEF IsJob
  <1> HIDE DEF j
  <1>4. Sound(rule, clock, charged, s)
    BY ReadSound
  <1>5. j.next = EvaluateAlgorithmHit(rule, j.now, s)
    BY <1>3 DEF Evaluated
  <1>6. Pending(rule, clock, charged, j)
    BY <1>4, <1>5 DEF Pending, Sound
  <1> HIDE DEF s
  <1>7. HitSound(rule, clock, charged, ps, "psetex", j)
    BY <1>2, <1>3, <1>6 DEF HitSound, Places, Commands, Sliding
  <1> QED
    BY <1>7 DEF j

\* What is pending can be written and told.
LEMMA PendingTyped ==
    ASSUME TypeInv, NEW h \in Hits, pc[h] = "psetex"
    PROVE  LET next == job[h].next
               debt == DebtAfter(rule, job[h].now, charged, next.hit.blocked)
           IN  /\ next.state \in StatesOf(rule)
               /\ next.expiresAt \in Nat
               /\ next.expiresAt <= clock + Larger(2 * rule.window, rule.ban)
               /\ next.hit.banUntil \in Nat
               /\ Sound(rule, clock, debt, next.state)
               /\ Metered(rule) /\ "portable" \in paths /\ clock - job[h].now <= MaxLag
  <1> DEFINE next == job[h].next
             debt == DebtAfter(rule, job[h].now, charged, next.hit.blocked)
  <1>1. /\ HitSound(rule, clock, charged, paths, pc[h], job[h])
        /\ job[h].now \in 0 .. clock /\ job[h].now \in Nat /\ clock \in Nat
        /\ rule \in Rules /\ charged \in Nat
    BY HitKnown
  <1>2. /\ Metered(rule) /\ "portable" \in paths /\ Pending(rule, clock, charged, job[h])
        /\ clock - job[h].now <= MaxLag
    BY <1>1 DEF HitSound, Commands
  <1>3. PICK s \in StatesOf(rule) \cup {NoState} :
                 /\ Sound(rule, clock, charged, s)
                 /\ next = EvaluateAlgorithmHit(rule, job[h].now, s)
    BY <1>2 DEF Pending
  <1> HIDE DEF next
  <1>4. next.state \in StatesOf(rule) /\ next.expiresAt \in Nat
    BY <1>1, <1>3, EvaluateType
  <1>5. next.hit.banUntil = next.state.banUntil
    BY <1>1, <1>3, EvaluateBan DEF BanKept
  <1>6. next.hit.banUntil \in Nat
    BY <1>1, <1>4, <1>5, BanUntilNat
  <1>7. /\ InReach(rule, clock, next.state)
        /\ next.expiresAt <= clock + Larger(2 * rule.window, rule.ban)
    BY <1>1, <1>2, <1>3, EvaluateLate DEF Sound
  <1>8. NotAhead(rule, debt, next.state)
    BY <1>1, <1>2, <1>3, NotAheadKept DEF Sound
  <1> HIDE DEF debt
  <1>9. Sound(rule, clock, debt, next.state)
    BY <1>4, <1>7, <1>8 DEF Sound
  <1> QED
    BY <1>2, <1>4, <1>6, <1>7, <1>9 DEF next, debt

\* What is written is sound.
LEMMA WriteKeepsTypes ==
    ASSUME TypeInv, NEW h \in Hits, WriteState(h)
    PROVE  /\ charged' \in Nat /\ charged <= charged'
           /\ KeySound(rule, clock, charged', stateKey')
  <1> DEFINE next == job[h].next
             now == job[h].now
             ttl == StateTtl(now, next)
             key == Psetex(next.state, clock, ttl)
             most == Larger(2 * rule.window, rule.ban)
  <1>1. pc[h] = "psetex" /\ stateKey' = key
            /\ charged' = DebtAfter(rule, now, charged, next.hit.blocked)
    BY DEF WriteState, Charge, DebtAfter
  <1>2. rule \in Rules /\ clock \in Nat /\ charged \in Nat /\ now \in Nat /\ now <= clock
    BY HitKnown
  <1>3. /\ next.expiresAt \in Nat /\ next.expiresAt <= clock + most
        /\ Sound(rule, clock, charged', next.state)
        /\ clock - now <= MaxLag
    BY <1>1, PendingTyped
  <1>4. charged' \in Nat /\ charged <= charged'
    <2>1. charged' = charged \/ charged' = NextTat(rule, now, charged)
      BY <1>1 DEF DebtAfter
    <2>2. charged <= charged
      BY <1>2, SMT
    <2> QED
      BY <1>2, <2>1, <2>2, NextTatGrows
  <1>5. /\ key = [value |-> key.value, expires |-> key.expires]
        /\ key.value = next.state /\ key.expires = clock + ttl
    BY DEF Psetex
  <1>6. most \in Nat /\ 1 <= most
    BY <1>2, SMT DEF Larger, Rules
  <1>7. ttl = Larger(next.expiresAt - now, 1)
    BY DEF StateTtl
  <1> HIDE DEF key, next, now, ttl, most
  <1>8. ttl \in Nat /\ ttl <= most + MaxLag
    BY <1>2, <1>3, <1>6, <1>7, MaxLagType, SMT DEF Larger
  <1>9. key.expires \in Nat /\ key.expires <= clock + most + MaxLag
    BY <1>2, <1>5, <1>6, <1>8, MaxLagType, SMT
  <1>10. KeySound(rule, clock, charged', key)
    BY <1>3, <1>5, <1>9 DEF KeySound, most
  <1> QED
    BY <1>1, <1>4, <1>10

\* A sliding-window hit of the key finds its counter among those of the model.
LEMMA WindowInRange ==
    ASSUME TypeInv, NEW now \in 0 .. MaxClock
    PROVE  Window(now) \in 0 .. MaxClock
  <1>1. rule.window \in Nat \ {0} /\ now \in Nat /\ now <= MaxClock
    BY RuleIsRule, MaxClockType DEF TypeInv, ServerRanges, Rules
  <1> DEFINE w == rule.window
  <1>2. w \in Nat \ {0}
    BY <1>1
  <1> HIDE DEF w
  <1>3. now \div w \in Nat /\ now \div w <= now
    BY <1>1, <1>2, SMT
  <1> QED
    BY <1>1, <1>3, MaxClockType, SMT DEF Window, w

LEMMA CounterTyped ==
    ASSUME TypeInv, NEW w
    PROVE  WindowCount(w) \in Nat \/ w \notin 0 .. MaxClock
  <1> SUFFICES ASSUME w \in 0 .. MaxClock PROVE WindowCount(w) \in Nat
    OBVIOUS
  <1>1. windowKeys[w] \in KeysHolding(Nat)
    BY DEF TypeInv, ServerRanges
  <1> QED
    BY <1>1 DEF WindowCount, Get, KeysHolding

LEMMA PreviousTyped ==
    ASSUME TypeInv, NEW now \in 0 .. MaxClock
    PROVE  WindowCount(Window(now) - 1) \in Nat
  <1>1. Window(now) \in 0 .. MaxClock
    BY WindowInRange
  <1>2. CASE Window(now) - 1 < 0
    BY <1>2 DEF WindowCount
  <1>3. CASE Window(now) - 1 \in 0 .. MaxClock
    BY <1>3, CounterTyped
  <1> QED
    BY <1>1, <1>2, <1>3, MaxClockType, SMT

LEMMA IncrbyTyped ==
    ASSUME NEW key \in KeysHolding(Nat), NEW c \in Nat, NEW by \in Nat
    PROVE  Incrby(key, c, by) \in KeysHolding(Nat) /\ Incrby(key, c, by).value \in Nat
  BY DEF Incrby, KeysHolding, NoExpiry

LEMMA PexpireTyped ==
    ASSUME NEW key \in KeysHolding(Nat), NEW c \in Nat, NEW ttl \in Nat
    PROVE  Pexpire(key, c, ttl) \in KeysHolding(Nat)
  BY DEF Pexpire, KeysHolding

\* What a sliding-window hit answers.
LEMMA SlidingAnswerTyped ==
    ASSUME TypeInv, NEW h \in Hits, NEW previous, NEW banTtl \in Nat,
           SlidingAnswer(h, previous, banTtl)
    PROVE  /\ promised' \in Nat /\ admitted' \in [0 .. MaxClock -> Nat]
           /\ reference' \in {NoState, Unknown} \cup StatesOf(rule)
           /\ pc' = [pc EXCEPT ![h] = "done"] /\ job' = [job EXCEPT ![h] = NoJob]
  <1> DEFINE hit == SlidingHit(job[h].now, previous, job[h].current, banTtl)
  <1>1. job[h].now \in Nat
    BY HitKnown
  <1>2. hit.banUntil = IF banTtl > 0 THEN job[h].now + banTtl ELSE 0
    BY DEF SlidingHit, HitResult
  <1> HIDE DEF hit
  <1>3. hit.banUntil \in Nat
    BY <1>1, <1>2
  <1>4. Answer(h, job[h].now, hit)
    BY DEF SlidingAnswer, hit
  <1>5. promised' \in Nat /\ admitted' \in [0 .. MaxClock -> Nat]
    BY <1>1, <1>3, <1>4, AnswerTyped
  <1>6. reference' \in {reference, Unknown}
    BY DEF SlidingAnswer
  <1> QED
    BY <1>4, <1>5, <1>6 DEF Answer, TypeInv, HistoryRanges

\* A hit that goes on without a new record.
LEMMA HitGoesOn ==
    ASSUME TypeInv, NEW h \in Hits, pc[h] \in Commands, NEW p \in Sliding \cup {"get"}, NEW j,
           p \in Sliding => rule.algorithm = "sliding-window",
           p = "get" => Metered(rule),
           j = [now |-> job[h].now, next |-> j.next, current |-> j.current,
                previous |-> j.previous],
           j.current \in Nat, j.previous \in Nat, NEW ps
    PROVE  HitSound(rule, clock, charged, ps, p, j) /\ p # "eval"
  <1>1. HitSound(rule, clock, charged, paths, pc[h], job[h])
    BY HitKnown
  <1>2. job[h].now \in Nat /\ job[h].now <= clock /\ clock - job[h].now <= MaxLag
    BY <1>1 DEF HitSound, IsJob
  <1>3. j.now = job[h].now
    OBVIOUS
  <1>4. IsJob(j)
    BY <1>2 DEF IsJob
  <1>5. p \in Places /\ p # "eval" /\ p # "psetex"
    BY DEF Places, Commands, Sliding
  <1>6. p \in {"get"} => p \notin Sliding
    BY DEF Sliding
  <1> QED
    BY <1>2, <1>3, <1>4, <1>5 DEF HitSound

\* Where nothing but the hit changes.
LEMMA QuietRanges ==
    ASSUME TypeInv,
           UNCHANGED <<rule, clock, server, charged, promised, admitted>>,
           paths' = paths, reference' = reference \/ reference' = Unknown
    PROVE  ServerRanges' /\ HistoryRanges' /\ KeySound(rule, clock, charged, stateKey)'
  <1>1. ServerRanges'
    BY DEF TypeInv, ServerRanges, server
  <1>2. HistoryRanges'
    BY DEF TypeInv, HistoryRanges
  <1>3. KeySound(rule, clock, charged, stateKey)'
    BY DEF TypeInv, server
  <1> QED
    BY <1>1, <1>2, <1>3

-----------------------------------------------------------------------------
(* The type invariant.                                                     *)

LEMMA InitTypes == Init => TypeInv
  <1> SUFFICES ASSUME Init PROVE TypeInv
    OBVIOUS
  <1>1. rule \in RuleChoices /\ rule \in Rules
    BY RuleIsRule DEF Init
  <1>2. ServerRanges
    BY <1>1, MaxClockType DEF Init, ServerRanges, KeysHolding, Gone, NoExpiry
  <1>3. FlagRanges
    <2>1. useGcraAtomic = [i \in Instances |-> i \in AtomicSupported]
      BY DEF Init
    <2>2. useGcraAtomic \in [Instances -> BOOLEAN]
      BY <2>1
    <2>3. \A i \in Instances : useGcraAtomic[i] => i \in AtomicSupported
      BY <2>1
    <2>4. failures \in 0 .. MaxFailures
      BY MaxFailuresType DEF Init
    <2> QED
      BY <2>2, <2>3, <2>4 DEF FlagRanges
  <1>4. HistoryRanges
    BY DEF Init, HistoryRanges
  <1>5. KeySound(rule, clock, charged, stateKey)
    <2>1. Sound(rule, 0, 0, NoState)
      BY <1>1, EmptySound
    <2>2. stateKey = [value |-> NoState, expires |-> Gone] /\ clock = 0 /\ charged = 0
      BY DEF Init
    <2>3. Gone <= 0 + Larger(2 * rule.window, rule.ban) + MaxLag
      BY <1>1, MaxLagType, SMT DEF Gone, Larger, Rules
    <2> QED
      BY <2>1, <2>2, <2>3 DEF KeySound
  <1>6. HitsSound
    <2>1. \A h \in Hits : HitSound(rule, 0, 0, {}, "idle", NoJob)
      BY <1>1, NoJobSound
    <2> QED
      BY <2>1 DEF Init, HitsSound, Places
  <1>7. LateSound
    BY DEF Init, LateSound
  <1> QED
    BY <1>2, <1>3, <1>4, <1>5, <1>6, <1>7 DEF TypeInv

LEMMA TickKeepsTypes ==
    ASSUME TypeInv, Tick, rule' = rule
    PROVE  TypeInv'
  <1>1. /\ rule \in Rules /\ rule \in RuleChoices /\ clock \in Nat /\ charged \in Nat
        /\ clock' = clock + 1
        /\ clock' \in 0 .. MaxClock /\ clock' \in Nat /\ clock <= clock'
    BY RuleIsRule, MaxClockType DEF TypeInv, ServerRanges, HistoryRanges, Tick
  <1>2. UNCHANGED <<useGcraAtomic, pc, job, late, failures, history>>
    BY DEF Tick
  <1>3. ServerRanges'
    <2>1. windowKeys' \in [0 .. MaxClock -> KeysHolding(Nat)]
      <3>1. windowKeys' = [w \in 0 .. MaxClock |-> Forgotten(windowKeys[w], clock', 0)]
        BY DEF Tick, TypeInv, ServerRanges
      <3>2. \A w \in 0 .. MaxClock : windowKeys[w] \in KeysHolding(Nat)
        BY DEF TypeInv, ServerRanges
      <3> QED
        BY <3>1, <3>2 DEF Forgotten, KeysHolding, Gone
    <2>2. banKey' \in KeysHolding({0, 1}) /\ banKey'.expires # NoExpiry
      <3>1. banKey' = Forgotten(banKey, clock', 0)
        BY DEF Tick
      <3> QED
        BY <3>1 DEF TypeInv, ServerRanges, Forgotten, KeysHolding, Gone, NoExpiry
    <2> QED
      BY <1>1, <2>1, <2>2 DEF ServerRanges
  <1>4. FlagRanges' /\ HistoryRanges'
    BY <1>2 DEF TypeInv, FlagRanges, HistoryRanges, history
  <1>5. KeySound(rule, clock, charged, stateKey)'
    <2>1. stateKey' \in {stateKey, [value |-> NoState, expires |-> Gone]}
      BY DEF Tick, Forgotten
    <2>2. KeySound(rule, clock', charged, stateKey)
      <3>1. charged <= charged
        BY <1>1
      <3> QED
        BY <1>1, <3>1, KeySoundLater DEF TypeInv
    <2>3. KeySound(rule, clock', charged, [value |-> NoState, expires |-> Gone])
      <3>1. Sound(rule, clock', charged, NoState)
        BY <1>1, EmptySound
      <3>2. Gone <= clock' + Larger(2 * rule.window, rule.ban) + MaxLag
        BY <1>1, MaxLagType, SMT DEF Gone, Larger, Rules
      <3> QED
        BY <3>1, <3>2 DEF KeySound
    <2> QED
      BY <1>1, <1>2, <2>1, <2>2, <2>3 DEF history
  <1>6. HitsSound'
    <2>1. ASSUME NEW h \in Hits PROVE HitSound(rule, clock', charged, paths, pc[h], job[h])
      <3>1. HitSound(rule, clock, charged, paths, pc[h], job[h])
        BY DEF TypeInv, HitsSound
      <3>2. pc[h] \notin {"idle", "done", "failed"} => clock - job[h].now < MaxLag
        BY DEF Tick
      <3> QED
        BY <1>1, <3>1, <3>2, HitSoundTicks
    <2> QED
      BY <1>1, <1>2, <2>1 DEF TypeInv, HitsSound, history
  <1>7. LateSound'
    <2>1. ASSUME NEW l \in late
          PROVE  l \in Hits \X (0 .. clock') /\ clock' - l[2] <= MaxLag
                     /\ rule.algorithm = "gcra"
      <3>1. l \in Hits \X (0 .. clock) /\ rule.algorithm = "gcra"
        BY DEF TypeInv, LateSound
      <3>2. clock - l[2] < MaxLag
        BY DEF Tick
      <3>3. l[2] \in 0 .. clock
        BY <3>1
      <3> QED
        BY <1>1, <3>1, <3>2, <3>3, MaxLagType
    <2> QED
      BY <1>1, <1>2, <2>1 DEF LateSound
  <1> QED
    BY <1>3, <1>4, <1>5, <1>6, <1>7 DEF TypeInv

LEMMA StepKeepsTypes ==
    ASSUME TypeInv, NEW h \in Hits, Step(h), rule' = rule
    PROVE  TypeInv'
  <1> DEFINE now == job[h].now
  <1>1. /\ HitSound(rule, clock, charged, paths, pc[h], job[h])
        /\ now \in 0 .. clock /\ now \in 0 .. MaxClock /\ now \in Nat /\ clock \in Nat
        /\ rule \in Rules /\ rule.algorithm # "fixed-window" /\ charged \in Nat
    BY HitKnown
  <1>2. /\ IsJob(job[h]) /\ now <= clock
        /\ pc[h] \in Sliding => rule.algorithm = "sliding-window"
        /\ pc[h] = "eval" => rule.algorithm = "gcra"
        /\ pc[h] \in {"get", "psetex"} => Metered(rule)
    BY <1>1 DEF HitSound
  <1> HIDE DEF now
  <1>3. rule.cost \in Nat \ {0} /\ rule.window \in Nat \ {0} /\ rule.ban \in Nat
    BY <1>1 DEF Rules
  <1>4. /\ UNCHANGED late /\ clock' = clock => LateSound'
        /\ UNCHANGED <<useGcraAtomic, failures>> => FlagRanges'
    BY DEF TypeInv, LateSound, FlagRanges
  <1>5. charged <= charged /\ paths \subseteq paths
    BY <1>1
  <1>6. ASSUME UNCHANGED <<clock, server, charged, promised, admitted>>, paths' = paths,
               reference' = reference \/ reference' = Unknown
        PROVE  /\ ServerRanges' /\ HistoryRanges' /\ KeySound(rule, clock, charged, stateKey)'
    BY <1>6, QuietRanges
  <1>7. ASSUME NEW p, NEW j, Continue(h, p, j), clock' = clock, charged' = charged,
               paths \subseteq paths', HitSound(rule, clock, charged, paths', p, j),
               p = "eval" => InstanceOf[h] \in AtomicSupported
        PROVE  HitsSound'
    <2>1. pc' = [pc EXCEPT ![h] = p] /\ job' = [job EXCEPT ![h] = j]
      BY <1>7 DEF Continue
    <2> QED
      BY <1>1, <1>5, <1>7, <2>1, HitMoves
  <1>8. ASSUME NEW p \in Sliding \cup {"get"}, Continue(h, p, job[h]), pc[h] \in Commands,
               p \in Sliding => rule.algorithm = "sliding-window", p = "get" => Metered(rule),
               clock' = clock, charged' = charged, paths' = paths
        PROVE  HitsSound'
    <2>1. HitSound(rule, clock, charged, paths, p, job[h]) /\ p # "eval"
      <3>1. job[h] = [now |-> job[h].now, next |-> job[h].next, current |-> job[h].current,
                      previous |-> job[h].previous]
                /\ job[h].current \in Nat /\ job[h].previous \in Nat
        BY <1>2 DEF IsJob
      <3> QED
        BY <1>8, <3>1, HitGoesOn
    <2> QED
      BY <1>7, <1>8, <2>1
  <1>9. ASSUME NEW p \in {"done", "failed"}, pc' = [pc EXCEPT ![h] = p],
               job' = [job EXCEPT ![h] = NoJob], clock' = clock, charged' \in Nat,
               charged <= charged', paths \subseteq paths'
        PROVE  HitsSound'
    <2>1. HitSound(rule, clock, charged', paths', p, NoJob) /\ p # "eval"
      BY <1>1, <1>9, NoJobSound
    <2> QED
      BY <1>9, <2>1, HitMoves
  <1>10. CASE Start(h)
    <2> DEFINE p == IF rule.algorithm = "gcra" /\ useGcraAtomic[InstanceOf[h]] THEN "eval"
                    ELSE IF rule.algorithm = "sliding-window" THEN "incrby" ELSE "get"
               j == [NoJob EXCEPT !.now = clock]
    <2>1. /\ Continue(h, p, j) /\ UNCHANGED <<clock, server, useGcraAtomic, late, failures, history>>
      BY <1>10 DEF Start
    <2>2. UNCHANGED <<charged, promised, admitted, paths, reference>>
      BY <2>1 DEF history
    <2>3. HitSound(rule, clock, charged, paths, p, j)
      <3>1. IsJob(j) /\ j.now = clock
        BY <1>1 DEF IsJob, NoJob
      <3> HIDE DEF j
      <3>2. p \in {"eval", "incrby", "get"}
        OBVIOUS
      <3>3. /\ p = "eval" => rule.algorithm = "gcra"
            /\ p = "incrby" => rule.algorithm = "sliding-window"
            /\ p = "get" => Metered(rule)
        BY <1>1 DEF Metered, Rules, AlgorithmNames
      <3> HIDE DEF p
      <3>4. clock - j.now <= MaxLag /\ j.now <= clock
        BY <1>1, <3>1, MaxLagType
      <3> QED
        BY <3>1, <3>2, <3>3, <3>4 DEF HitSound, Places, Commands, Sliding
    <2>4. p = "eval" => InstanceOf[h] \in AtomicSupported
      BY InstanceType DEF TypeInv, FlagRanges
    <2> HIDE DEF p, j
    <2> QED
      BY <1>4, <1>5, <1>6, <1>7, <2>1, <2>2, <2>3, <2>4 DEF TypeInv
  <1>11. CASE EvalAnswers(h)
    <2>1. /\ pc[h] = "eval" /\ ScriptRuns(now) /\ Answer(h, now, ScriptHit(now))
          /\ UNCHANGED <<clock, windowKeys, useGcraAtomic, late, failures>>
      BY <1>11 DEF EvalAnswers, now
    <2>2. rule.algorithm = "gcra"
      BY <1>2, <2>1
    <2>3. /\ charged' \in Nat /\ charged <= charged'
          /\ KeySound(rule, clock, charged', stateKey')
          /\ banKey' \in KeysHolding({0, 1}) /\ banKey'.expires # NoExpiry
          /\ paths' \subseteq {"script", "portable", "sliding"} /\ paths \subseteq paths'
          /\ reference' \in {NoState, Unknown} \cup StatesOf(rule)
      BY <1>1, <2>1, <2>2, ScriptKeepsTypes
    <2>4. ScriptHit(now).banUntil \in Nat
      BY <1>1, <2>2, ScriptTyped
    <2>5. promised' \in Nat /\ admitted' \in [0 .. MaxClock -> Nat]
      BY <1>1, <2>1, <2>4, AnswerTyped
    <2>6. HitsSound'
      BY <1>9, <2>1, <2>3 DEF Answer
    <2>7. ServerRanges' /\ HistoryRanges' /\ KeySound(rule, clock, charged, stateKey)'
      BY <2>1, <2>3, <2>5 DEF TypeInv, ServerRanges, HistoryRanges
    <2> QED
      BY <1>4, <2>1, <2>6, <2>7 DEF TypeInv
  <1>12. CASE EvalRaises(h)
    <2>1. /\ pc[h] = "eval" /\ Continue(h, "get", job[h])
          /\ UNCHANGED <<clock, server, useGcraAtomic, late, failures, history>>
      BY <1>12 DEF EvalRaises
    <2>2. UNCHANGED <<charged, promised, admitted, paths, reference>>
      BY <2>1 DEF history
    <2>3. pc[h] \in Commands /\ Metered(rule) /\ "get" \notin Sliding
      BY <1>2, <2>1 DEF Commands, Metered, Sliding
    <2>4. HitsSound'
      BY <1>8, <2>1, <2>2, <2>3
    <2> QED
      BY <1>4, <1>6, <2>1, <2>2, <2>4 DEF TypeInv
  <1>13. CASE EvalLost(h)
    <2>1. /\ pc[h] = "eval" /\ Continue(h, "get", job[h])
          /\ failures < MaxFailures /\ failures' = failures + 1
          /\ late' = late \cup {<<h, now>>}
          /\ UNCHANGED <<clock, server, useGcraAtomic, history>>
      BY <1>13 DEF EvalLost, now
    <2>2. UNCHANGED <<charged, promised, admitted, paths, reference>>
      BY <2>1 DEF history
    <2>3. pc[h] \in Commands /\ Metered(rule) /\ "get" \notin Sliding /\ rule.algorithm = "gcra"
      BY <1>2, <2>1 DEF Commands, Metered, Sliding
    <2>4. HitsSound'
      BY <1>8, <2>1, <2>2, <2>3
    <2>5. FlagRanges'
      BY <2>1, MaxFailuresType DEF TypeInv, FlagRanges
    <2>6. LateSound'
      <3>1. clock - now <= MaxLag
        BY <1>1, <2>3 DEF HitSound, now
      <3>2. <<h, now>> \in Hits \X (0 .. clock) /\ <<h, now>>[2] = now
        BY <1>1
      <3> QED
        BY <2>1, <2>3, <3>1, <3>2 DEF TypeInv, LateSound
    <2> QED
      BY <1>6, <2>1, <2>2, <2>4, <2>5, <2>6 DEF TypeInv
  <1>14. CASE LateScript(h)
    <2>1. PICK t \in 0 .. clock :
                 /\ <<h, t>> \in late
                 /\ late' = late \ {<<h, t>>}
                 /\ IF ScriptErrors THEN UNCHANGED <<stateKey, banKey, charged, paths, reference>>
                                    ELSE ScriptRuns(t)
                 /\ UNCHANGED <<clock, windowKeys, useGcraAtomic, pc, job, failures, promised,
                                admitted>>
      BY <1>14 DEF LateScript
    <2>2. rule.algorithm = "gcra"
      BY <2>1 DEF TypeInv, LateSound
    <2>3. LateSound'
      BY <2>1 DEF TypeInv, LateSound
    <2>4. CASE ScriptErrors
      <3>1. HitsSound'
        BY <1>1, <1>5, <2>1, <2>4, HitsStay
      <3>2. UNCHANGED <<clock, server, charged, promised, admitted>> /\ paths' = paths
                /\ reference' = reference
        BY <2>1, <2>4 DEF server
      <3> QED
        BY <1>4, <1>6, <2>1, <2>3, <3>1, <3>2 DEF TypeInv
    <2>5. CASE ~ScriptErrors
      <3>1. /\ charged' \in Nat /\ charged <= charged'
            /\ KeySound(rule, clock, charged', stateKey')
            /\ banKey' \in KeysHolding({0, 1}) /\ banKey'.expires # NoExpiry
            /\ paths' \subseteq {"script", "portable", "sliding"} /\ paths \subseteq paths'
            /\ reference' \in {NoState, Unknown} \cup StatesOf(rule)
        BY <2>1, <2>2, <2>5, ScriptKeepsTypes
      <3>2. HitsSound'
        BY <2>1, <3>1, HitsStay
      <3>3. ServerRanges' /\ HistoryRanges' /\ KeySound(rule, clock, charged, stateKey)'
        BY <2>1, <3>1 DEF TypeInv, ServerRanges, HistoryRanges
      <3> QED
        BY <1>4, <2>1, <2>3, <3>2, <3>3 DEF TypeInv
    <2> QED
      BY <2>4, <2>5
  <1>15. CASE EvalRefused(h)
    <2>1. /\ pc[h] = "eval" /\ Continue(h, "get", job[h])
          /\ failures < MaxFailures /\ failures' = failures + 1
          /\ useGcraAtomic' = [useGcraAtomic EXCEPT ![InstanceOf[h]] = FALSE]
          /\ UNCHANGED <<clock, server, late, history>>
      BY <1>15 DEF EvalRefused
    <2>2. UNCHANGED <<charged, promised, admitted, paths, reference>>
      BY <2>1 DEF history
    <2>3. pc[h] \in Commands /\ Metered(rule) /\ "get" \notin Sliding
      BY <1>2, <2>1 DEF Commands, Metered, Sliding
    <2>4. HitsSound'
      BY <1>8, <2>1, <2>2, <2>3
    <2>5. FlagRanges'
      <3>1. useGcraAtomic' \in [Instances -> BOOLEAN]
                /\ \A i \in Instances : useGcraAtomic'[i] => useGcraAtomic[i]
        BY <2>1 DEF TypeInv, FlagRanges
      <3>2. failures' \in 0 .. MaxFailures
        BY <2>1, MaxFailuresType DEF TypeInv, FlagRanges
      <3> QED
        BY <3>1, <3>2 DEF TypeInv, FlagRanges
    <2> QED
      BY <1>4, <1>6, <2>1, <2>2, <2>4, <2>5 DEF TypeInv
  <1>16. CASE ReadState(h)
    <2> DEFINE j == [job[h] EXCEPT !.next = Evaluated(job[h].now)]
    <2>1. /\ pc[h] = "get" /\ Continue(h, "psetex", j) /\ Follow(now, "portable")
          /\ UNCHANGED <<clock, server, useGcraAtomic, late, failures, charged, promised, admitted>>
      BY <1>16 DEF ReadState, now
    <2>2. /\ paths' \subseteq {"script", "portable", "sliding"} /\ paths \subseteq paths'
          /\ "portable" \in paths' /\ reference' \in {NoState, Unknown} \cup StatesOf(rule)
      BY <1>1, <2>1, FollowTyped
    <2>3. HitSound(rule, clock, charged, paths', "psetex", j)
      BY <2>1, <2>2, ReadPends
    <2> HIDE DEF j
    <2>4. HitsSound'
      BY <1>7, <2>1, <2>2, <2>3
    <2>5. ServerRanges' /\ HistoryRanges' /\ KeySound(rule, clock, charged, stateKey)'
      BY <2>1, <2>2 DEF TypeInv, ServerRanges, HistoryRanges, server
    <2> QED
      BY <1>4, <2>1, <2>4, <2>5 DEF TypeInv
  <1>17. CASE WriteState(h)
    <2>1. /\ pc[h] = "psetex" /\ Answer(h, now, job[h].next.hit)
          /\ UNCHANGED <<clock, windowKeys, banKey, useGcraAtomic, late, failures, paths, reference>>
      BY <1>17 DEF WriteState, now
    <2>2. /\ charged' \in Nat /\ charged <= charged'
          /\ KeySound(rule, clock, charged', stateKey')
      BY <1>17, WriteKeepsTypes
    <2>3. job[h].next.hit.banUntil \in Nat
      BY <2>1, PendingTyped
    <2>4. promised' \in Nat /\ admitted' \in [0 .. MaxClock -> Nat]
      BY <1>1, <2>1, <2>3, AnswerTyped
    <2>5. HitsSound'
      BY <1>5, <1>9, <2>1, <2>2 DEF Answer
    <2>6. ServerRanges' /\ HistoryRanges' /\ KeySound(rule, clock, charged, stateKey)'
      BY <2>1, <2>2, <2>4 DEF TypeInv, ServerRanges, HistoryRanges
    <2> QED
      BY <1>4, <2>1, <2>5, <2>6 DEF TypeInv
  <1>18. CASE CountHit(h)
    <2> DEFINE w == Window(now)
               key == Incrby(windowKeys[w], clock, rule.cost)
               j == [job[h] EXCEPT !.current = key.value]
    <2>0. /\ pc[h] = "incrby"
          /\ windowKeys' = [windowKeys EXCEPT ![w] = key]
          /\ Continue(h, "pttl", [job[h] EXCEPT !.current = windowKeys'[w].value])
          /\ Follow(now, "sliding")
          /\ UNCHANGED <<clock, stateKey, banKey, useGcraAtomic, late, failures, charged, promised,
                         admitted>>
      BY <1>18 DEF CountHit, now
    <2>1. w \in 0 .. MaxClock /\ windowKeys[w] \in KeysHolding(Nat)
              /\ windowKeys \in [0 .. MaxClock -> KeysHolding(Nat)]
      BY <1>1, WindowInRange DEF TypeInv, ServerRanges
    <2>2. key \in KeysHolding(Nat) /\ key.value \in Nat
      BY <1>1, <1>3, <2>1, IncrbyTyped
    <2> HIDE DEF key, w
    <2>3. windowKeys'[w] = key /\ windowKeys' \in [0 .. MaxClock -> KeysHolding(Nat)]
      BY <2>0, <2>1, <2>2
    <2>4. Continue(h, "pttl", j)
      BY <2>0, <2>3
    <2>5. /\ paths' \subseteq {"script", "portable", "sliding"} /\ paths \subseteq paths'
          /\ reference' \in {NoState, Unknown} \cup StatesOf(rule)
      BY <1>1, <2>0, FollowTyped
    <2>6. HitSound(rule, clock, charged, paths', "pttl", j)
      <3>1. /\ j = [now |-> job[h].now, next |-> j.next, current |-> j.current,
                    previous |-> j.previous]
            /\ j.current \in Nat /\ j.previous \in Nat
        BY <1>2, <2>2 DEF IsJob
      <3>2. pc[h] \in Commands /\ rule.algorithm = "sliding-window" /\ "pttl" \in Sliding
        BY <1>2, <2>0 DEF Commands, Sliding
      <3> HIDE DEF j
      <3> QED
        BY <3>1, <3>2, HitGoesOn
    <2> HIDE DEF j
    <2>7. HitsSound'
      BY <1>7, <2>0, <2>4, <2>5, <2>6
    <2>8. ServerRanges' /\ HistoryRanges' /\ KeySound(rule, clock, charged, stateKey)'
      BY <2>0, <2>3, <2>5 DEF TypeInv, ServerRanges, HistoryRanges
    <2> QED
      BY <1>4, <2>0, <2>7, <2>8 DEF TypeInv
  <1>19. CASE ReadWindowTtl(h)
    <2>1. /\ pc[h] = "pttl"
          /\ Continue(h, "pexpire", job[h]) \/ Continue(h, "get previous", job[h])
          /\ UNCHANGED <<clock, server, useGcraAtomic, late, failures, history>>
      BY <1>19 DEF ReadWindowTtl
    <2>2. UNCHANGED <<charged, promised, admitted, paths, reference>>
      BY <2>1 DEF history
    <2>3. pc[h] \in Commands /\ rule.algorithm = "sliding-window"
              /\ "pexpire" \in Sliding /\ "get previous" \in Sliding
      BY <1>2, <2>1 DEF Commands, Sliding
    <2>4. HitsSound'
      BY <1>8, <2>1, <2>2, <2>3
    <2> QED
      BY <1>4, <1>6, <2>1, <2>2, <2>4 DEF TypeInv
  <1>20. CASE ExpireWindow(h)
    <2>1. /\ pc[h] = "pexpire"
          /\ windowKeys' = [windowKeys EXCEPT ![Window(now)] =
                                Pexpire(windowKeys[Window(now)], clock, 2 * rule.window)]
          /\ Continue(h, "get previous", job[h])
          /\ UNCHANGED <<clock, stateKey, banKey, useGcraAtomic, late, failures, history>>
      BY <1>20 DEF ExpireWindow, now
    <2>2. Window(now) \in 0 .. MaxClock /\ windowKeys[Window(now)] \in KeysHolding(Nat)
              /\ windowKeys \in [0 .. MaxClock -> KeysHolding(Nat)]
      BY <1>1, WindowInRange DEF TypeInv, ServerRanges
    <2>3. 2 * rule.window \in Nat
      BY <1>3, SMT
    <2>4. windowKeys' \in [0 .. MaxClock -> KeysHolding(Nat)]
      BY <1>1, <2>1, <2>2, <2>3, PexpireTyped
    <2>5. UNCHANGED <<charged, promised, admitted, paths, reference>>
      BY <2>1 DEF history
    <2>6. pc[h] \in Commands /\ rule.algorithm = "sliding-window" /\ "get previous" \in Sliding
      BY <1>2, <2>1 DEF Commands, Sliding
    <2>7. HitsSound'
      BY <1>8, <2>1, <2>5, <2>6
    <2>8. ServerRanges' /\ HistoryRanges' /\ KeySound(rule, clock, charged, stateKey)'
      BY <2>1, <2>4, <2>5 DEF TypeInv, ServerRanges, HistoryRanges
    <2> QED
      BY <1>4, <2>1, <2>7, <2>8 DEF TypeInv
  <1>21. ASSUME NEW previous, NEW banTtl \in Nat, SlidingAnswer(h, previous, banTtl),
                banKey' \in KeysHolding({0, 1}), banKey'.expires # NoExpiry
         PROVE  TypeInv'
    <2>1. UNCHANGED <<clock, stateKey, windowKeys, useGcraAtomic, late, failures, paths, charged>>
      BY <1>21 DEF SlidingAnswer
    <2>2. /\ promised' \in Nat /\ admitted' \in [0 .. MaxClock -> Nat]
          /\ reference' \in {NoState, Unknown} \cup StatesOf(rule)
          /\ pc' = [pc EXCEPT ![h] = "done"] /\ job' = [job EXCEPT ![h] = NoJob]
      BY <1>21, SlidingAnswerTyped
    <2>3. HitsSound'
      BY <1>1, <1>5, <1>9, <2>1, <2>2
    <2>4. ServerRanges' /\ HistoryRanges' /\ KeySound(rule, clock, charged, stateKey)'
      BY <1>21, <2>1, <2>2 DEF TypeInv, ServerRanges, HistoryRanges
    <2> QED
      BY <1>4, <2>1, <2>3, <2>4 DEF TypeInv
  <1>22. banKey \in KeysHolding({0, 1}) /\ banKey.expires # NoExpiry
    BY DEF TypeInv, ServerRanges
  <1>23. CASE ReadPrevious(h)
    <2> DEFINE previous == WindowCount(Window(now) - 1)
               j == [job[h] EXCEPT !.previous = previous]
    <2>1. pc[h] = "get previous"
      BY <1>23 DEF ReadPrevious
    <2>2. CASE rule.ban > 0
      <3>1. Continue(h, "pttl ban", j)
                /\ UNCHANGED <<clock, server, useGcraAtomic, late, failures, history>>
        BY <1>23, <2>2 DEF ReadPrevious, now
      <3>2. UNCHANGED <<charged, promised, admitted, paths, reference>>
        BY <3>1 DEF history
      <3>3. previous \in Nat
        BY <1>1, PreviousTyped
      <3> HIDE DEF previous
      <3>4. HitSound(rule, clock, charged, paths', "pttl ban", j)
        <4>1. /\ j = [now |-> job[h].now, next |-> j.next, current |-> j.current,
                      previous |-> j.previous]
              /\ j.current \in Nat /\ j.previous \in Nat
          BY <1>2, <3>3 DEF IsJob
        <4>2. pc[h] \in Commands /\ rule.algorithm = "sliding-window" /\ "pttl ban" \in Sliding
          BY <1>2, <2>1 DEF Commands, Sliding
        <4> HIDE DEF j
        <4> QED
          BY <4>1, <4>2, HitGoesOn
      <3> HIDE DEF j
      <3>5. HitsSound'
        BY <1>5, <1>7, <3>1, <3>2, <3>4
      <3> QED
        BY <1>4, <1>6, <3>1, <3>2, <3>5 DEF TypeInv
    <2>3. CASE ~(rule.ban > 0)
      <3>1. SlidingAnswer(h, previous, 0) /\ UNCHANGED banKey
        BY <1>23, <2>3 DEF ReadPrevious, now
      <3> QED
        BY <1>21, <1>22, <3>1
    <2> QED
      BY <2>2, <2>3
  <1>24. CASE ReadSlidingBan(h)
    <2> DEFINE ttl == Pttl(banKey, clock)
               goesOn == OverLimit(h, job[h].previous) /\ ttl <= 0
    <2>1. pc[h] = "pttl ban"
      BY <1>24 DEF ReadSlidingBan
    <2>2. CASE goesOn
      <3>1. Continue(h, "psetex ban", job[h])
                /\ UNCHANGED <<clock, server, useGcraAtomic, late, failures, history>>
        BY <1>24, <2>2 DEF ReadSlidingBan
      <3>2. UNCHANGED <<charged, promised, admitted, paths, reference>>
        BY <3>1 DEF history
      <3>3. pc[h] \in Commands /\ rule.algorithm = "sliding-window" /\ "psetex ban" \in Sliding
        BY <1>2, <2>1 DEF Commands, Sliding
      <3>4. HitsSound'
        BY <1>8, <3>1, <3>2, <3>3
      <3> QED
        BY <1>4, <1>6, <3>1, <3>2, <3>4 DEF TypeInv
    <2>3. CASE ~goesOn
      <3>1. SlidingAnswer(h, job[h].previous, Larger(ttl, 0)) /\ UNCHANGED banKey
        BY <1>24, <2>3 DEF ReadSlidingBan
      <3>2. ttl \in Int
        BY <1>1, <1>22 DEF KeysHolding, Pttl, NoExpiry, Gone
      <3> HIDE DEF ttl
      <3>3. Larger(ttl, 0) \in Nat
        BY <3>2, SMT DEF Larger
      <3> QED
        BY <1>21, <1>22, <3>1, <3>3
    <2> QED
      BY <2>2, <2>3
  <1>25. CASE SetSlidingBan(h)
    <2>1. banKey' = Psetex(1, clock, rule.ban) /\ SlidingAnswer(h, job[h].previous, rule.ban)
      BY <1>25 DEF SetSlidingBan
    <2>2. banKey' \in KeysHolding({0, 1}) /\ banKey'.expires # NoExpiry
      BY <1>1, <1>3, <2>1 DEF Psetex, KeysHolding, NoExpiry
    <2> QED
      BY <1>3, <1>21, <2>1, <2>2
  <1>26. CASE Fail(h)
    <2>1. /\ failures < MaxFailures /\ failures' = failures + 1
          /\ Continue(h, "failed", NoJob)
          /\ reference' = reference \/ reference' = Unknown
          /\ UNCHANGED <<clock, server, useGcraAtomic, late, paths, charged, promised, admitted>>
      BY <1>26 DEF Fail
    <2>2. FlagRanges'
      BY <2>1, MaxFailuresType DEF TypeInv, FlagRanges
    <2>3. HitsSound'
      BY <1>1, <1>5, <1>9, <2>1 DEF Continue
    <2> QED
      BY <1>4, <1>6, <2>1, <2>2, <2>3 DEF TypeInv
  <1> QED
    BY <1>10, <1>11, <1>12, <1>13, <1>14, <1>15, <1>16, <1>17, <1>18, <1>19, <1>20, <1>23,
       <1>24, <1>25, <1>26 DEF Step

LEMMA TypesKept == TypeInv /\ [Next]_vars => TypeInv'
  <1> SUFFICES ASSUME TypeInv, [Next]_vars PROVE TypeInv'
    OBVIOUS
  <1>1. CASE Next
    <2>1. rule' = rule /\ (Tick \/ \E h \in Hits : Step(h))
      BY <1>1 DEF Next
    <2> QED
      BY <2>1, TickKeepsTypes, StepKeepsTypes
  <1>2. CASE UNCHANGED vars
    <2>1. UNCHANGED <<rule, clock, windowKeys, stateKey, banKey, useGcraAtomic, pc, job, late,
                      failures, paths, charged, reference, promised, admitted>>
      BY <1>2 DEF vars, server, history
    <2> QED
      BY <2>1 DEF TypeInv, ServerRanges, FlagRanges, HistoryRanges, HitsSound, LateSound
  <1> QED
    BY <1>1, <1>2

\* The ranges of the variables: no EVAL is sent by an instance that may not
\* use the script, what is written is a state of the rule's algorithm, and a
\* state key lives no longer than two windows or a ban after its hit.
THEOREM TypeCorrect == Spec => []TypeOK
  <1>1. TypeInv => TypeOK
    <2> SUFFICES ASSUME TypeInv PROVE TypeOK
      OBVIOUS
    <2>1. /\ stateKey \in KeysHolding({NoState} \cup StatesOf(rule)
                                      \cup [algorithm : {"number"}, tat : Nat])
          /\ stateKey.expires <= clock + Larger(2 * rule.window, rule.ban) + MaxLag
      <3>1. stateKey.value \in {NoState} \cup StatesOf(rule) \cup [algorithm : {"number"}, tat : Nat]
        BY DEF TypeInv, KeySound, Sound, SoundNumber, Number
      <3> QED
        BY <3>1 DEF TypeInv, KeySound, KeysHolding
    <2>2. ASSUME NEW h \in Hits
          PROVE  /\ job[h].now \in 0 .. clock
                 /\ pc[h] = "eval" => InstanceOf[h] \in AtomicSupported /\ rule.algorithm = "gcra"
                 /\ pc[h] = "psetex" => job[h].next.state \in StatesOf(rule)
      BY HitKnown, PendingTyped DEF TypeInv, HitsSound, HitSound
    <2>3. late \subseteq Hits \X (0 .. clock)
      BY DEF TypeInv, LateSound
    <2>4. pc \in [Hits -> {"idle", "eval", "get", "psetex", "done", "failed"} \cup Sliding]
      BY DEF TypeInv, HitsSound, Places, Commands
    <2> QED
      BY <2>1, <2>2, <2>3, <2>4 DEF TypeInv, ServerRanges, FlagRanges, HistoryRanges, TypeOK
  <1> QED
    BY <1>1, InitTypes, TypesKept, PTL DEF Spec

-----------------------------------------------------------------------------
(* No path is stricter than the charges allow.                             *)

\* A rule whose cost fits beside the charges can be met at all.
LEMMA FitsMeansMet ==
    ASSUME NEW r \in Rules, NEW present \in Nat, NEW debt \in Nat,
           Larger(debt, present) + r.window * r.cost - Capacity(r) <= present
    PROVE  r.cost <= r.limit
  <1>1. r.cost \in Nat /\ r.limit \in Nat /\ r.window \in Nat \ {0}
    BY DEF Rules
  <1>2. r.window * r.cost \in Nat /\ Capacity(r) = r.window * r.limit /\ Capacity(r) \in Nat
    BY <1>1, CapacityNat, SMT DEF Capacity
  <1>3. r.window * r.cost <= r.window * r.limit
    <2> DEFINE price == r.window * r.cost
    <2> HIDE DEF price
    <2> QED
      BY <1>2, SMT DEF Larger, price
  <1>4. \A x, y \in Nat : \A w \in Nat \ {0} : w * x <= w * y => x <= y
    <2> SUFFICES ASSUME NEW x \in Nat, NEW y \in Nat, NEW w \in Nat \ {0}, x > y
                 PROVE  ~(w * x <= w * y)
      BY SMT
    <2>1. w * (y + 1) = w * y + w /\ w * y \in Nat
      BY SMT
    <2>2. w * (y + 1) <= w * x
      BY SMT
    <2> QED
      BY <2>1, <2>2, SMT
  <1> QED
    BY <1>1, <1>3, <1>4

LEMMA FittingIsLetThrough ==
    ASSUME NEW r \in Rules, Metered(r), NEW now \in Nat, NEW debt \in Nat,
           NEW s \in StatesOf(r) \cup {NoState}, NotAhead(r, debt, s),
           ActiveBanUntil(s, now) = 0,
           Larger(debt, now * r.limit) + r.window * r.cost - Capacity(r) <= now * r.limit
    PROVE  ~EvaluateAlgorithmHit(r, now, s).hit.blocked
  <1> DEFINE present == now * r.limit
             price == r.cost * r.window
             room == Larger(debt - present, 0)
  <1>1. /\ present \in Nat /\ price \in Nat /\ Capacity(r) \in Nat
        /\ r.window * r.cost = price
    BY CapacityNat, SMT DEF Rules
  <1>2. r.cost <= r.limit
    BY <1>1, FitsMeansMet
  <1>3. Level(r, now, s) <= room
    BY <1>2, NotAheadLevel
  <1>4. room + price <= Capacity(r)
    <2>1. Larger(debt, present) + price - Capacity(r) <= present
      BY <1>1
    <2> HIDE DEF present, price
    <2> QED
      BY <1>1, <2>1, SMT DEF Larger
  <1>5. s.banUntil \in Nat
    BY BanUntilNat
  <1>6. ~(s.banUntil > now)
    BY <1>5, SMT DEF ActiveBanUntil
  <1>7. CASE r.algorithm = "token-bucket"
    <2>1. s \in TokenStates(r) \cup {NoState}
      BY <1>7 DEF StatesOf
    <2>2. Refilled(r, now, s) \in 0 .. Capacity(r)
      BY <2>1, RefilledRange
    <2>3. Level(r, now, s) = Capacity(r) - Refilled(r, now, s)
      BY <1>7 DEF Level
    <2>4. room \in Nat
      <3> HIDE DEF present
      <3> QED
        BY <1>1, SMT DEF Larger
    <2> HIDE DEF price, room
    <2>5. ~(Refilled(r, now, s) < price)
      BY <1>1, <1>3, <1>4, <2>2, <2>3, <2>4, SMT
    <2>6. ~TokenBucketHit(r, now, s).hit.blocked
      BY <1>6, <2>1, <2>5, TokenBucketBlocks DEF price
    <2> QED
      BY <1>7, <2>6 DEF EvaluateAlgorithmHit
  <1>8. CASE r.algorithm = "gcra"
    <2> DEFINE from == Tat(r, now, s)
    <2>1. s \in GcraStates \cup {NoState}
      BY <1>8 DEF StatesOf
    <2>2. from \in Nat
      BY <1>1, <2>1 DEF Tat, GcraStates, NoState
    <2>3. Larger(from - present, 0) <= room
      BY <1>3, <1>8 DEF Level
    <2>4. NextTat(r, now, from) = Larger(from, present) + price
      BY <1>1 DEF NextTat
    <2> HIDE DEF from, present, price
    <2>5. ~(present < (Larger(from, present) + price) - Capacity(r))
      BY <1>1, <1>4, <2>2, <2>3, SMT DEF Larger
    <2>6. ~GcraHit(r, now, s).hit.blocked
      BY <1>6, <2>1, <2>4, <2>5, GcraBlocks DEF from, present
    <2> QED
      BY <1>8, <2>6 DEF EvaluateAlgorithmHit
  <1> QED
    BY <1>7, <1>8 DEF Metered

\* Lost updates, lost replies and mixed paths of gcra and token-bucket forget
\* hits but never invent any: a hit that fits beside every charge ever made is
\* refused by neither path, unless a ban runs.
THEOREM NoneInvented == Spec => []NeverTooStrict
  <1>1. TypeInv => NeverTooStrict
    <2> SUFFICES ASSUME TypeInv, NEW now \in 0 .. clock, rule.algorithm # "sliding-window",
                        Larger(charged, now * rule.limit) + rule.window * rule.cost
                            - Capacity(rule) <= now * rule.limit
                 PROVE  /\ rule.algorithm = "gcra" /\ ~ScriptErrors /\ RunningBan = 0
                               => ~ScriptHit(now).blocked
                        /\ ActiveBanUntil(SameState(Stored, rule.algorithm), now) = 0
                               => ~Evaluated(now).hit.blocked
      BY DEF NeverTooStrict
    <2>1. /\ rule \in Rules /\ clock \in Nat /\ charged \in Nat /\ now \in Nat
          /\ rule.algorithm # "fixed-window"
      BY RuleIsRule, MaxClockType DEF TypeInv, ServerRanges, HistoryRanges
    <2>2. Metered(rule)
      BY <2>1 DEF Metered, Rules, AlgorithmNames
    <2>3. ASSUME rule.algorithm = "gcra", RunningBan = 0
          PROVE  ~ScriptHit(now).blocked
      <3> DEFINE present == now * rule.limit
                 price == rule.window * rule.cost
                 next == ScriptNextTat(now)
      <3>1. present \in Nat /\ price \in Nat /\ Capacity(rule) \in Nat
        BY <2>1, CapacityNat, SMT DEF Rules
      <3>2. next \in Nat /\ next <= Larger(charged, present) + price
        BY <2>3, ScriptTyped DEF NextTat
      <3>3. ScriptWait(now) = next - Capacity(rule) - present
        BY DEF ScriptWait
      <3>4. Larger(charged, present) + price - Capacity(rule) <= present
        OBVIOUS
      <3> HIDE DEF present, price, next
      <3>5. ScriptWait(now) <= 0
        BY <2>1, <3>1, <3>2, <3>3, <3>4, SMT DEF Larger
      <3>6. ScriptAdmits(now)
        BY <2>3, <3>5 DEF ScriptAdmits
      <3> QED
        BY <3>6 DEF ScriptHit, HitResult
    <2>4. ASSUME ActiveBanUntil(SameState(Stored, rule.algorithm), now) = 0
          PROVE  ~Evaluated(now).hit.blocked
      <3>1. /\ SameState(Stored, rule.algorithm) \in StatesOf(rule) \cup {NoState}
            /\ NotAhead(rule, charged, SameState(Stored, rule.algorithm))
        BY <2>2, ReadSound DEF Sound
      <3> QED
        BY <2>1, <2>2, <2>4, <3>1, FittingIsLetThrough DEF Evaluated
    <2> QED
      BY <2>3, <2>4
  <1> QED
    BY <1>1, InitTypes, TypesKept, PTL DEF Spec

-----------------------------------------------------------------------------
(* Bans.                                                                   *)

\* Every ban of the key is one of the ban key.
BanKeyKept == rule.algorithm = "sliding-window" \/ paths \subseteq {"script"}

\* The ban key outlives what was promised, and no ban is longer than the rule's.
BanCovers(key, c, until) ==
    /\ key.expires <= c + rule.ban
    /\ until > c => key.expires >= until

BanInv == BanKeyKept => BanCovers(banKey, clock, promised)

\* What PTTL says of the ban key.
LEMMA BanTtl ==
    ASSUME TypeInv
    PROVE  /\ Pttl(banKey, clock) \in Int /\ clock \in Nat /\ banKey.expires \in Int
           /\ Pttl(banKey, clock) > 0 => banKey.expires = clock + Pttl(banKey, clock)
           /\ Pttl(banKey, clock) <= 0 => banKey.expires <= clock
  <1>1. clock \in Nat /\ banKey.expires \in Nat \cup {Gone}
    BY MaxClockType DEF TypeInv, ServerRanges, KeysHolding
  <1> QED
    BY <1>1, SMT DEF Pttl, Alive, NoExpiry, Gone

\* The script keeps every promise, and what it answers is one more.
LEMMA ScriptKeepsBans ==
    ASSUME TypeInv, rule.algorithm = "gcra", NEW now \in 0 .. clock, ScriptRuns(now),
           BanCovers(banKey, clock, promised)
    PROVE  /\ BanCovers(banKey', clock, promised)
           /\ BanCovers(banKey', clock, ScriptHit(now).banUntil)
  <1> DEFINE ttl == Pttl(banKey, clock)
             starts == ScriptEarly(now) /\ rule.ban > 0
             until == ScriptHit(now).banUntil
  <1>1. /\ ttl \in Int /\ clock \in Nat /\ banKey.expires \in Int
        /\ ttl > 0 => banKey.expires = clock + ttl
        /\ ttl <= 0 => banKey.expires <= clock
    BY BanTtl
  <1>2. rule.ban \in Nat /\ promised \in Nat /\ now \in Nat /\ now <= clock
    BY <1>1, RuleIsRule DEF TypeInv, ServerRanges, HistoryRanges, Rules
  <1>3. RunningBan = Larger(ttl, 0)
    BY DEF RunningBan
  <1>4. ScriptBanTtl(now) = IF starts THEN rule.ban ELSE RunningBan
    BY DEF ScriptBanTtl
  <1>5. until = IF ScriptBanTtl(now) > 0 THEN now + ScriptBanTtl(now) ELSE 0
    BY DEF ScriptHit, HitResult
  <1> HIDE DEF ttl, until
  <1>6. CASE starts
    <2>1. ttl <= 0
      BY <1>1, <1>3, <1>6, SMT DEF ScriptEarly, Larger
    <2>2. ScriptBanTtl(now) = rule.ban /\ rule.ban > 0
      BY <1>4, <1>6
    <2>3. banKey' = Psetex(1, clock, rule.ban)
      BY <1>6, <2>2 DEF ScriptRuns
    <2>4. banKey'.expires = clock + rule.ban
      BY <2>3 DEF Psetex
    <2>5. ~(promised > clock)
      BY <1>1, <1>2, <2>1, SMT DEF BanCovers
    <2>6. BanCovers(banKey', clock, promised) /\ BanCovers(banKey', clock, until)
      BY <1>1, <1>2, <1>5, <2>2, <2>4, <2>5, SMT DEF BanCovers
    <2> QED
      BY <2>6 DEF until
  <1>7. CASE ~starts
    <2>1. ScriptBanTtl(now) = Larger(ttl, 0)
      BY <1>3, <1>4, <1>7
    <2>2. banKey' = banKey
      <3>1. ScriptEarly(now) => ~(ScriptBanTtl(now) > 0)
        BY <1>3, <1>4, <1>7, SMT DEF ScriptEarly
      <3> QED
        BY <3>1 DEF ScriptRuns
    <2>3. until = IF ttl > 0 THEN now + ttl ELSE 0
      BY <1>1, <1>5, <2>1, SMT DEF Larger
    <2>4. until > clock => banKey.expires >= until
      BY <1>1, <1>2, <2>3, SMT
    <2>5. BanCovers(banKey', clock, promised) /\ BanCovers(banKey', clock, until)
      BY <2>2, <2>4 DEF BanCovers
    <2> QED
      BY <2>5 DEF until
  <1> QED
    BY <1>6, <1>7

\* Two promises that are covered.
LEMMA CoversLater ==
    ASSUME NEW key, NEW c \in Nat, NEW a \in Nat, NEW b \in Nat,
           BanCovers(key, c, a), BanCovers(key, c, b)
    PROVE  BanCovers(key, c, Larger(a, b))
  BY DEF BanCovers, Larger

\* A sliding-window hit answers with a ban that the ban key keeps.
LEMMA SlidingKeepsBans ==
    ASSUME TypeInv, NEW h \in Hits, NEW previous, NEW banTtl \in Nat,
           SlidingAnswer(h, previous, banTtl), BanCovers(banKey', clock, promised),
           banKey'.expires \in Int, banTtl > 0 => clock + banTtl <= banKey'.expires
    PROVE  BanCovers(banKey', clock, promised')
  <1> DEFINE hit == SlidingHit(job[h].now, previous, job[h].current, banTtl)
  <1>1. job[h].now \in Nat /\ job[h].now <= clock /\ clock \in Nat
    BY HitKnown
  <1>2. hit.banUntil = IF banTtl > 0 THEN job[h].now + banTtl ELSE 0
    BY DEF SlidingHit, HitResult
  <1>3. promised' = Larger(promised, hit.banUntil) /\ promised \in Nat
    BY DEF SlidingAnswer, Answer, TypeInv, HistoryRanges
  <1> HIDE DEF hit
  <1>4. hit.banUntil \in Nat /\ (hit.banUntil > clock => banKey'.expires >= hit.banUntil)
    BY <1>1, <1>2, SMT
  <1>5. BanCovers(banKey', clock, hit.banUntil)
    BY <1>4 DEF BanCovers
  <1> QED
    BY <1>1, <1>3, <1>4, <1>5, CoversLater

LEMMA StepKeepsBans ==
    ASSUME TypeInv, BanInv, NEW h \in Hits, Step(h), rule' = rule
    PROVE  BanInv'
  <1> DEFINE now == job[h].now
  <1>1. /\ HitSound(rule, clock, charged, paths, pc[h], job[h])
        /\ now \in 0 .. clock /\ clock \in Nat /\ rule \in Rules
    BY HitKnown
  <1>2. /\ pc[h] \in Sliding => rule.algorithm = "sliding-window"
        /\ pc[h] = "eval" => rule.algorithm = "gcra"
        /\ pc[h] = "psetex" => Metered(rule) /\ "portable" \in paths
    BY <1>1 DEF HitSound
  <1>3. rule.ban \in Nat /\ promised \in Nat
    BY <1>1 DEF Rules, TypeInv, HistoryRanges
  <1> HIDE DEF now
  <1>4. ASSUME UNCHANGED <<clock, banKey, promised>>, paths \subseteq paths'
        PROVE  BanInv'
    BY <1>4 DEF BanInv, BanKeyKept, BanCovers
  <1>5. ASSUME UNCHANGED <<clock, server, history>> PROVE BanInv'
    BY <1>4, <1>5 DEF server, history
  <1>6. CASE Start(h) \/ EvalRaises(h) \/ EvalLost(h) \/ EvalRefused(h) \/ ReadWindowTtl(h)
    BY <1>5, <1>6 DEF Start, EvalRaises, EvalLost, EvalRefused, ReadWindowTtl
  <1>7. CASE ReadState(h)
    BY <1>4, <1>7 DEF ReadState, Follow, server
  <1>8. CASE CountHit(h)
    BY <1>4, <1>8 DEF CountHit, Follow
  <1>9. CASE ExpireWindow(h)
    BY <1>4, <1>9 DEF ExpireWindow, history
  <1>10. CASE Fail(h)
    BY <1>4, <1>10 DEF Fail, server
  <1>11. CASE EvalAnswers(h)
    <2>1. /\ ScriptRuns(now) /\ Answer(h, now, ScriptHit(now)) /\ clock' = clock
          /\ rule.algorithm = "gcra"
      BY <1>2, <1>11 DEF EvalAnswers, now
    <2>2. SUFFICES ASSUME BanKeyKept' PROVE BanCovers(banKey, clock, promised)'
      BY DEF BanInv
    <2>3. paths \subseteq paths'
      BY <2>1 DEF ScriptRuns, Follow
    <2>4. BanCovers(banKey, clock, promised)
      BY <2>2, <2>3 DEF BanInv, BanKeyKept
    <2>5. /\ BanCovers(banKey', clock, promised)
          /\ BanCovers(banKey', clock, ScriptHit(now).banUntil)
      BY <1>1, <2>1, <2>4, ScriptKeepsBans
    <2>6. ScriptHit(now).banUntil \in Nat
      BY <1>1, <2>1, ScriptTyped
    <2>7. BanCovers(banKey', clock, promised')
      BY <1>1, <1>3, <2>1, <2>5, <2>6, CoversLater DEF Answer
    <2> QED
      BY <2>1, <2>7 DEF BanCovers
  <1>12. CASE LateScript(h)
    <2>1. PICK t \in 0 .. clock :
                 /\ <<h, t>> \in late
                 /\ IF ScriptErrors THEN UNCHANGED <<stateKey, banKey, charged, paths, reference>>
                                    ELSE ScriptRuns(t)
                 /\ UNCHANGED <<clock, promised>>
      BY <1>12 DEF LateScript
    <2>2. rule.algorithm = "gcra"
      BY <2>1 DEF TypeInv, LateSound
    <2>3. CASE ScriptErrors
      <3>1. UNCHANGED <<clock, banKey, promised>> /\ paths' = paths
        BY <2>1, <2>3
      <3> QED
        BY <1>4, <3>1
    <2>4. CASE ~ScriptErrors
      <3>1. ScriptRuns(t) /\ paths \subseteq paths'
        BY <2>1, <2>4 DEF ScriptRuns, Follow
      <3>2. BanKeyKept' => BanCovers(banKey, clock, promised)
        BY <3>1 DEF BanInv, BanKeyKept
      <3>3. BanKeyKept' => BanCovers(banKey', clock, promised)
        BY <2>2, <3>1, <3>2, ScriptKeepsBans
      <3> QED
        BY <2>1, <3>3 DEF BanInv, BanCovers
    <2> QED
      BY <2>3, <2>4
  <1>13. CASE WriteState(h)
    <2>1. pc[h] = "psetex" /\ paths' = paths
      BY <1>13 DEF WriteState
    <2>2. ~BanKeyKept'
      BY <1>2, <2>1 DEF BanKeyKept, Metered
    <2> QED
      BY <2>2 DEF BanInv
  <1>14. ASSUME NEW previous, NEW banTtl \in Nat, SlidingAnswer(h, previous, banTtl),
                rule.algorithm = "sliding-window",
                BanCovers(banKey', clock, promised),
                banKey'.expires \in Int, banTtl > 0 => clock + banTtl <= banKey'.expires
         PROVE  BanInv'
    <2>1. BanCovers(banKey', clock, promised')
      BY <1>14, SlidingKeepsBans
    <2>2. clock' = clock
      BY <1>14 DEF SlidingAnswer
    <2> QED
      BY <2>1, <2>2 DEF BanInv, BanCovers
  <1>15. /\ Pttl(banKey, clock) \in Int /\ banKey.expires \in Int
         /\ Pttl(banKey, clock) > 0 => banKey.expires = clock + Pttl(banKey, clock)
         /\ Pttl(banKey, clock) <= 0 => banKey.expires <= clock
    BY BanTtl
  <1>16. CASE ReadPrevious(h)
    <2> DEFINE previous == WindowCount(Window(now) - 1)
    <2>1. rule.algorithm = "sliding-window"
      BY <1>2, <1>16 DEF ReadPrevious, Sliding
    <2>2. CASE rule.ban > 0
      BY <1>5, <1>16, <2>2 DEF ReadPrevious
    <2>3. CASE ~(rule.ban > 0)
      <3>1. SlidingAnswer(h, previous, 0) /\ banKey' = banKey
        BY <1>16, <2>3 DEF ReadPrevious, now
      <3>2. BanCovers(banKey', clock, promised)
        BY <2>1, <3>1 DEF BanInv, BanKeyKept
      <3>3. ~(0 > 0)
        OBVIOUS
      <3> QED
        BY <1>14, <1>15, <2>1, <3>1, <3>2, <3>3
    <2> QED
      BY <2>2, <2>3
  <1>17. CASE ReadSlidingBan(h)
    <2> DEFINE ttl == Pttl(banKey, clock)
               goesOn == OverLimit(h, job[h].previous) /\ ttl <= 0
    <2>1. rule.algorithm = "sliding-window"
      BY <1>2, <1>17 DEF ReadSlidingBan, Sliding
    <2>2. CASE goesOn
      BY <1>5, <1>17, <2>2 DEF ReadSlidingBan
    <2>3. CASE ~goesOn
      <3>1. SlidingAnswer(h, job[h].previous, Larger(ttl, 0)) /\ banKey' = banKey
        BY <1>17, <2>3 DEF ReadSlidingBan
      <3>2. BanCovers(banKey', clock, promised)
        BY <2>1, <3>1 DEF BanInv, BanKeyKept
      <3>3. ttl \in Int /\ (ttl > 0 => banKey.expires = clock + ttl)
        BY <1>15
      <3> HIDE DEF ttl
      <3>4. Larger(ttl, 0) \in Nat /\ (Larger(ttl, 0) > 0 => clock + Larger(ttl, 0) <= banKey'.expires)
        BY <1>1, <3>1, <3>3, SMT DEF Larger
      <3> QED
        BY <1>14, <1>15, <2>1, <3>1, <3>2, <3>4
    <2> QED
      BY <2>2, <2>3
  <1>18. CASE SetSlidingBan(h)
    <2>1. /\ rule.algorithm = "sliding-window"
          /\ banKey' = Psetex(1, clock, rule.ban)
          /\ SlidingAnswer(h, job[h].previous, rule.ban)
      BY <1>2, <1>18 DEF SetSlidingBan, Sliding
    <2>2. banKey'.expires = clock + rule.ban
      BY <2>1 DEF Psetex
    <2>3. BanCovers(banKey, clock, promised)
      BY <2>1 DEF BanInv, BanKeyKept
    <2>4. BanCovers(banKey', clock, promised) /\ banKey'.expires \in Int
      BY <1>1, <1>3, <1>15, <2>2, <2>3, SMT DEF BanCovers
    <2>5. rule.ban > 0 => clock + rule.ban <= banKey'.expires
      BY <1>1, <1>3, <2>2
    <2> QED
      BY <1>3, <1>14, <2>1, <2>4, <2>5
  <1> QED
    BY <1>6, <1>7, <1>8, <1>9, <1>10, <1>11, <1>12, <1>13, <1>16, <1>17, <1>18 DEF Step

LEMMA TickKeepsBans ==
    ASSUME TypeInv, BanInv, Tick, rule' = rule
    PROVE  BanInv'
  <1>1. /\ clock \in Nat /\ banKey.expires \in Nat \cup {Gone} /\ promised \in Nat
        /\ rule.ban \in Nat
    BY RuleIsRule, MaxClockType DEF TypeInv, ServerRanges, HistoryRanges, KeysHolding, Rules
  <1>2. /\ clock' = clock + 1 /\ banKey' = Forgotten(banKey, clock', 0)
        /\ promised' = promised /\ paths' = paths
    BY DEF Tick, history
  <1>3. SUFFICES ASSUME BanCovers(banKey, clock, promised)
                 PROVE  BanCovers(banKey, clock, promised)'
    BY <1>2 DEF BanInv, BanKeyKept
  <1>4. CASE Alive(banKey, clock')
    <2>1. banKey' = banKey
      BY <1>2, <1>4 DEF Forgotten
    <2> QED
      BY <1>1, <1>2, <1>3, <2>1, SMT DEF BanCovers, Gone
  <1>5. CASE ~Alive(banKey, clock')
    <2>1. banKey'.expires = Gone
      BY <1>2, <1>5 DEF Forgotten
    <2>2. banKey.expires < clock + 1
      BY <1>1, <1>2, <1>5, SMT DEF Alive, Gone
    <2> QED
      BY <1>1, <1>2, <1>3, <2>1, <2>2, SMT DEF BanCovers, Gone
  <1> QED
    BY <1>4, <1>5

\* A banUntil that a hit reported is kept: until then every new hit is
\* refused, as long as every hit of the key is the script's, or is of a
\* sliding window.
THEOREM BanIsHonoured == Spec => []BanHonoured
  <1>1. Init => BanInv
    <2> SUFFICES ASSUME Init PROVE BanCovers(banKey, clock, promised)
      BY DEF BanInv
    <2>1. rule.ban \in Nat
      BY RuleIsRule DEF Init, Rules
    <2>2. banKey.expires = Gone /\ clock = 0 /\ promised = 0
      BY DEF Init
    <2> QED
      BY <2>1, <2>2, SMT DEF BanCovers, Gone
  <1>2. TypeInv /\ BanInv /\ [Next]_vars => BanInv'
    <2> SUFFICES ASSUME TypeInv, BanInv, [Next]_vars PROVE BanInv'
      OBVIOUS
    <2>1. CASE Next
      <3>1. rule' = rule /\ (Tick \/ \E h \in Hits : Step(h))
        BY <2>1 DEF Next
      <3> QED
        BY <3>1, TickKeepsBans, StepKeepsBans
    <2>2. CASE UNCHANGED vars
      BY <2>2 DEF vars, server, history, BanInv, BanKeyKept, BanCovers
    <2> QED
      BY <2>1, <2>2
  <1>3. TypeInv /\ BanInv => BanHonoured
    <2> SUFFICES ASSUME TypeInv, BanInv, clock < promised
                 PROVE  /\ rule.algorithm = "gcra" /\ paths \subseteq {"script"}
                               => ScriptHit(clock).blocked
                        /\ rule.algorithm = "sliding-window" => SlidingHitNow.blocked
      BY DEF BanHonoured
    <2> DEFINE ttl == Pttl(banKey, clock)
    <2>1. /\ ttl \in Int /\ clock \in Nat /\ banKey.expires \in Int
          /\ ttl <= 0 => banKey.expires <= clock
          /\ ttl > 0 => banKey.expires = clock + ttl
      BY BanTtl
    <2>2. promised \in Nat /\ rule.ban \in Nat
      BY RuleIsRule DEF TypeInv, HistoryRanges, ServerRanges, Rules
    <2> HIDE DEF ttl
    <2>3. ASSUME BanKeyKept PROVE ttl > 0 /\ rule.ban > 0
      <3>1. banKey.expires <= clock + rule.ban /\ banKey.expires >= promised
        BY <2>1, <2>2, <2>3 DEF BanInv, BanCovers
      <3> QED
        BY <2>1, <2>2, <3>1, SMT
    <2>4. ASSUME rule.algorithm = "gcra", paths \subseteq {"script"}
          PROVE  ScriptHit(clock).blocked
      <3>1. RunningBan = Larger(ttl, 0) /\ ttl > 0
        BY <2>3, <2>4 DEF RunningBan, BanKeyKept, ttl
      <3>2. RunningBan # 0
        BY <2>1, <3>1, SMT DEF Larger
      <3>3. ~ScriptAdmits(clock)
        BY <3>2 DEF ScriptAdmits
      <3> QED
        BY <3>3 DEF ScriptHit, HitResult
    <2>5. ASSUME rule.algorithm = "sliding-window" PROVE SlidingHitNow.blocked
      <3>1. ttl > 0 /\ rule.ban > 0
        BY <2>3, <2>5 DEF BanKeyKept
      <3>2. \A over : SlidingBanTtl(over, ttl) > 0
        BY <2>1, <2>2, <3>1, SMT DEF SlidingBanTtl, Larger
      <3>3. \A previous, current, banTtl : banTtl > 0
                => SlidingHit(clock, previous, current, banTtl).blocked
        BY DEF SlidingHit, HitResult
      <3> QED
        BY <3>2, <3>3 DEF SlidingHitNow, ttl
    <2> QED
      BY <2>4, <2>5
  <1> QED
    BY <1>1, <1>2, <1>3, InitTypes, TypesKept, PTL DEF Spec

-----------------------------------------------------------------------------
(* Rates of gcra.  `adm` counts the hits let through up to each time.      *)

CountIn(adm, from, to) == adm[to] - IF from = 0 THEN 0 ELSE adm[from - 1]

\* One more hit let through, at `now`.
Counted(adm, now) == [t \in 0 .. MaxClock |-> adm[t] + IF now <= t THEN 1 ELSE 0]

\* Hits let through from a time on have moved the arrival time, `reach`, by
\* their price from that time at least; and between any two times there are no
\* more than the burst and the refill between them allow.
Rated(r, adm, reach) ==
    /\ \A t \in 0 .. MaxClock : \A u \in t .. MaxClock : adm[t] <= adm[u]
    /\ \A a \in 0 .. MaxClock :
           CountIn(adm, a, MaxClock) > 0
               => a * r.limit + r.cost * r.window * CountIn(adm, a, MaxClock) <= reach
    /\ \A a \in 0 .. MaxClock : \A b \in a .. MaxClock :
           r.cost * r.window * CountIn(adm, a, b) <= Capacity(r) + (b - a) * r.limit

LEMMA CountInRange ==
    ASSUME NEW adm \in [0 .. MaxClock -> Nat],
           \A t \in 0 .. MaxClock : \A u \in t .. MaxClock : adm[t] <= adm[u],
           NEW a \in 0 .. MaxClock, NEW b \in a .. MaxClock
    PROVE  /\ CountIn(adm, a, b) \in Nat /\ CountIn(adm, a, MaxClock) \in Nat
           /\ CountIn(adm, a, b) <= CountIn(adm, a, MaxClock)
  <1>1. a \in Nat /\ b \in Nat /\ a <= b /\ b <= MaxClock /\ MaxClock \in Nat
            /\ b \in 0 .. MaxClock /\ MaxClock \in b .. MaxClock
    BY MaxClockType
  <1>2. adm[b] \in Nat /\ adm[MaxClock] \in Nat /\ adm[b] <= adm[MaxClock]
    BY <1>1
  <1>3. CASE a = 0
    BY <1>2, <1>3 DEF CountIn
  <1>4. CASE a # 0
    <2>1. a - 1 \in 0 .. MaxClock /\ b \in (a - 1) .. MaxClock
      BY <1>1, <1>4
    <2>2. adm[a - 1] \in Nat /\ adm[a - 1] <= adm[b]
      BY <2>1
    <2> QED
      BY <1>2, <1>4, <2>2 DEF CountIn
  <1> QED
    BY <1>3, <1>4

\* What one more hit adds to a count.
LEMMA CountedIn ==
    ASSUME NEW adm \in [0 .. MaxClock -> Nat], NEW now \in 0 .. MaxClock,
           NEW a \in 0 .. MaxClock, NEW b \in a .. MaxClock
    PROVE  CountIn(Counted(adm, now), a, b)
               = CountIn(adm, a, b) + IF a <= now /\ now <= b THEN 1 ELSE 0
  <1>1. a \in Nat /\ b \in 0 .. MaxClock /\ a <= b /\ now \in Nat
    BY MaxClockType
  <1>2. Counted(adm, now)[b] = adm[b] + IF now <= b THEN 1 ELSE 0
    BY <1>1 DEF Counted
  <1>3. CASE a = 0
    BY <1>1, <1>2, <1>3 DEF CountIn
  <1>4. CASE a # 0
    <2>1. a - 1 \in 0 .. MaxClock
      BY <1>1, <1>4, MaxClockType
    <2>2. Counted(adm, now)[a - 1] = adm[a - 1] + IF now <= a - 1 THEN 1 ELSE 0
      BY <2>1 DEF Counted
    <2>3. adm[a - 1] \in Nat /\ adm[b] \in Nat
      BY <1>1, <2>1
    <2>4. now <= a - 1 <=> ~(a <= now)
      BY <1>1
    <2> QED
      BY <1>1, <1>2, <1>4, <2>2, <2>3, <2>4 DEF CountIn
  <1> QED
    BY <1>3, <1>4

\* A later arrival time.
LEMMA RatedLater ==
    ASSUME NEW r \in Rules, NEW adm \in [0 .. MaxClock -> Nat], NEW reach \in Int,
           NEW further \in Int, reach <= further, Rated(r, adm, reach)
    PROVE  Rated(r, adm, further)
  <1>1. ASSUME NEW a \in 0 .. MaxClock, CountIn(adm, a, MaxClock) > 0
        PROVE  a * r.limit + r.cost * r.window * CountIn(adm, a, MaxClock) <= further
    <2>1. MaxClock \in a .. MaxClock
      BY MaxClockType
    <2>2. CountIn(adm, a, MaxClock) \in Nat
      BY <2>1, CountInRange DEF Rated
    <2>3. a * r.limit + r.cost * r.window * CountIn(adm, a, MaxClock) <= reach
      BY <1>1 DEF Rated
    <2>4. a * r.limit + r.cost * r.window * CountIn(adm, a, MaxClock) \in Int
      <3>1. \A x, y \in Nat : x * y \in Nat
        BY SMT
      <3>2. a \in Nat /\ r.limit \in Nat /\ r.cost \in Nat /\ r.window \in Nat
        BY DEF Rules
      <3> QED
        BY <2>2, <3>1, <3>2
    <2> QED
      BY <2>3, <2>4
  <1> QED
    BY <1>1 DEF Rated

LEMMA RatedAdmits ==
    ASSUME NEW r \in Rules, NEW adm \in [0 .. MaxClock -> Nat], NEW now \in 0 .. MaxClock,
           NEW reach \in Int, NEW next \in Nat, Rated(r, adm, reach),
           reach + r.cost * r.window <= next,
           now * r.limit + r.cost * r.window <= next,
           next <= now * r.limit + Capacity(r)
    PROVE  Rated(r, Counted(adm, now), next)
  <1> DEFINE price == r.cost * r.window
             new == Counted(adm, now)
  <1>1. /\ price \in Nat /\ r.limit \in Nat /\ Capacity(r) \in Nat
        /\ MaxClock \in Nat /\ now \in Nat
    BY CapacityNat, MaxClockType, SMT DEF Rules
  <1>2. \A t \in 0 .. MaxClock : \A u \in t .. MaxClock : adm[t] <= adm[u]
    BY DEF Rated
  <1>3. new \in [0 .. MaxClock -> Nat]
    BY DEF Counted
  <1>4. ASSUME NEW t \in 0 .. MaxClock, NEW u \in t .. MaxClock PROVE new[t] <= new[u]
    <2>1. /\ u \in 0 .. MaxClock /\ t \in Nat /\ u \in Nat /\ t <= u
          /\ adm[t] <= adm[u] /\ adm[t] \in Nat /\ adm[u] \in Nat
      BY <1>1, <1>2
    <2>2. /\ new[t] = adm[t] + IF now <= t THEN 1 ELSE 0
          /\ new[u] = adm[u] + IF now <= u THEN 1 ELSE 0
      BY <2>1 DEF Counted
    <2> HIDE DEF new, price
    <2> QED
      BY <1>1, <2>1, <2>2
  <1>5. ASSUME NEW n \in Nat
        PROVE  price * n \in Nat /\ price * (n + 1) = price * n + price /\ price * 0 = 0
    BY <1>1, SMT
  <1>6. ASSUME NEW a \in 0 .. MaxClock, a <= now
        PROVE  a * r.limit \in Nat /\ now * r.limit \in Nat /\ a * r.limit <= now * r.limit
    <2>1. \A x, y, z \in Nat : x <= y => x * z <= y * z /\ x * z \in Nat /\ y * z \in Nat
      BY SMT
    <2>2. a \in Nat /\ now \in Nat /\ r.limit \in Nat
      BY <1>1
    <2> HIDE DEF price
    <2> QED
      BY <1>6, <2>1, <2>2
  <1> HIDE DEF new
  \* The hits from a on, with this one.
  <1>7. ASSUME NEW a \in 0 .. MaxClock, a <= now
        PROVE  a * r.limit + price * (CountIn(adm, a, MaxClock) + 1) <= next
    <2> DEFINE n == CountIn(adm, a, MaxClock)
               start == a * r.limit
               present == now * r.limit
    <2>1. n \in Nat
      <3>1. MaxClock \in a .. MaxClock
        BY <1>1
      <3> QED
        BY <1>2, <3>1, CountInRange
    <2>2. start \in Nat /\ present \in Nat /\ start <= present
      BY <1>6, <1>7
    <2>3. n > 0 => start + price * n <= reach
      BY DEF Rated
    <2>4. price * n \in Nat /\ price * (n + 1) = price * n + price /\ (n = 0 => price * n = 0)
      BY <1>5, <2>1
    <2> DEFINE all == price * n
    <2>5. all \in Nat /\ (n = 0 => all = 0) /\ (n > 0 => start + all <= reach)
              /\ price * (n + 1) = all + price
      BY <2>3, <2>4
    <2>6. reach + price <= next /\ present + price <= next
      OBVIOUS
    <2> HIDE DEF n, start, present, all, price
    <2>7. start + (all + price) <= next
      BY <1>1, <2>1, <2>2, <2>5, <2>6, SMT
    <2> QED
      BY <2>5, <2>7 DEF n, start
  <1>8. ASSUME NEW a \in 0 .. MaxClock, CountIn(new, a, MaxClock) > 0
        PROVE  a * r.limit + price * CountIn(new, a, MaxClock) <= next
    <2>1. MaxClock \in a .. MaxClock
      BY <1>1
    <2>2. CountIn(new, a, MaxClock)
              = CountIn(adm, a, MaxClock) + IF a <= now /\ now <= MaxClock THEN 1 ELSE 0
      BY <2>1, CountedIn DEF new
    <2>3. CASE a <= now
      <3>1. CountIn(new, a, MaxClock) = CountIn(adm, a, MaxClock) + 1
        BY <1>1, <2>2, <2>3
      <3> QED
        BY <1>7, <2>3, <3>1
    <2>4. CASE ~(a <= now)
      <3>1. CountIn(adm, a, MaxClock) \in Nat
        BY <1>2, <2>1, CountInRange
      <3>2. CountIn(new, a, MaxClock) = CountIn(adm, a, MaxClock)
        BY <2>2, <2>4, <3>1
      <3>3. a * r.limit + price * CountIn(adm, a, MaxClock) <= reach
        BY <1>8, <3>2 DEF Rated
      <3>4. a * r.limit + price * CountIn(adm, a, MaxClock) \in Nat
        <4>1. a * r.limit \in Nat
          BY <1>1, SMT
        <4>2. price * CountIn(adm, a, MaxClock) \in Nat
          BY <1>5, <3>1
        <4> HIDE DEF price
        <4> QED
          BY <4>1, <4>2
      <3> HIDE DEF price
      <3>5. reach + price <= next
        BY DEF price
      <3>6. \A x \in Nat : x <= reach => x <= next
        BY <1>1, <3>5, SMT
      <3> QED
        BY <3>2, <3>3, <3>4, <3>6
    <2> QED
      BY <2>3, <2>4
  <1>9. ASSUME NEW a \in 0 .. MaxClock, NEW b \in a .. MaxClock
        PROVE  price * CountIn(new, a, b) <= Capacity(r) + (b - a) * r.limit
    <2>1. CountIn(new, a, b) = CountIn(adm, a, b) + IF a <= now /\ now <= b THEN 1 ELSE 0
      BY CountedIn DEF new
    <2>2. /\ CountIn(adm, a, b) \in Nat /\ CountIn(adm, a, MaxClock) \in Nat
          /\ CountIn(adm, a, b) <= CountIn(adm, a, MaxClock)
      BY <1>2, CountInRange
    <2>3. CASE ~(a <= now /\ now <= b)
      <3>1. CountIn(new, a, b) = CountIn(adm, a, b)
        BY <2>1, <2>2, <2>3
      <3> QED
        BY <3>1 DEF Rated
    <2>4. CASE a <= now /\ now <= b
      <3> DEFINE m == CountIn(adm, a, b)
                 n == CountIn(adm, a, MaxClock)
                 start == a * r.limit
                 present == now * r.limit
                 end == b * r.limit
      <3>1. CountIn(new, a, b) = m + 1
        BY <2>1, <2>4
      <3>2. start + price * (n + 1) <= next
        BY <1>7, <2>4
      <3>3. price * (m + 1) <= price * (n + 1) /\ price * (m + 1) \in Nat /\ price * (n + 1) \in Nat
        <4>1. \A x, y, z \in Nat : x <= y => z * x <= z * y /\ z * x \in Nat /\ z * y \in Nat
          BY SMT
        <4>2. m + 1 \in Nat /\ n + 1 \in Nat /\ m + 1 <= n + 1
          BY <2>2
        <4> QED
          BY <1>1, <4>1, <4>2
      <3>4. /\ start \in Nat /\ present \in Nat /\ end \in Nat /\ present <= end
            /\ end = start + (b - a) * r.limit
        <4>1. \A x, y, z \in Nat : x <= y => x * z <= y * z /\ x * z \in Nat /\ y * z \in Nat
                                                 /\ y * z = x * z + (y - x) * z
          BY SMT
        <4>2. a \in Nat /\ b \in Nat /\ a <= b
          OBVIOUS
        <4> QED
          BY <1>1, <2>4, <4>1, <4>2
      <3>5. (b - a) * r.limit = end - start
        <4>1. (b - a) * r.limit \in Int
          BY <1>1, SMT
        <4> QED
          BY <3>4, <4>1
      <3>6. next <= present + Capacity(r)
        OBVIOUS
      <3> DEFINE one == price * (m + 1)
                 other == price * (n + 1)
      <3>7. start + other <= next /\ one <= other /\ one \in Nat /\ other \in Nat
        BY <3>2, <3>3
      <3> HIDE DEF start, present, end, one, other
      <3>8. one <= Capacity(r) + (end - start)
        BY <1>1, <3>4, <3>6, <3>7, SMT
      <3> HIDE DEF m
      <3> QED
        BY <3>1, <3>5, <3>8 DEF one
    <2> QED
      BY <2>3, <2>4
  <1> QED
    BY <1>4, <1>8, <1>9 DEF Rated, new

\* Every hit of the key is the script's.
OnlyScripts == rule.algorithm = "gcra" /\ paths \subseteq {"script"}

\* What any hit that is still under way starts from, at least.
Reach ==
    IF stateKey.expires = Gone THEN (clock - MaxLag) * rule.limit ELSE stateKey.value.tat

\* The script's key outlives its arrival time by the lag.
ScriptKey ==
    /\ stateKey.value.algorithm = "number"
    /\ clock <= stateKey.expires
    /\ stateKey.value.tat + MaxLag * rule.limit <= stateKey.expires * rule.limit

GcraInv ==
    OnlyScripts => /\ Rated(rule, admitted, Reach)
                   /\ stateKey.expires = Gone \/ ScriptKey

LEMMA NumberSound ==
    ASSUME TypeInv, stateKey.value.algorithm = "number"
    PROVE  SoundNumber(rule, clock, charged, stateKey.value)
  <1>1. rule \in Rules
    BY RuleIsRule DEF TypeInv, ServerRanges
  <1>2. ~Sound(rule, clock, charged, stateKey.value)
    BY <1>1 DEF Sound, StatesOf, FixedStates, SlidingStates, TokenStates, GcraStates, NoState,
                Rules, AlgorithmNames
  <1> QED
    BY <1>2 DEF TypeInv, KeySound

LEMMA ReachTyped ==
    ASSUME TypeInv, stateKey.expires = Gone \/ ScriptKey
    PROVE  Reach \in Int
  <1>1. clock \in Nat /\ rule.limit \in Nat
    BY RuleIsRule, MaxClockType DEF TypeInv, ServerRanges, Rules
  <1>2. CASE stateKey.expires = Gone
    <2>1. \A x, y, z \in Nat : (x - y) * z \in Int
      BY SMT
    <2> QED
      BY <1>1, <1>2, <2>1, MaxLagType DEF Reach
  <1>3. CASE stateKey.expires # Gone
    BY <1>3, NumberSound DEF Reach, ScriptKey, SoundNumber
  <1> QED
    BY <1>2, <1>3

\* A hit starts from there, or from its own time.
LEMMA ScriptStartsThere ==
    ASSUME TypeInv, stateKey.expires = Gone \/ ScriptKey,
           NEW now \in 0 .. clock, clock - now <= MaxLag
    PROVE  Reach <= Larger(ScriptTat(now), now * rule.limit)
  <1> DEFINE present == now * rule.limit
  <1>1. clock \in Nat /\ now \in Nat /\ rule.limit \in Nat /\ present \in Nat
    BY RuleIsRule, MaxClockType, SMT DEF TypeInv, ServerRanges, Rules
  <1>2. CASE stateKey.expires = Gone
    <2>1. ~Alive(stateKey, clock)
      BY <1>1, <1>2, SMT DEF Alive, Gone, NoExpiry
    <2>2. ScriptTat(now) = present
      BY <2>1 DEF ScriptTat, Stored, Get, NoState
    <2>3. Reach <= present
      <3>1. \A x, y, l, z \in Nat : x - y <= l => (x - l) * z <= y * z
        <4> SUFFICES ASSUME NEW x \in Nat, NEW y \in Nat, NEW l \in Nat, NEW z \in Nat,
                            x - y <= l
                     PROVE  (x - l) * z <= y * z
          OBVIOUS
        <4>1. y - (x - l) \in Nat
          OBVIOUS
        <4>2. \A d \in Nat : d * z \in Nat
          BY SMT
        <4>3. (y - (x - l)) * z \in Nat
          BY <4>1, <4>2
        <4>4. (y - (x - l)) * z = y * z - (x - l) * z
          BY SMT
        <4>5. y * z \in Int /\ (x - l) * z \in Int
          BY SMT
        <4> QED
          BY <4>3, <4>4, <4>5, SMT
      <3> QED
        BY <1>1, <1>2, <3>1, MaxLagType DEF Reach
    <2>4. Reach \in Int
      BY ReachTyped
    <2> HIDE DEF present
    <2>5. Reach <= Larger(present, present)
      BY <1>1, <2>3, <2>4, SMT DEF Larger
    <2> QED
      BY <2>2, <2>5 DEF present
  <1>3. CASE stateKey.expires # Gone
    <2>1. /\ stateKey.value.algorithm = "number" /\ clock <= stateKey.expires
          /\ Reach = stateKey.value.tat
      BY <1>3 DEF ScriptKey, Reach
    <2>2. ScriptTat(now) = stateKey.value.tat
      BY <2>1 DEF ScriptTat, Stored, Get, Alive
    <2>3. Reach \in Int
      BY ReachTyped
    <2> HIDE DEF present
    <2>4. Reach <= Larger(Reach, present)
      BY <1>1, <2>3, SMT DEF Larger
    <2> QED
      BY <2>1, <2>2, <2>4 DEF present
  <1> QED
    BY <1>2, <1>3

\* What an admitting script leaves behind.
LEMMA ScriptAdvances ==
    ASSUME TypeInv, rule.algorithm = "gcra", stateKey.expires = Gone \/ ScriptKey,
           NEW now \in 0 .. clock, clock - now <= MaxLag, MaxLag <= rule.window,
           ScriptRuns(now), ScriptAdmits(now), clock' = clock, rule' = rule
    PROVE  LET next  == ScriptNextTat(now)
               price == rule.cost * rule.window
           IN  /\ next \in Nat
               /\ Reach + price <= next
               /\ now * rule.limit + price <= next
               /\ next <= now * rule.limit + Capacity(rule)
               /\ Reach' = next /\ ScriptKey'
  <1> DEFINE next    == ScriptNextTat(now)
             price   == rule.cost * rule.window
             present == now * rule.limit
             from    == ScriptTat(now)
             ttl     == ScriptTtl(now)
             C       == Capacity(rule)
  <1>1. /\ clock \in Nat /\ now \in Nat /\ rule \in Rules
        /\ rule.limit \in Nat /\ rule.window \in Nat
    BY RuleIsRule, MaxClockType DEF TypeInv, ServerRanges, Rules
  <1>2. present \in Nat /\ price \in Nat /\ C \in Nat /\ rule.window * rule.cost = price
    BY <1>1, CapacityNat, SMT DEF Rules
  <1>3. next \in Nat /\ from \in Nat /\ next <= present + C
    BY ScriptTyped
  <1>4. Reach \in Int /\ Reach <= Larger(from, present)
    BY ReachTyped, ScriptStartsThere
  <1>5. next = Larger(from, present) + price
    BY <1>2 DEF ScriptNextTat
  <1>6. ttl \in Nat /\ 1 <= ttl /\ C + next <= present + ttl * rule.limit
    BY ScriptTtlCovers
  <1>7. stateKey' = Psetex(Number(next), clock, ttl)
    BY DEF ScriptRuns, ScriptState
  <1>8. /\ stateKey'.value.algorithm = "number" /\ stateKey'.value.tat = next
        /\ stateKey'.expires = clock + ttl
    BY <1>7 DEF Psetex, Number
  <1>9. Reach + price <= next /\ present + price <= next
    <2> HIDE DEF next, price, present, from
    <2> QED
      BY <1>2, <1>3, <1>4, <1>5, SMT DEF Larger
  <1>10. next + MaxLag * rule.limit <= (clock + ttl) * rule.limit
    <2> DEFINE lagged == MaxLag * rule.limit
               bound == clock * rule.limit
               lives == ttl * rule.limit
    <2>1. /\ lagged \in Nat /\ bound \in Nat /\ lives \in Nat
          /\ present <= bound /\ lagged <= C
          /\ (clock + ttl) * rule.limit = bound + lives
      <3>1. \A x, y, z \in Nat : (x <= y => x * z <= y * z) /\ x * z \in Nat
                                     /\ (x + y) * z = x * z + y * z
        BY SMT
      <3>2. C = rule.window * rule.limit
        BY <1>1, SMT DEF Capacity
      <3>3. now <= clock
        BY <1>1
      <3> HIDE DEF ttl, C
      <3> QED
        BY <1>1, <1>6, <3>1, <3>2, <3>3, MaxLagType
    <2>2. C + next <= present + lives
      BY <1>6
    <2> HIDE DEF lagged, bound, lives, next, present, ttl, C
    <2>3. next + lagged <= bound + lives
      BY <1>2, <1>3, <2>1, <2>2, SMT
    <2> QED
      BY <2>1, <2>3 DEF lagged
  <1>11. Reach' = next
    <2>1. stateKey'.expires # Gone
      <3> HIDE DEF ttl
      <3> QED
        BY <1>1, <1>6, <1>8, SMT DEF Gone
    <2> QED
      BY <1>8, <2>1 DEF Reach
  <1>12. ScriptKey'
    <2>1. clock <= clock + ttl
      <3> HIDE DEF ttl
      <3> QED
        BY <1>1, <1>6, SMT
    <2> QED
      BY <1>8, <1>10, <2>1 DEF ScriptKey
  <1> QED
    BY <1>3, <1>9, <1>11, <1>12

LEMMA StepKeepsGcra ==
    ASSUME TypeInv, GcraInv, NEW h \in Hits, Step(h), rule' = rule, MaxLag <= rule.window
    PROVE  GcraInv'
  <1> DEFINE now == job[h].now
  <1>1. /\ HitSound(rule, clock, charged, paths, pc[h], job[h])
        /\ now \in 0 .. clock /\ now \in 0 .. MaxClock /\ clock \in Nat /\ rule \in Rules
    BY HitKnown
  <1>2. /\ pc[h] \in Sliding => rule.algorithm = "sliding-window"
        /\ pc[h] = "psetex" => "portable" \in paths
        /\ pc[h] = "eval" => clock - now <= MaxLag
    BY <1>1 DEF HitSound, Commands
  <1>3. admitted \in [0 .. MaxClock -> Nat]
    BY DEF TypeInv, HistoryRanges
  <1> HIDE DEF now
  <1>4. ASSUME UNCHANGED <<clock, stateKey, admitted>>, paths \subseteq paths'
        PROVE  GcraInv'
    <2>1. Reach' = Reach /\ (ScriptKey' <=> ScriptKey) /\ (OnlyScripts' => OnlyScripts)
      BY <1>4 DEF Reach, ScriptKey, OnlyScripts
    <2> QED
      BY <1>4, <2>1 DEF GcraInv
  <1>5. CASE Start(h) \/ EvalRaises(h) \/ EvalLost(h) \/ EvalRefused(h)
    BY <1>4, <1>5 DEF Start, EvalRaises, EvalLost, EvalRefused, server, history
  <1>6. CASE ReadState(h)
    <2>1. "portable" \in paths'
      BY <1>6 DEF ReadState, Follow
    <2> QED
      BY <2>1 DEF GcraInv, OnlyScripts
  <1>7. CASE WriteState(h)
    <2>1. "portable" \in paths'
      BY <1>2, <1>7 DEF WriteState
    <2> QED
      BY <2>1 DEF GcraInv, OnlyScripts
  <1>8. CASE Fail(h)
    BY <1>4, <1>8 DEF Fail, server
  <1>9. CASE \/ CountHit(h) \/ ReadWindowTtl(h) \/ ExpireWindow(h) \/ ReadPrevious(h)
             \/ ReadSlidingBan(h) \/ SetSlidingBan(h)
    <2>1. rule.algorithm = "sliding-window"
      BY <1>2, <1>9 DEF CountHit, ReadWindowTtl, ExpireWindow, ReadPrevious, ReadSlidingBan,
                        SetSlidingBan, Sliding
    <2> QED
      BY <2>1 DEF GcraInv, OnlyScripts
  <1>10. CASE EvalAnswers(h)
    <2>1. /\ pc[h] = "eval" /\ ScriptRuns(now) /\ Answer(h, now, ScriptHit(now))
          /\ clock' = clock
      BY <1>10 DEF EvalAnswers, now
    <2>2. SUFFICES ASSUME OnlyScripts'
                   PROVE  Rated(rule, admitted, Reach)' /\ (stateKey.expires = Gone \/ ScriptKey)'
      BY DEF GcraInv
    <2>3. OnlyScripts
      BY <2>1, <2>2 DEF OnlyScripts, ScriptRuns, Follow
    <2>4. Rated(rule, admitted, Reach) /\ (stateKey.expires = Gone \/ ScriptKey)
      BY <2>3 DEF GcraInv
    <2>5. ScriptHit(now).blocked = ~ScriptAdmits(now)
      BY DEF ScriptHit, HitResult
    <2>6. CASE ScriptAdmits(now)
      <3> DEFINE next == ScriptNextTat(now)
      <3>1. /\ next \in Nat
            /\ Reach + rule.cost * rule.window <= next
            /\ now * rule.limit + rule.cost * rule.window <= next
            /\ next <= now * rule.limit + Capacity(rule)
            /\ Reach' = next /\ ScriptKey'
        BY <1>1, <1>2, <2>1, <2>3, <2>4, <2>6, ScriptAdvances DEF OnlyScripts
      <3>2. admitted' = Counted(admitted, now)
        BY <1>3, <2>1, <2>5, <2>6 DEF Answer, Counted
      <3>3. Reach \in Int
        BY <2>4, ReachTyped
      <3> HIDE DEF next
      <3>4. Rated(rule, Counted(admitted, now), next)
        BY <1>1, <1>3, <2>4, <3>1, <3>3, RatedAdmits
      <3> QED
        BY <3>1, <3>2, <3>4 DEF Rated
    <2>7. CASE ~ScriptAdmits(now)
      <3>1. stateKey' = stateKey /\ admitted' = admitted
        BY <2>1, <2>5, <2>7 DEF ScriptRuns, ScriptState, Answer
      <3> QED
        BY <2>1, <2>4, <3>1 DEF Rated, Reach, ScriptKey
    <2> QED
      BY <2>6, <2>7
  <1>11. CASE LateScript(h)
    <2>1. PICK t \in 0 .. clock :
                 /\ <<h, t>> \in late
                 /\ IF ScriptErrors THEN UNCHANGED <<stateKey, banKey, charged, paths, reference>>
                                    ELSE ScriptRuns(t)
                 /\ UNCHANGED <<clock, admitted>>
      BY <1>11 DEF LateScript
    <2>2. clock - t <= MaxLag
      <3>1. <<h, t>>[2] = t
        OBVIOUS
      <3> QED
        BY <2>1, <3>1 DEF TypeInv, LateSound
    <2>3. CASE ScriptErrors
      <3>1. UNCHANGED <<clock, stateKey, admitted>> /\ paths \subseteq paths'
        BY <2>1, <2>3
      <3> QED
        BY <1>4, <3>1
    <2>4. CASE ~ScriptErrors
      <3>1. ScriptRuns(t) /\ paths \subseteq paths'
        BY <2>1, <2>4 DEF ScriptRuns, Follow
      <3>2. CASE ~ScriptAdmits(t)
        <4>1. stateKey' = stateKey
          BY <3>1, <3>2 DEF ScriptRuns, ScriptState
        <4> QED
          BY <1>4, <2>1, <3>1, <4>1
      <3>3. CASE ScriptAdmits(t)
        <4>1. SUFFICES ASSUME OnlyScripts'
                       PROVE  Rated(rule, admitted, Reach)' /\ (stateKey.expires = Gone \/ ScriptKey)'
          BY DEF GcraInv
        <4>2. OnlyScripts
          BY <3>1, <4>1 DEF OnlyScripts
        <4>3. Rated(rule, admitted, Reach) /\ (stateKey.expires = Gone \/ ScriptKey)
          BY <4>2 DEF GcraInv
        <4> DEFINE next == ScriptNextTat(t)
        <4>4. next \in Nat /\ Reach + rule.cost * rule.window <= next /\ Reach' = next /\ ScriptKey'
          BY <2>1, <2>2, <3>1, <3>3, <4>2, <4>3, ScriptAdvances DEF OnlyScripts
        <4>5. Reach \in Int
          BY <4>3, ReachTyped
        <4> HIDE DEF next
        <4>6. Reach <= next
          <5>1. rule.cost * rule.window \in Nat
            BY <1>1, CapacityNat
          <5> QED
            BY <4>4, <4>5, <5>1, SMT
        <4>7. Rated(rule, admitted, next)
          BY <1>1, <1>3, <4>3, <4>4, <4>5, <4>6, RatedLater
        <4> QED
          BY <2>1, <4>4, <4>7 DEF Rated
      <3> QED
        BY <3>2, <3>3
    <2> QED
      BY <2>3, <2>4
  <1> QED
    BY <1>5, <1>6, <1>7, <1>8, <1>9, <1>10, <1>11 DEF Step

LEMMA TickKeepsGcra ==
    ASSUME TypeInv, GcraInv, Tick, rule' = rule
    PROVE  GcraInv'
  <1>1. /\ clock \in Nat /\ rule \in Rules /\ rule.limit \in Nat
        /\ admitted \in [0 .. MaxClock -> Nat] /\ stateKey.expires \in Nat \cup {Gone}
    BY RuleIsRule, MaxClockType DEF TypeInv, ServerRanges, HistoryRanges, KeySound, Rules
  <1>2. /\ clock' = clock + 1 /\ stateKey' = Forgotten(stateKey, clock', NoState)
        /\ admitted' = admitted /\ paths' = paths
    BY DEF Tick, history
  <1>3. SUFFICES ASSUME OnlyScripts
                 PROVE  Rated(rule, admitted, Reach)' /\ (stateKey.expires = Gone \/ ScriptKey)'
    BY <1>2 DEF GcraInv, OnlyScripts
  <1>4. Rated(rule, admitted, Reach) /\ (stateKey.expires = Gone \/ ScriptKey)
    BY <1>3 DEF GcraInv
  <1>5. Reach \in Int
    BY <1>4, ReachTyped
  <1> DEFINE gone == (clock - MaxLag) * rule.limit
             newlyGone == ((clock + 1) - MaxLag) * rule.limit
             lagged == MaxLag * rule.limit
             bound == clock * rule.limit
  <1>6. /\ gone \in Int /\ newlyGone \in Int /\ gone <= newlyGone /\ lagged \in Nat /\ bound \in Nat
        /\ gone = bound - lagged
    <2>1. \A x, l, z \in Nat : /\ (x - l) * z \in Int /\ ((x + 1) - l) * z = (x - l) * z + z
                               /\ (x - l) * z = x * z - l * z /\ x * z \in Nat
      BY SMT
    <2> QED
      BY <1>1, <2>1, MaxLagType
  <1>7. CASE Alive(stateKey, clock')
    <2>1. stateKey' = stateKey /\ stateKey.expires # Gone /\ clock + 1 <= stateKey.expires
      BY <1>1, <1>2, <1>7, SMT DEF Forgotten, Alive, Gone, NoExpiry
    <2>2. Reach' = Reach /\ ScriptKey'
      BY <1>2, <1>4, <2>1 DEF Reach, ScriptKey
    <2> QED
      BY <1>2, <1>4, <2>2 DEF Rated
  <1>8. CASE ~Alive(stateKey, clock')
    <2>1. stateKey'.expires = Gone
      BY <1>2, <1>8 DEF Forgotten
    <2>2. Reach' = newlyGone
      BY <1>2, <2>1 DEF Reach
    <2>3. Reach <= newlyGone
      <3>1. CASE stateKey.expires = Gone
        BY <1>6, <3>1 DEF Reach
      <3>2. CASE stateKey.expires # Gone
        <4>1. /\ ScriptKey /\ stateKey.expires = clock /\ Reach = stateKey.value.tat
          BY <1>1, <1>2, <1>4, <1>8, <3>2, SMT DEF ScriptKey, Alive, Reach, Gone
        <4>2. Reach + lagged <= bound
          BY <4>1 DEF ScriptKey
        <4> HIDE DEF gone, newlyGone, lagged, bound
        <4> QED
          BY <1>5, <1>6, <4>2, SMT
      <3> QED
        BY <3>1, <3>2
    <2> HIDE DEF newlyGone
    <2>4. Rated(rule, admitted, newlyGone)
      BY <1>1, <1>4, <1>5, <1>6, <2>3, RatedLater
    <2> QED
      BY <1>2, <2>1, <2>2, <2>4 DEF Rated
  <1> QED
    BY <1>7, <1>8

-----------------------------------------------------------------------------
(* The sliding window.  A hit that has counted itself and may still be let *)
(* through is taken for one that has been.                                 *)

\* The hits of window v that are under way and within the limit by their counter.
MayPass(r, p, j, v) ==
    {g \in Hits : /\ p[g] \in Sliding \ {"incrby"}
                  /\ j[g].now \div r.window = v
                  /\ j[g].current <= r.limit}

\* What the window of t has let through up to t, and may still.
Taken(r, adm, p, j, t) ==
    CountIn(adm, WindowStart(r, t), t) + Cardinality(MayPass(r, p, j, t \div r.window))

\* The last time at which anybody counts on the counter of window v.
Needed(r, v) == (v + 2) * r.window

\* That much fits the limit, and the counter knows of it as long as it is needed.
Within(r, c, keys, adm, p, j) ==
    \A t \in 0 .. MaxClock :
        /\ r.cost * Taken(r, adm, p, j, t) <= r.limit
        /\ c <= Needed(r, t \div r.window)
               => r.cost * Taken(r, adm, p, j, t) <= Get(keys[t \div r.window], c, 0)

\* No counter expires while it is needed.
KeysLast(r, keys) ==
    \A v \in 0 .. MaxClock :
        keys[v].expires \in {NoExpiry, Gone} \/ Needed(r, v) <= keys[v].expires

SlidingInv ==
    rule.algorithm = "sliding-window" =>
        /\ Within(rule, clock, windowKeys, admitted, pc, job)
        /\ KeysLast(rule, windowKeys)

LEMMA TimesWindow ==
    ASSUME NEW r \in Rules, NEW t \in 0 .. MaxClock
    PROVE  /\ t \div r.window \in 0 .. MaxClock
           /\ WindowStart(r, t) \in 0 .. t /\ WindowStart(r, t) \in 0 .. MaxClock
           /\ WindowStart(r, t) = (t \div r.window) * r.window
           /\ Needed(r, t \div r.window) \in Nat
           /\ t + r.window < Needed(r, t \div r.window)
           /\ t \in WindowStart(r, t) .. MaxClock
  <1> DEFINE w == r.window
             v == t \div w
  <1>1. w \in Nat \ {0} /\ t \in Nat /\ t <= MaxClock /\ MaxClock \in Nat
    BY MaxClockType DEF Rules
  <1>2. v \in Nat /\ v <= t
    <2> HIDE DEF w
    <2> QED
      BY <1>1, SMT
  <1>3. WindowStart(r, t) = v * w
    BY DEF WindowStart
  <1>4. v * w \in Nat /\ v * w <= t /\ t < v * w + w
    BY <1>3, <1>1, WindowStartNat
  <1>5. Needed(r, v) = v * w + (w + w)
    <2> HIDE DEF v, w
    <2>1. \A x, y \in Nat : (x + 2) * y = x * y + (y + y)
      BY SMT
    <2> QED
      BY <1>1, <1>2, <2>1 DEF Needed, w
  <1>6. v \in 0 .. MaxClock
    BY <1>1, <1>2
  <1> DEFINE start == v * w
  <1>7. start \in Nat /\ start <= t /\ t < start + w /\ WindowStart(r, t) = start
            /\ Needed(r, v) = start + (w + w)
    BY <1>3, <1>4, <1>5
  <1> HIDE DEF v, w, start
  <1>8. /\ start \in 0 .. t /\ start \in 0 .. MaxClock /\ t \in start .. MaxClock
        /\ start + (w + w) \in Nat /\ t + w < start + (w + w)
    BY <1>1, <1>7
  <1> QED
    BY <1>6, <1>7, <1>8 DEF v, w, start

LEMMA MayPassFinite ==
    ASSUME NEW r, NEW p, NEW j, NEW v
    PROVE  IsFiniteSet(MayPass(r, p, j, v)) /\ Cardinality(MayPass(r, p, j, v)) \in Nat
  <1>1. MayPass(r, p, j, v) \subseteq Hits
    BY DEF MayPass
  <1> QED
    BY <1>1, HitsFinite, FS_Subset, FS_CardinalityType

LEMMA TakenTyped ==
    ASSUME NEW r \in Rules, NEW adm \in [0 .. MaxClock -> Nat], NEW p, NEW j,
           NEW t \in 0 .. MaxClock
    PROVE  /\ CountIn(adm, WindowStart(r, t), t) \in Int
           /\ Taken(r, adm, p, j, t) \in Int /\ r.cost * Taken(r, adm, p, j, t) \in Int
  <1>1. CountIn(adm, WindowStart(r, t), t) \in Int
    <2>1. /\ WindowStart(r, t) \in 0 .. MaxClock
          /\ adm[t] \in Nat
      BY TimesWindow
    <2>2. WindowStart(r, t) # 0 => adm[WindowStart(r, t) - 1] \in Nat
      BY <2>1, MaxClockType
    <2> QED
      BY <2>1, <2>2 DEF CountIn
  <1>2. Taken(r, adm, p, j, t) \in Int
    BY <1>1, MayPassFinite DEF Taken
  <1>3. \A x \in Nat, y \in Int : x * y \in Int
    BY SMT
  <1> QED
    BY <1>1, <1>2, <1>3 DEF Rules

\* Fewer hits beside counters that are no lower.
LEMMA WithinKept ==
    ASSUME NEW r \in Rules, NEW c \in Nat, NEW keys, NEW keys2,
           NEW adm \in [0 .. MaxClock -> Nat], NEW adm2 \in [0 .. MaxClock -> Nat],
           NEW p, NEW p2, NEW j, NEW j2,
           Within(r, c, keys, adm, p, j),
           \A t \in 0 .. MaxClock : Taken(r, adm2, p2, j2, t) <= Taken(r, adm, p, j, t),
           \A v \in 0 .. MaxClock : /\ Get(keys[v], c, 0) \in Nat /\ Get(keys2[v], c, 0) \in Nat
                                    /\ Get(keys[v], c, 0) <= Get(keys2[v], c, 0)
    PROVE  Within(r, c, keys2, adm2, p2, j2)
  <1> SUFFICES ASSUME NEW t \in 0 .. MaxClock
               PROVE  /\ r.cost * Taken(r, adm2, p2, j2, t) <= r.limit
                      /\ c <= Needed(r, t \div r.window)
                             => r.cost * Taken(r, adm2, p2, j2, t)
                                    <= Get(keys2[t \div r.window], c, 0)
    BY DEF Within
  <1> DEFINE n == Taken(r, adm, p, j, t)
             m == Taken(r, adm2, p2, j2, t)
             v == t \div r.window
  <1>1. n \in Int /\ m \in Int /\ m <= n /\ r.cost * n \in Int /\ r.cost * m \in Int
    BY TakenTyped
  <1>2. v \in 0 .. MaxClock
    BY TimesWindow
  <1>3. /\ r.cost * n <= r.limit
        /\ c <= Needed(r, v) => r.cost * n <= Get(keys[v], c, 0)
    BY DEF Within
  <1>4. /\ Get(keys[v], c, 0) \in Nat /\ Get(keys2[v], c, 0) \in Nat
        /\ Get(keys[v], c, 0) <= Get(keys2[v], c, 0)
    BY <1>2
  <1>5. r.limit \in Nat /\ r.cost \in Nat
    BY DEF Rules
  <1>6. \A x \in Nat, y, z \in Int : y <= z => x * y <= x * z
    <2> SUFFICES ASSUME NEW x \in Nat, NEW y \in Int, NEW z \in Int, y <= z
                 PROVE  x * y <= x * z
      OBVIOUS
    <2>1. z - y \in Nat /\ (\A d \in Nat : x * d \in Nat)
      BY SMT
    <2>2. x * (z - y) \in Nat /\ x * (z - y) = x * z - x * y /\ x * z \in Int /\ x * y \in Int
      BY <2>1, SMT
    <2> QED
      BY <2>2, SMT
  <1> DEFINE pn == r.cost * n
             pm == r.cost * m
             low == Get(keys[v], c, 0)
             high == Get(keys2[v], c, 0)
  <1>7. pm <= pn
    BY <1>1, <1>5, <1>6
  <1>8. /\ pn \in Int /\ pm \in Int /\ pn <= r.limit /\ low \in Nat /\ high \in Nat /\ low <= high
        /\ c <= Needed(r, v) => pn <= low
    BY <1>1, <1>3, <1>4
  <1> HIDE DEF pn, pm, low, high, n, m, v
  <1>9. pm <= r.limit /\ (c <= Needed(r, v) => pm <= high)
    BY <1>5, <1>7, <1>8
  <1> QED
    BY <1>9 DEF pm, m, v, high

\* Hits that have gone.
LEMMA TakenFewer ==
    ASSUME NEW r \in Rules, NEW adm \in [0 .. MaxClock -> Nat], NEW p, NEW p2, NEW j, NEW j2,
           NEW t \in 0 .. MaxClock,
           \A v : MayPass(r, p2, j2, v) \subseteq MayPass(r, p, j, v)
    PROVE  Taken(r, adm, p2, j2, t) <= Taken(r, adm, p, j, t)
  <1> DEFINE v == t \div r.window
             k == Cardinality(MayPass(r, p, j, v))
             k2 == Cardinality(MayPass(r, p2, j2, v))
             n == CountIn(adm, WindowStart(r, t), t)
  <1>1. k \in Nat /\ k2 \in Nat /\ k2 <= k
    BY MayPassFinite, FS_Subset
  <1>2. n \in Int
    BY TakenTyped
  <1> HIDE DEF k, k2, n
  <1>3. n + k2 <= n + k
    BY <1>1, <1>2
  <1> QED
    BY <1>3 DEF Taken, k, k2, n, v

\* One hit of window w passes, that was taken for one already.
LEMMA TakenPasses ==
    ASSUME NEW r \in Rules, NEW adm \in [0 .. MaxClock -> Nat], NEW p, NEW p2, NEW j, NEW j2,
           NEW now \in 0 .. MaxClock, NEW h \in MayPass(r, p, j, now \div r.window),
           \A v : MayPass(r, p2, j2, v) = MayPass(r, p, j, v) \ {h},
           NEW t \in 0 .. MaxClock
    PROVE  Taken(r, Counted(adm, now), p2, j2, t) <= Taken(r, adm, p, j, t)
  <1> DEFINE v == t \div r.window
             k == Cardinality(MayPass(r, p, j, v))
             k2 == Cardinality(MayPass(r, p2, j2, v))
             start == WindowStart(r, t)
             n == CountIn(adm, start, t)
             n2 == CountIn(Counted(adm, now), start, t)
  <1>1. k \in Nat /\ k2 \in Nat /\ IsFiniteSet(MayPass(r, p, j, v))
    BY MayPassFinite
  <1>2. n \in Int /\ start \in 0 .. MaxClock /\ t \in start .. MaxClock
    BY TakenTyped, TimesWindow
  <1>3. n2 = n + IF start <= now /\ now <= t THEN 1 ELSE 0
    BY <1>2, CountedIn
  <1>4. k2 <= k
    <2>1. MayPass(r, p2, j2, v) \subseteq MayPass(r, p, j, v)
      OBVIOUS
    <2> QED
      BY <1>1, <2>1, FS_Subset
  <1>5. ASSUME start <= now, now <= t PROVE k2 = k - 1
    <2>1. now \div r.window = v
      <3> DEFINE w == r.window
      <3>1. w \in Nat \ {0} /\ now \in Nat /\ t \in Nat
        BY DEF Rules
      <3>2. start = (t \div w) * w
        BY DEF WindowStart
      <3>3. (t \div w) * w <= now
        BY <1>5, <3>2
      <3> HIDE DEF w
      <3>4. now \div w \in Nat /\ t \div w \in Nat
        BY <3>1, SMT
      <3>5. t \div w <= now \div w
        BY <3>1, <3>3, SMT
      <3>6. now \div w <= t \div w
        BY <1>5, <3>1, SMT
      <3>7. now \div w = t \div w
        BY <3>4, <3>5, <3>6
      <3> QED
        BY <3>7 DEF w
    <2>2. h \in MayPass(r, p, j, v) /\ MayPass(r, p2, j2, v) = MayPass(r, p, j, v) \ {h}
      BY <2>1
    <2> QED
      BY <1>1, <2>2, FS_RemoveElement
  <1> HIDE DEF k, k2, n, n2, start
  <1>6. n2 + k2 <= n + k
    BY <1>1, <1>2, <1>3, <1>4, <1>5
  <1> QED
    BY <1>6 DEF Taken, k, k2, n, n2, start, v

\* Where only h moves, no other hit is counted otherwise.
LEMMA OthersMayPass ==
    ASSUME NEW r, NEW h, NEW p, NEW j, NEW p2, NEW j2, NEW v,
           \A g \in Hits : g # h => p2[g] = p[g] /\ j2[g] = j[g]
    PROVE  \A g : g # h => (g \in MayPass(r, p2, j2, v) <=> g \in MayPass(r, p, j, v))
  BY DEF MayPass

\* Where the server's counters stay and no hit is let through.
LEMMA QuietWithin ==
    ASSUME TypeInv, SlidingInv, UNCHANGED <<rule, clock, windowKeys, admitted>>,
           \A v : MayPass(rule, pc', job', v) \subseteq MayPass(rule, pc, job, v)
    PROVE  SlidingInv'
  <1>1. /\ rule \in Rules /\ clock \in Nat /\ admitted \in [0 .. MaxClock -> Nat]
        /\ windowKeys \in [0 .. MaxClock -> KeysHolding(Nat)]
    BY RuleIsRule, MaxClockType DEF TypeInv, ServerRanges, HistoryRanges
  <1>2. SUFFICES ASSUME rule.algorithm = "sliding-window"
                 PROVE  Within(rule, clock, windowKeys, admitted, pc', job')
    BY DEF SlidingInv
  <1>3. Within(rule, clock, windowKeys, admitted, pc, job)
    BY <1>2 DEF SlidingInv
  <1>4. \A t \in 0 .. MaxClock :
            Taken(rule, admitted, pc', job', t) <= Taken(rule, admitted, pc, job, t)
    BY <1>1, TakenFewer
  <1>5. \A v \in 0 .. MaxClock : /\ Get(windowKeys[v], clock, 0) \in Nat
                                 /\ Get(windowKeys[v], clock, 0) <= Get(windowKeys[v], clock, 0)
    BY <1>1 DEF Get, KeysHolding
  <1> QED
    BY <1>1, <1>3, <1>4, <1>5, WithinKept

LEMMA EstimateCovers ==
    ASSUME NEW r \in Rules, NEW now \in Nat, NEW previous \in Nat, NEW current \in Nat
    PROVE  /\ Estimated(r, now, previous, current) \in Nat
           /\ current <= Estimated(r, now, previous, current)
  <1> DEFINE w == r.window
             left == w - (now - WindowStart(r, now))
             carried == (previous * left) \div w
  <1>1. w \in Nat \ {0} /\ left \in Nat
    BY WindowStartNat DEF Rules
  <1> HIDE DEF w, left
  <1>2. carried \in Nat
    <2>1. \A x, y \in Nat : x * y \in Nat
      BY SMT
    <2>2. \A x \in Nat, y \in Nat \ {0} : x \div y \in Nat
      BY SMT
    <2> QED
      BY <1>1, <2>1, <2>2
  <1>3. Estimated(r, now, previous, current) = current + carried
    BY DEF Estimated, carried, left, w
  <1> HIDE DEF carried
  <1> QED
    BY <1>2, <1>3

LEMMA LetThroughFits ==
    ASSUME rule \in Rules, NEW now \in Nat, NEW previous \in Nat, NEW current \in Nat,
           NEW banTtl, ~SlidingHit(now, previous, current, banTtl).blocked
    PROVE  current <= rule.limit
  <1> DEFINE estimate == Estimated(rule, now, previous, current)
  <1>1. estimate \in Nat /\ current <= estimate /\ rule.limit \in Nat
    BY EstimateCovers DEF Rules
  <1>2. SlidingHit(now, previous, current, banTtl).blocked
            = (SlidingEstimate(now, previous, current) > rule.limit \/ banTtl > 0)
    BY DEF SlidingHit, HitResult
  <1>3. estimate = SlidingEstimate(now, previous, current)
    BY DEF SlidingEstimate
  <1> HIDE DEF estimate
  <1>4. ~(estimate > rule.limit)
    BY <1>2, <1>3
  <1> QED
    BY <1>1, <1>4

\* A hit that has been let through was within the limit by its counter.
LEMMA AnswerWithin ==
    ASSUME TypeInv, SlidingInv, NEW h \in Hits, pc[h] \in Sliding \ {"incrby"},
           NEW previous \in Nat, NEW banTtl \in Nat,
           SlidingAnswer(h, previous, banTtl), rule' = rule
    PROVE  SlidingInv'
  <1> DEFINE now == job[h].now
             hit == SlidingHit(now, previous, job[h].current, banTtl)
  <1>1. /\ now \in 0 .. MaxClock /\ now \in Nat /\ rule \in Rules /\ clock \in Nat
        /\ job[h].current \in Nat /\ rule.algorithm = "sliding-window"
    BY HitKnown DEF HitSound, IsJob
  <1>2. /\ windowKeys \in [0 .. MaxClock -> KeysHolding(Nat)]
        /\ admitted \in [0 .. MaxClock -> Nat]
        /\ pc \in [Hits -> Places] /\ DOMAIN job = Hits
    BY DEF TypeInv, ServerRanges, HistoryRanges, HitsSound
  <1>3. /\ Answer(h, now, hit) /\ clock' = clock /\ windowKeys' = windowKeys
        /\ pc' = [pc EXCEPT ![h] = "done"] /\ job' = [job EXCEPT ![h] = NoJob]
    BY DEF SlidingAnswer, Answer
  <1>4. \A v : MayPass(rule, pc', job', v) = MayPass(rule, pc, job, v) \ {h}
    <2> SUFFICES ASSUME NEW v
                 PROVE  MayPass(rule, pc', job', v) = MayPass(rule, pc, job, v) \ {h}
      OBVIOUS
    <2>1. \A g \in Hits : g # h => pc'[g] = pc[g] /\ job'[g] = job[g]
      BY <1>2, <1>3
    <2>2. \A g : g # h => (g \in MayPass(rule, pc', job', v) <=> g \in MayPass(rule, pc, job, v))
      BY <2>1, OthersMayPass
    <2>3. pc'[h] \notin Sliding
      BY <1>2, <1>3 DEF Sliding
    <2>4. h \notin MayPass(rule, pc', job', v)
      BY <2>3 DEF MayPass
    <2> QED
      BY <2>2, <2>4
  <1>5. CASE hit.blocked
    <2>1. admitted' = admitted
      BY <1>3, <1>5 DEF Answer
    <2>2. \A v : MayPass(rule, pc', job', v) \subseteq MayPass(rule, pc, job, v)
      BY <1>4
    <2> QED
      BY <1>3, <2>1, <2>2, QuietWithin
  <1>6. CASE ~hit.blocked
    <2>1. admitted' = Counted(admitted, now)
      BY <1>2, <1>3, <1>6 DEF Answer, Counted
    <2>4. job[h].current <= rule.limit
      BY <1>1, <1>6, LetThroughFits
    <2>5. h \in MayPass(rule, pc, job, now \div rule.window)
      BY <2>4 DEF MayPass
    <2>6. \A t \in 0 .. MaxClock :
              Taken(rule, admitted', pc', job', t) <= Taken(rule, admitted, pc, job, t)
      BY <1>1, <1>2, <1>4, <2>1, <2>5, TakenPasses
    <2>7. \A v \in 0 .. MaxClock : /\ Get(windowKeys[v], clock, 0) \in Nat
                                   /\ Get(windowKeys[v], clock, 0) <= Get(windowKeys[v], clock, 0)
      BY <1>2 DEF Get, KeysHolding
    <2>8. admitted' \in [0 .. MaxClock -> Nat]
      BY SlidingAnswerTyped
    <2>9. Within(rule, clock, windowKeys, admitted, pc, job) /\ KeysLast(rule, windowKeys)
      BY <1>1 DEF SlidingInv
    <2>10. Within(rule, clock, windowKeys, admitted', pc', job')
      BY <1>1, <1>2, <2>6, <2>7, <2>8, <2>9, WithinKept
    <2> QED
      BY <1>3, <2>9, <2>10 DEF SlidingInv
  <1> QED
    BY <1>5, <1>6

LEMMA IncrbyCounts ==
    ASSUME NEW key \in KeysHolding(Nat), NEW c \in Nat, NEW by \in Nat
    PROVE  /\ Get(key, c, 0) \in Nat
           /\ Get(Incrby(key, c, by), c, 0) = Get(key, c, 0) + by
           /\ Incrby(key, c, by).value = Get(key, c, 0) + by
           /\ Incrby(key, c, by).expires \in {key.expires, NoExpiry}
  <1>1. key.value \in Nat
    BY DEF KeysHolding
  <1>2. CASE Alive(key, c)
    <2>1. Incrby(key, c, by) = [key EXCEPT !.value = @ + by]
      BY <1>2 DEF Incrby
    <2>2. Incrby(key, c, by).value = key.value + by /\ Incrby(key, c, by).expires = key.expires
      BY <2>1 DEF KeysHolding
    <2>3. Alive(Incrby(key, c, by), c)
      BY <1>2, <2>2 DEF Alive
    <2> QED
      BY <1>1, <1>2, <2>2, <2>3 DEF Get
  <1>3. CASE ~Alive(key, c)
    <2>1. Incrby(key, c, by) = [value |-> by, expires |-> NoExpiry]
      BY <1>3 DEF Incrby
    <2>2. Alive(Incrby(key, c, by), c)
      BY <2>1 DEF Alive
    <2> QED
      BY <1>3, <2>1, <2>2 DEF Get
  <1> QED
    BY <1>2, <1>3

\* h, of time `now`, counts itself in a counter that was `count`.
CountsItself(r, c, keys, keys2, p, j, p2, j2, h, now, count) ==
    /\ p[h] = "incrby" /\ p2[h] = "pttl"
    /\ j2[h].now = now /\ j2[h].current = count + r.cost
    /\ \A g \in Hits : g # h => p2[g] = p[g] /\ j2[g] = j[g]
    /\ Get(keys[now \div r.window], c, 0) = count
    /\ Get(keys2[now \div r.window], c, 0) = count + r.cost
    /\ \A v \in 0 .. MaxClock : v # now \div r.window => keys2[v] = keys[v]

\* Either it may not pass, or its window's counter, which knows of all that
\* have been let through or may be, has room for it.
LEMMA CountWithin ==
    ASSUME NEW r \in Rules, NEW c \in Nat, NEW now \in 0 .. MaxClock, c - now <= r.window,
           NEW keys, NEW keys2, NEW adm \in [0 .. MaxClock -> Nat],
           NEW p, NEW j, NEW p2, NEW j2, NEW h \in Hits, NEW count \in Nat,
           CountsItself(r, c, keys, keys2, p, j, p2, j2, h, now, count),
           Within(r, c, keys, adm, p, j)
    PROVE  Within(r, c, keys2, adm, p2, j2)
  <1> USE DEF CountsItself
  <1> SUFFICES ASSUME NEW t \in 0 .. MaxClock
               PROVE  /\ r.cost * Taken(r, adm, p2, j2, t) <= r.limit
                      /\ c <= Needed(r, t \div r.window)
                             => r.cost * Taken(r, adm, p2, j2, t)
                                    <= Get(keys2[t \div r.window], c, 0)
    BY DEF Within
  <1> DEFINE w == now \div r.window
             v == t \div r.window
             before == MayPass(r, p, j, v)
             after == MayPass(r, p2, j2, v)
             n == Taken(r, adm, p, j, t)
             m == Taken(r, adm, p2, j2, t)
             counted == CountIn(adm, WindowStart(r, t), t)
  <1>1. /\ r.limit \in Nat /\ r.cost \in Nat
        /\ w \in 0 .. MaxClock /\ v \in 0 .. MaxClock /\ c <= Needed(r, w)
    <2>1. now + r.window < Needed(r, w) /\ Needed(r, w) \in Nat /\ w \in 0 .. MaxClock
      BY TimesWindow
    <2>2. v \in 0 .. MaxClock
      BY TimesWindow
    <2>3. r.window \in Nat /\ now \in Nat /\ r.limit \in Nat /\ r.cost \in Nat
      BY DEF Rules
    <2>4. c <= now + r.window
      BY <2>3
    <2> DEFINE last == Needed(r, w)
    <2>5. last \in Nat /\ now + r.window < last
      BY <2>1
    <2> HIDE DEF last
    <2>6. c <= last
      BY <2>3, <2>4, <2>5
    <2> QED
      BY <2>1, <2>2, <2>3, <2>6 DEF last
  <1>2. /\ r.cost * n <= r.limit
        /\ c <= Needed(r, v) => r.cost * n <= Get(keys[v], c, 0)
    BY DEF Within
  <1>3. n \in Int /\ r.cost * n \in Int /\ counted \in Int
    BY TakenTyped
  <1>4. h \notin before
    BY DEF MayPass
  <1>5. h \in after <=> w = v /\ count + r.cost <= r.limit
    BY DEF MayPass, Sliding
  <1>6. \A g : g # h => (g \in after <=> g \in before)
    <2> HIDE DEF v
    <2> QED
      BY OthersMayPass
  <1>7. CASE h \notin after
    <2>1. after = before
      <3> HIDE DEF before, after
      <3>1. \A g : g \in after <=> g \in before
        BY <1>4, <1>6, <1>7
      <3> QED
        BY <3>1
    <2>2. m = n
      BY <2>1 DEF Taken
    <2>4. w = v => Get(keys[v], c, 0) = count /\ Get(keys2[v], c, 0) = count + r.cost
      OBVIOUS
    <2> HIDE DEF n, m, w, v
    <2>5. CASE w = v
      <3> DEFINE price == r.cost * n
      <3>1. price \in Int /\ (c <= Needed(r, v) => price <= count)
        BY <1>2, <1>3, <2>4, <2>5
      <3> HIDE DEF price
      <3>2. c <= Needed(r, v) => price <= count + r.cost
        BY <1>1, <3>1
      <3> QED
        BY <1>2, <2>2, <2>4, <2>5, <3>2 DEF price, m, v
    <2>6. CASE w # v
      <3>1. keys2[v] = keys[v]
        BY <1>1, <2>6 DEF w
      <3> QED
        BY <1>2, <2>2, <3>1 DEF m, v
    <2> QED
      BY <2>5, <2>6
  <1>8. CASE h \in after
    <2>1. w = v /\ count + r.cost <= r.limit
      BY <1>5, <1>8
    <2>2. after = before \cup {h}
      BY <1>6, <1>8
    <2>3. Cardinality(after) = Cardinality(before) + 1 /\ Cardinality(before) \in Nat
      <3>1. IsFiniteSet(before) /\ Cardinality(before) \in Nat
        BY MayPassFinite
      <3> HIDE DEF before, after
      <3> QED
        BY <1>4, <2>2, <3>1, FS_AddElement
    <2>4. n = counted + Cardinality(before) /\ m = counted + Cardinality(after)
      BY DEF Taken
    <2>5. m = n + 1
      <3> HIDE DEF n, m, counted, before, after
      <3> QED
        BY <1>3, <2>3, <2>4
    <2>6. r.cost * m = r.cost * n + r.cost
      <3>1. \A x \in Nat, y \in Int : x * (y + 1) = x * y + x
        BY SMT
      <3> HIDE DEF n, m
      <3> QED
        BY <1>1, <1>3, <2>5, <3>1
    <2>7. r.cost * n <= count
      BY <1>1, <1>2, <2>1
    <2> DEFINE pn == r.cost * n
               pm == r.cost * m
    <2>8. pm = pn + r.cost /\ pn <= count /\ pn \in Int
      BY <1>3, <2>6, <2>7
    <2> HIDE DEF pn, pm, n, m, w
    <2>9. pm <= count + r.cost /\ pm <= r.limit
      BY <1>1, <2>1, <2>8
    <2> QED
      BY <2>1, <2>9 DEF pm, m, w, v
  <1> QED
    BY <1>7, <1>8

LEMMA CountHitKeepsSliding ==
    ASSUME TypeInv, SlidingInv, NEW h \in Hits, CountHit(h), rule' = rule,
           MaxLag <= rule.window
    PROVE  SlidingInv'
  <1> DEFINE now == job[h].now
             w == Window(now)
             count == Get(windowKeys[w], clock, 0)
             key == Incrby(windowKeys[w], clock, rule.cost)
  <1>1. /\ HitSound(rule, clock, charged, paths, pc[h], job[h])
        /\ now \in 0 .. MaxClock /\ now \in Nat /\ rule \in Rules /\ clock \in Nat
        /\ w \in 0 .. MaxClock /\ w = now \div rule.window
    BY HitKnown, WindowInRange DEF Window
  <1>2. /\ windowKeys \in [0 .. MaxClock -> KeysHolding(Nat)]
        /\ admitted \in [0 .. MaxClock -> Nat]
        /\ pc \in [Hits -> Places] /\ DOMAIN job = Hits
    BY DEF TypeInv, ServerRanges, HistoryRanges, HitsSound
  <1>3. rule.algorithm = "sliding-window" /\ clock - now <= MaxLag /\ pc[h] = "incrby"
    BY <1>1 DEF CountHit, HitSound, Commands, Sliding
  <1>4. Within(rule, clock, windowKeys, admitted, pc, job) /\ KeysLast(rule, windowKeys)
    BY <1>3 DEF SlidingInv
  <1>5. /\ windowKeys' = [windowKeys EXCEPT ![w] = key]
        /\ pc' = [pc EXCEPT ![h] = "pttl"]
        /\ job' = [job EXCEPT ![h] = [job[h] EXCEPT !.current = windowKeys'[w].value]]
        /\ clock' = clock /\ admitted' = admitted
    BY DEF CountHit, Continue
  <1>6. windowKeys'[w] = key /\ (\A v \in 0 .. MaxClock : v # w => windowKeys'[v] = windowKeys[v])
    BY <1>1, <1>2, <1>5
  <1>7. /\ count \in Nat /\ Get(key, clock, 0) = count + rule.cost
        /\ key.value = count + rule.cost /\ key.expires \in {windowKeys[w].expires, NoExpiry}
    <2>1. rule.cost \in Nat /\ windowKeys[w] \in KeysHolding(Nat)
      BY <1>1, <1>2 DEF Rules
    <2> QED
      BY <1>1, <2>1, IncrbyCounts
  <1>8. clock - now <= rule.window
    BY <1>1, <1>3, MaxLagType DEF Rules
  <1>9. /\ pc'[h] = "pttl" /\ job'[h] = [job[h] EXCEPT !.current = windowKeys'[w].value]
        /\ \A g \in Hits : g # h => pc'[g] = pc[g] /\ job'[g] = job[g]
    BY <1>2, <1>5
  <1>10. job'[h].now = now /\ job'[h].current = count + rule.cost
    <2>1. job[h] = [now |-> job[h].now, next |-> job[h].next, current |-> job[h].current,
                    previous |-> job[h].previous]
      BY <1>1 DEF HitSound, IsJob
    <2>2. windowKeys'[w].value = count + rule.cost
      BY <1>6, <1>7
    <2> HIDE DEF count, w
    <2> QED
      BY <1>9, <2>1, <2>2
  <1> HIDE DEF now, w, count, key
  <1>11. Within(rule, clock, windowKeys', admitted, pc', job')
    <2>1. Get(windowKeys[now \div rule.window], clock, 0) = count
      BY <1>1 DEF count
    <2>2. Get(windowKeys'[now \div rule.window], clock, 0) = count + rule.cost
      BY <1>1, <1>6, <1>7
    <2>3. \A v \in 0 .. MaxClock : v # now \div rule.window => windowKeys'[v] = windowKeys[v]
      BY <1>1, <1>6
    <2>4. /\ now \in 0 .. MaxClock /\ rule \in Rules /\ clock \in Nat
          /\ admitted \in [0 .. MaxClock -> Nat] /\ count \in Nat /\ pc[h] = "incrby"
          /\ Within(rule, clock, windowKeys, admitted, pc, job)
      BY <1>1, <1>2, <1>3, <1>4, <1>7
    <2>5. CountsItself(rule, clock, windowKeys, windowKeys', pc, job, pc', job', h, now, count)
      BY <1>3, <1>9, <1>10, <2>1, <2>2, <2>3 DEF CountsItself
    <2> QED
      BY <1>8, <2>4, <2>5, CountWithin
  <1>12. KeysLast(rule, windowKeys')
    BY <1>4, <1>6, <1>7 DEF KeysLast
  <1> QED
    BY <1>5, <1>11, <1>12 DEF SlidingInv

\* A hit that goes on to its next command, and what it is counted by stays.
LEMMA GoesOnWithin ==
    ASSUME TypeInv, NEW h \in Hits, pc[h] \in Sliding \ {"incrby"}, NEW x, NEW y,
           pc' = [pc EXCEPT ![h] = x], job' = [job EXCEPT ![h] = y],
           y.now = job[h].now, y.current = job[h].current
    PROVE  \A v : MayPass(rule, pc', job', v) \subseteq MayPass(rule, pc, job, v)
  <1>1. pc \in [Hits -> Places] /\ DOMAIN job = Hits
    BY DEF TypeInv, HitsSound
  <1>2. job'[h].now = job[h].now /\ job'[h].current = job[h].current
    BY <1>1
  <1>3. \A g \in Hits : g # h => pc'[g] = pc[g] /\ job'[g] = job[g]
    BY <1>1
  <1> QED
    BY <1>2, <1>3 DEF MayPass

LEMMA ExpireWindowKeepsSliding ==
    ASSUME TypeInv, SlidingInv, NEW h \in Hits, ExpireWindow(h), rule' = rule
    PROVE  SlidingInv'
  <1> DEFINE now == job[h].now
             w == Window(now)
             key == Pexpire(windowKeys[w], clock, 2 * rule.window)
  <1>1. /\ HitSound(rule, clock, charged, paths, pc[h], job[h])
        /\ now \in 0 .. MaxClock /\ now \in Nat /\ now <= clock
        /\ rule \in Rules /\ clock \in Nat
        /\ w \in 0 .. MaxClock /\ w = now \div rule.window
    BY HitKnown, WindowInRange DEF Window
  <1>2. /\ windowKeys \in [0 .. MaxClock -> KeysHolding(Nat)]
        /\ admitted \in [0 .. MaxClock -> Nat]
        /\ pc \in [Hits -> Places] /\ DOMAIN job = Hits
    BY DEF TypeInv, ServerRanges, HistoryRanges, HitsSound
  <1>3. rule.algorithm = "sliding-window" /\ pc[h] \in Sliding \ {"incrby"}
    BY <1>1 DEF ExpireWindow, HitSound, Sliding
  <1>4. Within(rule, clock, windowKeys, admitted, pc, job) /\ KeysLast(rule, windowKeys)
    BY <1>3 DEF SlidingInv
  <1>5. /\ windowKeys' = [windowKeys EXCEPT ![w] = key]
        /\ pc' = [pc EXCEPT ![h] = "get previous"] /\ job' = [job EXCEPT ![h] = job[h]]
        /\ clock' = clock /\ admitted' = admitted
    <2>1. windowKeys' = [windowKeys EXCEPT ![w] = key]
      BY DEF ExpireWindow
    <2>2. /\ pc' = [pc EXCEPT ![h] = "get previous"] /\ job' = [job EXCEPT ![h] = job[h]]
          /\ clock' = clock /\ admitted' = admitted
      BY DEF ExpireWindow, Continue, history
    <2> QED
      BY <2>1, <2>2
  <1>6. windowKeys'[w] = key /\ (\A v \in 0 .. MaxClock : v # w => windowKeys'[v] = windowKeys[v])
    BY <1>1, <1>2, <1>5
  <1>7. \A v : MayPass(rule, pc', job', v) \subseteq MayPass(rule, pc, job, v)
    BY <1>3, <1>5, GoesOnWithin
  <1>8. /\ Get(key, clock, 0) = Get(windowKeys[w], clock, 0)
        /\ key.expires \in {windowKeys[w].expires, clock + 2 * rule.window}
    <2> DEFINE old == windowKeys[w]
               twice == 2 * rule.window
    <2>1. old \in KeysHolding(Nat) /\ twice \in Nat /\ clock \in Nat
      BY <1>1, <1>2 DEF Rules
    <2>2. key = Pexpire(old, clock, twice)
      OBVIOUS
    <2> HIDE DEF old, twice, key
    <2>3. CASE Alive(old, clock)
      <3>1. key.value = old.value /\ key.expires = clock + twice
        BY <2>1, <2>2, <2>3 DEF Pexpire, KeysHolding
      <3>2. Alive(key, clock)
        BY <2>1, <3>1 DEF Alive
      <3> QED
        BY <2>3, <3>1, <3>2 DEF Get, old, twice
    <2>4. CASE ~Alive(old, clock)
      BY <2>2, <2>4 DEF Pexpire, old
    <2> QED
      BY <2>3, <2>4
  <1>9. Needed(rule, w) <= clock + 2 * rule.window
    <2> DEFINE start == WindowStart(rule, now)
    <2>1. start \in Nat /\ start <= now /\ start = (now \div rule.window) * rule.window
              /\ rule.window \in Nat
      BY <1>1, WindowStartNat DEF WindowStart, Rules
    <2>2. \A a, b \in Nat : (a + 2) * b = a * b + 2 * b /\ a * b \in Nat
      BY SMT
    <2>3. w \in Nat /\ start = w * rule.window
      BY <1>1, <2>1
    <2> HIDE DEF w, start, now
    <2>4. Needed(rule, w) = start + 2 * rule.window
      BY <2>1, <2>2, <2>3 DEF Needed
    <2> QED
      BY <1>1, <2>1, <2>4
  <1>10. KeysLast(rule, windowKeys')
    <2> HIDE DEF w, key
    <2> QED
      BY <1>4, <1>6, <1>8, <1>9 DEF KeysLast
  <1>11. Within(rule, clock, windowKeys', admitted, pc', job')
    <2>1. \A t \in 0 .. MaxClock :
              Taken(rule, admitted, pc', job', t) <= Taken(rule, admitted, pc, job, t)
      BY <1>1, <1>2, <1>7, TakenFewer
    <2>2. \A v \in 0 .. MaxClock : Get(windowKeys[v], clock, 0) \in Nat
      BY <1>2 DEF Get, KeysHolding
    <2>3. \A v \in 0 .. MaxClock : Get(windowKeys'[v], clock, 0) = Get(windowKeys[v], clock, 0)
      <3> HIDE DEF w, key
      <3> QED
        BY <1>6, <1>8
    <2>4. \A v \in 0 .. MaxClock :
              /\ Get(windowKeys[v], clock, 0) \in Nat /\ Get(windowKeys'[v], clock, 0) \in Nat
              /\ Get(windowKeys[v], clock, 0) <= Get(windowKeys'[v], clock, 0)
      <3> SUFFICES ASSUME NEW v \in 0 .. MaxClock
                   PROVE  /\ Get(windowKeys[v], clock, 0) \in Nat
                          /\ Get(windowKeys'[v], clock, 0) \in Nat
                          /\ Get(windowKeys[v], clock, 0) <= Get(windowKeys'[v], clock, 0)
        OBVIOUS
      <3> DEFINE count == Get(windowKeys[v], clock, 0)
      <3>1. count \in Nat /\ Get(windowKeys'[v], clock, 0) = count
        BY <2>2, <2>3
      <3> HIDE DEF count
      <3>2. count <= count
        BY <3>1
      <3> QED
        BY <3>1, <3>2 DEF count
    <2> QED
      BY <1>1, <1>2, <1>4, <2>1, <2>4, WithinKept
  <1> QED
    BY <1>5, <1>10, <1>11 DEF SlidingInv

LEMMA StepKeepsSliding ==
    ASSUME TypeInv, SlidingInv, NEW h \in Hits, Step(h), rule' = rule, MaxLag <= rule.window
    PROVE  SlidingInv'
  <1>1. /\ HitSound(rule, clock, charged, paths, pc[h], job[h])
        /\ job[h].now \in 0 .. MaxClock /\ clock \in Nat
    BY HitKnown
  <1>2. /\ pc[h] \in {"get", "psetex"} => Metered(rule)
        /\ pc[h] = "eval" => rule.algorithm = "gcra"
    BY <1>1 DEF HitSound
  <1>3. pc \in [Hits -> Places] /\ DOMAIN job = Hits
    BY DEF TypeInv, HitsSound
  <1>4. CASE Start(h)
    <2>1. pc'[h] \in {"eval", "incrby", "get"}
      BY <1>3, <1>4 DEF Start, Continue
    <2>2. \A g \in Hits : g # h => pc'[g] = pc[g] /\ job'[g] = job[g]
      BY <1>3, <1>4 DEF Start, Continue
    <2>3. \A v : MayPass(rule, pc', job', v) \subseteq MayPass(rule, pc, job, v)
      BY <2>1, <2>2 DEF MayPass, Sliding
    <2> QED
      BY <1>4, <2>3, QuietWithin DEF Start, server, history
  <1>5. CASE Fail(h)
    <2>1. pc'[h] = "failed"
      BY <1>3, <1>5 DEF Fail, Continue
    <2>2. \A g \in Hits : g # h => pc'[g] = pc[g] /\ job'[g] = job[g]
      BY <1>3, <1>5 DEF Fail, Continue
    <2>3. \A v : MayPass(rule, pc', job', v) \subseteq MayPass(rule, pc, job, v)
      BY <2>1, <2>2 DEF MayPass, Sliding
    <2> QED
      BY <1>5, <2>3, QuietWithin DEF Fail, server
  <1>6. CASE EvalAnswers(h) \/ EvalRaises(h) \/ EvalLost(h) \/ EvalRefused(h)
    BY <1>2, <1>6 DEF EvalAnswers, EvalRaises, EvalLost, EvalRefused, SlidingInv
  <1>7. CASE LateScript(h)
    <2>1. late # {}
      BY <1>7 DEF LateScript
    <2>2. rule.algorithm = "gcra"
      BY <2>1 DEF TypeInv, LateSound
    <2> QED
      BY <2>2 DEF SlidingInv
  <1>8. CASE ReadState(h) \/ WriteState(h)
    BY <1>2, <1>8 DEF ReadState, WriteState, SlidingInv, Metered
  <1>9. CASE CountHit(h)
    BY <1>9, CountHitKeepsSliding
  <1>10. CASE ReadWindowTtl(h)
    <2>1. pc[h] \in Sliding \ {"incrby"}
      BY <1>10 DEF ReadWindowTtl, Sliding
    <2>2. PICK x : pc' = [pc EXCEPT ![h] = x] /\ job' = [job EXCEPT ![h] = job[h]]
      BY <1>10 DEF ReadWindowTtl, Continue
    <2>3. \A v : MayPass(rule, pc', job', v) \subseteq MayPass(rule, pc, job, v)
      BY <2>1, <2>2, GoesOnWithin
    <2> QED
      BY <1>10, <2>3, QuietWithin DEF ReadWindowTtl, server, history
  <1>11. CASE ExpireWindow(h)
    BY <1>11, ExpireWindowKeepsSliding
  <1>12. CASE ReadPrevious(h)
    <2> DEFINE previous == WindowCount(Window(job[h].now) - 1)
    <2>1. pc[h] \in Sliding \ {"incrby"} /\ previous \in Nat
      BY <1>1, <1>12, PreviousTyped DEF ReadPrevious, Sliding
    <2> HIDE DEF previous
    <2>2. CASE rule.ban > 0
      <3> DEFINE y == [job[h] EXCEPT !.previous = previous]
      <3>1. /\ pc' = [pc EXCEPT ![h] = "pttl ban"] /\ job' = [job EXCEPT ![h] = y]
            /\ UNCHANGED <<clock, server, history>>
        BY <1>12, <2>2 DEF ReadPrevious, Continue, previous
      <3>2. y.now = job[h].now /\ y.current = job[h].current
        BY <1>1 DEF HitSound, IsJob
      <3> HIDE DEF y
      <3>3. \A v : MayPass(rule, pc', job', v) \subseteq MayPass(rule, pc, job, v)
        BY <2>1, <3>1, <3>2, GoesOnWithin
      <3> QED
        BY <3>1, <3>3, QuietWithin DEF server, history
    <2>3. CASE ~(rule.ban > 0)
      <3>1. SlidingAnswer(h, previous, 0)
        BY <1>12, <2>3 DEF ReadPrevious, previous
      <3> QED
        BY <2>1, <3>1, AnswerWithin
    <2> QED
      BY <2>2, <2>3
  <1>13. ASSUME pc[h] \in {"pttl ban", "psetex ban"}
         PROVE  job[h].previous \in Nat /\ pc[h] \in Sliding \ {"incrby"}
    BY <1>1, <1>13 DEF HitSound, IsJob, Sliding
  <1>14. CASE ReadSlidingBan(h)
    <2> DEFINE ttl == Pttl(banKey, clock)
    <2>1. ttl \in Int
      BY BanTtl
    <2>2. job[h].previous \in Nat /\ pc[h] \in Sliding \ {"incrby"}
      BY <1>13, <1>14 DEF ReadSlidingBan
    <2> HIDE DEF ttl
    <2>3. CASE OverLimit(h, job[h].previous) /\ ttl <= 0
      <3>1. /\ pc' = [pc EXCEPT ![h] = "psetex ban"] /\ job' = [job EXCEPT ![h] = job[h]]
            /\ UNCHANGED <<clock, server, history>>
        BY <1>14, <2>3 DEF ReadSlidingBan, Continue, ttl
      <3>2. \A v : MayPass(rule, pc', job', v) \subseteq MayPass(rule, pc, job, v)
        BY <2>2, <3>1, GoesOnWithin
      <3> QED
        BY <3>1, <3>2, QuietWithin DEF server, history
    <2>4. CASE ~(OverLimit(h, job[h].previous) /\ ttl <= 0)
      <3>1. SlidingAnswer(h, job[h].previous, Larger(ttl, 0))
        BY <1>14, <2>4 DEF ReadSlidingBan, ttl
      <3>2. Larger(ttl, 0) \in Nat
        BY <2>1, SMT DEF Larger
      <3> QED
        BY <2>2, <3>1, <3>2, AnswerWithin
    <2> QED
      BY <2>3, <2>4
  <1>15. CASE SetSlidingBan(h)
    <2>1. job[h].previous \in Nat /\ pc[h] \in Sliding \ {"incrby"}
      BY <1>13, <1>15 DEF SetSlidingBan
    <2>2. rule.ban \in Nat
      BY HitKnown DEF Rules
    <2>3. SlidingAnswer(h, job[h].previous, rule.ban)
      BY <1>15 DEF SetSlidingBan
    <2> QED
      BY <2>1, <2>2, <2>3, AnswerWithin
  <1> QED
    BY <1>4, <1>5, <1>6, <1>7, <1>8, <1>9, <1>10, <1>11, <1>12, <1>14, <1>15 DEF Step

LEMMA TickKeepsSliding ==
    ASSUME TypeInv, SlidingInv, Tick, rule' = rule
    PROVE  SlidingInv'
  <1>1. /\ rule \in Rules /\ clock \in Nat
        /\ windowKeys \in [0 .. MaxClock -> KeysHolding(Nat)]
    BY RuleIsRule, MaxClockType DEF TypeInv, ServerRanges
  <1>2. /\ clock' = clock + 1 /\ UNCHANGED <<pc, job, admitted>>
        /\ windowKeys' = [v \in 0 .. MaxClock |-> Forgotten(windowKeys[v], clock', 0)]
    BY <1>1 DEF Tick, history
  <1>3. SUFFICES ASSUME rule.algorithm = "sliding-window"
                 PROVE  /\ Within(rule, clock', windowKeys', admitted, pc, job)
                        /\ KeysLast(rule, windowKeys')
    BY <1>2 DEF SlidingInv
  <1>4. Within(rule, clock, windowKeys, admitted, pc, job) /\ KeysLast(rule, windowKeys)
    BY <1>3 DEF SlidingInv
  <1>5. ASSUME NEW v \in 0 .. MaxClock
        PROVE  /\ windowKeys'[v].expires \in {NoExpiry, Gone}
                      \/ Needed(rule, v) <= windowKeys'[v].expires
               /\ clock + 1 <= Needed(rule, v)
                      => Get(windowKeys'[v], clock + 1, 0) = Get(windowKeys[v], clock, 0)
    <2> DEFINE key == windowKeys[v]
               last == Needed(rule, v)
    <2>1. key.expires \in Nat \cup {NoExpiry, Gone}
      BY <1>1 DEF KeysHolding
    <2>2. key.expires \in {NoExpiry, Gone} \/ last <= key.expires
      BY <1>4 DEF KeysLast
    <2>3. windowKeys'[v] = Forgotten(key, clock + 1, 0)
      BY <1>2
    <2>4. last \in Nat
      <3>1. v + 2 \in Nat /\ rule.window \in Nat
        BY <1>1, MaxClockType DEF Rules
      <3>2. \A a, b \in Nat : a * b \in Nat
        BY SMT
      <3> QED
        BY <3>1, <3>2 DEF Needed
    <2> HIDE DEF key, last
    <2>5. CASE Alive(key, clock + 1)
      <3>1. windowKeys'[v] = key
        BY <2>3, <2>5 DEF Forgotten
      <3>2. Alive(key, clock)
        BY <1>1, <2>1, <2>5, SMT DEF Alive, NoExpiry, Gone
      <3> QED
        BY <2>2, <2>5, <3>1, <3>2 DEF Get, key, last
    <2>6. CASE ~Alive(key, clock + 1)
      <3>1. windowKeys'[v] = [value |-> 0, expires |-> Gone]
        BY <2>3, <2>6 DEF Forgotten
      <3>2. Get(windowKeys'[v], clock + 1, 0) = 0
        BY <3>1 DEF Get
      <3>3. clock + 1 <= last => ~Alive(key, clock)
        BY <1>1, <2>1, <2>2, <2>4, <2>6, SMT DEF Alive, NoExpiry, Gone
      <3>4. clock + 1 <= last => Get(key, clock, 0) = 0
        BY <3>3 DEF Get
      <3>5. windowKeys'[v].expires = Gone
        BY <3>1
      <3> QED
        BY <3>2, <3>4, <3>5 DEF key, last
    <2> QED
      BY <2>5, <2>6
  <1>6. KeysLast(rule, windowKeys')
    BY <1>5 DEF KeysLast
  <1>7. ASSUME NEW t \in 0 .. MaxClock
        PROVE  /\ rule.cost * Taken(rule, admitted, pc, job, t) <= rule.limit
               /\ clock + 1 <= Needed(rule, t \div rule.window)
                      => rule.cost * Taken(rule, admitted, pc, job, t)
                             <= Get(windowKeys'[t \div rule.window], clock + 1, 0)
    <2> DEFINE v == t \div rule.window
               last == Needed(rule, v)
               price == rule.cost * Taken(rule, admitted, pc, job, t)
    <2>1. v \in 0 .. MaxClock /\ last \in Nat
      BY <1>1, TimesWindow
    <2>2. price <= rule.limit /\ (clock <= last => price <= Get(windowKeys[v], clock, 0))
      BY <1>4 DEF Within
    <2>3. clock + 1 <= last => Get(windowKeys'[v], clock + 1, 0) = Get(windowKeys[v], clock, 0)
      BY <1>5, <2>1
    <2> HIDE DEF v, last, price
    <2>4. clock + 1 <= last => clock <= last
      BY <1>1, <2>1
    <2>5. clock + 1 <= last => price <= Get(windowKeys'[v], clock + 1, 0)
      BY <2>2, <2>3, <2>4
    <2> QED
      BY <2>2, <2>5 DEF v, last, price
  <1>8. Within(rule, clock + 1, windowKeys', admitted, pc, job)
    BY <1>7 DEF Within
  <1> QED
    BY <1>2, <1>6, <1>8

\* No hit is under way for longer than its rule's window: a later one would
\* find its window's counter, or the state of the script, expired.
NoneOverdue == \A r \in RuleChoices : MaxLag <= r.window

\* Between any two times the script lets through no more gcra hits than the
\* burst and the refill between them; and every sliding window lets through no
\* more than its limit: in whatever order the hits of the processes reach the
\* server, and with any of them lost, late or failed.
THEOREM RatesHold == NoneOverdue => (Spec => []BurstRate)
  <1> SUFFICES ASSUME NoneOverdue PROVE Spec => []BurstRate
    OBVIOUS
  <1>1. Init => GcraInv /\ SlidingInv
    <2> SUFFICES ASSUME Init PROVE GcraInv /\ SlidingInv
      OBVIOUS
    <2>1. /\ rule \in Rules /\ clock = 0 /\ stateKey.expires = Gone
          /\ admitted = [t \in 0 .. MaxClock |-> 0] /\ pc = [h \in Hits |-> "idle"]
          /\ windowKeys = [w \in 0 .. MaxClock |-> [value |-> 0, expires |-> Gone]]
      BY RuleIsRule DEF Init
    <2>2. ASSUME NEW a \in 0 .. MaxClock, NEW b \in a .. MaxClock
          PROVE  CountIn(admitted, a, b) = 0
      <3>1. b \in 0 .. MaxClock /\ (a # 0 => a - 1 \in 0 .. MaxClock)
        BY MaxClockType
      <3> QED
        BY <2>1, <3>1 DEF CountIn
    <2>3. rule.limit \in Nat /\ rule.cost \in Nat /\ rule.window \in Nat /\ Capacity(rule) \in Nat
      BY <2>1, CapacityNat DEF Rules
    <2>4. \A x \in Int : x * 0 = 0
      BY SMT
    <2>5. \A x, y \in Nat : x * y \in Nat
      BY SMT
    <2>6. GcraInv
      <3>1. ASSUME NEW t \in 0 .. MaxClock, NEW u \in t .. MaxClock
            PROVE  admitted[t] <= admitted[u]
        <4>1. u \in 0 .. MaxClock
          BY MaxClockType
        <4> QED
          BY <2>1, <4>1
      <3>2. ASSUME NEW a \in 0 .. MaxClock PROVE CountIn(admitted, a, MaxClock) = 0
        <4>1. MaxClock \in a .. MaxClock
          BY MaxClockType
        <4> QED
          BY <2>2, <4>1
      <3>3. ASSUME NEW a \in 0 .. MaxClock, NEW b \in a .. MaxClock
            PROVE  rule.cost * rule.window * CountIn(admitted, a, b)
                       <= Capacity(rule) + (b - a) * rule.limit
        <4>1. b - a \in Nat /\ (b - a) * rule.limit \in Nat
          BY <2>3, <2>5, MaxClockType
        <4>2. rule.cost * rule.window * CountIn(admitted, a, b) = 0
          BY <2>2, <2>3, <2>4, <2>5
        <4> DEFINE refill == (b - a) * rule.limit
        <4>3. 0 <= Capacity(rule) + refill
          <5> HIDE DEF refill
          <5>1. refill \in Nat
            BY <4>1 DEF refill
          <5> QED
            BY <2>3, <5>1
        <4> QED
          BY <4>2, <4>3
      <3>4. Rated(rule, admitted, Reach)
        BY <3>1, <3>2, <3>3 DEF Rated
      <3> QED
        BY <2>1, <3>4 DEF GcraInv
    <2>7. SlidingInv
      <3>1. ASSUME NEW t \in 0 .. MaxClock
            PROVE  /\ rule.cost * Taken(rule, admitted, pc, job, t) <= rule.limit
                   /\ clock <= Needed(rule, t \div rule.window)
                          => rule.cost * Taken(rule, admitted, pc, job, t)
                                 <= Get(windowKeys[t \div rule.window], clock, 0)
        <4>1. /\ WindowStart(rule, t) \in 0 .. MaxClock /\ t \in WindowStart(rule, t) .. MaxClock
              /\ t \div rule.window \in 0 .. MaxClock
          BY <2>1, TimesWindow
        <4>2. CountIn(admitted, WindowStart(rule, t), t) = 0
          BY <2>2, <4>1
        <4>3. MayPass(rule, pc, job, t \div rule.window) = {}
          BY <2>1 DEF MayPass, Sliding
        <4>4. Taken(rule, admitted, pc, job, t) = 0
          BY <4>2, <4>3, FS_EmptySet DEF Taken
        <4>5. rule.cost * Taken(rule, admitted, pc, job, t) = 0
          BY <2>3, <2>4, <4>4
        <4>6. Get(windowKeys[t \div rule.window], clock, 0) = 0
          BY <2>1, <4>1 DEF Get
        <4> QED
          BY <2>3, <4>5, <4>6
      <3>2. KeysLast(rule, windowKeys)
        BY <2>1 DEF KeysLast
      <3> QED
        BY <3>1, <3>2 DEF SlidingInv, Within
    <2> QED
      BY <2>6, <2>7
  <1>2. TypeInv /\ GcraInv /\ SlidingInv /\ [Next]_vars => GcraInv' /\ SlidingInv'
    <2> SUFFICES ASSUME TypeInv, GcraInv, SlidingInv, [Next]_vars
                 PROVE  GcraInv' /\ SlidingInv'
      OBVIOUS
    <2>1. CASE Next
      <3>1. rule' = rule /\ (Tick \/ \E h \in Hits : Step(h))
        BY <2>1 DEF Next
      <3>2. MaxLag <= rule.window
        BY DEF NoneOverdue, TypeInv, ServerRanges
      <3> QED
        BY <3>1, <3>2, TickKeepsGcra, TickKeepsSliding, StepKeepsGcra, StepKeepsSliding
    <2>2. CASE UNCHANGED vars
      <3>1. UNCHANGED <<rule, clock, stateKey, windowKeys, admitted, paths, pc, job>>
        BY <2>2 DEF vars, server, history
      <3>2. Reach' = Reach /\ (ScriptKey' <=> ScriptKey) /\ (OnlyScripts' <=> OnlyScripts)
        BY <3>1 DEF Reach, ScriptKey, OnlyScripts
      <3> QED
        BY <3>1, <3>2 DEF GcraInv, SlidingInv
    <2> QED
      BY <2>1, <2>2
  <1>3. TypeInv /\ GcraInv /\ SlidingInv => BurstRate
    <2> SUFFICES ASSUME TypeInv, GcraInv, SlidingInv PROVE BurstRate
      OBVIOUS
    <2>1. rule \in Rules /\ admitted \in [0 .. MaxClock -> Nat]
      BY RuleIsRule DEF TypeInv, ServerRanges, HistoryRanges
    <2>2. \A a, b : Admitted(a, b) = CountIn(admitted, a, b)
      BY DEF Admitted, CountIn
    <2>3. ASSUME rule.algorithm = "gcra", paths \subseteq {"script"}
          PROVE  \A a \in 0 .. MaxClock : \A b \in a .. MaxClock :
                     rule.cost * rule.window * Admitted(a, b)
                         <= Capacity(rule) + (b - a) * rule.limit
      BY <2>2, <2>3 DEF GcraInv, OnlyScripts, Rated
    <2>4. ASSUME rule.algorithm = "sliding-window", NEW t \in 0 .. MaxClock
          PROVE  rule.cost * Admitted(WindowStart(rule, t), t) <= rule.limit
      <3> DEFINE n == CountIn(admitted, WindowStart(rule, t), t)
                 m == Taken(rule, admitted, pc, job, t)
                 k == Cardinality(MayPass(rule, pc, job, t \div rule.window))
      <3>1. n \in Int /\ k \in Nat /\ m = n + k
        BY <2>1, TakenTyped, MayPassFinite DEF Taken
      <3>2. rule.cost * m <= rule.limit
        BY <2>4 DEF SlidingInv, Within
      <3>3. rule.cost \in Nat /\ rule.limit \in Nat
        BY <2>1 DEF Rules
      <3> HIDE DEF n, m, k
      <3>4. \A x, z \in Nat, y \in Int : x * (y + z) = x * y + x * z /\ x * z \in Nat /\ x * y \in Int
        BY SMT
      <3> DEFINE price == rule.cost * n
                 rest == rule.cost * k
      <3>5. price \in Int /\ rest \in Nat /\ price + rest <= rule.limit
        BY <3>1, <3>2, <3>3, <3>4
      <3> HIDE DEF price, rest
      <3>6. price <= rule.limit
        BY <3>3, <3>5
      <3> QED
        BY <2>2, <3>6 DEF price, n
    <2> QED
      BY <2>3, <2>4 DEF BurstRate
  <1> QED
    BY <1>1, <1>2, <1>3, InitTypes, TypesKept, PTL DEF Spec

-----------------------------------------------------------------------------
(* Agreement with the in-process algorithm.                                *)

\* State s means nothing to a hit at t or later.
Lapsed(r, s, t) == s = NoState \/ \E e \in Nat : e <= t /\ Outlives(r, s, e)

\* The key holds what no hit tells from s, or nothing, if s is over.
Mirrors(r, c, key, s) ==
    IF key.expires = Gone THEN Lapsed(r, s, c)
    ELSE c <= key.expires /\ Twins(r, c, key.value, s) /\ Lapsed(r, s, key.expires)

\* The ban key's time is that of the ban, if either is still to come.
BanMatches(key, c, until) == key.expires > c \/ until > c => key.expires = until

\* The portable path: the key, or the hit that is about to write it, has the state
\* of the reference.
PortableMatch ==
    paths \subseteq {"portable"} =>
        /\ \A g, h \in Hits : pc[g] = "psetex" /\ pc[h] = "psetex" => g = h
        /\ \A h \in Hits : pc[h] = "psetex" =>
               /\ Twins(rule, clock, job[h].next.state, reference)
               /\ Lapsed(rule, reference, job[h].next.expiresAt)
        /\ (\A h \in Hits : pc[h] # "psetex") => Mirrors(rule, clock, stateKey, reference)

\* The script: its two keys have the arrival time and the ban of the reference.
ScriptMatch ==
    rule.algorithm = "gcra" /\ paths \subseteq {"script"} =>
        /\ BanMatches(banKey, clock, reference.banUntil)
        /\ stateKey.expires # Gone =>
               /\ stateKey.value.algorithm = "number" /\ clock <= stateKey.expires
               /\ stateKey.value.tat <= stateKey.expires * rule.limit
        /\ Larger(ScriptTat(clock), clock * rule.limit)
               = Larger(Tat(rule, clock, reference), clock * rule.limit)

\* The number of the window of s, and what s knows of window v.
WindowOf(r, s) == s.windowStart \div r.window

CountOf(r, s, v) ==
    IF s = NoState THEN 0
    ELSE IF v = WindowOf(r, s) THEN s.currentCount
    ELSE IF v = WindowOf(r, s) - 1 THEN s.previousCount
    ELSE 0

Aligned(r, c, s) ==
    s # NoState => /\ s.windowStart = WindowOf(r, s) * r.window
                   /\ WindowOf(r, s) <= c \div r.window

\* The reference's hit at `now` was over the limit.
Breached(r, now, s) == Estimated(r, now, s.previousCount, s.currentCount) > r.limit

\* h has counted itself, and the reference is what its answer will leave.
Answers(h) ==
    LET starts == /\ rule.ban > 0 /\ Pttl(banKey, clock) <= 0
                  /\ Breached(rule, clock, reference)
    IN  /\ reference # NoState /\ reference.windowStart = WindowStart(rule, clock)
        /\ job[h].current = reference.currentCount
        /\ IF starts THEN reference.banUntil = clock + rule.ban
                     ELSE BanMatches(banKey, clock, reference.banUntil)
        /\ pc[h] \in {"pttl ban", "psetex ban"} =>
               rule.ban > 0 /\ job[h].previous = reference.previousCount
        /\ pc[h] = "psetex ban" => starts

SlidingMatch ==
    rule.algorithm = "sliding-window" =>
        /\ KeysLast(rule, windowKeys)
        /\ Aligned(rule, clock, reference)
        /\ \A v \in -1 .. MaxClock :
               Window(clock) - 1 <= v => WindowCount(v) = CountOf(rule, reference, v)
        /\ rule.ban = 0 => reference.banUntil = 0
        /\ \A g, h \in Hits : UnderWay(g) /\ UnderWay(h) => g = h
        /\ \A h \in Hits : UnderWay(h) /\ job[h].now = clock => Answers(h)
        /\ (\A h \in Hits : ~UnderWay(h)) => BanMatches(banKey, clock, reference.banUntil)

MatchInv == reference # Unknown => PortableMatch /\ ScriptMatch /\ SlidingMatch

-----------------------------------------------------------------------------
(* As time passes.                                                         *)

LEMMA LapsedLater ==
    ASSUME NEW r, NEW s, NEW t \in Int, NEW u \in Int, t <= u, Lapsed(r, s, t)
    PROVE  Lapsed(r, s, u)
  <1>1. CASE s = NoState
    BY <1>1 DEF Lapsed
  <1>2. CASE s # NoState
    <2>1. PICK e \in Nat : e <= t /\ Outlives(r, s, e)
      BY <1>2 DEF Lapsed
    <2>2. e <= u
      BY <2>1
    <2> QED
      BY <2>1, <2>2 DEF Lapsed
  <1> QED
    BY <1>1, <1>2

\* An arrival time, if it has one, is a number.
IsTimed(s) == s.algorithm = "gcra" => s.tat \in Nat

LEMMA StatesAreTimed ==
    ASSUME NEW r \in Rules, NEW s \in StatesOf(r) \cup {NoState}
    PROVE  /\ IsTimed(s) /\ s # Unknown /\ SameState(s, r.algorithm) = s
           /\ s.algorithm = "gcra" => r.algorithm = "gcra"
  BY DEF IsTimed, StatesOf, FixedStates, SlidingStates, TokenStates, GcraStates, NoState, Rules,
         AlgorithmNames, Unknown, SameState

LEMMA TwinsLater ==
    ASSUME NEW r \in Rules, NEW c \in Nat, NEW d \in Nat, c <= d, NEW x, NEW y, IsTimed(x), IsTimed(y),
           Twins(r, c, x, y)
    PROVE  Twins(r, d, x, y)
  <1>1. CASE x = y
    BY <1>1 DEF Twins
  <1>2. CASE x # y
    <2>1. /\ x.algorithm = "gcra" /\ y.algorithm = "gcra" /\ x.banUntil = y.banUntil
          /\ x.tat <= c * r.limit /\ y.tat <= c * r.limit /\ x.tat \in Nat /\ y.tat \in Nat
      BY <1>2 DEF Twins, IsTimed
    <2>2. c * r.limit \in Nat /\ d * r.limit \in Nat /\ c * r.limit <= d * r.limit
      BY TimesLimit
    <2>3. x.tat <= d * r.limit /\ y.tat <= d * r.limit
      BY <2>1, <2>2
    <2> QED
      BY <2>1, <2>3 DEF Twins
  <1> QED
    BY <1>1, <1>2

LEMMA MirrorsLater ==
    ASSUME NEW r \in Rules, NEW c \in Nat, NEW key, key.expires \in Nat \cup {Gone},
           NEW s, IsTimed(key.value), IsTimed(s), Mirrors(r, c, key, s)
    PROVE  Mirrors(r, c + 1, Forgotten(key, c + 1, NoState), s)
  <1> DEFINE later == Forgotten(key, c + 1, NoState)
  <1>1. /\ c + 1 \in Nat /\ c <= c + 1
        /\ Gone \in Int /\ Gone < 0 /\ NoExpiry < 0 /\ Gone # NoExpiry
    BY DEF Gone, NoExpiry
  <1>2. CASE Alive(key, c + 1)
    <2>1. later = key
      BY <1>2 DEF Forgotten
    <2>4. key.expires # NoExpiry
      BY <1>1, SMT
    <2>5. c + 1 <= key.expires
      BY <1>2, <2>4 DEF Alive
    <2>6. key.expires # Gone
      BY <1>1, <2>5, SMT
    <2>2. Twins(r, c, key.value, s) /\ Lapsed(r, s, key.expires)
      BY <2>6 DEF Mirrors
    <2>3. Twins(r, c + 1, key.value, s)
      BY <1>1, <2>2, TwinsLater
    <2> QED
      BY <2>1, <2>2, <2>3, <2>5, <2>6 DEF Mirrors
  <1>3. CASE ~Alive(key, c + 1)
    <2>1. later.expires = Gone
      BY <1>3 DEF Forgotten
    <2>2. Lapsed(r, s, c + 1)
      <3>1. CASE key.expires = Gone
        <4>1. Lapsed(r, s, c)
          BY <3>1 DEF Mirrors
        <4> QED
          BY <1>1, <4>1, LapsedLater
      <3>2. CASE key.expires # Gone
        <4>1. Lapsed(r, s, key.expires)
          BY <3>2 DEF Mirrors
        <4>2. key.expires \in Int /\ key.expires <= c + 1
          BY <1>3, <3>2 DEF Alive
        <4> QED
          BY <1>1, <4>1, <4>2, LapsedLater
      <3> QED
        BY <3>1, <3>2
    <2> QED
      BY <2>1, <2>2 DEF Mirrors
  <1> QED
    BY <1>2, <1>3

LEMMA BanMatchesLater ==
    ASSUME NEW c \in Nat, NEW key, key.expires \in Nat \cup {Gone}, NEW until \in Nat,
           BanMatches(key, c, until)
    PROVE  BanMatches(Forgotten(key, c + 1, 0), c + 1, until)
  <1>1. Gone \in Int /\ Gone < 0 /\ NoExpiry < 0
    BY DEF Gone, NoExpiry
  <1>2. key.expires > c \/ until > c => key.expires = until
    BY DEF BanMatches
  <1>3. CASE Alive(key, c + 1)
    <2>1. Forgotten(key, c + 1, 0) = key
      BY <1>3 DEF Forgotten
    <2>2. key.expires > c + 1 \/ until > c + 1 => key.expires = until
      BY <1>1, <1>2
    <2> QED
      BY <2>1, <2>2 DEF BanMatches
  <1>4. CASE ~Alive(key, c + 1)
    <2>1. Forgotten(key, c + 1, 0).expires = Gone
      BY <1>4 DEF Forgotten
    <2>2. key.expires < c + 1
      BY <1>1, <1>4 DEF Alive
    <2>3. ~(until > c + 1) /\ ~(Gone > c + 1)
      BY <1>1, <1>2, <2>2
    <2> QED
      BY <2>1, <2>3 DEF BanMatches
  <1> QED
    BY <1>3, <1>4

-----------------------------------------------------------------------------
(* The portable path.                                                      *)

\* A hit is told by the key what the reference tells.
LEMMA MirrorAnswers ==
    ASSUME NEW r \in Rules, NEW c \in Nat, NEW key, key.expires \in Nat \cup {Gone},
           SameState(key.value, r.algorithm) \in StatesOf(r) \cup {NoState},
           NEW s \in StatesOf(r) \cup {NoState}, Mirrors(r, c, key, s)
    PROVE  SameAnswer(r, c, EvaluateAlgorithmHit(r, c, SameState(Get(key, c, NoState), r.algorithm)),
                      EvaluateAlgorithmHit(r, c, s))
  <1> DEFINE x == SameState(Get(key, c, NoState), r.algorithm)
  <1>1. NoState \in StatesOf(r) \cup {NoState} /\ SameState(NoState, r.algorithm) = NoState
    BY DEF SameState
  <1>2. SameState(s, r.algorithm) = s /\ (s.algorithm = "gcra" => r.algorithm = "gcra")
    BY StatesAreTimed
  <1>3. CASE key.expires = Gone
    <2>1. ~Alive(key, c)
      BY <1>3, SMT DEF Alive, Gone, NoExpiry
    <2>2. x = NoState
      BY <1>1, <2>1 DEF Get
    <2>3. CASE s = NoState
      <3>1. Twins(r, c, x, s)
        BY <2>2, <2>3 DEF Twins
      <3> HIDE DEF x
      <3>2. SameAnswer(r, c, EvaluateAlgorithmHit(r, c, x), EvaluateAlgorithmHit(r, c, s))
        BY <1>1, <2>2, <3>1, EvaluateTwins
      <3> QED
        BY <3>2 DEF x
    <2>4. CASE s # NoState
      <3>1. PICK e \in Nat : e <= c /\ Outlives(r, s, e)
        BY <1>3, <2>4 DEF Mirrors, Lapsed
      <3>2. SameAnswer(r, c, EvaluateAlgorithmHit(r, c, NoState), EvaluateAlgorithmHit(r, c, s))
        BY <2>4, <3>1, EvaluateLapsedTwins
      <3> QED
        BY <2>2, <3>2
    <2> QED
      BY <2>3, <2>4
  <1>4. CASE key.expires # Gone
    <2>1. c <= key.expires /\ Twins(r, c, key.value, s)
      BY <1>4 DEF Mirrors
    <2>2. x = SameState(key.value, r.algorithm)
      BY <2>1 DEF Get, Alive
    <2>3. x \in StatesOf(r) \cup {NoState} /\ Twins(r, c, x, s)
      <3>1. CASE key.value = s
        BY <1>2, <2>2, <3>1 DEF Twins
      <3>2. CASE key.value # s
        <4>1. key.value.algorithm = "gcra" /\ s.algorithm = "gcra"
          BY <2>1, <3>2 DEF Twins
        <4>2. x = key.value
          BY <1>2, <2>2, <4>1 DEF SameState
        <4> QED
          BY <2>1, <2>2, <4>2
      <3> QED
        BY <3>1, <3>2
    <2> HIDE DEF x
    <2>4. SameAnswer(r, c, EvaluateAlgorithmHit(r, c, x), EvaluateAlgorithmHit(r, c, s))
      BY <2>3, EvaluateTwins
    <2> QED
      BY <2>4 DEF x
  <1> QED
    BY <1>3, <1>4

\* What lies under the state key is read as a state of the rule, or as none.
LEMMA KeyRead ==
    ASSUME TypeInv
    PROVE  /\ SameState(stateKey.value, rule.algorithm) \in StatesOf(rule) \cup {NoState}
           /\ IsTimed(stateKey.value) /\ stateKey.expires \in Nat \cup {Gone}
           /\ reference # Unknown => reference \in StatesOf(rule) \cup {NoState}
           /\ rule \in Rules /\ clock \in Nat
  <1>1. rule \in Rules /\ clock \in Nat
    BY RuleIsRule, MaxClockType DEF TypeInv, ServerRanges
  <1>2. /\ Sound(rule, clock, charged, stateKey.value)
               \/ SoundNumber(rule, clock, charged, stateKey.value)
        /\ stateKey.expires \in Nat \cup {Gone}
    BY DEF TypeInv, KeySound
  <1>3. CASE Sound(rule, clock, charged, stateKey.value)
    <2>1. stateKey.value \in StatesOf(rule) \cup {NoState}
      BY <1>3 DEF Sound
    <2>2. SameState(stateKey.value, rule.algorithm) = stateKey.value /\ IsTimed(stateKey.value)
      BY <1>1, <2>1, StatesAreTimed
    <2> QED
      BY <1>1, <1>2, <2>1, <2>2 DEF TypeInv, HistoryRanges
  <1>4. CASE SoundNumber(rule, clock, charged, stateKey.value)
    <2>1. stateKey.value = Number(stateKey.value.tat) /\ rule.algorithm = "gcra"
      BY <1>4 DEF SoundNumber
    <2>2. stateKey.value.algorithm = "number"
      BY <2>1 DEF Number
    <2>3. SameState(stateKey.value, rule.algorithm) = NoState /\ IsTimed(stateKey.value)
      BY <2>1, <2>2 DEF SameState, IsTimed
    <2> QED
      BY <1>1, <1>2, <2>3 DEF TypeInv, HistoryRanges
  <1> QED
    BY <1>2, <1>3, <1>4

\* Where no pending write comes or goes and the reference stays.
LEMMA QuietPortable ==
    ASSUME PortableMatch, UNCHANGED <<rule, clock, stateKey, reference>>, paths \subseteq paths',
           \A g \in Hits : /\ pc'[g] = "psetex" <=> pc[g] = "psetex"
                           /\ pc[g] = "psetex" => job'[g] = job[g]
    PROVE  PortableMatch'
  <1> SUFFICES ASSUME paths' \subseteq {"portable"}
               PROVE  /\ \A g, h \in Hits : pc'[g] = "psetex" /\ pc'[h] = "psetex" => g = h
                      /\ \A h \in Hits : pc'[h] = "psetex" =>
                             /\ Twins(rule, clock, job'[h].next.state, reference)
                             /\ Lapsed(rule, reference, job'[h].next.expiresAt)
                      /\ (\A h \in Hits : pc'[h] # "psetex")
                             => Mirrors(rule, clock, stateKey, reference)
    BY DEF PortableMatch
  <1>1. paths \subseteq {"portable"}
    OBVIOUS
  <1> QED
    BY <1>1 DEF PortableMatch

\* A hit's own move, when it neither was about to write nor is now.
LEMMA QuietMove ==
    ASSUME TypeInv, PortableMatch, NEW h \in Hits, pc[h] # "psetex", NEW p, p # "psetex", NEW j,
           pc' = [pc EXCEPT ![h] = p], job' = [job EXCEPT ![h] = j],
           UNCHANGED <<rule, clock, stateKey, reference>>, paths \subseteq paths'
    PROVE  PortableMatch'
  <1>1. pc \in [Hits -> Places] /\ DOMAIN job = Hits
    BY DEF TypeInv, HitsSound
  <1>2. \A g \in Hits : /\ pc'[g] = "psetex" <=> pc[g] = "psetex"
                        /\ pc[g] = "psetex" => job'[g] = job[g]
    BY <1>1
  <1> QED
    BY <1>2, QuietPortable

LEMMA ReadKeepsPortable ==
    ASSUME TypeInv, PortableMatch, NEW h \in Hits, ReadState(h), rule' = rule, reference' # Unknown
    PROVE  PortableMatch'
  <1> DEFINE now == job[h].now
             told == Evaluated(now)
             expected == EvaluateAlgorithmHit(rule, clock, reference)
  <1> SUFFICES ASSUME paths' \subseteq {"portable"}
               PROVE  /\ \A g \in Hits : pc'[g] = "psetex" => g = h
                      /\ pc'[h] = "psetex"
                      /\ Twins(rule, clock, job'[h].next.state, reference')
                      /\ Lapsed(rule, reference', job'[h].next.expiresAt)
    BY DEF PortableMatch, ReadState
  <1>1. /\ pc \in [Hits -> Places] /\ DOMAIN job = Hits /\ IsJob(job[h])
    BY HitKnown DEF TypeInv, HitsSound, HitSound
  <1>2. /\ pc' = [pc EXCEPT ![h] = "psetex"] /\ job' = [job EXCEPT ![h] = [job[h] EXCEPT !.next = told]]
        /\ Follow(now, "portable")
    BY DEF ReadState, Continue
  <1>3. /\ now = clock /\ reference # Unknown /\ (\A g \in Hits : pc[g] # "psetex")
        /\ paths' = paths \cup {"portable"}
        /\ reference' = EvaluateAlgorithmHit(rule, now, reference).state
    BY <1>2 DEF Follow
  <1>4. reference' = expected.state
    BY <1>3
  <1>5. pc'[h] = "psetex" /\ (\A g \in Hits : pc'[g] = "psetex" => g = h)
    BY <1>1, <1>2, <1>3
  <1>6. job'[h].next = told
    <2> HIDE DEF told
    <2> QED
      BY <1>1, <1>2 DEF IsJob
  <1>7. Mirrors(rule, clock, stateKey, reference)
    BY <1>3 DEF PortableMatch
  <1>8. /\ SameState(stateKey.value, rule.algorithm) \in StatesOf(rule) \cup {NoState}
        /\ stateKey.expires \in Nat \cup {Gone}
        /\ reference \in StatesOf(rule) \cup {NoState}
        /\ rule \in Rules /\ clock \in Nat
    BY <1>3, KeyRead
  <1>9. told = EvaluateAlgorithmHit(rule, clock,
                   SameState(Get(stateKey, clock, NoState), rule.algorithm))
    BY <1>3 DEF Evaluated, Stored
  <1>10. SameAnswer(rule, clock, told, expected)
    BY <1>7, <1>8, <1>9, MirrorAnswers
  <1>11. expected.expiresAt \in Nat /\ Outlives(rule, expected.state, expected.expiresAt)
    BY <1>8, EvaluateType, EvaluateOutlives
  <1> HIDE DEF told, expected
  <1>12. told.expiresAt = expected.expiresAt /\ Twins(rule, clock, told.state, expected.state)
    BY <1>10 DEF SameAnswer
  <1>13. expected.expiresAt <= expected.expiresAt
    BY <1>11
  <1>14. Lapsed(rule, reference', told.expiresAt)
    BY <1>4, <1>11, <1>12, <1>13 DEF Lapsed
  <1> QED
    BY <1>4, <1>5, <1>6, <1>12, <1>14

LEMMA WriteKeepsPortable ==
    ASSUME TypeInv, PortableMatch, NEW h \in Hits, WriteState(h), rule' = rule
    PROVE  PortableMatch'
  <1> DEFINE now == job[h].now
             next == job[h].next
             ttl == StateTtl(now, next)
  <1>1. /\ pc[h] = "psetex" /\ stateKey' = Psetex(next.state, clock, ttl)
        /\ clock' = clock /\ paths' = paths /\ reference' = reference
        /\ pc' = [pc EXCEPT ![h] = "done"]
    BY DEF WriteState, Answer
  <1> SUFFICES ASSUME paths \subseteq {"portable"}
               PROVE  /\ \A g \in Hits : pc'[g] # "psetex"
                      /\ Mirrors(rule, clock, stateKey', reference)
    BY <1>1 DEF PortableMatch
  <1>2. pc \in [Hits -> Places]
    BY DEF TypeInv, HitsSound
  <1>3. /\ \A g \in Hits : pc[g] = "psetex" => g = h
        /\ Twins(rule, clock, next.state, reference) /\ Lapsed(rule, reference, next.expiresAt)
    BY <1>1 DEF PortableMatch
  <1>4. \A g \in Hits : pc'[g] # "psetex"
    BY <1>1, <1>2, <1>3
  <1>5. clock \in Nat /\ now \in Nat /\ now <= clock /\ next.expiresAt \in Nat
    BY <1>1, HitKnown, PendingTyped
  <1>6. ttl = Larger(next.expiresAt - now, 1)
    BY DEF StateTtl
  <1>7. stateKey'.value = next.state /\ stateKey'.expires = clock + ttl
    BY <1>1 DEF Psetex
  <1> DEFINE until == next.expiresAt
  <1>8. until \in Nat /\ ttl = Larger(until - now, 1) /\ Lapsed(rule, reference, until)
    BY <1>3, <1>5, <1>6
  <1> HIDE DEF ttl, next, now, until
  <1>9. /\ clock + ttl \in Nat /\ clock <= clock + ttl /\ until <= clock + ttl
        /\ clock + ttl # Gone
    BY <1>5, <1>8, SMT DEF Larger, Gone
  <1>10. Lapsed(rule, reference, clock + ttl)
    BY <1>8, <1>9, LapsedLater
  <1>11. Mirrors(rule, clock, stateKey', reference)
    BY <1>3, <1>7, <1>9, <1>10 DEF Mirrors
  <1> QED
    BY <1>4, <1>11

\* A reference that is known was known before.
LEMMA StillFollowed ==
    ASSUME NEW h \in Hits, Step(h), reference' # Unknown
    PROVE  reference # Unknown /\ paths \subseteq paths'
  <1>1. CASE Start(h) \/ EvalRaises(h) \/ EvalLost(h) \/ EvalRefused(h) \/ ReadWindowTtl(h)
                 \/ ExpireWindow(h)
    BY <1>1 DEF Start, EvalRaises, EvalLost, EvalRefused, ReadWindowTtl, ExpireWindow, history
  <1>2. CASE EvalAnswers(h)
    BY <1>2 DEF EvalAnswers, ScriptRuns, Follow
  <1>3. CASE LateScript(h)
    BY <1>3 DEF LateScript, ScriptRuns, Follow
  <1>4. CASE ReadState(h)
    BY <1>4 DEF ReadState, Follow
  <1>5. CASE WriteState(h)
    BY <1>5 DEF WriteState
  <1>6. CASE CountHit(h)
    BY <1>6 DEF CountHit, Follow
  <1>7. CASE ReadPrevious(h)
    BY <1>7 DEF ReadPrevious, SlidingAnswer, history
  <1>8. CASE ReadSlidingBan(h)
    BY <1>8 DEF ReadSlidingBan, SlidingAnswer, history
  <1>9. CASE SetSlidingBan(h)
    BY <1>9 DEF SetSlidingBan, SlidingAnswer
  <1>10. CASE Fail(h)
    BY <1>10 DEF Fail
  <1> QED
    BY <1>1, <1>2, <1>3, <1>4, <1>5, <1>6, <1>7, <1>8, <1>9, <1>10 DEF Step

\* What answers a sliding-window hit leaves the state key alone.
LEMMA SlidingAnswerQuiet ==
    ASSUME NEW h, NEW previous, NEW banTtl, SlidingAnswer(h, previous, banTtl), reference' # Unknown
    PROVE  /\ UNCHANGED <<clock, stateKey, windowKeys, reference>> /\ paths' = paths
           /\ job[h].now = clock
           /\ pc' = [pc EXCEPT ![h] = "done"] /\ job' = [job EXCEPT ![h] = NoJob]
  <1>1. reference' = IF job[h].now = clock THEN reference ELSE Unknown
    BY DEF SlidingAnswer
  <1> QED
    BY <1>1 DEF SlidingAnswer, Answer

LEMMA StepKeepsPortable ==
    ASSUME TypeInv, PortableMatch, NEW h \in Hits, Step(h), rule' = rule, reference' # Unknown
    PROVE  PortableMatch'
  <1>1. ASSUME NEW p, p # "psetex", NEW j, pc[h] # "psetex",
               pc' = [pc EXCEPT ![h] = p], job' = [job EXCEPT ![h] = j],
               UNCHANGED <<clock, stateKey, reference>>, paths' = paths
        PROVE  PortableMatch'
    BY <1>1, QuietMove
  <1>2. ASSUME NEW previous, NEW banTtl, SlidingAnswer(h, previous, banTtl), pc[h] # "psetex"
        PROVE  PortableMatch'
    <2>1. /\ UNCHANGED <<clock, stateKey, reference>> /\ paths' = paths
          /\ pc' = [pc EXCEPT ![h] = "done"] /\ job' = [job EXCEPT ![h] = NoJob]
      BY <1>2, SlidingAnswerQuiet
    <2> QED
      BY <1>1, <1>2, <2>1
  <1>3. CASE Start(h)
    <2>1. PICK p : /\ p # "psetex" /\ pc' = [pc EXCEPT ![h] = p]
      BY <1>3 DEF Start, Continue
    <2>2. PICK j : job' = [job EXCEPT ![h] = j]
      BY <1>3 DEF Start, Continue
    <2>3. pc[h] # "psetex" /\ UNCHANGED <<clock, stateKey, reference>> /\ paths' = paths
      BY <1>3 DEF Start, server, history
    <2> QED
      BY <1>1, <2>1, <2>2, <2>3
  <1>4. CASE EvalRaises(h) \/ EvalLost(h) \/ EvalRefused(h)
    <2>1. /\ pc[h] = "eval" /\ pc' = [pc EXCEPT ![h] = "get"] /\ job' = [job EXCEPT ![h] = job[h]]
      BY <1>4 DEF EvalRaises, EvalLost, EvalRefused, Continue
    <2>2. UNCHANGED <<clock, stateKey, reference>> /\ paths' = paths
      BY <1>4 DEF EvalRaises, EvalLost, EvalRefused, server, history
    <2> QED
      BY <1>1, <2>1, <2>2
  <1>5. CASE EvalAnswers(h)
    <2>1. "script" \in paths'
      BY <1>5 DEF EvalAnswers, ScriptRuns, Follow
    <2> QED
      BY <2>1 DEF PortableMatch
  <1>6. CASE LateScript(h)
    <2>1. CASE ScriptErrors
      BY <1>6, <2>1, QuietPortable DEF LateScript
    <2>2. CASE ~ScriptErrors
      <3>1. "script" \in paths'
        BY <1>6, <2>2 DEF LateScript, ScriptRuns, Follow
      <3> QED
        BY <3>1 DEF PortableMatch
    <2> QED
      BY <2>1, <2>2
  <1>7. CASE CountHit(h)
    <2>1. "sliding" \in paths'
      BY <1>7 DEF CountHit, Follow
    <2> QED
      BY <2>1 DEF PortableMatch
  <1>8. CASE ReadWindowTtl(h)
    <2>1. PICK p : /\ p # "psetex" /\ pc' = [pc EXCEPT ![h] = p] /\ job' = [job EXCEPT ![h] = job[h]]
      BY <1>8 DEF ReadWindowTtl, Continue
    <2>2. pc[h] = "pttl" /\ UNCHANGED <<clock, stateKey, reference>> /\ paths' = paths
      BY <1>8 DEF ReadWindowTtl, server, history
    <2> QED
      BY <1>1, <2>1, <2>2
  <1>9. CASE ExpireWindow(h)
    <2>1. /\ pc[h] = "pexpire" /\ pc' = [pc EXCEPT ![h] = "get previous"]
          /\ job' = [job EXCEPT ![h] = job[h]]
      BY <1>9 DEF ExpireWindow, Continue
    <2>2. UNCHANGED <<clock, stateKey, reference>> /\ paths' = paths
      BY <1>9 DEF ExpireWindow, history
    <2> QED
      BY <1>1, <2>1, <2>2
  <1>10. CASE ReadPrevious(h)
    <2> DEFINE previous == WindowCount(Window(job[h].now) - 1)
    <2>1. pc[h] = "get previous"
      BY <1>10 DEF ReadPrevious
    <2>2. CASE rule.ban > 0
      <3>1. PICK j : pc' = [pc EXCEPT ![h] = "pttl ban"] /\ job' = [job EXCEPT ![h] = j]
        BY <1>10, <2>2 DEF ReadPrevious, Continue
      <3>2. UNCHANGED <<clock, stateKey, reference>> /\ paths' = paths
        BY <1>10, <2>2 DEF ReadPrevious, server, history
      <3> QED
        BY <1>1, <2>1, <3>1, <3>2
    <2>3. CASE ~(rule.ban > 0)
      <3>1. SlidingAnswer(h, previous, 0)
        BY <1>10, <2>3 DEF ReadPrevious
      <3> QED
        BY <1>2, <2>1, <3>1
    <2> QED
      BY <2>2, <2>3
  <1>11. CASE ReadSlidingBan(h)
    <2> DEFINE goesOn == OverLimit(h, job[h].previous) /\ Pttl(banKey, clock) <= 0
    <2>1. pc[h] = "pttl ban"
      BY <1>11 DEF ReadSlidingBan
    <2>2. CASE goesOn
      <3>1. pc' = [pc EXCEPT ![h] = "psetex ban"] /\ job' = [job EXCEPT ![h] = job[h]]
        BY <1>11, <2>2 DEF ReadSlidingBan, Continue
      <3>2. UNCHANGED <<clock, stateKey, reference>> /\ paths' = paths
        BY <1>11, <2>2 DEF ReadSlidingBan, server, history
      <3> QED
        BY <1>1, <2>1, <3>1, <3>2
    <2>3. CASE ~goesOn
      <3>1. SlidingAnswer(h, job[h].previous, Larger(Pttl(banKey, clock), 0))
        BY <1>11, <2>3 DEF ReadSlidingBan
      <3> QED
        BY <1>2, <2>1, <3>1
    <2> QED
      BY <2>2, <2>3
  <1>12. CASE SetSlidingBan(h)
    <2>1. pc[h] = "psetex ban" /\ SlidingAnswer(h, job[h].previous, rule.ban)
      BY <1>12 DEF SetSlidingBan
    <2> QED
      BY <1>2, <2>1
  <1>13. CASE Fail(h)
    <2>1. pc[h] # "psetex" /\ reference' = reference
      BY <1>13 DEF Fail
    <2>2. /\ pc' = [pc EXCEPT ![h] = "failed"] /\ job' = [job EXCEPT ![h] = NoJob]
          /\ UNCHANGED <<clock, stateKey>> /\ paths' = paths
      BY <1>13 DEF Fail, Continue, server
    <2> QED
      BY <1>1, <2>1, <2>2
  <1> QED
    BY <1>3, <1>4, <1>5, <1>6, <1>7, <1>8, <1>9, <1>10, <1>11, <1>12, <1>13, ReadKeepsPortable,
       WriteKeepsPortable DEF Step

LEMMA TickKeepsPortable ==
    ASSUME TypeInv, PortableMatch, Tick, rule' = rule, reference' # Unknown
    PROVE  PortableMatch'
  <1>1. /\ clock' = clock + 1 /\ stateKey' = Forgotten(stateKey, clock', NoState)
        /\ UNCHANGED <<pc, job, reference, paths>>
    BY DEF Tick, history
  <1> SUFFICES ASSUME paths \subseteq {"portable"}
               PROVE  /\ \A g, h \in Hits : pc[g] = "psetex" /\ pc[h] = "psetex" => g = h
                      /\ \A h \in Hits : pc[h] = "psetex" =>
                             /\ Twins(rule, clock + 1, job[h].next.state, reference)
                             /\ Lapsed(rule, reference, job[h].next.expiresAt)
                      /\ (\A h \in Hits : pc[h] # "psetex")
                             => Mirrors(rule, clock + 1, stateKey', reference)
    BY <1>1 DEF PortableMatch
  <1>2. /\ IsTimed(stateKey.value) /\ stateKey.expires \in Nat \cup {Gone}
        /\ reference \in StatesOf(rule) \cup {NoState}
        /\ rule \in Rules /\ clock \in Nat
    BY <1>1, KeyRead
  <1>3. IsTimed(reference)
    BY <1>2, StatesAreTimed
  <1>4. ASSUME NEW h \in Hits, pc[h] = "psetex"
        PROVE  Twins(rule, clock + 1, job[h].next.state, reference)
    <2>1. job[h].next.state \in StatesOf(rule) \cup {NoState}
      BY <1>4, PendingTyped
    <2>2. IsTimed(job[h].next.state)
      BY <1>2, <2>1, StatesAreTimed
    <2>3. Twins(rule, clock, job[h].next.state, reference)
      BY <1>4 DEF PortableMatch
    <2>4. clock + 1 \in Nat /\ clock <= clock + 1
      BY <1>2
    <2> QED
      BY <1>2, <1>3, <2>2, <2>3, <2>4, TwinsLater
  <1>5. ASSUME \A h \in Hits : pc[h] # "psetex"
        PROVE  Mirrors(rule, clock + 1, stateKey', reference)
    <2>1. Mirrors(rule, clock, stateKey, reference)
      BY <1>5 DEF PortableMatch
    <2>2. Mirrors(rule, clock + 1, Forgotten(stateKey, clock + 1, NoState), reference)
      BY <1>2, <1>3, <2>1, MirrorsLater
    <2> QED
      BY <1>1, <2>2
  <1> QED
    BY <1>4, <1>5 DEF PortableMatch

-----------------------------------------------------------------------------
(* The script.                                                             *)

\* What PTTL of the ban key says of the ban of the reference.
LEMMA BanTold ==
    ASSUME TypeInv, NEW until \in Nat, BanMatches(banKey, clock, until)
    PROVE  /\ until > clock => Pttl(banKey, clock) = until - clock
           /\ until <= clock => Pttl(banKey, clock) <= 0
           /\ clock \in Nat /\ Pttl(banKey, clock) \in Int
  <1> DEFINE ttl == Pttl(banKey, clock)
  <1>1. /\ ttl \in Int /\ clock \in Nat /\ banKey.expires \in Int
        /\ ttl > 0 => banKey.expires = clock + ttl
        /\ ttl <= 0 => banKey.expires <= clock
    BY BanTtl
  <1>2. banKey.expires > clock \/ until > clock => banKey.expires = until
    BY DEF BanMatches
  <1> HIDE DEF ttl
  <1>3. /\ until > clock => ttl = until - clock
        /\ until <= clock => ttl <= 0
    BY <1>1, <1>2, SMT
  <1> QED
    BY <1>1, <1>3 DEF ttl

\* The quantities of a script that starts where the reference does.
LEMMA ScriptStarts ==
    ASSUME TypeInv, rule.algorithm = "gcra", ScriptMatch, paths \subseteq {"script"},
           reference # Unknown
    PROVE  LET s     == reference
               held  == ActiveBanUntil(s, clock)
               next  == NextTat(rule, clock, Tat(rule, clock, s))
               early == ~(held > clock) /\ clock * rule.limit < next - Capacity(rule)
           IN  /\ s \in GcraStates \cup {NoState} /\ SameState(s, "gcra") = s
               /\ s.banUntil \in Nat /\ BanMatches(banKey, clock, s.banUntil)
               /\ held \in Nat /\ RunningBan = Larger(held - clock, 0)
               /\ held <= clock => held = 0
               /\ ScriptNextTat(clock) = next /\ next \in Nat
               /\ ScriptEarly(clock) = early
               /\ ScriptAdmits(clock) = (~(held > clock) /\ ~early)
               /\ Larger(ScriptTat(clock) - clock * rule.limit, 0)
                      = Larger(Tat(rule, clock, s) - clock * rule.limit, 0)
  <1> DEFINE s     == reference
             held  == ActiveBanUntil(s, clock)
             present == clock * rule.limit
             S     == ScriptTat(clock)
             T     == Tat(rule, clock, s)
             next  == NextTat(rule, clock, T)
             C     == Capacity(rule)
             early == ~(held > clock) /\ present < next - C
  <1>1. rule \in Rules /\ clock \in Nat /\ s \in StatesOf(rule) \cup {NoState}
    BY KeyRead
  <1>2. /\ BanMatches(banKey, clock, s.banUntil) /\ Larger(S, present) = Larger(T, present)
    BY DEF ScriptMatch
  <1>3. s \in GcraStates \cup {NoState} /\ SameState(s, "gcra") = s
    BY <1>1, StatesAreTimed DEF StatesOf
  <1>4. present \in Nat /\ C \in Nat /\ clock \in 0 .. clock
    BY <1>1, TimesLimit, CapacityNat, SMT
  <1>5. T \in Nat
    BY <1>3, <1>4 DEF Tat, GcraStates, NoState
  <1>6. S \in Nat /\ ScriptNextTat(clock) \in Nat
    BY <1>4, ScriptTyped
  <1>7. ScriptNextTat(clock) = next
    BY <1>2 DEF ScriptNextTat, NextTat
  <1>8. s.banUntil \in Nat
    BY <1>1, BanUntilNat
  <1> DEFINE until == s.banUntil
  <1>9. held = IF until > clock THEN until ELSE 0
    BY DEF ActiveBanUntil
  <1>10. until \in Nat /\ BanMatches(banKey, clock, until)
    BY <1>2, <1>8
  <1> HIDE DEF held, until, s, present, S, T, C
  <1>11. /\ until > clock => Pttl(banKey, clock) = until - clock
         /\ until <= clock => Pttl(banKey, clock) <= 0
         /\ clock \in Nat /\ Pttl(banKey, clock) \in Int
    BY <1>10, BanTold
  <1>12. /\ held \in Nat /\ (held <= clock => held = 0)
         /\ RunningBan = Larger(held - clock, 0)
         /\ RunningBan = 0 <=> ~(held > clock)
    BY <1>9, <1>10, <1>11, SMT DEF RunningBan, Larger
  <1> HIDE DEF next
  <1>13. ScriptWait(clock) = next - C - present /\ next \in Nat
    BY <1>6, <1>7 DEF ScriptWait, C, present
  <1>14. ScriptWait(clock) > 0 <=> present < next - C
    BY <1>4, <1>13, SMT
  <1>15. ScriptWait(clock) <= 0 <=> ~(present < next - C)
    BY <1>4, <1>13, SMT
  <1>16. ScriptEarly(clock) = early
    BY <1>12, <1>14 DEF ScriptEarly
  <1>17. ScriptAdmits(clock) = (~(held > clock) /\ ~early)
    BY <1>12, <1>15 DEF ScriptAdmits
  <1>18. Larger(S - present, 0) = Larger(T - present, 0)
    BY <1>2, <1>4, <1>5, <1>6, SMT DEF Larger, S, T, present
  <1> QED
    BY <1>2, <1>3, <1>7, <1>8, <1>12, <1>13, <1>16, <1>17, <1>18
       DEF s, held, until, present, S, T, C, next, early

\* The script answers what the process would.
LEMMA ScriptAnswersAlike ==
    ASSUME TypeInv, rule.algorithm = "gcra", ScriptMatch, paths \subseteq {"script"},
           reference # Unknown
    PROVE  ScriptHit(clock) = EvaluateAlgorithmHit(rule, clock, reference).hit
  <1> DEFINE s     == reference
             held  == ActiveBanUntil(s, clock)
             present == clock * rule.limit
             S     == ScriptTat(clock)
             T     == Tat(rule, clock, s)
             next  == NextTat(rule, clock, T)
             C     == Capacity(rule)
             early == ~(held > clock) /\ present < next - C
             ban   == ArmBan(rule, clock, held, early)
             ttl   == ScriptBanTtl(clock)
             used  == Larger((IF held > clock \/ early THEN T ELSE next) - present, 0)
             wait  == next - C - present
  <1>1. /\ s \in GcraStates \cup {NoState} /\ SameState(s, "gcra") = s
        /\ held \in Nat /\ RunningBan = Larger(held - clock, 0)
        /\ held <= clock => held = 0
        /\ ScriptNextTat(clock) = next /\ next \in Nat
        /\ ScriptEarly(clock) = early
        /\ ScriptAdmits(clock) = (~(held > clock) /\ ~early)
        /\ Larger(S - present, 0) = Larger(T - present, 0)
    BY ScriptStarts
  <1>2. clock \in Nat /\ rule.ban \in Nat
    BY KeyRead DEF Rules
  <1> HIDE DEF s, held, next, S, T, present, C
  <1>3. Larger((IF ScriptAdmits(clock) THEN ScriptNextTat(clock) ELSE S) - present, 0) = used
    BY <1>1
  <1>4. ScriptWait(clock) = wait
    BY <1>1 DEF ScriptWait, C, present
  <1>5. ttl = IF early /\ rule.ban > 0 THEN rule.ban ELSE Larger(held - clock, 0)
    BY <1>1 DEF ScriptBanTtl
  <1>6. ban = IF early /\ rule.ban > 0 /\ held <= clock THEN clock + rule.ban ELSE held
    BY DEF ArmBan
  <1> DEFINE soon == present < next - C
  <1>7. early = (~(held > clock) /\ soon)
    OBVIOUS
  <1>8. early \in BOOLEAN /\ (early => ~(held > clock))
    OBVIOUS
  <1> HIDE DEF ban, ttl, early, used, soon
  <1>9. ban = IF ttl > 0 THEN clock + ttl ELSE 0
    BY <1>1, <1>2, <1>5, <1>6, <1>8, SMT DEF Larger
  <1>10. (~ScriptAdmits(clock)) = (ban > clock \/ early)
    <2>1. ban > clock \/ early <=> held > clock \/ early
      BY <1>1, <1>2, <1>6, <1>8, SMT
    <2> QED
      BY <1>1, <2>1
  <1>11. Larger(ban - clock, 0) = ttl /\ ttl \in Nat
    BY <1>1, <1>2, <1>5, <1>6, <1>8, SMT DEF Larger
  <1> DEFINE ms == CeilDiv(wait, rule.limit)
  <1>12. ScriptRetryAfter(clock)
             = IF ban > clock \/ early
               THEN Larger(IF early THEN ms ELSE 0, Larger(ban - clock, 0)) ELSE 0
    <2>1. ScriptRetryAfter(clock) = IF early THEN Larger(ms, ttl) ELSE Larger(held - clock, 0)
      BY <1>1, <1>4 DEF ScriptRetryAfter, ttl
    <2> HIDE DEF ms
    <2>2. ~early => ttl = Larger(held - clock, 0)
      BY <1>5
    <2>3. ~early => Larger(0, ttl) = ttl
      BY <1>11, SMT DEF Larger
    <2>4. ~early /\ ~(ban > clock) => ttl = 0
      BY <1>2, <1>9, <1>11, SMT
    <2>5. CASE early
      BY <1>11, <2>1, <2>5
    <2>6. CASE ~early
      <3>1. ScriptRetryAfter(clock) = ttl
        BY <2>1, <2>2, <2>6
      <3> QED
        BY <1>11, <2>3, <2>4, <2>6, <3>1
    <2> QED
      BY <2>5, <2>6
  <1> DEFINE left == Larger((C - used) \div rule.window, 0)
  <1>13. ScriptHit(clock)
             = HitResult(Larger(rule.limit - left, 0), left, clock + CeilDiv(used, rule.limit),
                   ~ScriptAdmits(clock), ScriptRetryAfter(clock), IF ttl > 0 THEN clock + ttl ELSE 0)
    BY <1>3 DEF ScriptHit, S, present, C, ttl
  <1>14. GcraHit(rule, clock, s).hit
             = HitResult(Larger(rule.limit - left, 0), left, clock + CeilDiv(used, rule.limit),
                   ban > clock \/ early,
                   IF ban > clock \/ early
                   THEN Larger(IF early THEN ms ELSE 0, Larger(ban - clock, 0)) ELSE 0,
                   ban)
    BY <1>1 DEF GcraHit, held, T, next, present, C, early, ban, used, ms, left
  <1> HIDE DEF left, ms
  <1>15. ScriptHit(clock) = GcraHit(rule, clock, s).hit
    BY <1>9, <1>10, <1>12, <1>13, <1>14
  <1> QED
    BY <1>15 DEF EvaluateAlgorithmHit, s

\* A script that runs at once leaves what the process would.
LEMMA ScriptRunKeepsScript ==
    ASSUME TypeInv, ScriptMatch, rule.algorithm = "gcra", ~ScriptErrors, NEW now \in 0 .. clock,
           ScriptRuns(now), UNCHANGED <<rule, clock>>, reference' # Unknown
    PROVE  ScriptMatch'
  <1> DEFINE s     == reference
             held  == ActiveBanUntil(s, clock)
             present == clock * rule.limit
             T     == Tat(rule, clock, s)
             next  == NextTat(rule, clock, T)
             C     == Capacity(rule)
             early == ~(held > clock) /\ present < next - C
             ban   == ArmBan(rule, clock, held, early)
             ttl   == ScriptBanTtl(clock)
             life  == ScriptTtl(clock)
  <1> SUFFICES ASSUME paths' \subseteq {"script"}
               PROVE  /\ BanMatches(banKey', clock, reference'.banUntil)
                      /\ stateKey'.expires # Gone =>
                             /\ stateKey'.value.algorithm = "number" /\ clock <= stateKey'.expires
                             /\ stateKey'.value.tat <= stateKey'.expires * rule.limit
                      /\ Larger(ScriptTat(clock)', present)
                             = Larger(Tat(rule, clock, reference'), present)
    BY DEF ScriptMatch
  <1>1. /\ now = clock /\ reference # Unknown /\ paths \subseteq {"script"}
        /\ reference' = EvaluateAlgorithmHit(rule, now, s).state
    BY DEF ScriptRuns, Follow
  <1>2. reference' = GcraHit(rule, clock, s).state
    BY <1>1 DEF EvaluateAlgorithmHit
  <1>3. /\ s \in GcraStates \cup {NoState} /\ SameState(s, "gcra") = s
        /\ s.banUntil \in Nat /\ BanMatches(banKey, clock, s.banUntil)
        /\ held \in Nat /\ RunningBan = Larger(held - clock, 0)
        /\ held <= clock => held = 0
        /\ ScriptNextTat(clock) = next /\ next \in Nat
        /\ ScriptEarly(clock) = early
        /\ ScriptAdmits(clock) = (~(held > clock) /\ ~early)
    BY <1>1, ScriptStarts
  <1>4. /\ rule \in Rules /\ clock \in Nat /\ rule.ban \in Nat /\ clock \in 0 .. clock
        /\ present \in Nat /\ C \in Nat
    <2>1. rule \in Rules /\ clock \in Nat
      BY KeyRead
    <2>2. clock <= clock /\ clock \in 0 .. clock
      BY <2>1
    <2>3. present \in Nat
      BY <2>1, <2>2, TimesLimit
    <2> QED
      BY <2>1, <2>2, <2>3, CapacityNat DEF Rules
  <1>5. held = IF s.banUntil > clock THEN s.banUntil ELSE 0
    BY DEF ActiveBanUntil
  <1>6. reference'.banUntil = ban
    BY <1>2, <1>3 DEF GcraHit
  <1>7. reference'.tat = (IF held > clock \/ early THEN T ELSE next) /\ reference'.algorithm = "gcra"
    BY <1>2, <1>3 DEF GcraHit
  <1>8. /\ stateKey' = IF ScriptAdmits(clock)
                       THEN Psetex(Number(next), clock, life) ELSE stateKey
        /\ banKey' = IF early /\ ttl > 0 THEN Psetex(1, clock, ttl) ELSE banKey
    BY <1>1, <1>3 DEF ScriptRuns, ScriptState
  <1>9. ttl = IF early /\ rule.ban > 0 THEN rule.ban ELSE Larger(held - clock, 0)
    BY <1>3 DEF ScriptBanTtl
  <1>10. ban = IF early /\ rule.ban > 0 /\ held <= clock THEN clock + rule.ban ELSE held
    BY DEF ArmBan
  <1> DEFINE soon == present < next - C
  <1>11. /\ early \in BOOLEAN /\ (early => ~(held > clock))
    OBVIOUS
  <1> DEFINE until == s.banUntil
  <1>12. until \in Nat /\ held = (IF until > clock THEN until ELSE 0) /\ BanMatches(banKey, clock, until)
    BY <1>3, <1>5
  <1> HIDE DEF s, held, present, T, next, C, early, ban, ttl, life, soon, until
  <1>13. BanMatches(banKey', clock, ban)
    <2>1. CASE early /\ rule.ban > 0
      <3>1. ttl = rule.ban /\ held <= clock
        BY <1>3, <1>4, <1>9, <1>11, <2>1, SMT
      <3>2. ban = clock + rule.ban
        BY <1>10, <2>1, <3>1
      <3>3. banKey' = Psetex(1, clock, rule.ban)
        BY <1>8, <2>1, <3>1
      <3>4. banKey'.expires = clock + rule.ban
        BY <3>3 DEF Psetex
      <3> QED
        BY <3>2, <3>4 DEF BanMatches
    <2>2. CASE ~(early /\ rule.ban > 0)
      <3>1. ban = held /\ ttl = Larger(held - clock, 0)
        BY <1>9, <1>10, <2>2
      <3>2. early => ~(ttl > 0)
        BY <1>3, <1>4, <1>11, <3>1, SMT DEF Larger
      <3>3. banKey' = banKey
        BY <1>8, <3>2
      <3>4. banKey.expires > clock \/ until > clock => banKey.expires = until
        BY <1>12 DEF BanMatches
      <3>5. banKey.expires \in Int
        BY BanTtl
      <3>6. banKey.expires > clock \/ held > clock => banKey.expires = held
        BY <1>4, <1>12, <3>4, <3>5, SMT
      <3> QED
        BY <3>1, <3>3, <3>6 DEF BanMatches
    <2> QED
      BY <2>1, <2>2
  <1>14. Tat(rule, clock, reference') = IF held > clock \/ early THEN T ELSE next
    BY <1>7 DEF Tat
  <1>15. CASE ScriptAdmits(clock)
    <2>1. stateKey' = Psetex(Number(next), clock, life)
      BY <1>8, <1>15
    <2>2. /\ stateKey'.value = Number(next) /\ stateKey'.value.algorithm = "number"
          /\ stateKey'.value.tat = next /\ stateKey'.expires = clock + life
      BY <2>1 DEF Psetex, Number
    <2>3. /\ life \in Nat /\ C + next <= present + life * rule.limit
      BY <1>3, <1>4, <1>15, ScriptTtlCovers DEF life, C, next, present
    <2>4. (clock + life) * rule.limit = present + life * rule.limit /\ life * rule.limit \in Nat
      <3>1. \A x, y, z \in Nat : (x + y) * z = x * z + y * z /\ y * z \in Nat
        BY SMT
      <3> QED
        BY <1>4, <2>3, <3>1 DEF present, Rules
    <2> DEFINE span == life * rule.limit
    <2>5. span \in Nat /\ C + next <= present + span /\ (clock + life) * rule.limit = present + span
      BY <2>3, <2>4
    <2> HIDE DEF span
    <2>6. next <= (clock + life) * rule.limit
      <3>1. next <= present + span
        BY <1>3, <1>4, <2>5, SMT
      <3> QED
        BY <2>5, <3>1
    <2>7. clock <= clock + life
      BY <1>4, <2>3
    <2>8. Stored' = stateKey'.value
      BY <2>2, <2>7 DEF Stored, Get, Alive
    <2>9. ScriptTat(clock)' = next
      BY <2>2, <2>8 DEF ScriptTat
    <2>10. Tat(rule, clock, reference') = next
      BY <1>3, <1>14, <1>15
    <2> QED
      BY <1>6, <1>13, <2>2, <2>6, <2>7, <2>9, <2>10
  <1>16. CASE ~ScriptAdmits(clock)
    <2>1. stateKey' = stateKey
      BY <1>8, <1>16
    <2>2. ScriptTat(clock)' = ScriptTat(clock)
      BY <2>1 DEF ScriptTat, Stored
    <2>3. Tat(rule, clock, reference') = T
      BY <1>3, <1>14, <1>16
    <2>4. /\ Larger(ScriptTat(clock), present) = Larger(T, present)
          /\ stateKey.expires # Gone =>
                 /\ stateKey.value.algorithm = "number" /\ clock <= stateKey.expires
                 /\ stateKey.value.tat <= stateKey.expires * rule.limit
      BY <1>1 DEF ScriptMatch, T, present, s
    <2> QED
      BY <1>6, <1>13, <2>1, <2>2, <2>3, <2>4
  <1> QED
    BY <1>15, <1>16

\* Where the script's keys stay.
LEMMA QuietScript ==
    ASSUME ScriptMatch, UNCHANGED <<rule, clock, stateKey, banKey, reference>>,
           paths \subseteq paths'
    PROVE  ScriptMatch'
  BY DEF ScriptMatch, ScriptTat, Stored

LEMMA StepKeepsScript ==
    ASSUME TypeInv, ScriptMatch, NEW h \in Hits, Step(h), rule' = rule, reference' # Unknown
    PROVE  ScriptMatch'
  <1>1. /\ HitSound(rule, clock, charged, paths, pc[h], job[h])
        /\ job[h].now \in 0 .. clock
    BY HitKnown
  <1>2. /\ pc[h] \in Sliding => rule.algorithm = "sliding-window"
        /\ pc[h] = "eval" => rule.algorithm = "gcra"
        /\ pc[h] = "psetex" => "portable" \in paths
    BY <1>1 DEF HitSound
  <1>3. SUFFICES ASSUME rule.algorithm = "gcra" PROVE ScriptMatch'
    BY DEF ScriptMatch
  <1>4. pc[h] \notin Sliding
    BY <1>2, <1>3
  <1>5. CASE Start(h) \/ EvalRaises(h) \/ EvalLost(h) \/ EvalRefused(h)
    <2>1. UNCHANGED <<clock, server, history>>
      BY <1>5 DEF Start, EvalRaises, EvalLost, EvalRefused
    <2> QED
      BY <2>1, QuietScript DEF server, history
  <1>6. CASE EvalAnswers(h)
    <2>1. ~ScriptErrors /\ ScriptRuns(job[h].now) /\ clock' = clock
      BY <1>6 DEF EvalAnswers
    <2> QED
      BY <1>1, <1>3, <2>1, ScriptRunKeepsScript
  <1>7. CASE LateScript(h)
    <2>1. PICK now \in 0 .. clock :
                 /\ IF ScriptErrors THEN UNCHANGED <<stateKey, banKey, charged, paths, reference>>
                                    ELSE ScriptRuns(now)
                 /\ clock' = clock
      BY <1>7 DEF LateScript
    <2>2. CASE ScriptErrors
      <3>1. UNCHANGED <<clock, stateKey, banKey, reference>> /\ paths' = paths
        BY <2>1, <2>2
      <3> QED
        BY <3>1, QuietScript
    <2>3. CASE ~ScriptErrors
      BY <1>3, <2>1, <2>3, ScriptRunKeepsScript
    <2> QED
      BY <2>2, <2>3
  <1>8. CASE ReadState(h)
    <2>1. "portable" \in paths'
      BY <1>8 DEF ReadState, Follow
    <2> QED
      BY <2>1 DEF ScriptMatch
  <1>9. CASE WriteState(h)
    <2>1. "portable" \in paths'
      BY <1>2, <1>9 DEF WriteState
    <2> QED
      BY <2>1 DEF ScriptMatch
  <1>10. CASE Fail(h)
    <2>1. reference' = reference /\ UNCHANGED <<clock, server>> /\ paths' = paths
      BY <1>10 DEF Fail
    <2> QED
      BY <2>1, QuietScript DEF server
  <1>11. ~(CountHit(h) \/ ReadWindowTtl(h) \/ ExpireWindow(h) \/ ReadPrevious(h)
               \/ ReadSlidingBan(h) \/ SetSlidingBan(h))
    BY <1>4 DEF CountHit, ReadWindowTtl, ExpireWindow, ReadPrevious, ReadSlidingBan,
                SetSlidingBan, Sliding
  <1> QED
    BY <1>5, <1>6, <1>7, <1>8, <1>9, <1>10, <1>11 DEF Step

\* An arrival time that stays, or is that of whoever asks, seen one moment later.
LEMMA LargerLater ==
    ASSUME NEW p \in Nat, NEW q \in Nat, p <= q, NEW t \in Nat, NEW u \in Nat,
           u = t \/ (t <= p /\ u <= q)
    PROVE  Larger(u, q) = Larger(Larger(t, p), q)
  BY SMT DEF Larger

LEMMA TickKeepsScript ==
    ASSUME TypeInv, ScriptMatch, Tick, rule' = rule, reference' # Unknown
    PROVE  ScriptMatch'
  <1> DEFINE p == clock * rule.limit
             q == (clock + 1) * rule.limit
             T == Tat(rule, clock, reference)
             U == Tat(rule, clock + 1, reference)
             S == ScriptTat(clock)
             V == ScriptTat(clock)'
  <1>1. /\ clock' = clock + 1 /\ stateKey' = Forgotten(stateKey, clock + 1, NoState)
        /\ banKey' = Forgotten(banKey, clock + 1, 0)
        /\ reference' = reference /\ paths' = paths
    BY DEF Tick, history
  <1> SUFFICES ASSUME rule.algorithm = "gcra", paths \subseteq {"script"}
               PROVE  /\ BanMatches(banKey', clock + 1, reference.banUntil)
                      /\ stateKey'.expires # Gone =>
                             /\ stateKey'.value.algorithm = "number" /\ clock + 1 <= stateKey'.expires
                             /\ stateKey'.value.tat <= stateKey'.expires * rule.limit
                      /\ Larger(V, q) = Larger(U, q)
    BY <1>1 DEF ScriptMatch
  <1>2. /\ rule \in Rules /\ clock \in Nat /\ clock + 1 \in Nat /\ clock \in 0 .. clock
        /\ clock <= clock + 1 /\ stateKey.expires \in Nat \cup {Gone}
        /\ reference \in GcraStates \cup {NoState} /\ reference.banUntil \in Nat
    BY <1>1, KeyRead, BanUntilNat DEF StatesOf
  <1>3. p \in Nat /\ q \in Nat /\ p <= q
    BY <1>2, TimesLimit
  <1>4. /\ BanMatches(banKey, clock, reference.banUntil) /\ Larger(S, p) = Larger(T, p)
        /\ stateKey.expires # Gone =>
               /\ stateKey.value.algorithm = "number" /\ clock <= stateKey.expires
               /\ stateKey.value.tat <= stateKey.expires * rule.limit
    BY DEF ScriptMatch
  <1>5. BanMatches(banKey', clock + 1, reference.banUntil)
    <2>1. banKey.expires \in Nat \cup {Gone}
      BY DEF TypeInv, ServerRanges, KeysHolding
    <2> QED
      BY <1>1, <1>2, <1>4, <2>1, BanMatchesLater
  <1>6. T \in Nat /\ U \in Nat /\ (U = T \/ (T <= p /\ U <= q))
    <2>1. CASE reference.algorithm = "gcra"
      BY <1>2, <1>3, <2>1 DEF Tat, GcraStates, NoState
    <2>2. CASE reference.algorithm # "gcra"
      <3>1. T = p /\ U = q
        BY <2>2 DEF Tat
      <3> QED
        BY <1>3, <3>1
    <2> QED
      BY <2>1, <2>2
  <1>7. S \in Nat
    BY <1>2, ScriptTyped
  <1>8. stateKey.value.algorithm = "number" => stateKey.value.tat \in Nat
    BY NumberSound DEF SoundNumber
  <1>9. CASE stateKey.expires = Gone
    <2>1. ~Alive(stateKey, clock) /\ ~Alive(stateKey, clock + 1)
      BY <1>2, <1>9, SMT DEF Alive, NoExpiry, Gone
    <2>2. S = p
      BY <2>1 DEF ScriptTat, Stored, Get, NoState
    <2>3. stateKey'.expires = Gone
      BY <1>1, <2>1 DEF Forgotten
    <2>4. stateKey'.value = NoState
      BY <1>1, <2>1 DEF Forgotten
    <2>5. Stored'.algorithm # "number"
      BY <2>4 DEF Stored, Get, NoState
    <2>6. V = q
      BY <1>1, <2>5 DEF ScriptTat
    <2> HIDE DEF p, q, S, T, U, V
    <2>7. Larger(V, q) = Larger(Larger(S, p), q)
      BY <1>3, <1>7, <2>2, <2>6, LargerLater
    <2>8. Larger(U, q) = Larger(Larger(T, p), q)
      BY <1>3, <1>6, LargerLater
    <2> QED
      BY <1>4, <1>5, <2>3, <2>7, <2>8 DEF p, q, S, T, U, V
  <1>10. CASE stateKey.expires # Gone
    <2>1. /\ stateKey.value.algorithm = "number" /\ clock <= stateKey.expires
          /\ stateKey.value.tat <= stateKey.expires * rule.limit
          /\ stateKey.value.tat \in Nat /\ stateKey.expires \in Nat
      BY <1>2, <1>4, <1>8, <1>10
    <2>2. S = stateKey.value.tat
      BY <2>1 DEF ScriptTat, Stored, Get, Alive
    <2>3. CASE clock + 1 <= stateKey.expires
      <3>1. stateKey' = stateKey
        BY <1>1, <2>3 DEF Forgotten, Alive
      <3>2. Stored' = stateKey.value
        BY <1>1, <2>3, <3>1 DEF Stored, Get, Alive
      <3>3. V = S
        BY <1>1, <2>1, <2>2, <3>2 DEF ScriptTat
      <3> HIDE DEF p, q, S, T, U, V
      <3>4. Larger(V, q) = Larger(Larger(S, p), q)
        BY <1>3, <1>7, <3>3, LargerLater
      <3>5. Larger(U, q) = Larger(Larger(T, p), q)
        BY <1>3, <1>6, LargerLater
      <3> QED
        BY <1>4, <1>5, <2>1, <2>3, <3>1, <3>4, <3>5 DEF p, q, S, T, U, V
    <2>4. CASE ~(clock + 1 <= stateKey.expires)
      <3>1. stateKey.expires = clock
        BY <1>2, <2>1, <2>4, SMT
      <3>2. S <= p
        BY <2>1, <2>2, <3>1
      <3>3. ~Alive(stateKey, clock + 1)
        BY <2>1, <2>4, SMT DEF Alive, NoExpiry
      <3>4. stateKey'.expires = Gone /\ stateKey'.value = NoState
        BY <1>1, <3>3 DEF Forgotten
      <3>5. Stored'.algorithm # "number"
        BY <3>4 DEF Stored, Get, NoState
      <3>6. V = q
        BY <1>1, <3>5 DEF ScriptTat
      <3> HIDE DEF p, q, S, T, U, V
      <3>7. V \in Nat /\ V <= q
        BY <1>3, <3>6
      <3>8. Larger(V, q) = Larger(Larger(S, p), q)
        BY <1>3, <1>7, <3>2, <3>7, LargerLater
      <3>9. Larger(U, q) = Larger(Larger(T, p), q)
        BY <1>3, <1>6, LargerLater
      <3> QED
        BY <1>4, <1>5, <3>4, <3>8, <3>9 DEF p, q, S, T, U, V
    <2> QED
      BY <2>3, <2>4
  <1> QED
    BY <1>9, <1>10

-----------------------------------------------------------------------------
(* The sliding window.                                                     *)

\* Multiples of a window tell its number.
LEMMA StartTells ==
    ASSUME NEW w \in Nat \ {0}, NEW k \in Nat, NEW n \in Nat
    PROVE  /\ k * w = n * w <=> k = n
           /\ k * w = n * w - w <=> k = n - 1
           /\ k * w \in Nat /\ (k * w) \div w = k
  <1>1. ASSUME NEW x \in Nat, NEW y \in Nat, x < y PROVE x * w + w <= y * w
    <2>1. y - x - 1 \in Nat
      BY <1>1
    <2>2. \A a, b \in Nat : a * b \in Nat
      BY SMT
    <2>3. (y - x - 1) * w \in Nat
      BY <2>1, <2>2
    <2>4. (y - x - 1) * w = y * w - (x * w + w)
      BY SMT
    <2>5. x * w \in Nat /\ y * w \in Nat
      BY <2>2
    <2> QED
      BY <2>3, <2>4, <2>5, SMT
  <1>2. k * w \in Nat /\ n * w \in Nat
    <2>1. \A a, b \in Nat : a * b \in Nat
      BY SMT
    <2> QED
      BY <2>1
  <1>3. k < n => k * w + w <= n * w
    BY <1>1
  <1>4. n < k => n * w + w <= k * w
    BY <1>1
  <1> DEFINE a == k * w
             b == n * w
  <1>5. a \in Nat /\ b \in Nat /\ (k < n => a + w <= b) /\ (n < k => b + w <= a) /\ (k = n => a = b)
    BY <1>2, <1>3, <1>4
  <1>6. k + 1 < n => a + w + w <= b
    <2>1. k + 1 \in Nat
      OBVIOUS
    <2>2. ASSUME k + 1 < n PROVE (k + 1) * w + w <= n * w
      BY <1>1, <2>1, <2>2
    <2>3. (k + 1) * w = k * w + w
      BY SMT
    <2> QED
      BY <2>2, <2>3
  <1>7. k + 1 = n => a + w = b
    <2>1. (k + 1) * w = k * w + w
      BY SMT
    <2> QED
      BY <2>1
  <1>8. (k * w) \div w = k
    BY SMT
  <1> HIDE DEF a, b
  <1>9. a = b <=> k = n
    BY <1>5
  <1>10. a = b - w <=> k = n - 1
    <2>1. k = n - 1 => a = b - w
      BY <1>5, <1>7
    <2>2. a = b - w => k + 1 = n
      BY <1>5, <1>6
    <2> QED
      BY <2>1, <2>2
  <1> QED
    BY <1>2, <1>8, <1>9, <1>10 DEF a, b

\* What a hit counts on is what the state knows of its window and of the one before.
LEMMA SlidingCounts ==
    ASSUME NEW r \in Rules, NEW c \in Nat, NEW s \in SlidingStates \cup {NoState}, Aligned(r, c, s)
    PROVE  LET n == c \div r.window
           IN  /\ n \in Nat /\ s.banUntil \in Nat
               /\ SameState(s, "sliding-window") = s
               /\ SlidingPrevious(r, c, s) = CountOf(r, s, n - 1)
               /\ SlidingCurrent(r, c, s) = CountOf(r, s, n) + r.cost
               /\ CountOf(r, s, n) \in Nat /\ CountOf(r, s, n - 1) \in Nat
               /\ \A v \in Int : v > n => CountOf(r, s, v) = 0
  <1> DEFINE n == c \div r.window
             k == WindowOf(r, s)
  <1>1. r.window \in Nat \ {0} /\ r.cost \in Nat
    BY DEF Rules
  <1>2. n \in Nat
    <2>1. \A x \in Nat, y \in Nat \ {0} : x \div y \in Nat
      BY SMT
    <2> QED
      BY <1>1, <2>1
  <1>3. CASE s = NoState
    BY <1>1, <1>2, <1>3 DEF NoState, SameState, SlidingPrevious, SlidingCurrent, CountOf
  <1>4. CASE s # NoState
    <2>1. /\ s.algorithm = "sliding-window" /\ s.previousCount \in Nat /\ s.currentCount \in Nat
          /\ s.windowStart \in Nat /\ s.banUntil \in Nat
      BY <1>4 DEF SlidingStates
    <2>2. s.windowStart = k * r.window /\ k <= n
      BY <1>4 DEF Aligned
    <2>3. k \in Nat
      <3>1. \A x \in Nat, y \in Nat \ {0} : x \div y \in Nat
        BY SMT
      <3> QED
        BY <1>1, <2>1, <3>1 DEF WindowOf
    <2>4. WindowStart(r, c) = n * r.window
      BY DEF WindowStart
    <2> HIDE DEF n, k
    <2>5. s.windowStart = WindowStart(r, c) <=> k = n
      BY <1>1, <1>2, <2>2, <2>3, <2>4, StartTells
    <2>6. s.windowStart = WindowStart(r, c) - r.window <=> k = n - 1
      BY <1>1, <1>2, <2>2, <2>3, <2>4, StartTells
    <2>7. /\ CountOf(r, s, n) = IF k = n THEN s.currentCount ELSE 0
          /\ CountOf(r, s, n - 1) = IF k = n THEN s.previousCount
                                    ELSE IF k = n - 1 THEN s.currentCount ELSE 0
      <3>1. \A v : CountOf(r, s, v) = IF v = k THEN s.currentCount
                                      ELSE IF v = k - 1 THEN s.previousCount ELSE 0
        BY <1>4 DEF CountOf, k
      <3>2. n # k - 1 /\ (k = n => n - 1 # k /\ n - 1 = k - 1)
        BY <1>2, <2>2, <2>3
      <3>3. k # n => n - 1 # k - 1
        BY <1>2, <2>3
      <3> QED
        BY <3>1, <3>2, <3>3
    <2>8. /\ SlidingPrevious(r, c, s) = IF k = n THEN s.previousCount
                                        ELSE IF k = n - 1 THEN s.currentCount ELSE 0
          /\ SlidingCurrent(r, c, s) = r.cost + IF k = n THEN s.currentCount ELSE 0
      <3>1. SlidingCurrent(r, c, s) = r.cost + IF k = n THEN s.currentCount ELSE 0
        BY <2>1, <2>5 DEF SlidingCurrent
      <3>2. CASE k = n
        <4>1. k # n - 1
          BY <1>2, <3>2
        <4> QED
          BY <2>1, <2>5, <2>6, <3>1, <3>2, <4>1 DEF SlidingPrevious
      <3>3. CASE k # n
        BY <2>1, <2>5, <2>6, <3>1, <3>3 DEF SlidingPrevious
      <3> QED
        BY <3>2, <3>3
    <2>9. ASSUME NEW v \in Int, v > n PROVE CountOf(r, s, v) = 0
      <3>1. v # k /\ v # k - 1
        BY <1>2, <2>2, <2>3, <2>9
      <3> QED
        BY <3>1 DEF CountOf, k
    <2>10. SameState(s, "sliding-window") = s
      BY <2>1 DEF SameState
    <2>11. SlidingCurrent(r, c, s) = CountOf(r, s, n) + r.cost
      BY <1>1, <2>1, <2>7, <2>8
    <2> QED
      BY <1>2, <2>1, <2>7, <2>8, <2>9, <2>10, <2>11 DEF n
  <1> QED
    BY <1>3, <1>4

\* What a hit leaves behind knows of itself and of the window before.
LEMMA SlidingLeaves ==
    ASSUME NEW r \in Rules, NEW c \in Nat, NEW s \in SlidingStates \cup {NoState}, Aligned(r, c, s)
    PROVE  LET n == c \div r.window
               t == SlidingWindowHit(r, c, s).state
           IN  /\ Aligned(r, c, t) /\ t # NoState /\ t.windowStart = WindowStart(r, c)
               /\ t.currentCount = CountOf(r, s, n) + r.cost
               /\ t.previousCount = CountOf(r, s, n - 1)
               /\ t.banUntil = ArmBan(r, c, ActiveBanUntil(s, c), Breached(r, c, t))
               /\ \A v \in Int : CountOf(r, t, v) = IF v = n THEN t.currentCount
                                                    ELSE IF v = n - 1 THEN t.previousCount ELSE 0
  <1> DEFINE n == c \div r.window
             t == SlidingWindowHit(r, c, s).state
  <1>1. /\ n \in Nat /\ SameState(s, "sliding-window") = s
        /\ SlidingPrevious(r, c, s) = CountOf(r, s, n - 1)
        /\ SlidingCurrent(r, c, s) = CountOf(r, s, n) + r.cost
    BY SlidingCounts
  <1>2. r.window \in Nat \ {0}
    BY DEF Rules
  <1> DEFINE over == Estimated(r, c, SlidingPrevious(r, c, s), SlidingCurrent(r, c, s)) > r.limit
  <1>3. t = [algorithm |-> "sliding-window", previousCount |-> SlidingPrevious(r, c, s),
             currentCount |-> SlidingCurrent(r, c, s), windowStart |-> WindowStart(r, c),
             banUntil |-> ArmBan(r, c, ActiveBanUntil(s, c), over)]
    BY <1>1 DEF SlidingWindowHit
  <1>4. /\ t.previousCount = SlidingPrevious(r, c, s) /\ t.currentCount = SlidingCurrent(r, c, s)
        /\ t.windowStart = WindowStart(r, c)
        /\ t.banUntil = ArmBan(r, c, ActiveBanUntil(s, c), over)
        /\ t.algorithm = "sliding-window"
    BY <1>3
  <1>5. t # NoState
    BY <1>4 DEF NoState
  <1> HIDE DEF t
  <1>6. over = Breached(r, c, t)
    BY <1>4 DEF Breached
  <1> HIDE DEF over
  <1>7. WindowStart(r, c) = n * r.window
    BY DEF WindowStart
  <1> HIDE DEF n
  <1>8. WindowOf(r, t) = n
    BY <1>1, <1>2, <1>4, <1>7, StartTells DEF WindowOf
  <1>9. n <= n
    BY <1>1
  <1>10. Aligned(r, c, t)
    BY <1>4, <1>7, <1>8, <1>9 DEF Aligned, n
  <1>11. \A v \in Int : CountOf(r, t, v) = IF v = n THEN t.currentCount
                                           ELSE IF v = n - 1 THEN t.previousCount ELSE 0
    BY <1>5, <1>8 DEF CountOf
  <1> QED
    BY <1>1, <1>4, <1>5, <1>6, <1>10, <1>11 DEF t, n

\* A ban of the reference, the ban key and the next ban.
LEMMA NextBan ==
    ASSUME TypeInv, NEW s, s.banUntil \in Nat, BanMatches(banKey, clock, s.banUntil),
           NEW over \in BOOLEAN
    PROVE  LET ttl  == Pttl(banKey, clock)
               next == ArmBan(rule, clock, ActiveBanUntil(s, clock), over)
           IN  /\ over /\ rule.ban > 0 /\ ttl <= 0 => next = clock + rule.ban
               /\ ~(over /\ rule.ban > 0 /\ ttl <= 0) =>
                      /\ BanMatches(banKey, clock, next)
                      /\ next = IF ttl > 0 THEN clock + ttl ELSE 0
               /\ next \in Nat /\ ttl \in Int
  <1> DEFINE ttl  == Pttl(banKey, clock)
             held == ActiveBanUntil(s, clock)
             next == ArmBan(rule, clock, held, over)
             until == s.banUntil
  <1>1. /\ until > clock => ttl = until - clock
        /\ until <= clock => ttl <= 0
        /\ clock \in Nat /\ ttl \in Int /\ until \in Nat
    BY BanTold
  <1>2. held = IF until > clock THEN until ELSE 0
    BY DEF ActiveBanUntil
  <1>3. next = IF over /\ rule.ban > 0 /\ held <= clock THEN clock + rule.ban ELSE held
    BY DEF ArmBan
  <1>4. banKey.expires > clock \/ until > clock => banKey.expires = until
    BY DEF BanMatches
  <1>5. rule.ban \in Nat
    BY KeyRead DEF Rules
  <1>6. banKey.expires \in Int
    BY BanTtl
  <1> HIDE DEF ttl, held, next, until
  <1>7. over /\ rule.ban > 0 /\ ttl <= 0 => next = clock + rule.ban
    BY <1>1, <1>2, <1>3, SMT
  <1>8. ASSUME ~(over /\ rule.ban > 0 /\ ttl <= 0)
        PROVE  next = held
    BY <1>1, <1>2, <1>3, <1>8, SMT
  <1>9. held = IF ttl > 0 THEN clock + ttl ELSE 0
    BY <1>1, <1>2, SMT
  <1>10. banKey.expires > clock \/ held > clock => banKey.expires = held
    BY <1>1, <1>2, <1>4, <1>6, SMT
  <1>11. BanMatches(banKey, clock, held)
    BY <1>10 DEF BanMatches
  <1>12. next \in Nat
    BY <1>1, <1>2, <1>3, <1>5, SMT
  <1> QED
    BY <1>1, <1>7, <1>8, <1>9, <1>11, <1>12 DEF ttl, next, held

\* A sliding-window hit that is not interrupted is answered what the process would.
LEMMA SlidingAnswersAlike ==
    ASSUME TypeInv, SlidingMatch, rule.algorithm = "sliding-window", reference # Unknown,
           \A h \in Hits : ~UnderWay(h)
    PROVE  SlidingHitNow = EvaluateAlgorithmHit(rule, clock, reference).hit
  <1> DEFINE s        == reference
             n        == clock \div rule.window
             previous == WindowCount(n - 1)
             current  == WindowCount(n) + rule.cost
             estimate == Estimated(rule, clock, previous, current)
             over     == estimate > rule.limit
             ttl      == Pttl(banKey, clock)
             banTtl   == SlidingBanTtl(over, ttl)
             ban      == ArmBan(rule, clock, ActiveBanUntil(s, clock), over)
             resetAt  == WindowStart(rule, clock) + rule.window
  <1>1. rule \in Rules /\ clock \in Nat /\ clock \in 0 .. MaxClock
            /\ s \in SlidingStates \cup {NoState}
    BY KeyRead DEF StatesOf, TypeInv, ServerRanges
  <1>2. /\ Aligned(rule, clock, s) /\ BanMatches(banKey, clock, s.banUntil)
        /\ rule.ban = 0 => s.banUntil = 0
        /\ \A v \in -1 .. MaxClock : n - 1 <= v => WindowCount(v) = CountOf(rule, s, v)
    BY DEF SlidingMatch, Window
  <1>3. n \in 0 .. MaxClock
    BY <1>1, WindowInRange DEF Window
  <1>4. n \in -1 .. MaxClock /\ n - 1 \in -1 .. MaxClock /\ n - 1 <= n /\ n - 1 <= n - 1
    <2> HIDE DEF n
    <2> QED
      BY <1>3, MaxClockType, SMT
  <1>5. /\ SameState(s, "sliding-window") = s /\ s.banUntil \in Nat
        /\ SlidingPrevious(rule, clock, s) = CountOf(rule, s, n - 1)
        /\ SlidingCurrent(rule, clock, s) = CountOf(rule, s, n) + rule.cost
    BY <1>1, <1>2, SlidingCounts
  <1>6. /\ SlidingPrevious(rule, clock, s) = previous /\ SlidingCurrent(rule, clock, s) = current
    <2> HIDE DEF n, s
    <2> QED
      BY <1>2, <1>4, <1>5
  <1>7. rule.ban \in Nat /\ rule.window \in Nat /\ WindowStart(rule, clock) \in Nat
            /\ clock - WindowStart(rule, clock) <= rule.window
    BY <1>1, WindowStartNat DEF Rules
  <1>8. over \in BOOLEAN
    OBVIOUS
  <1> HIDE DEF s, n, previous, current, estimate, over
  <1>9. /\ over /\ rule.ban > 0 /\ ttl <= 0 => ban = clock + rule.ban
        /\ ~(over /\ rule.ban > 0 /\ ttl <= 0) => ban = IF ttl > 0 THEN clock + ttl ELSE 0
        /\ ban \in Nat /\ ttl \in Int
    BY <1>2, <1>5, <1>8, NextBan
  <1>10. rule.ban = 0 => ~(ttl > 0)
    BY <1>2, <1>5, <1>7, BanTold, SMT
  <1>11. banTtl = IF rule.ban = 0 THEN 0 ELSE IF over /\ ttl <= 0 THEN rule.ban ELSE Larger(ttl, 0)
    BY DEF SlidingBanTtl
  <1> HIDE DEF ttl, ban, banTtl, resetAt
  <1>12. banTtl \in Nat /\ ban = IF banTtl > 0 THEN clock + banTtl ELSE 0
    BY <1>1, <1>7, <1>8, <1>9, <1>10, <1>11, SMT DEF Larger
  <1>13. resetAt \in Nat /\ clock <= resetAt
    BY <1>1, <1>7, SMT DEF resetAt
  <1> DEFINE blocked == ban > clock \/ over
  <1>14. blocked = (over \/ banTtl > 0)
    <2>1. ban > clock <=> banTtl > 0
      BY <1>1, <1>12, SMT
    <2> QED
      BY <2>1
  <1>15. Larger(resetAt - clock, banTtl) = Larger(resetAt, ban) - clock
    BY <1>1, <1>12, <1>13, SMT DEF Larger
  <1>16. SlidingHitNow
             = HitResult(estimate, Larger(rule.limit - estimate, 0), resetAt, over \/ banTtl > 0,
                   IF over \/ banTtl > 0 THEN Larger(resetAt - clock, banTtl) ELSE 0,
                   IF banTtl > 0 THEN clock + banTtl ELSE 0)
    BY DEF SlidingHitNow, SlidingHit, SlidingEstimate, Window, n, previous, current, estimate,
           over, ttl, banTtl, resetAt
  <1>17. SlidingWindowHit(rule, clock, s).hit
             = HitResult(estimate, Larger(rule.limit - estimate, 0), resetAt, blocked,
                   IF blocked THEN Larger(resetAt, ban) - clock ELSE 0, ban)
    BY <1>5, <1>6 DEF SlidingWindowHit, estimate, over, ban, resetAt
  <1> HIDE DEF blocked
  <1>18. SlidingHitNow = SlidingWindowHit(rule, clock, s).hit
    BY <1>12, <1>14, <1>15, <1>16, <1>17
  <1> QED
    BY <1>18 DEF EvaluateAlgorithmHit, s

\* The counter of a window is what its key says.
LEMMA CountTold ==
    ASSUME NEW v \in -1 .. MaxClock
    PROVE  /\ v \in 0 .. MaxClock => WindowCount(v) = Get(windowKeys[v], clock, 0)
           /\ v \notin 0 .. MaxClock => v < 0 /\ WindowCount(v) = 0
  BY MaxClockType, SMT DEF WindowCount

\* Where no hit that counts comes, goes or moves, and no key changes.
LEMMA QuietSliding ==
    ASSUME SlidingMatch, UNCHANGED <<rule, clock, windowKeys, banKey, reference>>,
           \A g \in Hits : /\ UnderWay(g)' <=> UnderWay(g)
                           /\ UnderWay(g) => pc'[g] = pc[g] /\ job'[g] = job[g]
    PROVE  SlidingMatch'
  <1> SUFFICES ASSUME rule.algorithm = "sliding-window"
               PROVE  /\ \A v \in -1 .. MaxClock : WindowCount(v)' = WindowCount(v)
                      /\ \A g, h \in Hits : UnderWay(g)' /\ UnderWay(h)' => g = h
                      /\ \A h \in Hits : UnderWay(h)' /\ job'[h].now = clock => Answers(h)'
                      /\ (\A h \in Hits : ~UnderWay(h)')
                             => BanMatches(banKey, clock, reference.banUntil)
    BY DEF SlidingMatch, Window
  <1>1. \A v \in -1 .. MaxClock : WindowCount(v)' = WindowCount(v)
    BY DEF WindowCount
  <1>2. ASSUME NEW h \in Hits, UnderWay(h)', job'[h].now = clock PROVE Answers(h)'
    <2>1. UnderWay(h) /\ pc'[h] = pc[h] /\ job'[h] = job[h]
      BY <1>2
    <2>2. Answers(h)
      BY <1>2, <2>1 DEF SlidingMatch
    <2> QED
      BY <2>1, <2>2 DEF Answers
  <1> QED
    BY <1>1, <1>2 DEF SlidingMatch

\* A hit that has counted itself goes on.
LEMMA GoesOnSliding ==
    ASSUME TypeInv, SlidingMatch, rule.algorithm = "sliding-window", NEW h \in Hits, UnderWay(h),
           UNCHANGED <<rule, clock, banKey, reference>>, KeysLast(rule, windowKeys'),
           \A v \in -1 .. MaxClock : WindowCount(v)' = WindowCount(v),
           NEW p \in Sliding \ {"incrby"}, NEW j,
           pc' = [pc EXCEPT ![h] = p], job' = [job EXCEPT ![h] = j],
           j.now = job[h].now, job[h].now = clock => Answers(h)'
    PROVE  SlidingMatch'
  <1>1. pc \in [Hits -> Places] /\ DOMAIN job = Hits
    BY DEF TypeInv, HitsSound
  <1>2. /\ pc'[h] = p /\ job'[h] = j
        /\ \A g \in Hits : g # h => pc'[g] = pc[g] /\ job'[g] = job[g]
    BY <1>1
  <1>3. /\ \A g \in Hits : UnderWay(g) => g = h
        /\ \A g \in Hits : UnderWay(g)' => g = h
        /\ UnderWay(h)'
    <2>1. \A g \in Hits : UnderWay(g) => g = h
      BY DEF SlidingMatch
    <2> QED
      BY <1>2, <2>1 DEF UnderWay
  <1>4. ASSUME NEW g \in Hits, UnderWay(g)', job'[g].now = clock PROVE Answers(g)'
    BY <1>2, <1>3, <1>4
  <1>5. /\ Aligned(rule, clock, reference) /\ (rule.ban = 0 => reference.banUntil = 0)
        /\ \A v \in -1 .. MaxClock :
               Window(clock) - 1 <= v => WindowCount(v)' = CountOf(rule, reference, v)
    BY DEF SlidingMatch
  <1>6. \A g, i \in Hits : UnderWay(g)' /\ UnderWay(i)' => g = i
    BY <1>3
  <1> QED
    BY <1>3, <1>4, <1>5, <1>6 DEF SlidingMatch, Window

\* A hit that has counted itself answers.
LEMMA AnswerKeepsSliding ==
    ASSUME TypeInv, SlidingMatch, rule.algorithm = "sliding-window", NEW h \in Hits, UnderWay(h),
           NEW previous, NEW banTtl, SlidingAnswer(h, previous, banTtl), rule' = rule,
           reference' # Unknown,
           Answers(h) => BanMatches(banKey', clock, reference.banUntil)
    PROVE  SlidingMatch'
  <1>1. /\ UNCHANGED <<clock, windowKeys, reference>> /\ job[h].now = clock
        /\ pc' = [pc EXCEPT ![h] = "done"]
    BY SlidingAnswerQuiet
  <1>2. pc \in [Hits -> Places]
    BY DEF TypeInv, HitsSound
  <1>3. \A g \in Hits : UnderWay(g) => g = h
    BY DEF SlidingMatch
  <1>4. \A g \in Hits : ~UnderWay(g)'
    BY <1>1, <1>2, <1>3 DEF UnderWay, Sliding
  <1>5. Answers(h)
    BY <1>1 DEF SlidingMatch
  <1>6. \A v \in -1 .. MaxClock : WindowCount(v)' = WindowCount(v)
    BY <1>1 DEF WindowCount
  <1>7. /\ KeysLast(rule, windowKeys) /\ Aligned(rule, clock, reference)
        /\ (rule.ban = 0 => reference.banUntil = 0)
        /\ \A v \in -1 .. MaxClock :
               Window(clock) - 1 <= v => WindowCount(v) = CountOf(rule, reference, v)
    BY DEF SlidingMatch
  <1> QED
    BY <1>1, <1>4, <1>5, <1>6, <1>7 DEF SlidingMatch, Window

LEMMA CountHitKeepsMatch ==
    ASSUME TypeInv, SlidingMatch, NEW h \in Hits, CountHit(h), rule' = rule, reference' # Unknown
    PROVE  SlidingMatch'
  <1> DEFINE now   == job[h].now
             s     == reference
             n     == clock \div rule.window
             key   == Incrby(windowKeys[n], clock, rule.cost)
             t     == SlidingWindowHit(rule, clock, s).state
             over  == Breached(rule, clock, t)
             ttl   == Pttl(banKey, clock)
  <1>1. /\ HitSound(rule, clock, charged, paths, pc[h], job[h]) /\ now = now
        /\ rule \in Rules /\ clock \in Nat /\ clock \in 0 .. MaxClock
        /\ rule.algorithm = "sliding-window"
    BY HitKnown DEF HitSound, CountHit, Sliding, TypeInv, ServerRanges
  <1>2. /\ windowKeys \in [0 .. MaxClock -> KeysHolding(Nat)]
        /\ pc \in [Hits -> Places] /\ DOMAIN job = Hits /\ IsJob(job[h])
    BY <1>1 DEF TypeInv, ServerRanges, HitsSound, HitSound
  <1>3. /\ now = clock /\ s # Unknown /\ (\A g \in Hits : ~UnderWay(g))
        /\ reference' = t
    <2>1. Follow(now, "sliding")
      BY DEF CountHit
    <2>2. /\ now = clock /\ s # Unknown /\ (\A g \in Hits : ~UnderWay(g))
          /\ reference' = EvaluateAlgorithmHit(rule, now, s).state
      BY <2>1 DEF Follow
    <2> QED
      BY <1>1, <2>2 DEF EvaluateAlgorithmHit
  <1>4. s \in SlidingStates \cup {NoState}
    BY <1>1, <1>3, KeyRead DEF StatesOf
  <1>5. /\ KeysLast(rule, windowKeys) /\ Aligned(rule, clock, s)
        /\ BanMatches(banKey, clock, s.banUntil) /\ (rule.ban = 0 => s.banUntil = 0)
        /\ \A v \in -1 .. MaxClock : n - 1 <= v => WindowCount(v) = CountOf(rule, s, v)
    BY <1>1, <1>3 DEF SlidingMatch, Window
  <1>6. n \in 0 .. MaxClock
    BY <1>1, WindowInRange DEF Window
  <1>7. /\ windowKeys' = [windowKeys EXCEPT ![n] = key]
        /\ pc' = [pc EXCEPT ![h] = "pttl"]
        /\ job' = [job EXCEPT ![h] = [job[h] EXCEPT !.current = windowKeys'[n].value]]
        /\ UNCHANGED <<clock, banKey>>
    <2>1. Window(now) = n
      BY <1>3 DEF Window
    <2> HIDE DEF n, now
    <2> QED
      BY <2>1 DEF CountHit, Continue, now
  <1>8. windowKeys'[n] = key /\ (\A v \in 0 .. MaxClock : v # n => windowKeys'[v] = windowKeys[v])
    <2> HIDE DEF key, n
    <2> QED
      BY <1>2, <1>6, <1>7
  <1>9. /\ Get(windowKeys[n], clock, 0) \in Nat /\ rule.cost \in Nat
        /\ Get(key, clock, 0) = Get(windowKeys[n], clock, 0) + rule.cost
        /\ key.value = Get(windowKeys[n], clock, 0) + rule.cost
        /\ key.expires \in {windowKeys[n].expires, NoExpiry}
    <2>1. rule.cost \in Nat /\ windowKeys[n] \in KeysHolding(Nat)
      BY <1>1, <1>2, <1>6 DEF Rules
    <2> QED
      BY <1>1, <2>1, IncrbyCounts
  <1>10. /\ Aligned(rule, clock, t) /\ t # NoState /\ t.windowStart = WindowStart(rule, clock)
         /\ t.currentCount = CountOf(rule, s, n) + rule.cost
         /\ t.previousCount = CountOf(rule, s, n - 1)
         /\ t.banUntil = ArmBan(rule, clock, ActiveBanUntil(s, clock), over)
         /\ \A v \in Int : CountOf(rule, t, v) = IF v = n THEN t.currentCount
                                                 ELSE IF v = n - 1 THEN t.previousCount ELSE 0
    BY <1>1, <1>4, <1>5, SlidingLeaves
  <1>11. /\ s.banUntil \in Nat
         /\ \A v \in Int : v > n => CountOf(rule, s, v) = 0
    BY <1>1, <1>4, <1>5, SlidingCounts
  <1>12. over \in BOOLEAN
    BY DEF Breached
  <1>13. /\ over /\ rule.ban > 0 /\ ttl <= 0 => t.banUntil = clock + rule.ban
         /\ ~(over /\ rule.ban > 0 /\ ttl <= 0) => BanMatches(banKey, clock, t.banUntil)
    <2> HIDE DEF t, over
    <2> QED
      BY <1>5, <1>10, <1>11, <1>12, NextBan
  <1>14. rule.ban = 0 => t.banUntil = 0
    <2>1. rule.ban = 0 => ActiveBanUntil(s, clock) = 0
      BY <1>5 DEF ActiveBanUntil
    <2>2. rule.ban = 0 => ~(rule.ban > 0)
      OBVIOUS
    <2> HIDE DEF t, over
    <2> QED
      BY <1>10, <2>1, <2>2 DEF ArmBan
  <1> HIDE DEF s, n, key, t, over, ttl
  <1>15. n \in -1 .. MaxClock /\ n - 1 <= n /\ n \in Int
    BY <1>6, MaxClockType, SMT
  <1>16. Get(windowKeys[n], clock, 0) = CountOf(rule, s, n)
    <2>1. WindowCount(n) = CountOf(rule, s, n)
      BY <1>5, <1>15
    <2>2. WindowCount(n) = Get(windowKeys[n], clock, 0)
      BY <1>6, <1>15, CountTold
    <2> QED
      BY <2>1, <2>2
  <1>17. ASSUME NEW v \in -1 .. MaxClock, n - 1 <= v
         PROVE  WindowCount(v)' = CountOf(rule, t, v)
    <2>1. WindowCount(v) = CountOf(rule, s, v) /\ v \in Int
      BY <1>5, <1>17
    <2>2. WindowCount(v)' = IF v < 0 THEN 0 ELSE Get(windowKeys'[v], clock, 0)
      BY <1>7 DEF WindowCount
    <2>3. CASE v = n
      <3>1. ~(v < 0)
        BY <1>6, <2>3
      <3>2. WindowCount(v)' = CountOf(rule, s, n) + rule.cost
        BY <1>8, <1>9, <1>16, <2>2, <2>3, <3>1
      <3> QED
        BY <1>10, <2>1, <2>3, <3>2
    <2>4. CASE v # n
      <3>1. WindowCount(v)' = WindowCount(v)
        <4>1. CASE v < 0
          BY <2>2, <4>1 DEF WindowCount
        <4>2. CASE ~(v < 0)
          <5>1. v \in 0 .. MaxClock
            BY <4>2
          <5>2. windowKeys'[v] = windowKeys[v]
            BY <1>8, <2>4, <5>1
          <5> QED
            BY <2>2, <4>2, <5>2 DEF WindowCount
        <4> QED
          BY <4>1, <4>2
      <3>2. CASE v = n - 1
        <4>1. CountOf(rule, t, v) = t.previousCount
          BY <1>10, <2>1, <2>4, <3>2
        <4>2. CountOf(rule, s, v) = t.previousCount
          BY <1>10, <3>2
        <4> QED
          BY <2>1, <3>1, <4>1, <4>2
      <3>3. CASE v # n - 1
        <4>1. v > n
          BY <1>15, <1>17, <2>1, <2>4, <3>3, SMT
        <4>2. CountOf(rule, s, v) = 0
          BY <1>11, <2>1, <4>1
        <4>3. CountOf(rule, t, v) = 0
          BY <1>10, <2>1, <2>4, <3>3
        <4> QED
          BY <2>1, <3>1, <4>2, <4>3
      <3> QED
        BY <3>2, <3>3
    <2> QED
      BY <2>3, <2>4
  <1>18. KeysLast(rule, windowKeys')
    BY <1>5, <1>8, <1>9 DEF KeysLast
  <1>19. /\ pc'[h] = "pttl" /\ UnderWay(h)' /\ (\A g \in Hits : UnderWay(g)' => g = h)
    BY <1>2, <1>3, <1>7 DEF UnderWay, Sliding
  <1>20. job'[h].current = t.currentCount
    <2>1. job'[h] = [job[h] EXCEPT !.current = windowKeys'[n].value]
      BY <1>2, <1>7
    <2>2. job'[h].current = windowKeys'[n].value
      BY <1>2, <2>1 DEF IsJob
    <2> QED
      BY <1>8, <1>9, <1>10, <1>16, <2>2
  <1>21. Answers(h)'
    <2>1. (rule.ban > 0 /\ ttl <= 0 /\ over) \/ ~(over /\ rule.ban > 0 /\ ttl <= 0)
      OBVIOUS
    <2> DEFINE starts == rule.ban > 0 /\ ttl <= 0 /\ over
    <2>2. IF starts THEN t.banUntil = clock + rule.ban ELSE BanMatches(banKey, clock, t.banUntil)
      BY <1>13
    <2> QED
      BY <1>3, <1>7, <1>10, <1>19, <1>20, <2>2 DEF Answers, ttl, over
  <1>22. \A g, i \in Hits : UnderWay(g)' /\ UnderWay(i)' => g = i
    BY <1>19
  <1>23. \A g \in Hits : UnderWay(g)' => Answers(g)'
    BY <1>19, <1>21
  <1>24. \A v \in -1 .. MaxClock : Window(clock)' - 1 <= v => WindowCount(v)' = CountOf(rule, t, v)
    BY <1>7, <1>17 DEF Window, n
  <1> QED
    BY <1>3, <1>7, <1>10, <1>14, <1>18, <1>19, <1>22, <1>23, <1>24 DEF SlidingMatch

LEMMA ExpireWindowKeepsMatch ==
    ASSUME TypeInv, SlidingMatch, NEW h \in Hits, ExpireWindow(h), rule' = rule
    PROVE  SlidingMatch'
  <1> DEFINE now == job[h].now
             w == Window(now)
             twice == 2 * rule.window
             key == Pexpire(windowKeys[w], clock, twice)
  <1>1. /\ HitSound(rule, clock, charged, paths, pc[h], job[h])
        /\ now \in 0 .. MaxClock /\ now \in Nat /\ now <= clock
        /\ rule \in Rules /\ clock \in Nat
        /\ w \in 0 .. MaxClock /\ w = now \div rule.window
    BY HitKnown, WindowInRange DEF Window
  <1>2. windowKeys \in [0 .. MaxClock -> KeysHolding(Nat)] /\ pc \in [Hits -> Places]
            /\ DOMAIN job = Hits
    BY DEF TypeInv, ServerRanges, HitsSound
  <1>3. rule.algorithm = "sliding-window" /\ UnderWay(h) /\ pc[h] = "pexpire"
    BY <1>1 DEF ExpireWindow, HitSound, Sliding, UnderWay
  <1>4. KeysLast(rule, windowKeys)
    BY <1>3 DEF SlidingMatch
  <1>5. /\ windowKeys' = [windowKeys EXCEPT ![w] = key]
        /\ pc' = [pc EXCEPT ![h] = "get previous"] /\ job' = [job EXCEPT ![h] = job[h]]
        /\ UNCHANGED <<clock, banKey, reference>>
    BY DEF ExpireWindow, Continue, history
  <1> HIDE DEF key, w, twice
  <1>6. windowKeys'[w] = key /\ (\A v \in 0 .. MaxClock : v # w => windowKeys'[v] = windowKeys[v])
    BY <1>1, <1>2, <1>5
  <1>7. /\ Get(key, clock, 0) = Get(windowKeys[w], clock, 0)
        /\ key.expires \in {windowKeys[w].expires, clock + twice}
    <2> DEFINE old == windowKeys[w]
    <2>1. old \in KeysHolding(Nat) /\ twice \in Nat /\ clock \in Nat
      BY <1>1, <1>2 DEF Rules, twice
    <2>2. key = Pexpire(old, clock, twice)
      BY DEF key
    <2> HIDE DEF old
    <2>3. CASE Alive(old, clock)
      <3>1. key.value = old.value /\ key.expires = clock + twice
        BY <2>1, <2>2, <2>3 DEF Pexpire, KeysHolding
      <3>2. Alive(key, clock)
        BY <2>1, <3>1 DEF Alive
      <3> QED
        BY <2>3, <3>1, <3>2 DEF Get, old
    <2>4. CASE ~Alive(old, clock)
      BY <2>2, <2>4 DEF Pexpire, old
    <2> QED
      BY <2>3, <2>4
  <1>8. Needed(rule, w) <= clock + twice
    <2> DEFINE start == WindowStart(rule, now)
    <2>1. start \in Nat /\ start <= now /\ start = w * rule.window /\ rule.window \in Nat
      BY <1>1, WindowStartNat DEF WindowStart, Rules
    <2>2. \A a, b \in Nat : (a + 2) * b = a * b + 2 * b
      BY SMT
    <2>3. w \in Nat
      BY <1>1
    <2> HIDE DEF start, now
    <2>4. Needed(rule, w) = start + twice
      BY <2>1, <2>2, <2>3 DEF Needed, twice
    <2>5. twice \in Nat
      BY <2>1 DEF twice
    <2> QED
      BY <1>1, <2>1, <2>4, <2>5
  <1>9. KeysLast(rule, windowKeys')
    BY <1>4, <1>6, <1>7, <1>8 DEF KeysLast
  <1>10. ASSUME NEW v \in -1 .. MaxClock PROVE WindowCount(v)' = WindowCount(v)
    <2>1. CASE v < 0
      BY <2>1 DEF WindowCount
    <2>2. CASE ~(v < 0)
      <3>1. v \in 0 .. MaxClock
        BY <2>2
      <3>2. Get(windowKeys'[v], clock, 0) = Get(windowKeys[v], clock, 0)
        BY <1>6, <1>7, <3>1
      <3> QED
        BY <1>5, <2>2, <3>2 DEF WindowCount
    <2> QED
      BY <2>1, <2>2
  <1>11. job[h].now = clock => Answers(h)'
    <2>1. pc'[h] = "get previous" /\ job'[h] = job[h]
      BY <1>2, <1>5
    <2>2. job[h].now = clock => Answers(h)
      BY <1>3 DEF SlidingMatch
    <2> QED
      BY <1>5, <2>1, <2>2 DEF Answers
  <1> QED
    BY <1>3, <1>5, <1>9, <1>10, <1>11, GoesOnSliding DEF Sliding

\* What a hit that has just counted itself finds in the window before.
LEMMA PreviousTold ==
    ASSUME TypeInv, SlidingMatch, rule.algorithm = "sliding-window", NEW h \in Hits, Answers(h),
           reference # Unknown
    PROVE  WindowCount(Window(clock) - 1) = reference.previousCount
  <1> DEFINE n == clock \div rule.window
  <1>1. rule \in Rules /\ clock \in Nat /\ clock \in 0 .. MaxClock
            /\ reference \in SlidingStates \cup {NoState}
    BY KeyRead DEF StatesOf, TypeInv, ServerRanges
  <1>2. /\ reference # NoState /\ reference.windowStart = WindowStart(rule, clock)
    BY DEF Answers
  <1>3. /\ Aligned(rule, clock, reference)
        /\ \A v \in -1 .. MaxClock : n - 1 <= v => WindowCount(v) = CountOf(rule, reference, v)
    BY DEF SlidingMatch, Window
  <1>4. n \in 0 .. MaxClock /\ Window(clock) = n
    BY <1>1, WindowInRange DEF Window
  <1>5. SlidingPrevious(rule, clock, reference) = CountOf(rule, reference, n - 1)
    BY <1>1, <1>3, SlidingCounts
  <1>6. SlidingPrevious(rule, clock, reference) = reference.previousCount
    <2>1. reference.algorithm = "sliding-window"
      BY <1>1, <1>2 DEF SlidingStates
    <2>2. rule.window \in Nat \ {0} /\ WindowStart(rule, clock) \in Nat
      BY <1>1, WindowStartNat DEF Rules
    <2>3. WindowStart(rule, clock) # WindowStart(rule, clock) - rule.window
      BY <2>2
    <2> QED
      BY <1>2, <2>1, <2>3 DEF SlidingPrevious
  <1> HIDE DEF n
  <1>7. n - 1 \in -1 .. MaxClock /\ n - 1 <= n - 1
    BY <1>4, MaxClockType, SMT
  <1>8. WindowCount(n - 1) = CountOf(rule, reference, n - 1)
    BY <1>3, <1>7
  <1> QED
    BY <1>4, <1>5, <1>6, <1>8

LEMMA StepKeepsSlidingMatch ==
    ASSUME TypeInv, SlidingMatch, NEW h \in Hits, Step(h), rule' = rule, reference' # Unknown
    PROVE  SlidingMatch'
  <1>1. /\ HitSound(rule, clock, charged, paths, pc[h], job[h]) /\ job[h].now \in 0 .. MaxClock
    BY HitKnown
  <1>2. /\ pc[h] \in {"get", "psetex"} => Metered(rule)
        /\ pc[h] = "eval" => rule.algorithm = "gcra"
        /\ pc[h] \in Sliding => rule.algorithm = "sliding-window"
        /\ IsJob(job[h])
    BY <1>1 DEF HitSound
  <1>3. pc \in [Hits -> Places] /\ DOMAIN job = Hits
    BY DEF TypeInv, HitsSound
  <1>4. reference # Unknown /\ rule.ban \in Nat
    BY StillFollowed, KeyRead DEF Rules
  <1>5. UnderWay(h) /\ job[h].now = clock => Answers(h) \/ rule.algorithm # "sliding-window"
    BY DEF SlidingMatch
  <1>6. UnderWay(h) => rule.algorithm = "sliding-window"
    BY <1>2 DEF UnderWay
  <1>7. KeysLast(rule, windowKeys) \/ rule.algorithm # "sliding-window"
    BY DEF SlidingMatch
  <1>8. ASSUME UNCHANGED windowKeys, clock' = clock, rule.algorithm = "sliding-window"
        PROVE  /\ KeysLast(rule, windowKeys')
               /\ \A v \in -1 .. MaxClock : WindowCount(v)' = WindowCount(v)
    BY <1>7, <1>8 DEF WindowCount
  <1>9. CASE Start(h)
    <2>1. pc[h] = "idle" /\ pc'[h] \in {"eval", "incrby", "get"}
      BY <1>3, <1>9 DEF Start, Continue
    <2>2. \A g \in Hits : g # h => pc'[g] = pc[g] /\ job'[g] = job[g]
      BY <1>3, <1>9 DEF Start, Continue
    <2>3. \A g \in Hits : /\ UnderWay(g)' <=> UnderWay(g)
                          /\ UnderWay(g) => pc'[g] = pc[g] /\ job'[g] = job[g]
      BY <2>1, <2>2 DEF UnderWay, Sliding
    <2> QED
      BY <1>9, <2>3, QuietSliding DEF Start, server, history
  <1>10. CASE Fail(h)
    <2>1. ~UnderWay(h) /\ reference' = reference /\ pc'[h] = "failed"
      BY <1>3, <1>10 DEF Fail, Continue
    <2>2. \A g \in Hits : g # h => pc'[g] = pc[g] /\ job'[g] = job[g]
      BY <1>3, <1>10 DEF Fail, Continue
    <2>3. \A g \in Hits : /\ UnderWay(g)' <=> UnderWay(g)
                          /\ UnderWay(g) => pc'[g] = pc[g] /\ job'[g] = job[g]
      BY <2>1, <2>2 DEF UnderWay, Sliding
    <2> QED
      BY <1>10, <2>1, <2>3, QuietSliding DEF Fail, server
  <1>11. CASE EvalAnswers(h) \/ EvalRaises(h) \/ EvalLost(h) \/ EvalRefused(h)
    BY <1>2, <1>11 DEF EvalAnswers, EvalRaises, EvalLost, EvalRefused, SlidingMatch
  <1>12. CASE LateScript(h)
    <2>1. late # {}
      BY <1>12 DEF LateScript
    <2>2. rule.algorithm = "gcra"
      BY <2>1 DEF TypeInv, LateSound
    <2> QED
      BY <2>2 DEF SlidingMatch
  <1>13. CASE ReadState(h) \/ WriteState(h)
    BY <1>2, <1>13 DEF ReadState, WriteState, SlidingMatch, Metered
  <1>14. CASE ReadWindowTtl(h)
    <2>1. UnderWay(h)
      BY <1>14 DEF ReadWindowTtl, UnderWay, Sliding
    <2>2. PICK p \in {"pexpire", "get previous"} :
                pc' = [pc EXCEPT ![h] = p] /\ job' = [job EXCEPT ![h] = job[h]]
      BY <1>14 DEF ReadWindowTtl, Continue
    <2>3. UNCHANGED <<clock, windowKeys, banKey, reference>>
      BY <1>14 DEF ReadWindowTtl, server, history
    <2>4. pc'[h] = p /\ job'[h] = job[h]
      BY <1>3, <2>2
    <2>5. job[h].now = clock => Answers(h)'
      BY <1>5, <1>6, <2>1, <2>2, <2>3, <2>4 DEF Answers
    <2>6. p \in Sliding \ {"incrby"}
      BY DEF Sliding
    <2> QED
      BY <1>6, <1>8, <2>1, <2>2, <2>3, <2>5, <2>6, GoesOnSliding
  <1>15. CASE ReadPrevious(h)
    <2> DEFINE previous == WindowCount(Window(job[h].now) - 1)
               j == [job[h] EXCEPT !.previous = previous]
    <2>1. UnderWay(h)
      BY <1>15 DEF ReadPrevious, UnderWay, Sliding
    <2>2. CASE rule.ban > 0
      <3>1. pc' = [pc EXCEPT ![h] = "pttl ban"] /\ job' = [job EXCEPT ![h] = j]
        BY <1>15, <2>2 DEF ReadPrevious, Continue
      <3>2. UNCHANGED <<clock, windowKeys, banKey, reference>>
        BY <1>15, <2>2 DEF ReadPrevious, server, history
      <3>3. j.now = job[h].now /\ j.current = job[h].current /\ j.previous = previous
        BY <1>2 DEF IsJob
      <3> HIDE DEF j
      <3>4. pc'[h] = "pttl ban" /\ job'[h] = j
        BY <1>3, <3>1
      <3>5. ASSUME job[h].now = clock PROVE Answers(h)'
        <4>1. Answers(h)
          BY <1>5, <1>6, <2>1, <3>5
        <4>2. previous = reference.previousCount
          BY <1>4, <1>6, <2>1, <3>5, <4>1, PreviousTold
        <4> HIDE DEF previous
        <4> QED
          BY <2>2, <3>2, <3>3, <3>4, <4>1, <4>2 DEF Answers
      <3>6. "pttl ban" \in Sliding \ {"incrby"}
        BY DEF Sliding
      <3> QED
        BY <1>6, <1>8, <2>1, <3>1, <3>2, <3>3, <3>5, <3>6, GoesOnSliding
    <2>3. CASE ~(rule.ban > 0)
      <3>1. SlidingAnswer(h, previous, 0) /\ banKey' = banKey
        BY <1>15, <2>3 DEF ReadPrevious
      <3>2. Answers(h) => BanMatches(banKey', clock, reference.banUntil)
        BY <2>3, <3>1 DEF Answers
      <3> QED
        BY <1>6, <2>1, <3>1, <3>2, AnswerKeepsSliding
    <2> QED
      BY <2>2, <2>3
  <1>16. pc[h] = "pttl ban" /\ Answers(h) /\ job[h].now = clock
             => (OverLimit(h, job[h].previous) = Breached(rule, clock, reference))
    BY DEF Answers, OverLimit, Breached, SlidingEstimate
  <1>17. CASE ReadSlidingBan(h)
    <2> DEFINE goesOn == OverLimit(h, job[h].previous) /\ Pttl(banKey, clock) <= 0
    <2>1. UnderWay(h) /\ pc[h] = "pttl ban"
      BY <1>17 DEF ReadSlidingBan, UnderWay, Sliding
    <2>2. CASE goesOn
      <3>1. pc' = [pc EXCEPT ![h] = "psetex ban"] /\ job' = [job EXCEPT ![h] = job[h]]
        BY <1>17, <2>2 DEF ReadSlidingBan, Continue
      <3>2. UNCHANGED <<clock, windowKeys, banKey, reference>>
        BY <1>17, <2>2 DEF ReadSlidingBan, server, history
      <3>3. pc'[h] = "psetex ban" /\ job'[h] = job[h]
        BY <1>3, <3>1
      <3>4. ASSUME job[h].now = clock PROVE Answers(h)'
        <4>1. Answers(h)
          BY <1>5, <1>6, <2>1, <3>4
        <4>2. Pttl(banKey, clock) <= 0 /\ Breached(rule, clock, reference)
          BY <1>16, <2>1, <2>2, <3>4, <4>1
        <4> QED
          BY <2>1, <3>2, <3>3, <4>1, <4>2 DEF Answers
      <3>5. "psetex ban" \in Sliding \ {"incrby"}
        BY DEF Sliding
      <3> QED
        BY <1>6, <1>8, <2>1, <3>1, <3>2, <3>4, <3>5, GoesOnSliding
    <2>3. CASE ~goesOn
      <3>1. SlidingAnswer(h, job[h].previous, Larger(Pttl(banKey, clock), 0)) /\ banKey' = banKey
        BY <1>17, <2>3 DEF ReadSlidingBan
      <3>2. job[h].now = clock
        BY <3>1, SlidingAnswerQuiet
      <3>3. ASSUME Answers(h) PROVE BanMatches(banKey', clock, reference.banUntil)
        <4>1. ~(Pttl(banKey, clock) <= 0 /\ Breached(rule, clock, reference))
          BY <1>16, <2>1, <2>3, <3>2, <3>3
        <4> QED
          BY <3>1, <3>3, <4>1 DEF Answers
      <3> QED
        BY <1>6, <2>1, <3>1, <3>3, AnswerKeepsSliding
    <2> QED
      BY <2>2, <2>3
  <1>18. CASE SetSlidingBan(h)
    <2>1. /\ UnderWay(h) /\ pc[h] = "psetex ban" /\ banKey' = Psetex(1, clock, rule.ban)
          /\ SlidingAnswer(h, job[h].previous, rule.ban)
      BY <1>18 DEF SetSlidingBan, UnderWay, Sliding
    <2>2. banKey'.expires = clock + rule.ban
      BY <2>1 DEF Psetex
    <2>3. Answers(h) => reference.banUntil = clock + rule.ban
      BY <2>1 DEF Answers
    <2>4. Answers(h) => BanMatches(banKey', clock, reference.banUntil)
      BY <2>2, <2>3 DEF BanMatches
    <2> QED
      BY <1>6, <2>1, <2>4, AnswerKeepsSliding
  <1> QED
    BY <1>9, <1>10, <1>11, <1>12, <1>13, <1>14, <1>15, <1>17, <1>18, CountHitKeepsMatch,
       ExpireWindowKeepsMatch DEF Step

\* The counters of a time's window and of the one before are needed then.
LEMMA StillNeeded ==
    ASSUME NEW r \in Rules, NEW t \in 0 .. MaxClock, NEW v \in 0 .. MaxClock,
           t \div r.window - 1 <= v
    PROVE  Needed(r, v) \in Nat /\ t < Needed(r, v)
  <1> DEFINE w == r.window
             n == t \div w
  <1>1. w \in Nat \ {0} /\ t \in Nat /\ v \in Nat /\ n \in Nat /\ n - 1 <= v
            /\ t + w < Needed(r, n) /\ Needed(r, n) \in Nat
    BY TimesWindow, MaxClockType DEF Rules
  <1> HIDE DEF n, w
  <1>2. \A a, b \in Nat : a * b \in Nat
    BY SMT
  <1>3. (v + 1) - n \in Nat /\ v + 2 \in Nat
    BY <1>1, SMT
  <1>4. ((v + 1) - n) * w \in Nat /\ (v + 2) * w \in Nat
    BY <1>1, <1>2, <1>3
  <1>5. (v + 2) * w = ((v + 1) - n) * w + (n + 2) * w - w
    BY <1>1, SMT
  <1>6. Needed(r, v) = (v + 2) * w /\ Needed(r, n) = (n + 2) * w
    BY DEF Needed, w
  <1> DEFINE rest == ((v + 1) - n) * w
  <1>7. rest \in Nat /\ Needed(r, v) = rest + Needed(r, n) - w /\ Needed(r, v) \in Nat
    BY <1>4, <1>5, <1>6
  <1> HIDE DEF rest
  <1> QED
    BY <1>1, <1>7, SMT

\* Windows are numbered in the order of time.
LEMMA WindowLater ==
    ASSUME NEW w \in Nat \ {0}, NEW c \in Nat
    PROVE  c \div w \in Nat /\ (c + 1) \div w \in Nat /\ c \div w <= (c + 1) \div w
  BY SMT

LEMMA TickKeepsSlidingMatch ==
    ASSUME TypeInv, SlidingMatch, Tick, rule' = rule, reference' # Unknown
    PROVE  SlidingMatch'
  <1>1. /\ rule \in Rules /\ clock \in Nat /\ clock + 1 \in 0 .. MaxClock
        /\ windowKeys \in [0 .. MaxClock -> KeysHolding(Nat)]
        /\ rule.window \in Nat \ {0}
    BY RuleIsRule, MaxClockType, SMT DEF TypeInv, ServerRanges, Tick, Rules
  <1>2. /\ clock' = clock + 1 /\ UNCHANGED <<pc, job, reference>>
        /\ windowKeys' = [v \in 0 .. MaxClock |-> Forgotten(windowKeys[v], clock + 1, 0)]
        /\ banKey' = Forgotten(banKey, clock + 1, 0)
    BY <1>1 DEF Tick, history
  <1>3. SUFFICES ASSUME rule.algorithm = "sliding-window" PROVE SlidingMatch'
    BY DEF SlidingMatch
  <1> DEFINE n == clock \div rule.window
             m == (clock + 1) \div rule.window
  <1>4. /\ KeysLast(rule, windowKeys) /\ Aligned(rule, clock, reference)
        /\ (rule.ban = 0 => reference.banUntil = 0)
        /\ \A g, h \in Hits : UnderWay(g) /\ UnderWay(h) => g = h
        /\ \A v \in -1 .. MaxClock : n - 1 <= v => WindowCount(v) = CountOf(rule, reference, v)
        /\ (\A h \in Hits : ~UnderWay(h)) => BanMatches(banKey, clock, reference.banUntil)
    BY <1>3 DEF SlidingMatch, Window
  <1>5. n \in Nat /\ m \in Nat /\ n <= m
    BY <1>1, WindowLater
  <1>6. reference.banUntil \in Nat /\ reference \in SlidingStates \cup {NoState}
    BY <1>2, <1>3, KeyRead, BanUntilNat DEF StatesOf
  <1>7. Aligned(rule, clock + 1, reference)
    <2>1. CASE reference = NoState
      BY <2>1 DEF Aligned
    <2>2. CASE reference # NoState
      <3>1. reference.windowStart \in Nat
        BY <1>6, <2>2 DEF SlidingStates
      <3>2. WindowOf(rule, reference) \in Nat
        <4>1. \A x \in Nat, y \in Nat \ {0} : x \div y \in Nat
          BY SMT
        <4> QED
          BY <1>1, <3>1, <4>1 DEF WindowOf
      <3>3. /\ reference.windowStart = WindowOf(rule, reference) * rule.window
            /\ WindowOf(rule, reference) <= n
        BY <1>4, <2>2 DEF Aligned
      <3> DEFINE k == WindowOf(rule, reference)
      <3>4. k \in Nat /\ k <= n
        BY <3>2, <3>3
      <3> HIDE DEF k, n, m
      <3>5. k <= m
        BY <1>5, <3>4
      <3> QED
        BY <3>3, <3>5 DEF Aligned, k, m
    <2> QED
      BY <2>1, <2>2
  <1>8. BanMatches(banKey, clock, reference.banUntil)
            => BanMatches(banKey', clock + 1, reference.banUntil)
    <2>1. banKey.expires \in Nat \cup {Gone}
      BY DEF TypeInv, ServerRanges, KeysHolding
    <2> QED
      BY <1>1, <1>2, <1>6, <2>1, BanMatchesLater
  <1>9. ASSUME NEW h \in Hits PROVE job[h].now # clock + 1
    <2>1. job[h].now \in Nat /\ job[h].now <= clock
      BY HitKnown
    <2> QED
      BY <1>1, <2>1
  <1>10. ASSUME NEW v \in 0 .. MaxClock
         PROVE  /\ windowKeys'[v].expires \in {NoExpiry, Gone}
                       \/ Needed(rule, v) <= windowKeys'[v].expires
                /\ m - 1 <= v => Get(windowKeys'[v], clock + 1, 0) = Get(windowKeys[v], clock, 0)
    <2> DEFINE key == windowKeys[v]
               last == Needed(rule, v)
    <2>1. key.expires \in Nat \cup {NoExpiry, Gone}
      BY <1>1 DEF KeysHolding
    <2>2. key.expires \in {NoExpiry, Gone} \/ last <= key.expires
      BY <1>4 DEF KeysLast
    <2>3. windowKeys'[v] = Forgotten(key, clock + 1, 0)
      BY <1>2
    <2>4. m - 1 <= v => last \in Nat /\ clock + 1 < last
      BY <1>1, StillNeeded
    <2> HIDE DEF key, last, m
    <2>5. CASE Alive(key, clock + 1)
      <3>1. windowKeys'[v] = key
        BY <2>3, <2>5 DEF Forgotten
      <3>2. Alive(key, clock)
        BY <1>1, <2>1, <2>5, SMT DEF Alive, NoExpiry, Gone
      <3> QED
        BY <2>2, <2>5, <3>1, <3>2 DEF Get, key, last
    <2>6. CASE ~Alive(key, clock + 1)
      <3>1. windowKeys'[v] = [value |-> 0, expires |-> Gone]
        BY <2>3, <2>6 DEF Forgotten
      <3>2. Get(windowKeys'[v], clock + 1, 0) = 0
        BY <3>1 DEF Get
      <3>3. m - 1 <= v => ~Alive(key, clock)
        BY <1>1, <2>1, <2>2, <2>4, <2>6, SMT DEF Alive, NoExpiry, Gone
      <3>4. m - 1 <= v => Get(key, clock, 0) = 0
        BY <3>3 DEF Get
      <3>5. windowKeys'[v].expires = Gone
        BY <3>1
      <3> QED
        BY <3>2, <3>4, <3>5 DEF key, last
    <2> QED
      BY <2>5, <2>6
  <1>11. KeysLast(rule, windowKeys')
    BY <1>10 DEF KeysLast
  <1>12. ASSUME NEW v \in -1 .. MaxClock, m - 1 <= v
         PROVE  WindowCount(v)' = CountOf(rule, reference, v)
    <2>1. v \in Int /\ n - 1 <= v
      <3> HIDE DEF n, m
      <3> QED
        BY <1>5, <1>12, SMT
    <2>2. WindowCount(v) = CountOf(rule, reference, v)
      BY <1>4, <2>1
    <2>3. WindowCount(v)' = IF v < 0 THEN 0 ELSE Get(windowKeys'[v], clock + 1, 0)
      BY <1>2 DEF WindowCount
    <2>4. CASE v < 0
      BY <2>2, <2>3, <2>4 DEF WindowCount
    <2>5. CASE ~(v < 0)
      <3>1. v \in 0 .. MaxClock
        BY <2>5
      <3> HIDE DEF m
      <3>2. Get(windowKeys'[v], clock + 1, 0) = Get(windowKeys[v], clock, 0)
        BY <1>10, <1>12, <3>1
      <3> QED
        BY <2>2, <2>3, <2>5, <3>2 DEF WindowCount
    <2> QED
      BY <2>4, <2>5
  <1>13. \A h \in Hits : UnderWay(h)' <=> UnderWay(h)
    BY <1>2 DEF UnderWay
  <1>14. \A v \in -1 .. MaxClock :
             Window(clock)' - 1 <= v => WindowCount(v)' = CountOf(rule, reference, v)
    BY <1>2, <1>12 DEF Window
  <1>15. \A h \in Hits : ~(job'[h].now = clock')
    BY <1>2, <1>9
  <1>16. (\A h \in Hits : ~UnderWay(h)') => BanMatches(banKey', clock', reference.banUntil)
    BY <1>2, <1>4, <1>8, <1>13
  <1>17. Aligned(rule, clock', reference) /\ \A g, h \in Hits : UnderWay(g)' /\ UnderWay(h)' => g = h
    BY <1>2, <1>4, <1>7, <1>13
  <1> QED
    BY <1>2, <1>4, <1>11, <1>14, <1>15, <1>16, <1>17 DEF SlidingMatch

LEMMA InitMatches == Init => MatchInv
  <1> SUFFICES ASSUME Init PROVE PortableMatch /\ ScriptMatch /\ SlidingMatch
    BY DEF MatchInv
  <1>1. /\ rule \in Rules /\ clock = 0 /\ reference = NoState
        /\ stateKey.expires = Gone /\ stateKey.value = NoState /\ banKey.expires = Gone
        /\ \A h \in Hits : pc[h] = "idle"
        /\ windowKeys = [w \in 0 .. MaxClock |-> [value |-> 0, expires |-> Gone]]
    BY RuleIsRule DEF Init
  <1>2. ~(Gone > 0) /\ NoState.banUntil = 0 /\ ~(0 > 0)
    BY SMT DEF Gone, NoState
  <1>3. BanMatches(banKey, clock, reference.banUntil)
    BY <1>1, <1>2 DEF BanMatches
  <1>4. PortableMatch
    BY <1>1 DEF PortableMatch, Mirrors, Lapsed
  <1>5. ScriptMatch
    <2>1. ScriptTat(clock) = clock * rule.limit
      BY <1>1 DEF ScriptTat, Stored, Get, NoState
    <2>2. Tat(rule, clock, reference) = clock * rule.limit
      BY <1>1 DEF Tat, NoState
    <2> QED
      BY <1>1, <1>3, <2>1, <2>2 DEF ScriptMatch
  <1>6. SlidingMatch
    <2>1. KeysLast(rule, windowKeys)
      BY <1>1 DEF KeysLast
    <2>2. ASSUME NEW v \in -1 .. MaxClock PROVE WindowCount(v) = 0
      <3>1. v < 0 \/ v \in 0 .. MaxClock
        BY SMT
      <3>2. v \in 0 .. MaxClock => Get(windowKeys[v], clock, 0) = 0
        BY <1>1 DEF Get
      <3> QED
        BY <3>1, <3>2 DEF WindowCount
    <2>3. \A v : CountOf(rule, reference, v) = 0
      BY <1>1 DEF CountOf
    <2>4. \A h \in Hits : ~UnderWay(h)
      BY <1>1 DEF UnderWay, Sliding
    <2>5. Aligned(rule, clock, reference)
      BY <1>1 DEF Aligned
    <2> QED
      BY <1>1, <1>2, <1>3, <2>1, <2>2, <2>3, <2>4, <2>5 DEF SlidingMatch
  <1> QED
    BY <1>4, <1>5, <1>6

LEMMA MatchKept == TypeInv /\ MatchInv /\ [Next]_vars => MatchInv'
  <1> SUFFICES ASSUME TypeInv, MatchInv, [Next]_vars, reference' # Unknown
               PROVE  PortableMatch' /\ ScriptMatch' /\ SlidingMatch'
    BY DEF MatchInv
  <1>1. CASE UNCHANGED vars
    <2>1. /\ UNCHANGED <<rule, clock, stateKey, windowKeys, banKey, pc, job, paths, reference>>
      BY <1>1 DEF vars, server, history
    <2>2. PortableMatch /\ ScriptMatch /\ SlidingMatch
      BY <2>1 DEF MatchInv
    <2>3. PortableMatch'
      BY <2>1, <2>2, QuietPortable
    <2>4. ScriptMatch'
      BY <2>1, <2>2, QuietScript
    <2>5. \A g \in Hits : /\ UnderWay(g)' <=> UnderWay(g)
                          /\ UnderWay(g) => pc'[g] = pc[g] /\ job'[g] = job[g]
      BY <2>1 DEF UnderWay
    <2>6. SlidingMatch'
      BY <2>1, <2>2, <2>5, QuietSliding
    <2> QED
      BY <2>3, <2>4, <2>6
  <1>2. CASE Next
    <2>1. rule' = rule /\ (Tick \/ \E h \in Hits : Step(h))
      BY <1>2 DEF Next
    <2>2. reference # Unknown
      <3>1. Tick => reference' = reference
        BY DEF Tick, history
      <3> QED
        BY <2>1, <3>1, StillFollowed
    <2>3. PortableMatch /\ ScriptMatch /\ SlidingMatch
      BY <2>2 DEF MatchInv
    <2>4. CASE Tick
      BY <2>1, <2>3, <2>4, TickKeepsPortable, TickKeepsScript, TickKeepsSlidingMatch
    <2>5. ASSUME NEW h \in Hits, Step(h) PROVE PortableMatch' /\ ScriptMatch' /\ SlidingMatch'
      BY <2>1, <2>3, <2>5, StepKeepsPortable, StepKeepsScript, StepKeepsSlidingMatch
    <2> QED
      BY <2>1, <2>4, <2>5
  <1> QED
    BY <1>1, <1>2

\* Each path by itself, without overlapping, late or failed hits, answers what
\* the in-process algorithm answers: the portable path with one key, the script
\* with two, the sliding window with a counter per window and a ban key, each of
\* an expiry of its own.
THEOREM AnswersAlike == Spec => []MatchesReference
  <1>1. TypeInv /\ MatchInv => MatchesReference
    <2> SUFFICES ASSUME TypeInv, MatchInv, reference # Unknown,
                        \A h \in Hits : pc[h] # "psetex" /\ ~UnderWay(h)
                 PROVE  LET expected == EvaluateAlgorithmHit(rule, clock, reference).hit
                        IN  /\ rule.algorithm = "gcra" /\ paths \subseteq {"script"}
                                   => ScriptHit(clock) = expected
                            /\ rule.algorithm = "sliding-window" => SlidingHitNow = expected
                            /\ paths \subseteq {"portable"} => Evaluated(clock).hit = expected
      BY DEF MatchesReference
    <2>1. PortableMatch /\ ScriptMatch /\ SlidingMatch
      BY DEF MatchInv
    <2>2. rule.algorithm = "gcra" /\ paths \subseteq {"script"}
              => ScriptHit(clock) = EvaluateAlgorithmHit(rule, clock, reference).hit
      BY <2>1, ScriptAnswersAlike
    <2>3. rule.algorithm = "sliding-window"
              => SlidingHitNow = EvaluateAlgorithmHit(rule, clock, reference).hit
      BY <2>1, SlidingAnswersAlike
    <2>4. ASSUME paths \subseteq {"portable"}
          PROVE  Evaluated(clock).hit = EvaluateAlgorithmHit(rule, clock, reference).hit
      <3>1. Mirrors(rule, clock, stateKey, reference)
        BY <2>1, <2>4 DEF PortableMatch
      <3>2. /\ SameState(stateKey.value, rule.algorithm) \in StatesOf(rule) \cup {NoState}
            /\ stateKey.expires \in Nat \cup {Gone}
            /\ reference \in StatesOf(rule) \cup {NoState}
            /\ rule \in Rules /\ clock \in Nat
        BY KeyRead
      <3>3. SameAnswer(rule, clock,
                EvaluateAlgorithmHit(rule, clock,
                    SameState(Get(stateKey, clock, NoState), rule.algorithm)),
                EvaluateAlgorithmHit(rule, clock, reference))
        BY <3>1, <3>2, MirrorAnswers
      <3> QED
        BY <3>3 DEF SameAnswer, Evaluated, Stored
    <2> QED
      BY <2>2, <2>3, <2>4
  <1> QED
    BY <1>1, InitMatches, MatchKept, InitTypes, TypesKept, PTL DEF Spec
=============================================================================
