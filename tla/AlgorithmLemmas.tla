--------------------------- MODULE AlgorithmLemmas ---------------------------
(***************************************************************************)
(* What the operators of Algorithms return, for every rule, time and state. *)
(***************************************************************************)
EXTENDS Algorithms, TLAPS

\* The quotients the algorithms take are natural numbers.
LEMMA CeilDivNat ==
    ASSUME NEW a \in Nat, NEW b \in Nat \ {0}
    PROVE  CeilDiv(a, b) \in Nat
  BY SMT DEF CeilDiv

LEMMA WindowStartNat ==
    ASSUME NEW r \in Rules, NEW now \in Nat
    PROVE  WindowStart(r, now) \in Nat /\ WindowStart(r, now) <= now
                /\ now < WindowStart(r, now) + r.window
  BY SMT DEF WindowStart, Rules

\* A rule's quantities are natural numbers, its capacity a positive one.
LEMMA CapacityNat ==
    ASSUME NEW r \in Rules
    PROVE  Capacity(r) \in Nat \ {0} /\ r.cost * r.window \in Nat \ {0}
  BY SMT DEF Capacity, Rules

-----------------------------------------------------------------------------
(* Each algorithm leaves a state of its own kind behind, whatever record it *)
(* finds.                                                                  *)

LEMMA FixedWindowType ==
    ASSUME NEW r \in Rules, NEW now \in Nat, NEW s \in FixedStates \cup {NoState}
    PROVE  FixedWindowHit(r, now, s).state \in FixedStates
                /\ FixedWindowHit(r, now, s).expiresAt \in Nat
  BY SMT DEF FixedWindowHit, FixedState, WindowOpen, FixedStates, Rules, NoState, SameState,
             ActiveBanUntil, ArmBan, ExpiryFor, Larger

LEMMA SlidingWindowType ==
    ASSUME NEW r \in Rules, NEW now \in Nat, NEW s \in SlidingStates \cup {NoState}
    PROVE  SlidingWindowHit(r, now, s).state \in SlidingStates
                /\ SlidingWindowHit(r, now, s).expiresAt \in Nat
  <1> DEFINE same     == SameState(s, "sliding-window")
             previous == SlidingPrevious(r, now, same)
             current  == SlidingCurrent(r, now, same)
             over     == Estimated(r, now, previous, current) > r.limit
             banUntil == ArmBan(r, now, ActiveBanUntil(same, now), over)
  <1>1. WindowStart(r, now) \in Nat
    BY WindowStartNat
  <1>2. same \in SlidingStates \cup {NoState}
    BY DEF SameState, SlidingStates, NoState
  <1>3. previous \in Nat /\ current \in Nat
    BY <1>1, <1>2, SMT DEF SlidingPrevious, SlidingCurrent, SlidingStates, NoState, Rules
  <1>4. banUntil \in Nat
    BY <1>2, SMT DEF ArmBan, ActiveBanUntil, SlidingStates, NoState, Rules
  <1>5. SlidingWindowHit(r, now, s).state =
            [algorithm |-> "sliding-window", previousCount |-> previous,
             currentCount |-> current, windowStart |-> WindowStart(r, now),
             banUntil |-> banUntil]
    BY DEF SlidingWindowHit
  <1>6. SlidingWindowHit(r, now, s).expiresAt =
            ExpiryFor(WindowStart(r, now) + 2 * r.window, banUntil)
    BY DEF SlidingWindowHit
  <1> QED
    BY <1>1, <1>3, <1>4, <1>5, <1>6, SMT DEF SlidingStates, ExpiryFor, Larger, Rules

LEMMA TokenBucketType ==
    ASSUME NEW r \in Rules, NEW now \in Nat, NEW s \in TokenStates(r) \cup {NoState}
    PROVE  TokenBucketHit(r, now, s).state \in TokenStates(r)
                /\ TokenBucketHit(r, now, s).expiresAt \in Nat
  <1> DEFINE tokens == TokenBucketHit(r, now, s).state.tokens
  <1>1. TokenBucketHit(r, now, s).state \in TokenStates(r)
    BY SMT DEF TokenBucketHit, TokenStates, Rules, NoState, Capacity, ActiveBanUntil,
               SameState, Refilled, ArmBan, Smaller, Larger
  <1>2. Capacity(r) - tokens \in Nat
    BY <1>1, CapacityNat, SMT DEF TokenStates
  <1>3. CeilDiv(Capacity(r) - tokens, r.limit) \in Nat
    BY <1>2, CeilDivNat DEF Rules
  <1>4. TokenBucketHit(r, now, s).expiresAt =
            ExpiryFor(now + CeilDiv(Capacity(r) - tokens, r.limit),
                      TokenBucketHit(r, now, s).state.banUntil)
    BY DEF TokenBucketHit
  <1> QED
    BY <1>1, <1>3, <1>4, SMT DEF ExpiryFor, Larger, TokenStates

LEMMA GcraType ==
    ASSUME NEW r \in Rules, NEW now \in Nat, NEW s \in GcraStates \cup {NoState}
    PROVE  GcraHit(r, now, s).state \in GcraStates
                /\ GcraHit(r, now, s).expiresAt \in Nat
  <1> DEFINE tat  == GcraHit(r, now, s).state.tat
             used == Larger(tat - now * r.limit, 0)
  <1>1. GcraHit(r, now, s).state \in GcraStates
    BY SMT DEF GcraHit, GcraStates, Rules, NoState, Capacity, ActiveBanUntil,
               SameState, Tat, NextTat, ArmBan, Larger
  <1>2. Capacity(r) + used \in Nat
    BY <1>1, CapacityNat, SMT DEF GcraStates, Larger, Rules
  <1>3. CeilDiv(Capacity(r) + used, r.limit) \in Nat
    BY <1>2, CeilDivNat DEF Rules
  <1>4. GcraHit(r, now, s).expiresAt =
            ExpiryFor(now + CeilDiv(Capacity(r) + used, r.limit),
                      GcraHit(r, now, s).state.banUntil)
    BY DEF GcraHit
  <1> QED
    BY <1>1, <1>3, <1>4, SMT DEF ExpiryFor, Larger, GcraStates

LEMMA EvaluateType ==
    ASSUME NEW r \in Rules, NEW now \in Nat, NEW s \in StatesOf(r) \cup {NoState}
    PROVE  EvaluateAlgorithmHit(r, now, s).state \in StatesOf(r)
                /\ EvaluateAlgorithmHit(r, now, s).expiresAt \in Nat
  <1>1. CASE r.algorithm = "fixed-window"
    BY <1>1, FixedWindowType DEF EvaluateAlgorithmHit, StatesOf
  <1>2. CASE r.algorithm = "sliding-window"
    BY <1>2, SlidingWindowType DEF EvaluateAlgorithmHit, StatesOf
  <1>3. CASE r.algorithm = "token-bucket"
    BY <1>3, TokenBucketType DEF EvaluateAlgorithmHit, StatesOf
  <1>4. CASE r.algorithm = "gcra"
    BY <1>4, GcraType DEF EvaluateAlgorithmHit, StatesOf
  <1> QED
    BY <1>1, <1>2, <1>3, <1>4 DEF Rules, AlgorithmNames

-----------------------------------------------------------------------------
(* Bans.  A hit reports the ban it stores, the record outlives the ban, and *)
(* while a ban runs every hit is blocked and leaves the ban as it is.      *)

BanKept(out, s, now) ==
    /\ out.hit.banUntil = out.state.banUntil
    /\ out.expiresAt >= out.state.banUntil
    /\ s.banUntil > now => out.state.banUntil = s.banUntil /\ out.hit.blocked

LEMMA ActiveBanNat ==
    ASSUME NEW r \in Rules, NEW now \in Nat, NEW over \in BOOLEAN,
           NEW s \in FixedStates \cup SlidingStates \cup TokenStates(r) \cup GcraStates \cup {NoState}
    PROVE  LET banUntil == ArmBan(r, now, ActiveBanUntil(s, now), over)
           IN  /\ banUntil \in Nat
               /\ s.banUntil > now => banUntil = s.banUntil
  BY SMT DEF ArmBan, ActiveBanUntil, FixedStates, SlidingStates, TokenStates, GcraStates,
             NoState, Rules

LEMMA FixedWindowBan ==
    ASSUME NEW r \in Rules, NEW now \in Nat, NEW s \in FixedStates \cup {NoState}
    PROVE  BanKept(FixedWindowHit(r, now, s), s, now)
  <1> DEFINE next == FixedState(r, now, s)
             out  == FixedWindowHit(r, now, s)
  <1>1. SameState(s, "fixed-window") = s
    BY DEF SameState, FixedStates, NoState
  <1>2. next.resetAt \in Nat /\ next.banUntil \in Nat
            /\ (s.banUntil > now => next.banUntil = s.banUntil)
    BY SMT DEF FixedState, WindowOpen, FixedStates, Rules, NoState, ActiveBanUntil, ArmBan
  <1>3. /\ out.state = next
        /\ out.hit.banUntil = next.banUntil
        /\ out.expiresAt = ExpiryFor(next.resetAt, next.banUntil)
        /\ out.hit.blocked = (next.banUntil > now \/ next.count > r.limit)
    BY <1>1 DEF FixedWindowHit, HitResult
  <1> HIDE DEF next
  <1>4. out.expiresAt >= out.state.banUntil
    BY <1>2, <1>3, SMT DEF ExpiryFor, Larger
  <1>5. s.banUntil > now => out.state.banUntil = s.banUntil /\ out.hit.blocked
    BY <1>2, <1>3
  <1> QED
    BY <1>3, <1>4, <1>5 DEF BanKept

LEMMA SlidingWindowBan ==
    ASSUME NEW r \in Rules, NEW now \in Nat, NEW s \in SlidingStates \cup {NoState}
    PROVE  BanKept(SlidingWindowHit(r, now, s), s, now)
  <1> DEFINE over == Estimated(r, now, SlidingPrevious(r, now, s), SlidingCurrent(r, now, s))
                         > r.limit
             banUntil == ArmBan(r, now, ActiveBanUntil(s, now), over)
             out == SlidingWindowHit(r, now, s)
  <1>1. SameState(s, "sliding-window") = s
    BY DEF SameState, SlidingStates, NoState
  <1>2. WindowStart(r, now) \in Nat /\ r.window \in Nat
    BY WindowStartNat DEF Rules
  <1>3. banUntil \in Nat /\ (s.banUntil > now => banUntil = s.banUntil)
    <2>1. over \in BOOLEAN
      OBVIOUS
    <2> HIDE DEF over
    <2> QED
      BY <2>1, ActiveBanNat
  <1>4. /\ out.state.banUntil = banUntil
        /\ out.hit.banUntil = banUntil
        /\ out.expiresAt = ExpiryFor(WindowStart(r, now) + 2 * r.window, banUntil)
        /\ out.hit.blocked = (banUntil > now \/ over)
    BY <1>1 DEF SlidingWindowHit, HitResult
  <1> HIDE DEF over, banUntil
  <1>5. out.expiresAt >= out.state.banUntil
    BY <1>2, <1>3, <1>4, SMT DEF ExpiryFor, Larger
  <1>6. s.banUntil > now => out.state.banUntil = s.banUntil /\ out.hit.blocked
    BY <1>3, <1>4
  <1> QED
    BY <1>4, <1>5, <1>6 DEF BanKept

LEMMA TokenBucketBan ==
    ASSUME NEW r \in Rules, NEW now \in Nat, NEW s \in TokenStates(r) \cup {NoState}
    PROVE  BanKept(TokenBucketHit(r, now, s), s, now)
  <1> DEFINE banned == ActiveBanUntil(s, now) > now
             short == ~banned /\ Refilled(r, now, s) < r.cost * r.window
             banUntil == ArmBan(r, now, ActiveBanUntil(s, now), short)
             out == TokenBucketHit(r, now, s)
             tokens == out.state.tokens
             resetAt == now + CeilDiv(Capacity(r) - tokens, r.limit)
  <1>1. SameState(s, "token-bucket") = s
    BY DEF SameState, TokenStates, NoState
  <1>2. Capacity(r) - tokens \in Nat
    BY TokenBucketType, CapacityNat, SMT DEF TokenStates
  <1>3. resetAt \in Nat
    BY <1>2, CeilDivNat, SMT DEF Rules
  <1>4. banUntil \in Nat /\ (s.banUntil > now => banUntil = s.banUntil)
    BY ActiveBanNat
  <1>5. /\ out.state.banUntil = banUntil
        /\ out.hit.banUntil = banUntil
        /\ out.expiresAt = ExpiryFor(resetAt, banUntil)
        /\ out.hit.blocked = (banUntil > now \/ short)
    BY <1>1 DEF TokenBucketHit, HitResult
  <1> HIDE DEF short, banUntil, resetAt
  <1>6. out.expiresAt >= out.state.banUntil
    BY <1>3, <1>4, <1>5, SMT DEF ExpiryFor, Larger
  <1>7. s.banUntil > now => out.state.banUntil = s.banUntil /\ out.hit.blocked
    BY <1>4, <1>5
  <1> QED
    BY <1>5, <1>6, <1>7 DEF BanKept

LEMMA GcraBan ==
    ASSUME NEW r \in Rules, NEW now \in Nat, NEW s \in GcraStates \cup {NoState}
    PROVE  BanKept(GcraHit(r, now, s), s, now)
  <1> DEFINE banned == ActiveBanUntil(s, now) > now
             allowAt == NextTat(r, now, Tat(r, now, s)) - Capacity(r)
             early == ~banned /\ now * r.limit < allowAt
             banUntil == ArmBan(r, now, ActiveBanUntil(s, now), early)
             out == GcraHit(r, now, s)
             used == Larger(out.state.tat - now * r.limit, 0)
             expiry == now + CeilDiv(Capacity(r) + used, r.limit)
  <1>1. SameState(s, "gcra") = s
    BY DEF SameState, GcraStates, NoState
  <1>2. Capacity(r) + used \in Nat
    BY GcraType, CapacityNat, SMT DEF GcraStates, Larger, Rules
  <1>3. expiry \in Nat
    BY <1>2, CeilDivNat, SMT DEF Rules
  <1>4. banUntil \in Nat /\ (s.banUntil > now => banUntil = s.banUntil)
    BY ActiveBanNat
  <1>5. /\ out.state.banUntil = banUntil
        /\ out.hit.banUntil = banUntil
        /\ out.expiresAt = ExpiryFor(expiry, banUntil)
        /\ out.hit.blocked = (banUntil > now \/ early)
    BY <1>1 DEF GcraHit, HitResult
  <1> HIDE DEF early, banUntil, expiry
  <1>6. out.expiresAt >= out.state.banUntil
    BY <1>3, <1>4, <1>5, SMT DEF ExpiryFor, Larger
  <1>7. s.banUntil > now => out.state.banUntil = s.banUntil /\ out.hit.blocked
    BY <1>4, <1>5
  <1> QED
    BY <1>5, <1>6, <1>7 DEF BanKept

\* Every stored ban is a natural number, 0 when there is none.
LEMMA BanUntilNat ==
    ASSUME NEW r \in Rules, NEW s \in StatesOf(r) \cup {NoState}
    PROVE  s.banUntil \in Nat
  <1>1. CASE s = NoState
    BY <1>1, SMT DEF NoState
  <1>2. CASE r.algorithm = "fixed-window" /\ s \in StatesOf(r)
    BY <1>2 DEF StatesOf, FixedStates
  <1>3. CASE r.algorithm = "sliding-window" /\ s \in StatesOf(r)
    BY <1>3 DEF StatesOf, SlidingStates
  <1>4. CASE r.algorithm = "token-bucket" /\ s \in StatesOf(r)
    BY <1>4 DEF StatesOf, TokenStates
  <1>5. CASE r.algorithm = "gcra" /\ s \in StatesOf(r)
    BY <1>5 DEF StatesOf, GcraStates
  <1> QED
    BY <1>1, <1>2, <1>3, <1>4, <1>5 DEF Rules, AlgorithmNames

LEMMA EvaluateBan ==
    ASSUME NEW r \in Rules, NEW now \in Nat, NEW s \in StatesOf(r) \cup {NoState}
    PROVE  BanKept(EvaluateAlgorithmHit(r, now, s), s, now)
  <1>1. CASE r.algorithm = "fixed-window"
    BY <1>1, FixedWindowBan DEF EvaluateAlgorithmHit, StatesOf
  <1>2. CASE r.algorithm = "sliding-window"
    BY <1>2, SlidingWindowBan DEF EvaluateAlgorithmHit, StatesOf
  <1>3. CASE r.algorithm = "token-bucket"
    BY <1>3, TokenBucketBan DEF EvaluateAlgorithmHit, StatesOf
  <1>4. CASE r.algorithm = "gcra"
    BY <1>4, GcraBan DEF EvaluateAlgorithmHit, StatesOf
  <1> QED
    BY <1>1, <1>2, <1>3, <1>4 DEF Rules, AlgorithmNames
-----------------------------------------------------------------------------
(* Division as the algorithms use it.                                      *)

LEMMA DivLess ==
    ASSUME NEW a \in Nat, NEW b \in Nat \ {0}, NEW c \in Nat
    PROVE  c > a \div b <=> a < c * b
  BY SMT

LEMMA CeilDivCovers ==
    ASSUME NEW a \in Nat, NEW b \in Nat \ {0}
    PROVE  CeilDiv(a, b) \in Nat /\ a <= CeilDiv(a, b) * b
  BY SMT DEF CeilDiv

-----------------------------------------------------------------------------
(* When a hit is blocked: while a ban runs, or when the algorithm itself   *)
(* finds the hit over its limit.                                           *)

SlidingCount(r, now, s) ==
    Estimated(r, now, SlidingPrevious(r, now, s), SlidingCurrent(r, now, s))

LEMMA FixedWindowBlocks ==
    ASSUME NEW r \in Rules, NEW now \in Nat, NEW s \in FixedStates \cup {NoState}
    PROVE  FixedWindowHit(r, now, s).hit.blocked
               <=> s.banUntil > now \/ FixedState(r, now, s).count > r.limit
  <1>1. SameState(s, "fixed-window") = s
    BY DEF SameState, FixedStates, NoState
  <1>2. s.banUntil \in Nat
    BY SMT DEF FixedStates, NoState
  <1> DEFINE over == FixedState(r, now, s).count > r.limit
             banUntil == ArmBan(r, now, ActiveBanUntil(s, now), over)
  <1>3. FixedState(r, now, s).banUntil = banUntil
    BY DEF FixedState
  <1>4. FixedWindowHit(r, now, s).hit.blocked = (banUntil > now \/ over)
    BY <1>1, <1>3 DEF FixedWindowHit, HitResult
  <1>5. over \in BOOLEAN
    OBVIOUS
  <1> HIDE DEF over
  <1>6. banUntil > now \/ over <=> s.banUntil > now \/ over
    BY <1>2, <1>5, SMT DEF ArmBan, ActiveBanUntil, Rules
  <1> QED
    BY <1>4, <1>6 DEF over

LEMMA SlidingWindowBlocks ==
    ASSUME NEW r \in Rules, NEW now \in Nat, NEW s \in SlidingStates \cup {NoState}
    PROVE  SlidingWindowHit(r, now, s).hit.blocked
               <=> s.banUntil > now \/ SlidingCount(r, now, s) > r.limit
  <1>1. SameState(s, "sliding-window") = s
    BY DEF SameState, SlidingStates, NoState
  <1> DEFINE over == SlidingCount(r, now, s) > r.limit
             banUntil == ArmBan(r, now, ActiveBanUntil(s, now), over)
  <1>2. SlidingWindowHit(r, now, s).hit.blocked = (banUntil > now \/ over)
    BY <1>1 DEF SlidingWindowHit, HitResult, SlidingCount
  <1>3. over \in BOOLEAN
    OBVIOUS
  <1> HIDE DEF over
  <1>4. banUntil > now \/ over <=> s.banUntil > now \/ over
    BY <1>3, SMT DEF ArmBan, ActiveBanUntil, SlidingStates, NoState, Rules
  <1> QED
    BY <1>2, <1>4 DEF over

LEMMA TokenBucketBlocks ==
    ASSUME NEW r \in Rules, NEW now \in Nat, NEW s \in TokenStates(r) \cup {NoState}
    PROVE  TokenBucketHit(r, now, s).hit.blocked
               <=> s.banUntil > now \/ Refilled(r, now, s) < r.cost * r.window
  <1>1. SameState(s, "token-bucket") = s
    BY DEF SameState, TokenStates, NoState
  <1>2. s.banUntil \in Nat
    BY SMT DEF TokenStates, NoState
  <1> DEFINE short == Refilled(r, now, s) < r.cost * r.window
             banned == ActiveBanUntil(s, now) > now
             banUntil == ArmBan(r, now, ActiveBanUntil(s, now), ~banned /\ short)
  <1>3. TokenBucketHit(r, now, s).hit.blocked = (banUntil > now \/ (~banned /\ short))
    BY <1>1 DEF TokenBucketHit, HitResult
  <1>4. short \in BOOLEAN
    OBVIOUS
  <1> HIDE DEF short
  <1>5. banUntil > now \/ (~banned /\ short) <=> s.banUntil > now \/ short
    BY <1>2, <1>4, SMT DEF ArmBan, ActiveBanUntil, Rules
  <1> QED
    BY <1>3, <1>5 DEF short

LEMMA GcraBlocks ==
    ASSUME NEW r \in Rules, NEW now \in Nat, NEW s \in GcraStates \cup {NoState}
    PROVE  GcraHit(r, now, s).hit.blocked
               <=> s.banUntil > now
                     \/ now * r.limit < NextTat(r, now, Tat(r, now, s)) - Capacity(r)
  <1>1. SameState(s, "gcra") = s
    BY DEF SameState, GcraStates, NoState
  <1>2. s.banUntil \in Nat
    BY SMT DEF GcraStates, NoState
  <1> DEFINE early == now * r.limit < NextTat(r, now, Tat(r, now, s)) - Capacity(r)
             banned == ActiveBanUntil(s, now) > now
             banUntil == ArmBan(r, now, ActiveBanUntil(s, now), ~banned /\ early)
  <1>3. GcraHit(r, now, s).hit.blocked = (banUntil > now \/ (~banned /\ early))
    BY <1>1 DEF GcraHit, HitResult
  <1>4. early \in BOOLEAN
    OBVIOUS
  <1> HIDE DEF early
  <1>5. banUntil > now \/ (~banned /\ early) <=> s.banUntil > now \/ early
    BY <1>2, <1>4, SMT DEF ArmBan, ActiveBanUntil, Rules
  <1> QED
    BY <1>3, <1>5 DEF early
-----------------------------------------------------------------------------
(* `remaining` is exact: after an admitted hit, another at the same time is *)
(* blocked if and only if its cost exceeds what the first one reported.    *)

ExactAfter(r, now, first, next) ==
    ~first.hit.blocked => (next.hit.blocked <=> r.cost > first.hit.remaining)

LEMMA FixedWindowExact ==
    ASSUME NEW r \in Rules, NEW now \in Nat, NEW s \in FixedStates \cup {NoState}
    PROVE  ExactAfter(r, now, FixedWindowHit(r, now, s),
                      FixedWindowHit(r, now, FixedWindowHit(r, now, s).state))
  <1> DEFINE out == FixedWindowHit(r, now, s)
             one == FixedState(r, now, s)
             two == FixedState(r, now, one)
  <1>1. SameState(s, "fixed-window") = s
    BY DEF SameState, FixedStates, NoState
  <1>2. out.state = one /\ out.hit.remaining = Larger(r.limit - one.count, 0)
    BY <1>1 DEF FixedWindowHit, HitResult
  <1>3. one \in FixedStates
    BY <1>2, FixedWindowType
  <1>4. one.resetAt > now
    BY SMT DEF FixedState, WindowOpen, FixedStates, NoState, Rules
  <1>5. two.count = one.count + r.cost
    BY <1>3, <1>4, SMT DEF FixedState, WindowOpen, FixedStates
  <1>6. ~out.hit.blocked => one.count <= r.limit /\ ~(one.banUntil > now)
    <2>1. out.hit.blocked = (one.banUntil > now \/ one.count > r.limit)
      BY <1>1 DEF FixedWindowHit, HitResult
    <2>2. one.count \in Nat /\ r.limit \in Nat
      BY <1>3 DEF FixedStates, Rules
    <2>3. ~out.hit.blocked => ~(one.banUntil > now) /\ ~(one.count > r.limit)
      BY <2>1
    <2> HIDE DEF one, out
    <2>4. ~(one.count > r.limit) => one.count <= r.limit
      BY <2>2, SMT
    <2> QED
      BY <2>3, <2>4
  <1>7. FixedWindowHit(r, now, one).hit.blocked <=> one.banUntil > now \/ two.count > r.limit
    BY <1>3, FixedWindowBlocks
  <1>8. one.count \in Nat
    BY <1>3 DEF FixedStates
  <1> HIDE DEF one, two, out
  <1> QED
    BY <1>2, <1>5, <1>6, <1>7, <1>8, SMT DEF ExactAfter, Larger, Rules, out

\* In the window it was counted in, one more hit raises the estimate by its cost.
LEMMA SlidingEstimateNext ==
    ASSUME NEW r \in Rules, NEW now \in Nat, NEW s \in SlidingStates \cup {NoState},
           NEW t \in SlidingStates, t = SlidingWindowHit(r, now, s).state
    PROVE  /\ SlidingCount(r, now, s) \in Nat
           /\ SlidingCount(r, now, t) = SlidingCount(r, now, s) + r.cost
  <1>1. SameState(s, "sliding-window") = s
    BY DEF SameState, SlidingStates, NoState
  <1> DEFINE previous == SlidingPrevious(r, now, s)
             current == SlidingCurrent(r, now, s)
             w == WindowStart(r, now)
  <1>2. /\ t.previousCount = previous
        /\ t.currentCount = current
        /\ t.windowStart = w
    BY <1>1 DEF SlidingWindowHit
  <1>3. SlidingPrevious(r, now, t) = previous
    <2>1. t.algorithm = "sliding-window" /\ t.windowStart = WindowStart(r, now)
      BY <1>2 DEF SlidingStates
    <2>2. WindowStart(r, now) # WindowStart(r, now) - r.window
      BY WindowStartNat, SMT DEF Rules
    <2>3. SlidingPrevious(r, now, t) = t.previousCount
      BY <2>1, <2>2 DEF SlidingPrevious
    <2> QED
      BY <1>2, <2>3
  <1>4. SlidingCurrent(r, now, t) = r.cost + current
    BY <1>2 DEF SlidingCurrent, SlidingStates
  <1>5. previous \in Nat /\ current \in Nat /\ w \in Nat /\ w <= now /\ now < w + r.window
    BY <1>2, WindowStartNat DEF SlidingStates
  <1> HIDE DEF previous, current, w
  <1>6. (previous * (r.window - (now - w))) \div r.window \in Nat
    <2>1. r.window - (now - w) \in Nat /\ r.window \in Nat \ {0}
      BY <1>5, SMT DEF Rules
    <2>2. previous * (r.window - (now - w)) \in Nat
      BY <1>5, <2>1, SMT
    <2> HIDE DEF w
    <2>3. ASSUME NEW a \in Nat, NEW b \in Nat \ {0} PROVE a \div b \in Nat
      BY SMT
    <2> QED
      BY <2>1, <2>2, <2>3
  <1>7. r.cost \in Nat
    BY DEF Rules
  <1> DEFINE tail == (previous * (r.window - (now - w))) \div r.window
  <1>8. /\ SlidingCount(r, now, s) = current + tail
        /\ SlidingCount(r, now, t) = (r.cost + current) + tail
    BY <1>3, <1>4 DEF SlidingCount, Estimated, previous, current, w
  <1> HIDE DEF tail
  <1>9. tail \in Nat
    BY <1>6 DEF tail
  <1> QED
    BY <1>5, <1>7, <1>8, <1>9, SMT

LEMMA SlidingWindowExact ==
    ASSUME NEW r \in Rules, NEW now \in Nat, NEW s \in SlidingStates \cup {NoState}
    PROVE  ExactAfter(r, now, SlidingWindowHit(r, now, s),
                      SlidingWindowHit(r, now, SlidingWindowHit(r, now, s).state))
  <1> DEFINE out == SlidingWindowHit(r, now, s)
             t == out.state
  <1>1. SameState(s, "sliding-window") = s
    BY DEF SameState, SlidingStates, NoState
  <1>2. t \in SlidingStates
    BY SlidingWindowType
  <1>3. /\ SlidingCount(r, now, s) \in Nat
        /\ SlidingCount(r, now, t) = SlidingCount(r, now, s) + r.cost
    BY <1>2, SlidingEstimateNext
  <1>4. out.hit.remaining = Larger(r.limit - SlidingCount(r, now, s), 0)
    BY <1>1 DEF SlidingWindowHit, HitResult, SlidingCount
  <1>5. out.hit.blocked = (t.banUntil > now \/ SlidingCount(r, now, s) > r.limit)
    BY <1>1 DEF SlidingWindowHit, HitResult, SlidingCount
  <1>6. SlidingWindowHit(r, now, t).hit.blocked
            <=> t.banUntil > now \/ SlidingCount(r, now, t) > r.limit
    BY <1>2, SlidingWindowBlocks
  <1> DEFINE estimate == SlidingCount(r, now, s)
  <1>7. r.limit \in Nat /\ r.cost \in Nat
    BY DEF Rules
  <1>8. /\ estimate \in Nat
        /\ SlidingCount(r, now, t) = estimate + r.cost
        /\ out.hit.remaining = Larger(r.limit - estimate, 0)
        /\ out.hit.blocked = (t.banUntil > now \/ estimate > r.limit)
    BY <1>3, <1>4, <1>5
  <1>9. ~out.hit.blocked => ~(t.banUntil > now) /\ ~(estimate > r.limit)
    BY <1>8
  <1> HIDE DEF out, estimate
  <1>10. ~(estimate > r.limit)
             => (estimate + r.cost > r.limit <=> r.cost > Larger(r.limit - estimate, 0))
    BY <1>7, <1>8, SMT DEF Larger
  <1> QED
    BY <1>6, <1>8, <1>9, <1>10 DEF ExactAfter, out

\* A full bucket at most, and nothing refills in no time.
LEMMA RefilledRange ==
    ASSUME NEW r \in Rules, NEW now \in Nat, NEW s \in TokenStates(r) \cup {NoState}
    PROVE  /\ Refilled(r, now, s) \in 0 .. Capacity(r)
           /\ s # NoState /\ s.updatedAt = now => Refilled(r, now, s) = s.tokens
  <1>1. Capacity(r) \in Nat
    BY CapacityNat
  <1>2. CASE s = NoState
    BY <1>1, <1>2, SMT DEF Refilled, NoState
  <1>3. CASE s \in TokenStates(r)
    <2>1. s.algorithm = "token-bucket" /\ s.tokens \in 0 .. Capacity(r) /\ s.updatedAt \in Nat
      BY <1>3 DEF TokenStates
    <2>2. Refilled(r, now, s)
              = Smaller(Capacity(r), s.tokens + Larger(now - s.updatedAt, 0) * r.limit)
      BY <2>1 DEF Refilled
    <2>3. Larger(now - s.updatedAt, 0) * r.limit \in Nat
              /\ (s.updatedAt = now => Larger(now - s.updatedAt, 0) * r.limit = 0)
      BY <2>1, SMT DEF Larger, Rules
    <2> HIDE DEF TokenStates
    <2> QED
      BY <1>1, <2>1, <2>2, <2>3, SMT DEF Smaller
  <1> QED
    BY <1>2, <1>3

LEMMA TokenBucketExact ==
    ASSUME NEW r \in Rules, NEW now \in Nat, NEW s \in TokenStates(r) \cup {NoState}
    PROVE  ExactAfter(r, now, TokenBucketHit(r, now, s),
                      TokenBucketHit(r, now, TokenBucketHit(r, now, s).state))
  <1> DEFINE out == TokenBucketHit(r, now, s)
             t == out.state
  <1>1. t \in TokenStates(r) /\ t.updatedAt = now /\ out.hit.remaining = t.tokens \div r.window
    BY TokenBucketType DEF TokenBucketHit, HitResult
  <1>2. t.tokens \in Nat /\ t # NoState
    BY <1>1, CapacityNat, SMT DEF TokenStates, NoState
  <1>3. Refilled(r, now, t) = t.tokens
    BY <1>1, <1>2, RefilledRange
  <1>4. TokenBucketHit(r, now, t).hit.blocked
            <=> t.banUntil > now \/ Refilled(r, now, t) < r.cost * r.window
    BY <1>1, TokenBucketBlocks
  <1>5. ~out.hit.blocked => ~(t.banUntil > now)
    BY DEF TokenBucketHit, HitResult
  <1>6. r.cost > t.tokens \div r.window <=> t.tokens < r.cost * r.window
    BY <1>2, DivLess DEF Rules
  <1> HIDE DEF out
  <1> QED
    BY <1>1, <1>3, <1>4, <1>5, <1>6 DEF ExactAfter, out

LEMMA GcraExact ==
    ASSUME NEW r \in Rules, NEW now \in Nat, NEW s \in GcraStates \cup {NoState}
    PROVE  ExactAfter(r, now, GcraHit(r, now, s),
                      GcraHit(r, now, GcraHit(r, now, s).state))
  <1> DEFINE out == GcraHit(r, now, s)
             t == out.state
             price == r.window * r.cost
             present == now * r.limit
             used == Larger(t.tat - present, 0)
  <1>1. SameState(s, "gcra") = s
    BY DEF SameState, GcraStates, NoState
  <1>2. t \in GcraStates /\ t.tat \in Nat /\ Tat(r, now, t) = t.tat
    BY GcraType DEF GcraStates, Tat
  <1>3. /\ price \in Nat /\ present \in Nat /\ Capacity(r) \in Nat /\ r.window \in Nat \ {0}
        /\ r.cost \in Nat /\ price = r.cost * r.window
    BY CapacityNat, SMT DEF Rules
  <1>4. ~out.hit.blocked => ~(t.banUntil > now)
    BY DEF GcraHit, HitResult
  <1>5. ~out.hit.blocked => /\ t.tat = NextTat(r, now, Tat(r, now, s))
                            /\ ~(present < t.tat - Capacity(r))
    <2>1. ~out.hit.blocked => ~(s.banUntil > now)
              /\ ~(present < NextTat(r, now, Tat(r, now, s)) - Capacity(r))
      BY GcraBlocks
    <2>2. ~(s.banUntil > now) => ~(ActiveBanUntil(s, now) > now)
      BY SMT DEF ActiveBanUntil
    <2> QED
      BY <1>1, <2>1, <2>2 DEF GcraHit
  <1>6. out.hit.remaining = Larger((Capacity(r) - used) \div r.window, 0)
    BY DEF GcraHit, HitResult
  <1>7. GcraHit(r, now, t).hit.blocked
            <=> t.banUntil > now \/ present < NextTat(r, now, t.tat) - Capacity(r)
    BY <1>2, GcraBlocks
  <1>8. Tat(r, now, s) \in Nat
    BY <1>3, SMT DEF Tat, GcraStates, NoState
  <1>9. NextTat(r, now, Tat(r, now, s)) >= present
    BY <1>3, <1>8, SMT DEF NextTat, Larger
  <1>10. NextTat(r, now, t.tat) = Larger(t.tat, present) + price
    BY DEF NextTat
  <1>11. ~out.hit.blocked => used = t.tat - present /\ Capacity(r) - used \in Nat
    <2> HIDE DEF out, price, present
    <2> QED
      BY <1>2, <1>3, <1>5, <1>9, SMT DEF Larger
  <1>12. Capacity(r) - used \in Nat =>
            /\ (Capacity(r) - used) \div r.window \in Nat
            /\ r.cost > (Capacity(r) - used) \div r.window <=> Capacity(r) - used < price
    <2> HIDE DEF used, price
    <2>1. ASSUME NEW a \in Nat PROVE a \div r.window \in Nat
      BY <1>3, SMT
    <2> QED
      BY <1>3, <2>1, DivLess
  <1>13. Capacity(r) - used \in Nat => (r.cost > out.hit.remaining <=> Capacity(r) - used < price)
    <2> DEFINE q == (Capacity(r) - used) \div r.window
    <2>1. out.hit.remaining = Larger(q, 0)
      BY <1>6
    <2>2. q \in Nat => Larger(q, 0) = q
      <3> HIDE DEF q
      <3> QED
        BY SMT DEF Larger
    <2> QED
      BY <1>12, <2>1, <2>2
  <1> SUFFICES ASSUME ~out.hit.blocked
               PROVE  GcraHit(r, now, t).hit.blocked <=> r.cost > out.hit.remaining
    BY DEF ExactAfter
  <1>14. t.tat >= present
    BY <1>5, <1>9
  <1>15. present < (Larger(t.tat, present) + price) - Capacity(r)
             <=> Capacity(r) - (t.tat - present) < price
    <2> HIDE DEF out, price, present
    <2> QED
      BY <1>2, <1>3, <1>14, SMT DEF Larger
  <1> HIDE DEF out, price, present, used
  <1> QED
    BY <1>4, <1>7, <1>10, <1>11, <1>13, <1>15

\* `remaining` is exact for every algorithm, rule, time and stored state.
LEMMA EvaluateExact ==
    ASSUME NEW r \in Rules, NEW now \in Nat, NEW s \in StatesOf(r) \cup {NoState}
    PROVE  ExactAfter(r, now, EvaluateAlgorithmHit(r, now, s),
                      EvaluateAlgorithmHit(r, now, EvaluateAlgorithmHit(r, now, s).state))
  <1>1. CASE r.algorithm = "fixed-window"
    BY <1>1, FixedWindowExact DEF EvaluateAlgorithmHit, StatesOf
  <1>2. CASE r.algorithm = "sliding-window"
    BY <1>2, SlidingWindowExact DEF EvaluateAlgorithmHit, StatesOf
  <1>3. CASE r.algorithm = "token-bucket"
    BY <1>3, TokenBucketExact DEF EvaluateAlgorithmHit, StatesOf
  <1>4. CASE r.algorithm = "gcra"
    BY <1>4, GcraExact DEF EvaluateAlgorithmHit, StatesOf
  <1> QED
    BY <1>1, <1>2, <1>3, <1>4 DEF Rules, AlgorithmNames
-----------------------------------------------------------------------------
(* The expiry an algorithm gives a record is late enough: Outlives(r, s, e) *)
(* says that state s means nothing to a hit of r at e or later.  (A gcra   *)
(* record is kept a whole burst longer than that.)                         *)

Outlives(r, s, e) ==
    /\ s.banUntil <= e
    /\ r.algorithm = "fixed-window"   => s.resetAt <= e
    /\ r.algorithm = "sliding-window" => s.windowStart + 2 * r.window <= e
    /\ r.algorithm = "token-bucket"   => Capacity(r) - s.tokens <= (e - s.updatedAt) * r.limit
    /\ r.algorithm = "gcra"           => s.tat + Capacity(r) <= e * r.limit

LEMMA FixedWindowOutlives ==
    ASSUME NEW r \in Rules, NEW now \in Nat, NEW s \in FixedStates \cup {NoState},
           r.algorithm = "fixed-window"
    PROVE  Outlives(r, FixedWindowHit(r, now, s).state, FixedWindowHit(r, now, s).expiresAt)
  <1> DEFINE t == FixedWindowHit(r, now, s).state
  <1>1. t \in FixedStates
    BY FixedWindowType
  <1>2. FixedWindowHit(r, now, s).expiresAt = ExpiryFor(t.resetAt, t.banUntil)
    BY DEF FixedWindowHit
  <1> HIDE DEF t
  <1>3. t.resetAt <= ExpiryFor(t.resetAt, t.banUntil)
            /\ t.banUntil <= ExpiryFor(t.resetAt, t.banUntil)
    BY <1>1, SMT DEF FixedStates, ExpiryFor, Larger
  <1> QED
    BY <1>2, <1>3 DEF Outlives, t

LEMMA SlidingWindowOutlives ==
    ASSUME NEW r \in Rules, NEW now \in Nat, NEW s \in SlidingStates \cup {NoState},
           r.algorithm = "sliding-window"
    PROVE  Outlives(r, SlidingWindowHit(r, now, s).state, SlidingWindowHit(r, now, s).expiresAt)
  <1> DEFINE t == SlidingWindowHit(r, now, s).state
             e == ExpiryFor(t.windowStart + 2 * r.window, t.banUntil)
  <1>1. t \in SlidingStates
    BY SlidingWindowType
  <1>2. SlidingWindowHit(r, now, s).expiresAt = e
    BY DEF SlidingWindowHit
  <1> HIDE DEF t
  <1>3. t.windowStart + 2 * r.window <= e /\ t.banUntil <= e
    BY <1>1, SMT DEF SlidingStates, ExpiryFor, Larger, Rules
  <1> HIDE DEF e
  <1> QED
    BY <1>2, <1>3 DEF Outlives, t

LEMMA TokenBucketOutlives ==
    ASSUME NEW r \in Rules, NEW now \in Nat, NEW s \in TokenStates(r) \cup {NoState},
           r.algorithm = "token-bucket"
    PROVE  Outlives(r, TokenBucketHit(r, now, s).state, TokenBucketHit(r, now, s).expiresAt)
  <1> DEFINE t == TokenBucketHit(r, now, s).state
             missing == Capacity(r) - t.tokens
             wait == CeilDiv(missing, r.limit)
             e == ExpiryFor(now + wait, t.banUntil)
  <1>1. t \in TokenStates(r) /\ t.updatedAt = now
    BY TokenBucketType DEF TokenBucketHit
  <1>2. TokenBucketHit(r, now, s).expiresAt = e
    BY DEF TokenBucketHit
  <1> HIDE DEF t
  <1>3. missing \in Nat /\ t.banUntil \in Nat /\ r.limit \in Nat \ {0}
    BY <1>1, CapacityNat, SMT DEF TokenStates, Rules
  <1> HIDE DEF missing
  <1>4. wait \in Nat /\ missing <= wait * r.limit
    BY <1>3, CeilDivCovers
  <1> HIDE DEF wait
  <1>5. e \in Nat /\ now + wait <= e /\ t.banUntil <= e
    BY <1>3, <1>4, SMT DEF ExpiryFor, Larger
  <1> HIDE DEF e
  <1>6. wait * r.limit <= (e - now) * r.limit
    BY <1>3, <1>4, <1>5, SMT
  <1>7. missing <= (e - now) * r.limit
    BY <1>3, <1>4, <1>5, <1>6, SMT
  <1> QED
    BY <1>1, <1>2, <1>5, <1>7 DEF Outlives, t, missing

LEMMA GcraOutlives ==
    ASSUME NEW r \in Rules, NEW now \in Nat, NEW s \in GcraStates \cup {NoState},
           r.algorithm = "gcra"
    PROVE  Outlives(r, GcraHit(r, now, s).state, GcraHit(r, now, s).expiresAt)
  <1> DEFINE t == GcraHit(r, now, s).state
             used == Larger(t.tat - now * r.limit, 0)
             wait == CeilDiv(Capacity(r) + used, r.limit)
             e == ExpiryFor(now + wait, t.banUntil)
  <1>1. t \in GcraStates
    BY GcraType
  <1>2. GcraHit(r, now, s).expiresAt = e
    BY DEF GcraHit
  <1> HIDE DEF t
  <1>3. t.tat \in Nat /\ t.banUntil \in Nat /\ r.limit \in Nat \ {0} /\ Capacity(r) \in Nat
    BY <1>1, CapacityNat DEF GcraStates, Rules
  <1>4. used \in Nat /\ t.tat <= used + now * r.limit
    BY <1>3, SMT DEF Larger
  <1> HIDE DEF used
  <1>5. wait \in Nat /\ Capacity(r) + used <= wait * r.limit
    <2>1. Capacity(r) + used \in Nat
      BY <1>3, <1>4, SMT
    <2> QED
      BY <1>3, <2>1, CeilDivCovers
  <1> HIDE DEF wait
  <1>6. e \in Nat /\ now + wait <= e /\ t.banUntil <= e
    BY <1>3, <1>5, SMT DEF ExpiryFor, Larger
  <1> HIDE DEF e
  <1>7. (now + wait) * r.limit <= e * r.limit /\ (now + wait) * r.limit = now * r.limit + wait * r.limit
    BY <1>3, <1>5, <1>6, SMT
  <1>8. t.tat + Capacity(r) <= e * r.limit
    BY <1>3, <1>4, <1>5, <1>6, <1>7, SMT
  <1> QED
    BY <1>2, <1>6, <1>8 DEF Outlives, t

LEMMA EvaluateOutlives ==
    ASSUME NEW r \in Rules, NEW now \in Nat, NEW s \in StatesOf(r) \cup {NoState}
    PROVE  Outlives(r, EvaluateAlgorithmHit(r, now, s).state,
                    EvaluateAlgorithmHit(r, now, s).expiresAt)
  <1>1. CASE r.algorithm = "fixed-window"
    BY <1>1, FixedWindowOutlives DEF EvaluateAlgorithmHit, StatesOf
  <1>2. CASE r.algorithm = "sliding-window"
    BY <1>2, SlidingWindowOutlives DEF EvaluateAlgorithmHit, StatesOf
  <1>3. CASE r.algorithm = "token-bucket"
    BY <1>3, TokenBucketOutlives DEF EvaluateAlgorithmHit, StatesOf
  <1>4. CASE r.algorithm = "gcra"
    BY <1>4, GcraOutlives DEF EvaluateAlgorithmHit, StatesOf
  <1> QED
    BY <1>1, <1>2, <1>3, <1>4 DEF Rules, AlgorithmNames

\* From its expiry on, a state gets the answer a key without a record gets.
LEMMA FixedWindowLapsed ==
    ASSUME NEW r \in Rules, NEW now \in Nat, NEW s \in FixedStates, NEW e \in Nat,
           r.algorithm = "fixed-window", Outlives(r, s, e), e <= now
    PROVE  FixedWindowHit(r, now, s) = FixedWindowHit(r, now, NoState)
  <1>1. SameState(s, "fixed-window") = s /\ SameState(NoState, "fixed-window") = NoState
    BY DEF SameState, FixedStates, NoState
  <1>2. s.banUntil <= now /\ s.resetAt <= now /\ s.banUntil \in Nat /\ s.resetAt \in Nat
    BY SMT DEF Outlives, FixedStates
  <1>3. ~WindowOpen(s, now) /\ ~WindowOpen(NoState, now)
    BY <1>2, SMT DEF WindowOpen, NoState
  <1>4. ActiveBanUntil(s, now) = 0 /\ ActiveBanUntil(NoState, now) = 0
    BY <1>2, SMT DEF ActiveBanUntil, NoState
  <1>5. FixedState(r, now, s) = FixedState(r, now, NoState)
    BY <1>3, <1>4 DEF FixedState
  <1> QED
    BY <1>1, <1>5 DEF FixedWindowHit

LEMMA SlidingWindowLapsed ==
    ASSUME NEW r \in Rules, NEW now \in Nat, NEW s \in SlidingStates, NEW e \in Nat,
           r.algorithm = "sliding-window", Outlives(r, s, e), e <= now
    PROVE  SlidingWindowHit(r, now, s) = SlidingWindowHit(r, now, NoState)
  <1>1. SameState(s, "sliding-window") = s /\ SameState(NoState, "sliding-window") = NoState
    BY DEF SameState, SlidingStates, NoState
  <1>2. /\ s.banUntil <= now /\ s.windowStart + 2 * r.window <= now
        /\ s.banUntil \in Nat /\ s.windowStart \in Nat /\ r.window \in Nat \ {0}
    BY SMT DEF Outlives, SlidingStates, Rules
  <1>3. s.windowStart # WindowStart(r, now) /\ s.windowStart # WindowStart(r, now) - r.window
    BY <1>2, WindowStartNat, SMT
  <1>4. ActiveBanUntil(s, now) = 0 /\ ActiveBanUntil(NoState, now) = 0
    BY <1>2, SMT DEF ActiveBanUntil, NoState
  <1>5. SlidingPrevious(r, now, s) = 0 /\ SlidingPrevious(r, now, NoState) = 0
    <2>1. NoState.algorithm # "sliding-window" /\ s.algorithm = "sliding-window"
      BY DEF NoState, SlidingStates
    <2> QED
      BY <1>3, <2>1 DEF SlidingPrevious
  <1>6. SlidingCurrent(r, now, s) = SlidingCurrent(r, now, NoState)
    BY <1>3 DEF SlidingCurrent, NoState
  <1> QED
    BY <1>1, <1>4, <1>5, <1>6 DEF SlidingWindowHit

LEMMA RefilledLapsed ==
    ASSUME NEW r \in Rules, NEW now \in Nat, NEW s \in TokenStates(r), NEW e \in Nat,
           r.algorithm = "token-bucket", Outlives(r, s, e), e <= now
    PROVE  Refilled(r, now, s) = Capacity(r) /\ Refilled(r, now, NoState) = Capacity(r)
  <1>1. /\ s.algorithm = "token-bucket" /\ s.tokens \in Nat /\ s.updatedAt \in Nat
        /\ r.limit \in Nat \ {0} /\ Capacity(r) \in Nat
    BY CapacityNat, SMT DEF TokenStates, Rules
  <1>2. Capacity(r) - s.tokens <= (e - s.updatedAt) * r.limit
    BY DEF Outlives
  <1> DEFINE elapsed == Larger(now - s.updatedAt, 0)
  <1>3. elapsed \in Nat /\ e - s.updatedAt <= elapsed
    BY <1>1, SMT DEF Larger
  <1> HIDE DEF elapsed
  <1>4. (e - s.updatedAt) * r.limit <= elapsed * r.limit
    BY <1>1, <1>3, SMT
  <1>5. Smaller(Capacity(r), s.tokens + elapsed * r.limit) = Capacity(r)
    BY <1>1, <1>2, <1>3, <1>4, SMT DEF Smaller
  <1> QED
    BY <1>1, <1>5 DEF Refilled, elapsed, NoState

LEMMA TokenBucketLapsed ==
    ASSUME NEW r \in Rules, NEW now \in Nat, NEW s \in TokenStates(r), NEW e \in Nat,
           r.algorithm = "token-bucket", Outlives(r, s, e), e <= now
    PROVE  TokenBucketHit(r, now, s) = TokenBucketHit(r, now, NoState)
  <1>1. SameState(s, "token-bucket") = s /\ SameState(NoState, "token-bucket") = NoState
    BY DEF SameState, TokenStates, NoState
  <1>2. s.banUntil <= now /\ s.banUntil \in Nat
    BY SMT DEF Outlives, TokenStates
  <1>3. ActiveBanUntil(s, now) = 0 /\ ActiveBanUntil(NoState, now) = 0
    BY <1>2, SMT DEF ActiveBanUntil, NoState
  <1>4. Refilled(r, now, s) = Refilled(r, now, NoState)
    BY RefilledLapsed
  <1> QED
    BY <1>1, <1>3, <1>4 DEF TokenBucketHit

\* For gcra the answers are the same; the refused arrival times stored may differ,
\* as both lie in the past.
LEMMA GcraLapsed ==
    ASSUME NEW r \in Rules, NEW now \in Nat, NEW s \in GcraStates, NEW e \in Nat,
           r.algorithm = "gcra", Outlives(r, s, e), e <= now
    PROVE  GcraHit(r, now, s).hit = GcraHit(r, now, NoState).hit
  <1> DEFINE present == now * r.limit
             early == present < NextTat(r, now, Tat(r, now, s)) - Capacity(r)
  <1>1. SameState(s, "gcra") = s /\ SameState(NoState, "gcra") = NoState
    BY DEF SameState, GcraStates, NoState
  <1>2. s.banUntil <= now /\ s.banUntil \in Nat /\ s.tat \in Nat /\ s.tat <= e * r.limit
            /\ r.limit \in Nat
    BY CapacityNat, SMT DEF Outlives, GcraStates, Rules
  <1>3. ActiveBanUntil(s, now) = 0 /\ ActiveBanUntil(NoState, now) = 0
    BY <1>2, SMT DEF ActiveBanUntil, NoState
  <1>4. e * r.limit <= present /\ present \in Nat
    BY <1>2, SMT
  <1> HIDE DEF present
  <1>5. s.tat <= present
    <2>1. e * r.limit \in Nat
      BY <1>2, SMT
    <2> QED
      BY <1>2, <1>4, <2>1, SMT
  <1>6. Tat(r, now, s) = s.tat /\ Tat(r, now, NoState) = present
    BY DEF Tat, GcraStates, NoState, present
  <1>7. Larger(s.tat, present) = present /\ Larger(present, present) = present
    <2>1. ASSUME NEW a \in Nat, NEW b \in Nat, a <= b PROVE Larger(a, b) = b
      BY <2>1, SMT DEF Larger
    <2>2. present <= present
      BY <1>4, SMT
    <2> QED
      BY <1>2, <1>4, <1>5, <2>1, <2>2
  <1>8. NextTat(r, now, s.tat) = NextTat(r, now, present)
    BY <1>7 DEF NextTat, present
  <1>9. Larger(s.tat - present, 0) = 0 /\ Larger(present - present, 0) = 0
    BY <1>2, <1>4, <1>5, SMT DEF Larger
  <1>10. ~(0 > now)
    BY SMT
  <1>11. CASE early
    BY <1>1, <1>3, <1>6, <1>8, <1>9, <1>10, <1>11 DEF GcraHit, HitResult, present
  <1>12. CASE ~early
    BY <1>1, <1>3, <1>6, <1>8, <1>10, <1>12 DEF GcraHit, HitResult, present
  <1> QED
    BY <1>11, <1>12

LEMMA EvaluateLapsed ==
    ASSUME NEW r \in Rules, NEW now \in Nat, NEW s \in StatesOf(r), NEW e \in Nat,
           Outlives(r, s, e), e <= now
    PROVE  EvaluateAlgorithmHit(r, now, s).hit = EvaluateAlgorithmHit(r, now, NoState).hit
  <1>1. CASE r.algorithm = "fixed-window"
    BY <1>1, FixedWindowLapsed DEF EvaluateAlgorithmHit, StatesOf
  <1>2. CASE r.algorithm = "sliding-window"
    BY <1>2, SlidingWindowLapsed DEF EvaluateAlgorithmHit, StatesOf
  <1>3. CASE r.algorithm = "token-bucket"
    BY <1>3, TokenBucketLapsed DEF EvaluateAlgorithmHit, StatesOf
  <1>4. CASE r.algorithm = "gcra"
    BY <1>4, GcraLapsed DEF EvaluateAlgorithmHit, StatesOf
  <1> QED
    BY <1>1, <1>2, <1>3, <1>4 DEF Rules, AlgorithmNames
-----------------------------------------------------------------------------
(* The wait a blocked hit is told is long enough where the code computes it *)
(* from the state it stores.                                               *)

LEMMA FixedWindowHonest ==
    ASSUME NEW r \in Rules, NEW now \in Nat, NEW s \in FixedStates \cup {NoState},
           r.cost <= r.limit, FixedWindowHit(r, now, s).hit.blocked,
           NEW later, later = now + FixedWindowHit(r, now, s).hit.retryAfter
    PROVE  later \in Nat /\ ~FixedWindowHit(r, later, FixedWindowHit(r, now, s).state).hit.blocked
  <1> DEFINE out == FixedWindowHit(r, now, s)
             t == out.state
  <1>1. t \in FixedStates
    BY FixedWindowType
  <1>2. t.resetAt \in Nat /\ t.banUntil \in Nat
    BY <1>1 DEF FixedStates
  <1>3. out.hit.retryAfter = Larger(t.resetAt, t.banUntil) - now
    BY DEF FixedWindowHit, HitResult
  <1> HIDE DEF t, out
  <1>4. later = Larger(t.resetAt, t.banUntil)
    BY <1>2, <1>3, SMT DEF Larger, out
  <1>5. later \in Nat /\ t.resetAt <= later /\ t.banUntil <= later
    BY <1>2, <1>4, SMT DEF Larger
  <1>6. ~(t.banUntil > later) /\ ~WindowOpen(t, later)
    BY <1>2, <1>5, SMT DEF WindowOpen
  <1>7. FixedState(r, later, t).count = r.cost
    BY <1>6 DEF FixedState
  <1>8. ~(r.cost > r.limit)
    BY SMT DEF Rules
  <1> QED
    BY <1>1, <1>5, <1>6, <1>7, <1>8, FixedWindowBlocks DEF t, out

LEMMA TokenBucketHonest ==
    ASSUME NEW r \in Rules, NEW now \in Nat, NEW s \in TokenStates(r) \cup {NoState},
           r.cost <= r.limit, TokenBucketHit(r, now, s).hit.blocked,
           NEW later, later = now + TokenBucketHit(r, now, s).hit.retryAfter
    PROVE  later \in Nat /\ ~TokenBucketHit(r, later, TokenBucketHit(r, now, s).state).hit.blocked
  <1> DEFINE out == TokenBucketHit(r, now, s)
             t == out.state
             price == r.cost * r.window
             refillMs == IF t.tokens >= price THEN 0 ELSE CeilDiv(price - t.tokens, r.limit)
             wait == Larger(refillMs, Larger(t.banUntil - now, 0))
  <1>1. t \in TokenStates(r) /\ t.updatedAt = now /\ t.algorithm = "token-bucket"
    BY TokenBucketType DEF TokenBucketHit, TokenStates
  <1>2. out.hit.retryAfter = wait
    BY DEF TokenBucketHit, HitResult
  <1>3. /\ t.tokens \in Nat /\ t.tokens <= Capacity(r) /\ t.banUntil \in Nat
        /\ price \in Nat /\ r.limit \in Nat \ {0} /\ Capacity(r) \in Nat
    BY <1>1, CapacityNat, SMT DEF TokenStates, Rules
  <1>4. price <= Capacity(r)
    BY SMT DEF Capacity, Rules
  <1>5. Refilled(r, later, t)
            = Smaller(Capacity(r), t.tokens + Larger(later - now, 0) * r.limit)
    BY <1>1 DEF Refilled
  <1> HIDE DEF t, price, out
  <1>6. refillMs \in Nat /\ price - t.tokens <= refillMs * r.limit
    <2>1. CASE t.tokens >= price
      BY <1>3, <2>1, SMT
    <2>2. CASE ~(t.tokens >= price)
      <3>1. price - t.tokens \in Nat
        BY <1>3, <2>2, SMT
      <3> QED
        BY <1>3, <2>2, <3>1, CeilDivCovers
    <2> QED
      BY <2>1, <2>2
  <1> HIDE DEF refillMs
  <1>7. wait \in Nat /\ refillMs <= wait /\ t.banUntil <= now + wait
    BY <1>3, <1>6, SMT DEF Larger
  <1> HIDE DEF wait
  <1>8. later = now + wait
    BY <1>2 DEF out
  <1>9. later \in Nat /\ Larger(later - now, 0) = wait /\ t.banUntil <= later
    BY <1>3, <1>7, <1>8, SMT DEF Larger
  <1>10. refillMs * r.limit <= wait * r.limit /\ wait * r.limit \in Nat
    BY <1>3, <1>6, <1>7, SMT
  <1>11. Smaller(Capacity(r), t.tokens + wait * r.limit) >= price
    BY <1>3, <1>4, <1>6, <1>10, SMT DEF Smaller
  <1>12. Smaller(Capacity(r), t.tokens + wait * r.limit) \in Nat
    BY <1>3, <1>10, SMT DEF Smaller
  <1>13. ~(Refilled(r, later, t) < price) /\ ~(t.banUntil > later)
    BY <1>3, <1>5, <1>9, <1>11, <1>12, SMT
  <1> QED
    BY <1>1, <1>9, <1>13, TokenBucketBlocks DEF t, out, price

LEMMA GcraHonest ==
    ASSUME NEW r \in Rules, NEW now \in Nat, NEW s \in GcraStates \cup {NoState},
           r.ban = 0, s.banUntil = 0, r.cost <= r.limit, GcraHit(r, now, s).hit.blocked,
           NEW later, later = now + GcraHit(r, now, s).hit.retryAfter
    PROVE  later \in Nat /\ ~GcraHit(r, later, GcraHit(r, now, s).state).hit.blocked
  <1> DEFINE out == GcraHit(r, now, s)
             t == out.state
             present == now * r.limit
             allowAt == NextTat(r, now, Tat(r, now, s)) - Capacity(r)
             wait == CeilDiv(allowAt - present, r.limit)
             price == r.window * r.cost
  <1>1. SameState(s, "gcra") = s
    BY DEF SameState, GcraStates, NoState
  <1>2. ActiveBanUntil(s, now) = 0 /\ ~(0 > now) /\ ~(s.banUntil > now)
    BY SMT DEF ActiveBanUntil
  <1>3. present < allowAt
    BY <1>2, GcraBlocks
  <1>4. ArmBan(r, now, 0, TRUE) = 0
    BY SMT DEF ArmBan
  <1>5. /\ t = [algorithm |-> "gcra", tat |-> Tat(r, now, s), banUntil |-> 0]
        /\ out.hit.retryAfter = Larger(wait, Larger(0 - now, 0))
    BY <1>1, <1>2, <1>3, <1>4 DEF GcraHit, HitResult
  <1>6. t \in GcraStates
    BY GcraType
  <1>7. /\ present \in Nat /\ price \in Nat /\ Capacity(r) \in Nat /\ r.limit \in Nat \ {0}
        /\ price <= Capacity(r)
    BY CapacityNat, SMT DEF Rules, Capacity
  <1>8. t.tat \in Nat /\ Tat(r, now, s) = t.tat /\ t.banUntil = 0 /\ Tat(r, later, t) = t.tat
    BY <1>5, <1>6 DEF GcraStates, Tat
  <1> HIDE DEF t
  <1>9. allowAt = (Larger(t.tat, present) + price) - Capacity(r)
    <2>1. NextTat(r, now, t.tat) = Larger(t.tat, present) + price
      BY DEF NextTat
    <2> QED
      BY <1>8, <2>1
  <1> HIDE DEF present, price, allowAt, out
  <1>10. allowAt - present \in Nat
    BY <1>3, <1>7, <1>8, <1>9, SMT DEF Larger
  <1>11. wait \in Nat /\ allowAt - present <= wait * r.limit
    BY <1>7, <1>10, CeilDivCovers
  <1> HIDE DEF wait
  <1>12. later = now + wait /\ later \in Nat
    BY <1>5, <1>11, SMT DEF Larger, out
  <1>13. allowAt \in Int
    BY <1>7, <1>8, <1>9, SMT DEF Larger
  <1>14. later * r.limit = present + wait * r.limit
    BY <1>7, <1>11, <1>12, SMT DEF present
  <1> DEFINE then == later * r.limit
  <1>15. then \in Nat /\ allowAt <= then /\ present <= then
    <2>1. wait * r.limit \in Nat
      BY <1>7, <1>11, SMT
    <2> QED
      BY <1>7, <1>10, <1>11, <1>14, <1>13, <2>1, SMT DEF then
  <1> HIDE DEF then
  <1>16. ~(then < (Larger(t.tat, then) + price) - Capacity(r))
    <2>1. CASE t.tat >= then
      <3>1. t.tat >= present
        BY <1>7, <1>8, <1>15, <2>1, SMT
      <3>2. Larger(t.tat, then) = t.tat /\ Larger(t.tat, present) = t.tat
        BY <2>1, <3>1 DEF Larger
      <3> QED
        BY <1>7, <1>8, <1>9, <1>15, <3>2, SMT
    <2>2. CASE ~(t.tat >= then)
      <3>1. Larger(t.tat, then) = then
        BY <2>2 DEF Larger
      <3> QED
        BY <1>7, <1>15, <3>1, SMT
    <2> QED
      BY <2>1, <2>2
  <1>17. NextTat(r, later, t.tat) = Larger(t.tat, then) + price
    BY DEF NextTat, then, price
  <1>18. ~(t.banUntil > later)
    BY <1>8, <1>12, SMT
  <1>19. ~(later * r.limit < NextTat(r, later, Tat(r, later, t)) - Capacity(r))
    BY <1>8, <1>16, <1>17 DEF then
  <1>20. ~GcraHit(r, later, t).hit.blocked
    BY <1>6, <1>12, <1>18, <1>19, GcraBlocks
  <1> QED
    BY <1>12, <1>20 DEF t, out

\* A gcra rule without a ban never stores one.
LEMMA GcraUnbanned ==
    ASSUME NEW r \in Rules, r.ban = 0, NEW now \in Nat, NEW s \in GcraStates \cup {NoState},
           s.banUntil = 0
    PROVE  GcraHit(r, now, s).state.banUntil = 0
  <1>1. SameState(s, "gcra") = s
    BY DEF SameState, GcraStates, NoState
  <1>2. \A over : ArmBan(r, now, ActiveBanUntil(s, now), over) = 0
    BY SMT DEF ArmBan, ActiveBanUntil
  <1> QED
    BY <1>1, <1>2 DEF GcraHit

-----------------------------------------------------------------------------
(* What the metered algorithms have in use.  Level(r, now, s) is the part of *)
(* the burst that state s holds at `now`.                                  *)

Level(r, now, s) ==
    IF r.algorithm = "token-bucket"
    THEN Capacity(r) - Refilled(r, now, s)
    ELSE Larger(Tat(r, now, s) - now * r.limit, 0)

Metered(r) == r.algorithm \in {"token-bucket", "gcra"}

\* Without a record nothing is in use, and from its expiry on a record says so.
LEMMA LevelLapsed ==
    ASSUME NEW r \in Rules, Metered(r), NEW now \in Nat, NEW s \in StatesOf(r), NEW e \in Nat,
           Outlives(r, s, e), e <= now
    PROVE  Level(r, now, s) = 0
  <1>1. Capacity(r) \in Nat
    BY CapacityNat
  <1>2. CASE r.algorithm = "token-bucket"
    <2>1. Refilled(r, now, s) = Capacity(r)
      BY <1>2, RefilledLapsed DEF StatesOf
    <2> QED
      BY <1>1, <1>2, <2>1, SMT DEF Level
  <1>3. CASE r.algorithm = "gcra"
    <2>1. s.tat \in Nat /\ Tat(r, now, s) = s.tat
      BY <1>3 DEF StatesOf, GcraStates, Tat
    <2>2. s.tat <= e * r.limit
      BY <1>1, <1>3, <2>1, SMT DEF Outlives, Rules
    <2>3. e * r.limit <= now * r.limit /\ e * r.limit \in Nat /\ now * r.limit \in Nat
      BY SMT DEF Rules
    <2> DEFINE present == now * r.limit
    <2>4. present \in Nat /\ s.tat <= present
      BY <2>1, <2>2, <2>3, SMT
    <2> HIDE DEF present
    <2>5. Larger(s.tat - present, 0) = 0
      BY <2>1, <2>4, SMT DEF Larger
    <2> QED
      BY <1>3, <2>1, <2>5 DEF Level, present
  <1> QED
    BY <1>2, <1>3 DEF Metered

LEMMA LevelEmpty ==
    ASSUME NEW r \in Rules, Metered(r), NEW now \in Nat
    PROVE  Level(r, now, NoState) = 0
  <1>1. now * r.limit \in Nat /\ Capacity(r) \in Nat
    BY CapacityNat, SMT DEF Rules
  <1>2. Refilled(r, now, NoState) = Capacity(r) /\ Tat(r, now, NoState) = now * r.limit
    BY DEF Refilled, Tat, NoState
  <1>3. Capacity(r) - Capacity(r) = 0
    BY <1>1, SMT
  <1> DEFINE present == now * r.limit
  <1>4. present \in Nat
    BY <1>1
  <1> HIDE DEF present
  <1>5. Larger(present - present, 0) = 0
    BY <1>4, SMT DEF Larger
  <1> QED
    BY <1>2, <1>3, <1>5 DEF Level, present

\* A hit at `now` raises the level by its price if it is admitted, and then within
\* the burst; a blocked hit leaves it alone.
MeteredStep(r, now, s, out) ==
    /\ out.hit.blocked => Level(r, now, out.state) = Level(r, now, s)
    /\ ~out.hit.blocked =>
           /\ Level(r, now, out.state) = Level(r, now, s) + r.cost * r.window
           /\ Level(r, now, s) + r.cost * r.window <= Capacity(r)

LEMMA TokenBucketMetered ==
    ASSUME NEW r \in Rules, r.algorithm = "token-bucket", NEW now \in Nat,
           NEW s \in TokenStates(r) \cup {NoState}
    PROVE  MeteredStep(r, now, s, TokenBucketHit(r, now, s))
  <1> DEFINE out == TokenBucketHit(r, now, s)
             t == out.state
             price == r.cost * r.window
             filled == Refilled(r, now, s)
  <1>1. SameState(s, "token-bucket") = s
    BY DEF SameState, TokenStates, NoState
  <1>2. t \in TokenStates(r) /\ t.updatedAt = now
    BY TokenBucketType DEF TokenBucketHit
  <1>3. t # NoState
    BY <1>2 DEF TokenStates, NoState
  <1>4. Refilled(r, now, t) = t.tokens
    BY <1>2, <1>3, RefilledRange
  <1>5. Level(r, now, t) = Capacity(r) - t.tokens /\ Level(r, now, s) = Capacity(r) - filled
    BY <1>4 DEF Level
  <1>6. filled \in Nat /\ filled <= Capacity(r) /\ Capacity(r) \in Nat /\ price \in Nat
    BY RefilledRange, CapacityNat, SMT
  <1>7. out.hit.blocked <=> s.banUntil > now \/ filled < price
    BY TokenBucketBlocks
  <1>8. s.banUntil \in Nat
    BY SMT DEF TokenStates, NoState
  <1>9. ActiveBanUntil(s, now) > now <=> s.banUntil > now
    BY <1>8, SMT DEF ActiveBanUntil
  <1>10. CASE out.hit.blocked
    <2>1. t.tokens = filled
      BY <1>1, <1>7, <1>9, <1>10 DEF TokenBucketHit
    <2> QED
      BY <1>5, <1>10, <2>1 DEF MeteredStep
  <1>11. CASE ~out.hit.blocked
    <2>1. t.tokens = filled - price /\ ~(filled < price)
      BY <1>1, <1>7, <1>9, <1>11 DEF TokenBucketHit
    <2> HIDE DEF t, price, filled, out
    <2>2. Capacity(r) - (filled - price) = (Capacity(r) - filled) + price
              /\ (Capacity(r) - filled) + price <= Capacity(r)
      BY <1>6, <2>1, SMT
    <2> QED
      BY <1>5, <1>11, <2>1, <2>2 DEF MeteredStep, t, price, out
  <1> QED
    BY <1>10, <1>11

LEMMA GcraMetered ==
    ASSUME NEW r \in Rules, r.algorithm = "gcra", NEW now \in Nat,
           NEW s \in GcraStates \cup {NoState}
    PROVE  MeteredStep(r, now, s, GcraHit(r, now, s))
  <1> DEFINE out == GcraHit(r, now, s)
             t == out.state
             price == r.cost * r.window
             present == now * r.limit
             from == Tat(r, now, s)
  <1>1. SameState(s, "gcra") = s
    BY DEF SameState, GcraStates, NoState
  <1>2. t \in GcraStates /\ Tat(r, now, t) = t.tat
    BY GcraType DEF GcraStates, Tat
  <1>3. /\ Level(r, now, t) = Larger(t.tat - present, 0)
        /\ Level(r, now, s) = Larger(from - present, 0)
    BY <1>2 DEF Level
  <1>4. /\ present \in Nat /\ from \in Nat /\ Capacity(r) \in Nat /\ price \in Nat
        /\ r.window * r.cost = price
    BY CapacityNat, SMT DEF Tat, GcraStates, NoState, Rules
  <1>5. NextTat(r, now, from) = Larger(from, present) + price
    BY <1>4 DEF NextTat
  <1>6. out.hit.blocked <=> s.banUntil > now \/ present < NextTat(r, now, from) - Capacity(r)
    BY GcraBlocks
  <1>7. s.banUntil \in Nat
    BY SMT DEF GcraStates, NoState
  <1>8. ActiveBanUntil(s, now) > now <=> s.banUntil > now
    BY <1>7, SMT DEF ActiveBanUntil
  <1>9. CASE out.hit.blocked
    <2>1. t.tat = from
      BY <1>1, <1>6, <1>8, <1>9 DEF GcraHit
    <2> QED
      BY <1>3, <1>9, <2>1 DEF MeteredStep
  <1>10. CASE ~out.hit.blocked
    <2>1. t.tat = NextTat(r, now, from) /\ ~(present < NextTat(r, now, from) - Capacity(r))
      BY <1>1, <1>6, <1>8, <1>10 DEF GcraHit
    <2> HIDE DEF t, price, present, from, out
    <2>2. Larger((Larger(from, present) + price) - present, 0)
              = Larger(from - present, 0) + price
              /\ Larger(from - present, 0) + price <= Capacity(r)
      BY <1>4, <1>5, <2>1, SMT DEF Larger
    <2> QED
      BY <1>3, <1>5, <1>10, <2>1, <2>2 DEF MeteredStep, t, price, out
  <1> QED
    BY <1>9, <1>10

LEMMA EvaluateMetered ==
    ASSUME NEW r \in Rules, Metered(r), NEW now \in Nat, NEW s \in StatesOf(r) \cup {NoState}
    PROVE  MeteredStep(r, now, s, EvaluateAlgorithmHit(r, now, s))
  <1>1. CASE r.algorithm = "token-bucket"
    BY <1>1, TokenBucketMetered DEF EvaluateAlgorithmHit, StatesOf
  <1>2. CASE r.algorithm = "gcra"
    BY <1>2, GcraMetered DEF EvaluateAlgorithmHit, StatesOf
  <1> QED
    BY <1>1, <1>2 DEF Metered

\* No state holds more than can be counted down, and a millisecond drains `limit`,
\* if the state was not stored in the future.
LEMMA LevelNat ==
    ASSUME NEW r \in Rules, Metered(r), NEW now \in Nat, NEW s \in StatesOf(r) \cup {NoState}
    PROVE  Level(r, now, s) \in Nat
  <1>1. CASE r.algorithm = "token-bucket"
    <2>1. Refilled(r, now, s) \in 0 .. Capacity(r) /\ Capacity(r) \in Nat
      BY <1>1, RefilledRange, CapacityNat DEF StatesOf
    <2> QED
      BY <1>1, <2>1, SMT DEF Level
  <1>2. CASE r.algorithm = "gcra"
    <2>1. s \in GcraStates \cup {NoState}
      BY <1>2 DEF StatesOf
    <2>2. Tat(r, now, s) \in Nat /\ now * r.limit \in Nat
      BY <2>1, SMT DEF Tat, GcraStates, NoState, Rules
    <2> DEFINE present == now * r.limit
               from == Tat(r, now, s)
    <2>3. present \in Nat /\ from \in Nat
      BY <2>2
    <2> HIDE DEF present, from
    <2>4. Larger(from - present, 0) \in Nat
      BY <2>3, SMT DEF Larger
    <2> QED
      BY <1>2, <2>4 DEF Level, present, from
  <1> QED
    BY <1>1, <1>2 DEF Metered

LEMMA LevelDrains ==
    ASSUME NEW r \in Rules, Metered(r), NEW now \in Nat, NEW s \in StatesOf(r) \cup {NoState},
           r.algorithm = "token-bucket" /\ s # NoState => s.updatedAt <= now
    PROVE  Level(r, now + 1, s) = Larger(Level(r, now, s) - r.limit, 0)
  <1>1. r.limit \in Nat /\ Capacity(r) \in Nat /\ now + 1 \in Nat
    BY CapacityNat, SMT DEF Rules
  <1>2. CASE s = NoState
    <2>1. Level(r, now, s) = 0 /\ Level(r, now + 1, s) = 0
      BY <1>1, <1>2, LevelEmpty
    <2>2. Larger(0 - r.limit, 0) = 0
      BY <1>1, SMT DEF Larger
    <2> QED
      BY <2>1, <2>2
  <1>3. CASE r.algorithm = "token-bucket" /\ s \in TokenStates(r)
    <2>1. /\ s.algorithm = "token-bucket" /\ s.tokens \in Nat /\ s.tokens <= Capacity(r)
          /\ s.updatedAt \in Nat /\ s # NoState
      BY <1>3, CapacityNat, SMT DEF TokenStates, NoState
    <2>2. s.updatedAt <= now
      BY <1>3, <2>1
    <2> DEFINE elapsed == now - s.updatedAt
               refill == elapsed * r.limit
    <2>3. Larger(now - s.updatedAt, 0) = elapsed /\ Larger((now + 1) - s.updatedAt, 0) = elapsed + 1
              /\ elapsed \in Nat
      BY <2>1, <2>2, SMT DEF Larger
    <2>4. (elapsed + 1) * r.limit = refill + r.limit /\ refill \in Nat
      <3> HIDE DEF elapsed
      <3> QED
        BY <1>1, <2>3, SMT
    <2>5. /\ Level(r, now, s) = Capacity(r) - Smaller(Capacity(r), s.tokens + refill)
          /\ Level(r, now + 1, s)
                 = Capacity(r) - Smaller(Capacity(r), s.tokens + (refill + r.limit))
      BY <1>3, <2>1, <2>3, <2>4 DEF Level, Refilled
    <2> HIDE DEF refill
    <2>6. ASSUME NEW c \in Nat, NEW l \in Nat, NEW a \in Nat, NEW f \in Nat
          PROVE  c - Smaller(c, a + (f + l)) = Larger((c - Smaller(c, a + f)) - l, 0)
      BY SMT DEF Larger, Smaller
    <2> QED
      BY <1>1, <2>1, <2>4, <2>5, <2>6
  <1>4. CASE r.algorithm = "gcra" /\ s \in GcraStates
    <2>1. s.tat \in Nat /\ Tat(r, now, s) = s.tat /\ Tat(r, now + 1, s) = s.tat
      BY <1>4 DEF GcraStates, Tat
    <2>2. (now + 1) * r.limit = now * r.limit + r.limit /\ now * r.limit \in Nat
      BY <1>1, SMT
    <2>3. /\ Level(r, now, s) = Larger(s.tat - now * r.limit, 0)
          /\ Level(r, now + 1, s) = Larger(s.tat - (now * r.limit + r.limit), 0)
      BY <1>4, <2>1, <2>2 DEF Level
    <2>4. ASSUME NEW a \in Nat, NEW p \in Nat, NEW l \in Nat
          PROVE  Larger(a - (p + l), 0) = Larger(Larger(a - p, 0) - l, 0)
      BY SMT DEF Larger
    <2> QED
      BY <1>1, <2>1, <2>2, <2>3, <2>4
  <1> QED
    BY <1>2, <1>3, <1>4 DEF Metered, StatesOf
-----------------------------------------------------------------------------
(* How far ahead a hit looks: no state, expiry or wait reaches further than *)
(* the rule's window, twice the window and the ban do.                     *)

LEMMA CeilDivAtMost ==
    ASSUME NEW a \in Nat, NEW b \in Nat \ {0}, NEW c \in Nat, a <= c * b
    PROVE  CeilDiv(a, b) <= c
  <1>1. a + b - 1 \in Nat /\ c + 1 \in Nat /\ c * b \in Nat /\ (c + 1) * b = c * b + b
    BY SMT
  <1>2. a + b - 1 < (c + 1) * b
    BY <1>1, SMT
  <1>3. c + 1 > (a + b - 1) \div b
    BY <1>1, <1>2, DivLess
  <1>4. (a + b - 1) \div b \in Nat
    BY CeilDivNat DEF CeilDiv
  <1> QED
    BY <1>3, <1>4, SMT DEF CeilDiv

\* The state s was left by a hit at `now` or before.
InReach(r, now, s) ==
    /\ s.banUntil <= now + r.ban
    /\ s.algorithm = "fixed-window" => s.resetAt <= now + r.window
    /\ s.algorithm = "gcra" => s.tat <= now * r.limit + Capacity(r)

\* What a hit at `now` says of the future.
Foreseen(r, now, out) ==
    /\ out.hit.count \in Nat /\ out.hit.resetAt \in Nat
    /\ out.hit.resetAt <= now + r.window
    /\ out.hit.resetAt <= out.expiresAt
    /\ out.expiresAt <= now + 2 * r.window + r.ban
    /\ r.cost <= r.limit => out.hit.retryAfter <= Larger(r.window, r.ban)

LEMMA BanInReach ==
    ASSUME NEW r \in Rules, NEW now \in Nat, NEW s, s.banUntil \in Nat,
           s.banUntil <= now + r.ban, NEW over \in BOOLEAN
    PROVE  /\ ArmBan(r, now, ActiveBanUntil(s, now), over) \in Nat
           /\ ArmBan(r, now, ActiveBanUntil(s, now), over) <= now + r.ban
  BY SMT DEF ArmBan, ActiveBanUntil, Rules

\* Expiries and waits made of a time t and a ban.
LEMMA ExpiryInReach ==
    ASSUME NEW r \in Rules, NEW now \in Nat, NEW t \in Nat, NEW ban \in Nat,
           ban <= now + r.ban
    PROVE  /\ t <= ExpiryFor(t, ban)
           /\ t <= now + 2 * r.window => ExpiryFor(t, ban) <= now + 2 * r.window + r.ban
           /\ t <= now + r.window => Larger(t, ban) - now <= Larger(r.window, r.ban)
           /\ 0 <= Larger(r.window, r.ban)
  BY SMT DEF ExpiryFor, Larger, Rules

LEMMA FixedWindowReach ==
    ASSUME NEW r \in Rules, NEW now \in Nat, NEW s \in FixedStates \cup {NoState},
           InReach(r, now, s)
    PROVE  /\ InReach(r, now, FixedWindowHit(r, now, s).state)
           /\ Foreseen(r, now, FixedWindowHit(r, now, s))
  <1> DEFINE out == FixedWindowHit(r, now, s)
             t == out.state
  <1>1. t \in FixedStates
    BY FixedWindowType
  <1>2. /\ t.count \in Nat /\ t.resetAt \in Nat /\ t.banUntil \in Nat
        /\ t.algorithm = "fixed-window"
    BY <1>1 DEF FixedStates
  <1>3. SameState(s, "fixed-window") = s /\ s.banUntil \in Nat
    BY DEF SameState, FixedStates, NoState
  <1>4. t.resetAt <= now + r.window
    <2>1. t.resetAt = IF WindowOpen(s, now) THEN s.resetAt ELSE now + r.window
      BY <1>3 DEF FixedWindowHit, FixedState
    <2> HIDE DEF t
    <2>2. WindowOpen(s, now) => s.resetAt <= now + r.window
      BY DEF WindowOpen, InReach
    <2>3. now + r.window <= now + r.window
      BY SMT DEF Rules
    <2> QED
      BY <2>1, <2>2, <2>3
  <1>5. t.banUntil <= now + r.ban
    <2> DEFINE over == (IF WindowOpen(s, now) THEN s.count + r.cost ELSE r.cost) > r.limit
    <2>1. t.banUntil = ArmBan(r, now, ActiveBanUntil(s, now), over)
      BY <1>3 DEF FixedWindowHit, FixedState
    <2> HIDE DEF t, over
    <2>2. over \in BOOLEAN
      BY DEF over
    <2> QED
      BY <1>3, <2>1, <2>2, BanInReach DEF InReach
  <1>6. /\ out.hit.count = t.count /\ out.hit.resetAt = t.resetAt
        /\ out.expiresAt = ExpiryFor(t.resetAt, t.banUntil)
        /\ out.hit.retryAfter \in {Larger(t.resetAt, t.banUntil) - now, 0}
    BY DEF FixedWindowHit, HitResult
  <1> HIDE DEF out, t
  <1>7. t.resetAt <= now + 2 * r.window
    BY <1>2, <1>4, SMT DEF Rules
  <1>8. Foreseen(r, now, out)
    BY <1>2, <1>4, <1>5, <1>6, <1>7, ExpiryInReach DEF Foreseen
  <1> QED
    BY <1>2, <1>4, <1>5, <1>8 DEF InReach, out, t

LEMMA SlidingWindowReach ==
    ASSUME NEW r \in Rules, NEW now \in Nat, NEW s \in SlidingStates \cup {NoState},
           InReach(r, now, s)
    PROVE  /\ InReach(r, now, SlidingWindowHit(r, now, s).state)
           /\ Foreseen(r, now, SlidingWindowHit(r, now, s))
  <1> DEFINE out == SlidingWindowHit(r, now, s)
             t == out.state
             estimated == SlidingCount(r, now, s)
             start == WindowStart(r, now)
             over == estimated > r.limit
  <1>1. t \in SlidingStates
    BY SlidingWindowType
  <1>2. t.banUntil \in Nat /\ t.algorithm = "sliding-window"
    BY <1>1 DEF SlidingStates
  <1>3. SameState(s, "sliding-window") = s /\ s.banUntil \in Nat
    BY DEF SameState, SlidingStates, NoState
  <1>4. estimated \in Nat
    BY <1>1, SlidingEstimateNext
  <1>5. start \in Nat /\ start <= now /\ r.window \in Nat
    BY WindowStartNat DEF Rules
  <1>6. /\ t.banUntil = ArmBan(r, now, ActiveBanUntil(s, now), over)
        /\ out.hit.count = estimated /\ out.hit.resetAt = start + r.window
        /\ out.expiresAt = ExpiryFor(start + 2 * r.window, t.banUntil)
        /\ out.hit.retryAfter \in {Larger(start + r.window, t.banUntil) - now, 0}
    BY <1>3 DEF SlidingWindowHit, SlidingCount, HitResult
  <1> HIDE DEF out, t, estimated, start
  <1>7. over \in BOOLEAN
    OBVIOUS
  <1> HIDE DEF over
  <1>8. t.banUntil <= now + r.ban
    BY <1>3, <1>6, <1>7, BanInReach DEF InReach
  <1>9. /\ start + r.window \in Nat /\ start + 2 * r.window \in Nat
        /\ start + r.window <= now + r.window /\ start + 2 * r.window <= now + 2 * r.window
        /\ start + r.window <= start + 2 * r.window
    BY <1>5, SMT
  <1>10. start + r.window <= out.expiresAt
    BY <1>2, <1>6, <1>9, SMT DEF ExpiryFor, Larger
  <1>11. Foreseen(r, now, out)
    BY <1>2, <1>4, <1>6, <1>8, <1>9, <1>10, ExpiryInReach DEF Foreseen
  <1> QED
    BY <1>2, <1>8, <1>11 DEF InReach, out, t

LEMMA TokenBucketReach ==
    ASSUME NEW r \in Rules, NEW now \in Nat, NEW s \in TokenStates(r) \cup {NoState},
           InReach(r, now, s)
    PROVE  /\ InReach(r, now, TokenBucketHit(r, now, s).state)
           /\ Foreseen(r, now, TokenBucketHit(r, now, s))
  <1> DEFINE out == TokenBucketHit(r, now, s)
             t == out.state
             price == r.cost * r.window
             short == ~(ActiveBanUntil(s, now) > now) /\ Refilled(r, now, s) < price
             missing == Capacity(r) - t.tokens
             refillMs == IF t.tokens >= price THEN 0 ELSE CeilDiv(price - t.tokens, r.limit)
             full == CeilDiv(missing, r.limit)
  <1>1. t \in TokenStates(r)
    BY TokenBucketType
  <1>2. /\ t.tokens \in 0 .. Capacity(r) /\ t.banUntil \in Nat /\ t.algorithm = "token-bucket"
        /\ Capacity(r) \in Nat /\ price \in Nat /\ r.limit \in Nat \ {0} /\ r.window \in Nat \ {0}
        /\ r.cost \in Nat
    BY <1>1, CapacityNat DEF TokenStates, Rules
  <1>3. SameState(s, "token-bucket") = s /\ s.banUntil \in Nat
    BY DEF SameState, TokenStates, NoState
  <1>4. /\ t.banUntil = ArmBan(r, now, ActiveBanUntil(s, now), short)
        /\ out.hit.count = CeilDiv(missing, r.window) /\ out.hit.resetAt = now + full
        /\ out.expiresAt = ExpiryFor(now + full, t.banUntil)
        /\ out.hit.retryAfter \in {Larger(refillMs, Larger(t.banUntil - now, 0)), 0}
    BY <1>3 DEF TokenBucketHit, HitResult
  <1> HIDE DEF out, t
  <1>5. short \in BOOLEAN
    OBVIOUS
  <1> HIDE DEF short
  <1>6. t.banUntil <= now + r.ban
    BY <1>3, <1>4, <1>5, BanInReach DEF InReach
  <1>7. missing \in Nat /\ missing <= r.window * r.limit
    <2>1. Capacity(r) = r.window * r.limit
      BY <1>2, SMT DEF Capacity
    <2> QED
      BY <1>2, <2>1, SMT
  <1> HIDE DEF missing
  <1>8. CeilDiv(missing, r.window) \in Nat /\ full \in Nat /\ full <= r.window
    BY <1>2, <1>7, CeilDivNat, CeilDivAtMost
  <1> HIDE DEF full
  <1>9. r.cost <= r.limit => refillMs \in Nat /\ refillMs <= r.window
    <2> SUFFICES ASSUME r.cost <= r.limit, ~(t.tokens >= price)
                 PROVE  CeilDiv(price - t.tokens, r.limit) \in Nat
                            /\ CeilDiv(price - t.tokens, r.limit) <= r.window
      BY <1>2, SMT
    <2>1. \A x, y, z \in Nat : x <= y => x * z <= z * y
      BY SMT
    <2>2. price <= r.window * r.limit
      BY <1>2, <2>1
    <2>3. r.window * r.limit \in Nat
      BY <1>2, SMT
    <2>4. price - t.tokens \in Nat /\ price - t.tokens <= r.window * r.limit
      BY <1>2, <2>2, <2>3, SMT
    <2> QED
      BY <1>2, <2>4, CeilDivNat, CeilDivAtMost
  <1> HIDE DEF refillMs, price
  <1>10. /\ now + full \in Nat /\ now + full <= now + r.window /\ now + full <= now + 2 * r.window
    BY <1>2, <1>8, SMT
  <1>11. r.cost <= r.limit => Larger(refillMs, Larger(t.banUntil - now, 0)) <= Larger(r.window, r.ban)
    <2>1. r.ban \in Nat
      BY DEF Rules
    <2> QED
      BY <1>2, <1>6, <1>9, <2>1, SMT DEF Larger
  <1>12. Foreseen(r, now, out)
    BY <1>2, <1>4, <1>6, <1>8, <1>10, <1>11, ExpiryInReach DEF Foreseen
  <1> QED
    BY <1>2, <1>6, <1>12 DEF InReach, out, t

LEMMA GcraReach ==
    ASSUME NEW r \in Rules, NEW now \in Nat, NEW s \in GcraStates \cup {NoState},
           InReach(r, now, s)
    PROVE  /\ InReach(r, now, GcraHit(r, now, s).state)
           /\ Foreseen(r, now, GcraHit(r, now, s))
  <1> DEFINE out == GcraHit(r, now, s)
             t == out.state
             present == now * r.limit
             C == Capacity(r)
             price == r.window * r.cost
             first == Tat(r, now, s)
             nextTat == NextTat(r, now, first)
             early == ~(ActiveBanUntil(s, now) > now) /\ present < nextTat - C
             used == Larger(t.tat - present, 0)
             left == Larger((C - used) \div r.window, 0)
             wait == IF early THEN CeilDiv((nextTat - C) - present, r.limit) ELSE 0
             idle == CeilDiv(used, r.limit)
             life == CeilDiv(C + used, r.limit)
  <1>1. t \in GcraStates
    BY GcraType
  <1>2. /\ t.tat \in Nat /\ t.banUntil \in Nat /\ t.algorithm = "gcra"
        /\ C \in Nat /\ r.limit \in Nat \ {0} /\ r.window \in Nat \ {0} /\ r.cost \in Nat
        /\ r.ban \in Nat /\ present \in Nat /\ price \in Nat
    <2>1. \A x, y \in Nat : x * y \in Nat
      BY SMT
    <2> QED
      BY <1>1, <2>1, CapacityNat DEF GcraStates, Rules
  <1>3. SameState(s, "gcra") = s /\ s.banUntil \in Nat
    BY DEF SameState, GcraStates, NoState
  <1>4. /\ t.banUntil = ArmBan(r, now, ActiveBanUntil(s, now), early)
        /\ out.hit.count = Larger(r.limit - left, 0) /\ out.hit.resetAt = now + idle
        /\ out.expiresAt = ExpiryFor(now + life, t.banUntil)
        /\ out.hit.retryAfter \in {Larger(wait, Larger(t.banUntil - now, 0)), 0}
        /\ t.tat = IF ActiveBanUntil(s, now) > now \/ early THEN first ELSE nextTat
    BY <1>3 DEF GcraHit, HitResult
  <1>5. first \in Nat /\ first <= present + C
    <2>1. CASE s = NoState
      BY <1>2, <2>1, SMT DEF Tat, NoState
    <2>2. CASE s \in GcraStates
      BY <2>2 DEF Tat, GcraStates, InReach
    <2> QED
      BY <2>1, <2>2
  <1>6. nextTat = Larger(first, present) + price
    BY DEF NextTat
  <1> HIDE DEF out, t, present, first, price, nextTat
  <1>7. nextTat \in Nat /\ nextTat <= (present + C) + price
    BY <1>2, <1>5, <1>6, SMT DEF Larger
  <1>8. early \in BOOLEAN
    OBVIOUS
  <1>9. t.tat <= present + C
    BY <1>2, <1>4, <1>5, <1>7, SMT DEF C
  <1>10. r.cost <= r.limit => wait \in Nat /\ wait <= r.window
    <2> SUFFICES ASSUME r.cost <= r.limit, early
                 PROVE  LET x == (nextTat - C) - present
                        IN  CeilDiv(x, r.limit) \in Nat /\ CeilDiv(x, r.limit) <= r.window
      BY <1>2, SMT
    <2>1. \A x, y, z \in Nat : x <= y => z * x <= z * y
      BY SMT
    <2>2. price <= r.window * r.limit
      BY <1>2, <2>1 DEF price
    <2>3. r.window * r.limit \in Nat
      BY <1>2, SMT
    <2>4. (nextTat - C) - present \in Nat /\ (nextTat - C) - present <= r.window * r.limit
      BY <1>2, <1>7, <2>2, <2>3, SMT
    <2> QED
      BY <1>2, <2>4, CeilDivNat, CeilDivAtMost
  <1> HIDE DEF early
  <1>11. t.banUntil <= now + r.ban
    BY <1>3, <1>4, <1>8, BanInReach DEF InReach
  <1>12. used \in Nat /\ used <= C
    BY <1>2, <1>9, SMT DEF Larger
  <1> HIDE DEF wait, used
  <1>13. C = r.window * r.limit
    BY <1>2, SMT DEF Capacity
  <1>14. /\ idle \in Nat /\ idle <= r.window
         /\ life \in Nat /\ life <= 2 * r.window /\ idle <= life
    <2>1. used <= r.window * r.limit /\ C + used \in Nat
      BY <1>2, <1>12, <1>13
    <2>2. 2 * r.window \in Nat /\ (2 * r.window) * r.limit = r.window * r.limit + r.window * r.limit
      BY <1>2, SMT
    <2>3. C + used <= (2 * r.window) * r.limit
      <3> HIDE DEF C
      <3> QED
        BY <1>2, <1>12, <1>13, <2>2, SMT
    <2>4. idle \in Nat /\ idle <= r.window /\ life \in Nat /\ life <= 2 * r.window
      BY <1>2, <1>12, <2>1, <2>2, <2>3, CeilDivNat, CeilDivAtMost
    <2>5. idle <= life
      <3>1. life \in Nat /\ C + used <= life * r.limit
        BY <1>2, <2>1, CeilDivCovers
      <3>2. used <= C + used
        BY <1>2, <1>12, SMT
      <3>3. life * r.limit \in Nat
        BY <1>2, <3>1, SMT
      <3>4. used <= life * r.limit
        <4> HIDE DEF C, life
        <4> QED
          BY <1>2, <1>12, <3>1, <3>2, <3>3, SMT
      <3> QED
        BY <1>2, <1>12, <3>1, <3>4, CeilDivAtMost
    <2> QED
      BY <2>4, <2>5
  <1> HIDE DEF idle, life
  <1>15. Larger(r.limit - left, 0) \in Nat
    <2>1. C - used \in Nat
      BY <1>2, <1>12, SMT
    <2>2. (C - used) \div r.window \in Nat
      <3> HIDE DEF C
      <3> QED
        BY <1>2, <2>1, SMT
    <2> HIDE DEF C
    <2> QED
      BY <1>2, <2>2, SMT DEF Larger
  <1> HIDE DEF left, C
  <1>16. /\ now + idle \in Nat /\ now + idle <= now + r.window
         /\ now + life \in Nat /\ now + life <= now + 2 * r.window
         /\ now + idle <= now + life
    BY <1>2, <1>14, SMT
  <1>17. now + idle <= out.expiresAt
    BY <1>2, <1>4, <1>16, SMT DEF ExpiryFor, Larger
  <1>18. r.cost <= r.limit => Larger(wait, Larger(t.banUntil - now, 0)) <= Larger(r.window, r.ban)
    BY <1>2, <1>10, <1>11, SMT DEF Larger
  <1>19. Foreseen(r, now, out)
    BY <1>2, <1>4, <1>11, <1>15, <1>16, <1>17, <1>18, ExpiryInReach DEF Foreseen
  <1> QED
    BY <1>2, <1>9, <1>11, <1>19 DEF InReach, out, t, present, C

\* For every algorithm, rule, time and stored state that is in reach.
LEMMA EvaluateReach ==
    ASSUME NEW r \in Rules, NEW now \in Nat, NEW s \in StatesOf(r) \cup {NoState},
           InReach(r, now, s)
    PROVE  /\ InReach(r, now, EvaluateAlgorithmHit(r, now, s).state)
           /\ Foreseen(r, now, EvaluateAlgorithmHit(r, now, s))
  <1>1. CASE r.algorithm = "fixed-window"
    BY <1>1, FixedWindowReach DEF EvaluateAlgorithmHit, StatesOf
  <1>2. CASE r.algorithm = "sliding-window"
    BY <1>2, SlidingWindowReach DEF EvaluateAlgorithmHit, StatesOf
  <1>3. CASE r.algorithm = "token-bucket"
    BY <1>3, TokenBucketReach DEF EvaluateAlgorithmHit, StatesOf
  <1>4. CASE r.algorithm = "gcra"
    BY <1>4, GcraReach DEF EvaluateAlgorithmHit, StatesOf
  <1> QED
    BY <1>1, <1>2, <1>3, <1>4 DEF Rules, AlgorithmNames
-----------------------------------------------------------------------------
(* States that no later hit tells apart: equal ones, gcra states with the   *)
(* same ban whose arrival times lie in the past, and a lapsed state and     *)
(* none.                                                                   *)

Twins(r, now, x, y) ==
    \/ x = y
    \/ /\ x.algorithm = "gcra" /\ y.algorithm = "gcra" /\ x.banUntil = y.banUntil
       /\ x.tat <= now * r.limit /\ y.tat <= now * r.limit

\* The two hits told the same, and left what later hits cannot tell apart either.
SameAnswer(r, now, one, other) ==
    /\ one.hit = other.hit /\ one.expiresAt = other.expiresAt
    /\ Twins(r, now, one.state, other.state)

LEMMA GcraTwins ==
    ASSUME NEW r \in Rules, NEW now \in Nat,
           NEW x \in GcraStates \cup {NoState}, NEW y \in GcraStates \cup {NoState},
           Tat(r, now, x) <= now * r.limit, Tat(r, now, y) <= now * r.limit,
           ActiveBanUntil(x, now) = ActiveBanUntil(y, now)
    PROVE  SameAnswer(r, now, GcraHit(r, now, x), GcraHit(r, now, y))
  <1> DEFINE present == now * r.limit
             next == present + r.window * r.cost
             ban == ActiveBanUntil(x, now)
             early == ~(ban > now) /\ present < next - Capacity(r)
             kept == ban > now \/ early
             O(s) == GcraHit(r, now, s)
  <1>1. present \in Nat
    BY SMT DEF Rules
  <1>2. ASSUME NEW s \in {x, y}
        PROVE  /\ SameState(s, "gcra") = s /\ ActiveBanUntil(s, now) = ban
               /\ Tat(r, now, s) \in Nat /\ Tat(r, now, s) <= present
               /\ NextTat(r, now, Tat(r, now, s)) = next
    <2>1. SameState(s, "gcra") = s
      BY DEF SameState, GcraStates, NoState
    <2>2. Tat(r, now, s) \in Nat
      BY <1>1 DEF Tat, GcraStates, NoState, present
    <2>3. Tat(r, now, s) <= present
      OBVIOUS
    <2> HIDE DEF present
    <2>4. \A t \in Nat : t <= present => Larger(t, present) = present
      BY <1>1, SMT DEF Larger
    <2>5. NextTat(r, now, Tat(r, now, s)) = next
      BY <2>2, <2>3, <2>4 DEF NextTat, present
    <2> QED
      BY <2>1, <2>2, <2>3, <2>5
  <1> HIDE DEF next, present, ban
  <1>3. CASE kept
    <2>1. ASSUME NEW s \in {x, y}
          PROVE  /\ O(s).state = [algorithm |-> "gcra", tat |-> Tat(r, now, s),
                                  banUntil |-> ArmBan(r, now, ban, early)]
                 /\ Larger(O(s).state.tat - present, 0) = 0
      <3>1. O(s).state = [algorithm |-> "gcra", tat |-> Tat(r, now, s),
                          banUntil |-> ArmBan(r, now, ban, early)]
        BY <1>2, <1>3 DEF GcraHit, present
      <3> HIDE DEF O
      <3>2. Larger(Tat(r, now, s) - present, 0) = 0
        <4>1. \A t \in Nat : t <= present => Larger(t - present, 0) = 0
          BY <1>1, SMT DEF Larger
        <4> QED
          BY <1>2, <4>1
      <3> QED
        BY <3>1, <3>2
    <2>2. ASSUME NEW s \in {x, y}
          PROVE  LET b == ArmBan(r, now, ban, early)
                     wait == IF early THEN CeilDiv((next - Capacity(r)) - present, r.limit) ELSE 0
                     left == Larger((Capacity(r) - 0) \div r.window, 0)
                     blocked == b > now \/ early
                 IN  /\ O(s).hit = HitResult(Larger(r.limit - left, 0), left,
                                     now + CeilDiv(0, r.limit), blocked,
                                     IF blocked THEN Larger(wait, Larger(b - now, 0)) ELSE 0, b)
                     /\ O(s).expiresAt = ExpiryFor(now + CeilDiv(Capacity(r) + 0, r.limit), b)
      BY <1>2, <2>1 DEF GcraHit, present
    <2> HIDE DEF O
    <2>3. O(x).hit = O(y).hit /\ O(x).expiresAt = O(y).expiresAt
      BY <2>2
    <2>4. Twins(r, now, O(x).state, O(y).state)
      BY <1>2, <2>1 DEF Twins, present
    <2> QED
      BY <2>3, <2>4 DEF SameAnswer, O
  <1>4. CASE ~kept
    <2>1. ASSUME NEW s \in {x, y}
          PROVE  O(s).state = [algorithm |-> "gcra", tat |-> next,
                               banUntil |-> ArmBan(r, now, ban, early)]
      BY <1>2, <1>4 DEF GcraHit, present
    <2>2. ASSUME NEW s \in {x, y}
          PROVE  LET b == ArmBan(r, now, ban, early)
                     used == Larger(next - present, 0)
                     wait == IF early THEN CeilDiv((next - Capacity(r)) - present, r.limit) ELSE 0
                     left == Larger((Capacity(r) - used) \div r.window, 0)
                     blocked == b > now \/ early
                 IN  /\ O(s).hit = HitResult(Larger(r.limit - left, 0), left,
                                     now + CeilDiv(used, r.limit), blocked,
                                     IF blocked THEN Larger(wait, Larger(b - now, 0)) ELSE 0, b)
                     /\ O(s).expiresAt = ExpiryFor(now + CeilDiv(Capacity(r) + used, r.limit), b)
      BY <1>2, <1>4, <2>1 DEF GcraHit, present
    <2> HIDE DEF O
    <2>3. O(x).hit = O(y).hit /\ O(x).expiresAt = O(y).expiresAt /\ O(x).state = O(y).state
      BY <2>1, <2>2
    <2> QED
      BY <2>3 DEF SameAnswer, Twins, O
  <1> QED
    BY <1>3, <1>4

\* A state that has lapsed and none.
LEMMA GcraLapsedTwins ==
    ASSUME NEW r \in Rules, NEW now \in Nat, NEW s \in GcraStates, NEW e \in Nat,
           r.algorithm = "gcra", Outlives(r, s, e), e <= now
    PROVE  SameAnswer(r, now, GcraHit(r, now, NoState), GcraHit(r, now, s))
  <1>1. /\ s.tat \in Nat /\ s.banUntil \in Nat /\ s.banUntil <= now
        /\ s.tat + Capacity(r) <= e * r.limit /\ Capacity(r) \in Nat /\ r.limit \in Nat
    BY CapacityNat, SMT DEF Outlives, GcraStates, Rules
  <1>2. \A x, y, z \in Nat : x <= y => x * z <= y * z /\ x * z \in Nat /\ y * z \in Nat
    BY SMT
  <1>3. e * r.limit <= now * r.limit /\ e * r.limit \in Nat /\ now * r.limit \in Nat
    BY <1>1, <1>2
  <1>4. s.tat <= now * r.limit
    BY <1>1, <1>3, SMT
  <1>5. Tat(r, now, s) = s.tat /\ Tat(r, now, NoState) = now * r.limit
    BY DEF Tat, GcraStates, NoState
  <1>6. ActiveBanUntil(s, now) = 0 /\ ActiveBanUntil(NoState, now) = 0
    BY <1>1, SMT DEF ActiveBanUntil, NoState
  <1>7. now * r.limit <= now * r.limit
    BY <1>3, SMT
  <1> QED
    BY <1>4, <1>5, <1>6, <1>7, GcraTwins

LEMMA EvaluateTwins ==
    ASSUME NEW r \in Rules, NEW now \in Nat, NEW x \in StatesOf(r) \cup {NoState},
           NEW y \in StatesOf(r) \cup {NoState}, Twins(r, now, x, y)
    PROVE  SameAnswer(r, now, EvaluateAlgorithmHit(r, now, x), EvaluateAlgorithmHit(r, now, y))
  <1>1. CASE x = y
    BY <1>1 DEF SameAnswer, Twins
  <1>2. CASE x # y
    <2>1. /\ x.algorithm = "gcra" /\ y.algorithm = "gcra" /\ x.banUntil = y.banUntil
          /\ x.tat <= now * r.limit /\ y.tat <= now * r.limit
      BY <1>2 DEF Twins
    <2>2. r.algorithm = "gcra" /\ x \in GcraStates /\ y \in GcraStates
      BY <2>1 DEF StatesOf, FixedStates, SlidingStates, TokenStates, NoState, Rules,
                  AlgorithmNames
    <2>3. Tat(r, now, x) = x.tat /\ Tat(r, now, y) = y.tat
      BY <2>1 DEF Tat
    <2>4. ActiveBanUntil(x, now) = ActiveBanUntil(y, now)
      BY <2>1 DEF ActiveBanUntil
    <2>5. SameAnswer(r, now, GcraHit(r, now, x), GcraHit(r, now, y))
      BY <2>1, <2>2, <2>3, <2>4, GcraTwins
    <2> QED
      BY <2>2, <2>5 DEF EvaluateAlgorithmHit
  <1> QED
    BY <1>1, <1>2

LEMMA EvaluateLapsedTwins ==
    ASSUME NEW r \in Rules, NEW now \in Nat, NEW s \in StatesOf(r), NEW e \in Nat,
           Outlives(r, s, e), e <= now
    PROVE  SameAnswer(r, now, EvaluateAlgorithmHit(r, now, NoState),
                      EvaluateAlgorithmHit(r, now, s))
  <1>1. CASE r.algorithm = "fixed-window"
    BY <1>1, FixedWindowLapsed DEF EvaluateAlgorithmHit, StatesOf, SameAnswer, Twins
  <1>2. CASE r.algorithm = "sliding-window"
    BY <1>2, SlidingWindowLapsed DEF EvaluateAlgorithmHit, StatesOf, SameAnswer, Twins
  <1>3. CASE r.algorithm = "token-bucket"
    BY <1>3, TokenBucketLapsed DEF EvaluateAlgorithmHit, StatesOf, SameAnswer, Twins
  <1>4. CASE r.algorithm = "gcra"
    BY <1>4, GcraLapsedTwins DEF EvaluateAlgorithmHit, StatesOf
  <1> QED
    BY <1>1, <1>2, <1>3, <1>4 DEF Rules, AlgorithmNames
=============================================================================
