----------------------------- MODULE Algorithms -----------------------------
(***************************************************************************)
(* The four limiting algorithms of src/core/algorithms.ts as pure          *)
(* operators: what one hit at time `now` reports and what state it leaves, *)
(* given the state of the key before it.                                   *)
(*                                                                         *)
(* A rule is a record [algorithm, limit, window, cost, ban]; `ban` is 0    *)
(* when the rule has none.  Times are milliseconds (natural numbers).  The *)
(* code computes fractions of a token and of a millisecond in doubles;     *)
(* here they are exact integers in a finer unit:                           *)
(*   - `tokens` counts 1/window-ths of a token   (a full bucket is         *)
(*     limit * window, one ms refills limit, a hit spends cost * window);  *)
(*   - `tat` counts 1/limit-ths of a millisecond (one ms is limit, the     *)
(*     burst is window * limit, a hit moves it by window * cost).          *)
(* The rounding error of the doubles is therefore not modelled.            *)
(***************************************************************************)
EXTENDS Integers

Larger(a, b)  == IF a >= b THEN a ELSE b
Smaller(a, b) == IF a <= b THEN a ELSE b

\* Bug: waits are rounded down.
CeilDiv_Floor(a, b) == a \div b

\* Math.ceil(a / b) of natural numbers.
CeilDiv(a, b) == (a + b - 1) \div b

AlgorithmNames == {"fixed-window", "sliding-window", "token-bucket", "gcra"}

\* A key without a record, or with a record of another algorithm.
NoState == [algorithm |-> "none", banUntil |-> 0]

SameState(s, algorithm) == IF s.algorithm = algorithm THEN s ELSE NoState

-----------------------------------------------------------------------------
(* Helpers every algorithm uses.                                           *)

\* A stored ban that is over is dropped (0) by the next hit.
ActiveBanUntil(s, now) == IF s.banUntil > now THEN s.banUntil ELSE 0

\* A breach starts the rule's ban unless one is running.
ArmBan(r, now, held, over) ==
    IF over /\ r.ban > 0 /\ held <= now THEN now + r.ban ELSE held

ExpiryFor(resetAt, banUntil) == Larger(resetAt, banUntil)

\* Bug: the unit a hit is about to spend is left out of `remaining`.
HitResult_Low(count, remaining, resetAt, blocked, retryAfter, banUntil) ==
    [count |-> count, remaining |-> Larger(remaining - 1, 0), resetAt |-> resetAt,
     blocked |-> blocked, retryAfter |-> retryAfter, banUntil |-> banUntil]

HitResult(count, remaining, resetAt, blocked, retryAfter, banUntil) ==
    [count |-> count, remaining |-> remaining, resetAt |-> resetAt,
     blocked |-> blocked, retryAfter |-> retryAfter, banUntil |-> banUntil]

-----------------------------------------------------------------------------
(* fixed-window: a counter that starts over when its window has passed.    *)

WindowOpen(s, now) == s.algorithm = "fixed-window" /\ s.resetAt > now

\* Bug: the window is taken to be over one millisecond late.
FixedState_LateReset(r, now, s) ==
    LET open == s.algorithm = "fixed-window" /\ s.resetAt >= now
        count == IF open THEN s.count + r.cost ELSE r.cost
    IN  [algorithm |-> "fixed-window",
         count     |-> count,
         resetAt   |-> IF open THEN s.resetAt ELSE now + r.window,
         banUntil  |-> ArmBan(r, now, ActiveBanUntil(s, now), count > r.limit)]

FixedState(r, now, s) ==
    LET count == IF WindowOpen(s, now) THEN s.count + r.cost ELSE r.cost
    IN  [algorithm |-> "fixed-window",
         count     |-> count,
         resetAt   |-> IF WindowOpen(s, now) THEN s.resetAt ELSE now + r.window,
         banUntil  |-> ArmBan(r, now, ActiveBanUntil(s, now), count > r.limit)]

FixedWindowHit(r, now, s) ==
    LET next    == FixedState(r, now, SameState(s, "fixed-window"))
        blocked == next.banUntil > now \/ next.count > r.limit
    IN  [state     |-> next,
         expiresAt |-> ExpiryFor(next.resetAt, next.banUntil),
         hit       |-> HitResult(next.count, Larger(r.limit - next.count, 0), next.resetAt,
                           blocked,
                           IF blocked THEN Larger(next.resetAt, next.banUntil) - now ELSE 0,
                           next.banUntil)]

-----------------------------------------------------------------------------
(* sliding-window: two counters on windows aligned to multiples of `window`, *)
(* the earlier one weighted by how much of it is still in sight.           *)

WindowStart(r, now) == (now \div r.window) * r.window

\* Bug: the counter of the window before is not carried over.
SlidingPrevious_NoCarry(r, now, s) ==
    IF s.algorithm = "sliding-window" /\ s.windowStart = WindowStart(r, now)
    THEN s.previousCount ELSE 0

SlidingPrevious(r, now, s) ==
    CASE s.algorithm # "sliding-window"                   -> 0
      [] s.algorithm = "sliding-window" /\ s.windowStart = WindowStart(r, now)
                                                          -> s.previousCount
      [] s.algorithm = "sliding-window" /\ s.windowStart = WindowStart(r, now) - r.window
                                                          -> s.currentCount
      [] OTHER                                            -> 0

SlidingCurrent(r, now, s) ==
    r.cost + IF s.algorithm = "sliding-window" /\ s.windowStart = WindowStart(r, now)
             THEN s.currentCount ELSE 0

\* floor(previousCount * weight + currentCount)
Estimated(r, now, previous, current) ==
    current + (previous * (r.window - (now - WindowStart(r, now)))) \div r.window

SlidingWindowHit(r, now, s) ==
    LET same      == SameState(s, "sliding-window")
        previous  == SlidingPrevious(r, now, same)
        current   == SlidingCurrent(r, now, same)
        estimated == Estimated(r, now, previous, current)
        banUntil  == ArmBan(r, now, ActiveBanUntil(same, now), estimated > r.limit)
        resetAt   == WindowStart(r, now) + r.window
        blocked   == banUntil > now \/ estimated > r.limit
    IN  [state     |-> [algorithm |-> "sliding-window", previousCount |-> previous,
                        currentCount |-> current, windowStart |-> WindowStart(r, now),
                        banUntil |-> banUntil],
         expiresAt |-> ExpiryFor(WindowStart(r, now) + 2 * r.window, banUntil),
         hit       |-> HitResult(estimated, Larger(r.limit - estimated, 0), resetAt, blocked,
                           IF blocked THEN Larger(resetAt, banUntil) - now ELSE 0,
                           banUntil)]

-----------------------------------------------------------------------------
(* token-bucket: limit tokens at most, refilled at limit / window per ms.  *)

Capacity(r) == r.limit * r.window

\* Bug: the refill is not capped at the bucket's capacity.
Refilled_Uncapped(r, now, s) ==
    IF s.algorithm = "token-bucket"
    THEN s.tokens + Larger(now - s.updatedAt, 0) * r.limit
    ELSE Capacity(r)

\* The tokens at `now`, before the hit spends any.  A `now` before updatedAt
\* refills nothing.
Refilled(r, now, s) ==
    IF s.algorithm = "token-bucket"
    THEN Smaller(Capacity(r), s.tokens + Larger(now - s.updatedAt, 0) * r.limit)
    ELSE Capacity(r)

TokenBucketHit(r, now, s) ==
    LET same     == SameState(s, "token-bucket")
        price    == r.cost * r.window
        filled   == Refilled(r, now, same)
        banned   == ActiveBanUntil(same, now) > now
        short    == ~banned /\ filled < price
        tokens   == IF banned \/ short THEN filled ELSE filled - price
        banUntil == ArmBan(r, now, ActiveBanUntil(same, now), short)
        refillMs == IF tokens >= price THEN 0 ELSE CeilDiv(price - tokens, r.limit)
        resetAt  == now + CeilDiv(Capacity(r) - tokens, r.limit)
        blocked  == banUntil > now \/ short
    IN  [state     |-> [algorithm |-> "token-bucket", tokens |-> tokens, updatedAt |-> now,
                        banUntil |-> banUntil],
         expiresAt |-> ExpiryFor(resetAt, banUntil),
         hit       |-> HitResult(CeilDiv(Capacity(r) - tokens, r.window), tokens \div r.window,
                           resetAt, blocked,
                           IF blocked THEN Larger(refillMs, Larger(banUntil - now, 0)) ELSE 0,
                           banUntil)]

-----------------------------------------------------------------------------
(* gcra: the theoretical arrival time moves one emission interval per unit *)
(* of cost, and may run ahead of `now` by at most the burst.               *)

\* The arrival time a hit at `now` starts from.
Tat(r, now, s) == IF s.algorithm = "gcra" THEN s.tat ELSE now * r.limit

\* Bug: an arrival time in the past is not brought up to `now`.
NextTat_NoMax(r, now, tat) == tat + r.window * r.cost

NextTat(r, now, tat) == Larger(tat, now * r.limit) + r.window * r.cost

GcraHit(r, now, s) ==
    LET same     == SameState(s, "gcra")
        banned   == ActiveBanUntil(same, now) > now
        nextTat  == NextTat(r, now, Tat(r, now, same))
        allowAt  == nextTat - Capacity(r)
        early    == ~banned /\ now * r.limit < allowAt
        tat      == IF banned \/ early THEN Tat(r, now, same) ELSE nextTat
        wait     == IF early THEN CeilDiv(allowAt - now * r.limit, r.limit) ELSE 0
        banUntil == ArmBan(r, now, ActiveBanUntil(same, now), early)
        used     == Larger(tat - now * r.limit, 0)
        left     == Larger((Capacity(r) - used) \div r.window, 0)
        blocked  == banUntil > now \/ early
    IN  [state     |-> [algorithm |-> "gcra", tat |-> tat, banUntil |-> banUntil],
         expiresAt |-> ExpiryFor(now + CeilDiv(Capacity(r) + used, r.limit), banUntil),
         hit       |-> HitResult(Larger(r.limit - left, 0), left,
                           now + CeilDiv(used, r.limit), blocked,
                           IF blocked THEN Larger(wait, Larger(banUntil - now, 0)) ELSE 0,
                           banUntil)]

-----------------------------------------------------------------------------

EvaluateAlgorithmHit(r, now, s) ==
    CASE r.algorithm = "fixed-window"   -> FixedWindowHit(r, now, s)
      [] r.algorithm = "sliding-window" -> SlidingWindowHit(r, now, s)
      [] r.algorithm = "token-bucket"   -> TokenBucketHit(r, now, s)
      [] r.algorithm = "gcra"           -> GcraHit(r, now, s)

-----------------------------------------------------------------------------
(* The states each algorithm can leave behind for rule r.                  *)

Rules == [algorithm : AlgorithmNames, limit : Nat \ {0}, window : Nat \ {0},
          cost : Nat \ {0}, ban : Nat]

FixedStates == [algorithm : {"fixed-window"}, count : Nat, resetAt : Nat, banUntil : Nat]

SlidingStates == [algorithm : {"sliding-window"}, previousCount : Nat, currentCount : Nat,
                  windowStart : Nat, banUntil : Nat]

TokenStates(r) == [algorithm : {"token-bucket"}, tokens : 0 .. Capacity(r), updatedAt : Nat,
                   banUntil : Nat]

GcraStates == [algorithm : {"gcra"}, tat : Nat, banUntil : Nat]

StatesOf(r) ==
    CASE r.algorithm = "fixed-window"   -> FixedStates
      [] r.algorithm = "sliding-window" -> SlidingStates
      [] r.algorithm = "token-bucket"   -> TokenStates(r)
      [] r.algorithm = "gcra"           -> GcraStates
=============================================================================
