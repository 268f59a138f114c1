------------------------- MODULE MemoryStoreHistory -------------------------
(***************************************************************************)
(* MemoryStore with history variables that record what the store told its  *)
(* callers, and the properties that relate those answers over time.  They  *)
(* are about stores whose cap evicts no live record (MemoryStoreEviction   *)
(* is about the cap): past an eviction the store promises nothing.         *)
(***************************************************************************)
EXTENDS MemoryStore

VARIABLES
    admitted,     \* per key and time t, the cost of the hits admitted up to t
    promisedBan   \* per key, the latest banUntil a hit reported

historyVars == <<vars, admitted, promisedBan>>

\* The ledger a of one key with cost c admitted at time t.
Charged(a, t, c) == [i \in 0 .. MaxClock |-> a[i] + IF i >= t THEN c ELSE 0]

HistoryInit ==
    /\ Init
    /\ admitted = [k \in Keys |-> [t \in 0 .. MaxClock |-> 0]]
    /\ promisedBan = [k \in Keys |-> 0]

HistoryHit(k, now) ==
    LET hit == Outcome(k, now).hit IN
    /\ Hit(k, now) \/ AlgorithmHit(k, now)
    /\ admitted' = [admitted EXCEPT ![k] =
                        Charged(@, clock, IF hit.blocked THEN 0 ELSE Rule[k].cost)]
    /\ promisedBan' = [promisedBan EXCEPT ![k] = Larger(@, hit.banUntil)]

HistoryQuiet ==
    /\ Cleanup \/ Tick
    /\ UNCHANGED <<admitted, promisedBan>>

HistoryNext == HistoryQuiet \/ \E k \in Keys : \E now \in Nows(k) : HistoryHit(k, now)

HistorySpec == HistoryInit /\ [][HistoryNext]_historyVars /\ Fairness

-----------------------------------------------------------------------------
(* What callers were told.                                                 *)

\* A ban that a hit reported holds until it ends: every hit before then is
\* blocked, through window rollovers, cleanups, sweeps and hits out of order.
BanHonoured ==
    \A k \in Keys : promisedBan[k] > clock =>
        \A now \in Nows(k) : Outcome(k, now).hit.blocked

\* `remaining` is exact: right after an admitted hit, another hit is admitted
\* if and only if its cost is within the remaining the first one reported.
RemainingExact ==
    \A k \in Keys :
        LET out  == Outcome(k, clock)
            next == EvaluateAlgorithmHit(Rule[k], clock, out.state)
        IN  ~out.hit.blocked => (next.hit.blocked <=> Rule[k].cost > out.hit.remaining)

\* A client that waits retryAfter after a blocked hit of k, with no other hit of
\* k in between, is admitted (if its cost can be admitted at all).
HonestFor(k) ==
    LET out   == Outcome(k, clock)
        later == clock + out.hit.retryAfter
    IN  out.hit.blocked /\ Rule[k].cost <= Rule[k].limit
            => ~EvaluateAlgorithmHit(Rule[k], later, out.state).hit.blocked

\* README.md: a blocked response has "a `Retry-After` header telling the client
\* when to try again".
RetryAfterHonest == \A k \in Keys : HonestFor(k)

\* The same where the code computes the wait from the state it stores: fixed
\* windows and token buckets, with or without a ban, and gcra without one.
\* (sliding-window names the end of the window, when the previous counter still
\* has full weight; a gcra hit during a ban names the end of the ban only.)
RetryAfterHonestWhereExact ==
    \A k \in Keys :
        (\/ Rule[k].algorithm \in {"fixed-window", "token-bucket"}
         \/ Rule[k].algorithm = "gcra" /\ Rule[k].ban = 0) => HonestFor(k)

\* hit() of the memory store repeats evaluateFixedWindowHit of
\* src/core/algorithms.ts by hand: on every reachable record the two agree on
\* the answer, the new state and its expiry.
InlineHitMatchesReference ==
    \A k \in Keys : Rule[k].algorithm = "fixed-window" =>
        \A now \in Nows(k) :
            InlineHit(Rule[k], now, StateOf(k)) = FixedWindowHit(Rule[k], now, StateOf(k))

\* A late hit of k at `now` that arrives when k's record was live at `now` but has
\* expired since.
Overtaken(k, now) == k \in Tracked /\ now < map[k].expiresAt /\ map[k].expiresAt <= clock

\* A hit that was admitted still is, with at least as much left.
NoStricter(before, after) ==
    ~before.blocked => ~after.blocked /\ after.remaining >= before.remaining

\* A cleanup changes the answer of no hit, early or late, but one: a late hit that
\* its key's record still counts is a first hit when the cleanup has taken the
\* expired record before it.  That hit is never refused or left less because of it.
CleanupInvisible ==
    [][Cleanup => \A k \in Keys : \A now \in Nows(k) :
          IF Overtaken(k, now)
          THEN NoStricter(Outcome(k, now).hit, Outcome(k, now)'.hit)
          ELSE Outcome(k, now)'.hit = Outcome(k, now).hit]_historyVars

-----------------------------------------------------------------------------
(* How much is admitted.  Spent(a, s, t) is the cost that a key's ledger a  *)
(* says was admitted from s to t in real time.  Each bound is on the       *)
(* intervals that end now (at t); those that ended earlier were looked at  *)
(* when they did.                                                          *)

UpTo(a, t) == IF t < 0 THEN 0 ELSE a[t]

Spent(a, s, t) == UpTo(a, t) - UpTo(a, s - 1)

\* fixed-window: no interval shorter than the window (less the lag of stale
\* hits) admits more than two windows' worth.
FixedRate(r, lag, a, t) ==
    \A s \in 0 .. t : t - s < r.window - lag => Spent(a, s, t) <= 2 * r.limit

\* sliding-window: whenever something is admitted, the documented blend of the
\* cost admitted in the previous and the current window is within the limit.
SlidingRate(r, a, t) ==
    Spent(a, t, t) > 0 =>
        LET start == WindowStart(r, t) IN
        Estimated(r, t, Spent(a, Larger(start - r.window, 0), start - 1),
                  Spent(a, start, t)) <= r.limit

\* token-bucket and gcra: any interval admits at most the burst and what refills
\* during the interval (and during the lag of stale hits).
MeteredRate(r, lag, a, t) ==
    \A s \in 0 .. t :
        Spent(a, s, t) * r.window <= Capacity(r) + (t - s + lag) * r.limit

\* The limit that docs/algorithm.md states for each algorithm, on what was
\* admitted in real time, over every interval of the run.
RateLimited ==
    \A k \in Keys :
        LET r == Rule[k] IN
        /\ r.algorithm = "fixed-window"   => FixedRate(r, MaxLag[k], admitted[k], clock)
        /\ r.algorithm = "sliding-window" => SlidingRate(r, admitted[k], clock)
        /\ r.algorithm \in {"token-bucket", "gcra"}
                => MeteredRate(r, MaxLag[k], admitted[k], clock)

-----------------------------------------------------------------------------
(* token-bucket and gcra implement the meter, when hits carry the present  *)
(* time and the cap evicts nothing.                                        *)

MeteredKeys ==
    {k \in Keys : Rule[k].algorithm \in {"token-bucket", "gcra"} /\ MaxLag[k] = 0}

\* The allowance in use that the stored record stands for at the present time.
InUse(k) ==
    IF Rule[k].algorithm = "token-bucket"
    THEN Capacity(Rule[k]) - Refilled(Rule[k], clock, StateOf(k))
    ELSE Larger(Tat(Rule[k], clock, StateOf(k)) - clock * Rule[k].limit, 0)

Meter == INSTANCE AllowanceMeter WITH
             Keys <- MeteredKeys, level <- [k \in MeteredKeys |-> InUse(k)], time <- clock

\* Every admitted hit is one the meter admits; refused hits, bans, cleanups and
\* the passing of time are invisible to it or drain it at the documented rate.
ImplementsMeter == Meter!MeterSpec
=============================================================================
