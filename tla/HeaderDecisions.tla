--------------------------- MODULE HeaderDecisions ---------------------------
(***************************************************************************)
(* Which of a request's decisions fills its rate-limit headers:            *)
(* pickHeaderDecision of src/utilities.ts, as evaluateRequest of           *)
(* src/index.ts applies it.  A decision is a record with at least          *)
(* [remaining, retryAfter, limit, blocked].                                *)
(***************************************************************************)
EXTENDS Integers, Sequences

CONSTANT NoDecision

IsBetterDecision(candidate, best) ==
    \/ candidate.remaining < best.remaining
    \/ /\ candidate.remaining = best.remaining
       /\ \/ candidate.retryAfter > best.retryAfter
          \/ candidate.retryAfter = best.retryAfter /\ candidate.limit < best.limit

\* The loop over the decisions at the places in `pool`, in order: best[n] is the
\* place of the best among the first n, 0 before there is one.
BestPlaces(ds, pool) ==
    LET best[n \in 0 .. Len(ds)] ==
            IF n = 0 THEN 0
            ELSE IF n \in pool /\ (best[n - 1] = 0 \/ IsBetterDecision(ds[n], ds[best[n - 1]]))
                 THEN n ELSE best[n - 1]
    IN  best

\* Bug: the first rule's decision is shown.
PickHeaderDecision_First(ds, pool) == ds[CHOOSE n \in pool : \A m \in pool : n <= m]

PickHeaderDecision(ds, pool) == ds[BestPlaces(ds, pool)[Len(ds)]]

\* Bug: the headers show the strictest decision of all, blocked or not.
HeaderOf_AnyDecision(ds) ==
    IF ds = <<>> THEN NoDecision ELSE PickHeaderDecision(ds, DOMAIN ds)

\* blockedBy ?? pickHeaderDecision(decisions)
HeaderOf(ds) ==
    LET blocked == {n \in DOMAIN ds : ds[n].blocked} IN
    IF ds = <<>> THEN NoDecision
    ELSE PickHeaderDecision(ds, IF blocked = {} THEN DOMAIN ds ELSE blocked)

\* docs/algorithm.md, "Strictest decision tie-breakers": lowest remaining, highest
\* retryAfter, lowest limit, evaluation order.
StricterThan(ds, m, n) ==
    \/ ds[m].remaining < ds[n].remaining
    \/ ds[m].remaining = ds[n].remaining /\ ds[m].retryAfter > ds[n].retryAfter
    \/ /\ ds[m].remaining = ds[n].remaining /\ ds[m].retryAfter = ds[n].retryAfter
       /\ \/ ds[m].limit < ds[n].limit
          \/ ds[m].limit = ds[n].limit /\ m < n
=============================================================================
