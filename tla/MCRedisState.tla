---------------------------- MODULE MCRedisState ----------------------------
(***************************************************************************)
(* Hits of one key on two instances, for TLC.                              *)
(***************************************************************************)
EXTENDS RedisState, TLC

CONSTANTS h1, h2, h3, i1, i2

TwoInstances == (h1 :> i1) @@ (h2 :> i1) @@ (h3 :> i2)

\* The hits of one instance are interchangeable.
SameInstance == Permutations({h1, h2})

GcraRule ==
    [algorithm |-> "gcra", limit |-> 1, window |-> 2, cost |-> 1, ban |-> 3]

BucketRule ==
    [algorithm |-> "token-bucket", limit |-> 1, window |-> 3, cost |-> 1, ban |-> 0]

SlidingRule ==
    [algorithm |-> "sliding-window", limit |-> 1, window |-> 2, cost |-> 1, ban |-> 2]

UnbannedSlidingRule == [SlidingRule EXCEPT !.ban = 0]

OnlyGcra == {GcraRule}

EveryRule == {GcraRule, BucketRule, SlidingRule, UnbannedSlidingRule}
=============================================================================
