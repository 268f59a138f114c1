------------------------- MODULE MCRedisFixedWindow -------------------------
(***************************************************************************)
(* Three hits of one key, for TLC: two on one instance, one on another.    *)
(***************************************************************************)
EXTENDS RedisFixedWindow, TLC

CONSTANTS h1, h2, h3, i1, i2

TwoInstances == (h1 :> i1) @@ (h2 :> i1) @@ (h3 :> i2)

\* The hits of one instance are interchangeable.
SameInstance == Permutations({h1, h2})
=============================================================================
