--------------------------- MODULE MCMemoryCap -------------------------------
(***************************************************************************)
(* Keys of three rules that compete for a small cap, for TLC.              *)
(***************************************************************************)
EXTENDS MemoryStoreEviction, TLC

CONSTANTS k1, k2, k3

\* A rule of the given algorithm; at most `limit` units per `window` ms.
MCRule(algorithm, limit, window, cost, ban) ==
    [algorithm |-> algorithm, limit |-> limit, window |-> window, cost |-> cost, ban |-> ban]

\* Three keys that compete for the cap, with expiries of their own: one is
\* banned longer than its window, one refills.
CapRules ==
    (k1 :> MCRule("fixed-window", 1, 2, 1, 3)) @@
    (k2 :> MCRule("fixed-window", 1, 1, 1, 0)) @@
    (k3 :> MCRule("token-bucket", 2, 2, 1, 0))

\* The hits of k2 may reach the store one tick late.
CapLags == (k1 :> 0) @@ (k2 :> 1) @@ (k3 :> 0)

NoLags == [k \in {k1, k2, k3} |-> 0]
=============================================================================
