--------------------------- MODULE MCMemoryRates ---------------------------
(***************************************************************************)
(* A key or two per algorithm, for TLC.  Without a cap the keys of a store do   *)
(* not influence one another, so a behaviour hits only one of them, chosen *)
(* at the start.                                                           *)
(***************************************************************************)
EXTENDS MemoryStoreHistory, TLC

CONSTANTS k1, k2, k3, k4, k5

MCRule(algorithm, limit, window, cost, ban) ==
    [algorithm |-> algorithm, limit |-> limit, window |-> window, cost |-> cost, ban |-> ban]

AllRules ==
    (k1 :> MCRule("fixed-window", 2, 3, 1, 2)) @@
    (k2 :> MCRule("sliding-window", 2, 3, 1, 2)) @@
    (k3 :> MCRule("token-bucket", 2, 3, 1, 2)) @@
    (k4 :> MCRule("gcra", 2, 3, 1, 2)) @@
    (k5 :> MCRule("gcra", 2, 3, 1, 0))

RateRules == [k \in Keys |-> AllRules[k]]

\* The hits of k1 and k5 may reach the store one tick late, and out of order.
RateLags == [k \in Keys |-> IF k \in {k1, k5} THEN 1 ELSE 0]

\* Every key's hits may be late.
LateLags == [k \in Keys |-> 1]

VARIABLE focus

FocusVars == <<historyVars, focus>>

FocusInit == HistoryInit /\ focus \in Keys

FocusNext ==
    /\ HistoryQuiet \/ \E now \in Nows(focus) : HistoryHit(focus, now)
    /\ UNCHANGED focus

FocusSpec == FocusInit /\ [][FocusNext]_FocusVars
=============================================================================
