--------------------------- MODULE AllowanceMeter ---------------------------
(***************************************************************************)
(* What token-bucket and gcra promise (docs/algorithm.md: `limit` is the   *)
(* burst capacity and `window` defines the refill rate limit / window):    *)
(* a meter per key that admitted hits raise by cost * window, that falls   *)
(* by `limit` per millisecond, and that never exceeds limit * window.      *)
(* Refused hits leave the meter alone, so they are stuttering steps here.  *)
(***************************************************************************)
EXTENDS Algorithms

CONSTANTS Keys, Rule

VARIABLES
    level,  \* per key, the allowance in use, in 1/window-ths of a unit of cost
    time

meterVars == <<level, time>>

MeterTypeOK ==
    /\ level \in [Keys -> Nat]
    /\ time \in Nat

\* The promise: no more than the burst is ever in use.
WithinBurst == \A k \in Keys : level[k] <= Capacity(Rule[k])

MeterInit ==
    /\ level = [k \in Keys |-> 0]
    /\ time = 0

Admit(k) ==
    /\ level[k] + Rule[k].cost * Rule[k].window <= Capacity(Rule[k])
    /\ level' = [level EXCEPT ![k] = @ + Rule[k].cost * Rule[k].window]
    /\ UNCHANGED time

Elapse ==
    /\ time' = time + 1
    /\ level' = [k \in Keys |-> Larger(level[k] - Rule[k].limit, 0)]

MeterNext == Elapse \/ \E k \in Keys : Admit(k)

MeterSpec == MeterInit /\ [][MeterNext]_meterVars
=============================================================================
