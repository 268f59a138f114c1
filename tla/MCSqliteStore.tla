---------------------------- MODULE MCSqliteStore ----------------------------
(***************************************************************************)
(* Two processes on one database, for TLC.                                 *)
(***************************************************************************)
EXTENDS SqliteStore, TLC

CONSTANTS p1, p2, k1, k2

SqliteRules ==
    [k \in Keys |-> [algorithm |-> "fixed-window", limit |-> 1, window |-> 2, cost |-> 1,
                     ban |-> IF k = k1 THEN 3 ELSE 0]]

\* A key over its limit, with a ban that outlives its window.
OldVersionRows == {[count |-> 2, resetAt |-> 1, banUntil |-> 2]}

Interchangeable == Permutations(Processes)
=============================================================================
