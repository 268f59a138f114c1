---------------------------- MODULE MCDecisions ----------------------------
(***************************************************************************)
(* Requests under two rules: one of its own store, whose failures a        *)
(* function judges, and one whose store is also the fallback store and     *)
(* that fails closed.                                                      *)
(***************************************************************************)
EXTENDS DecisionEvaluator

CONSTANTS s1, s2, q1, q2

MCRule(limit, store, skip, policy) ==
    [limit |-> limit, window |-> 2, store |-> store, skip |-> skip, onStoreError |-> policy]

TwoRules == <<MCRule(2, s1, TRUE, "custom"), MCRule(1, s2, FALSE, "block")>>

\* A ban with quota left, and a pass that leaves none.
FunctionDecisions ==
    [i \in RuleIds |->
        {[rule |-> i, limit |-> 2, remaining |-> 1, retryAfter |-> 2, blocked |-> TRUE],
         [rule |-> i, limit |-> 2, remaining |-> 0, retryAfter |-> 0, blocked |-> FALSE]}]
=============================================================================
