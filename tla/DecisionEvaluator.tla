-------------------------- MODULE DecisionEvaluator --------------------------
(***************************************************************************)
(* evaluateRequest of src/index.ts and evaluateDecisions of                *)
(* src/core/decisionEvaluator.ts: concurrent requests that each take the   *)
(* same list of active rules in order, hit the rule's store, turn to the   *)
(* fallback store and to the onStoreError policy when that fails, and end  *)
(* in a pass or a 429.  A request is suspended at every await, so its      *)
(* steps interleave with the stores and with other requests.               *)
(*                                                                         *)
(* Stores are seen through the RateLimitStore contract: a call is charged  *)
(* to the rule's counter at most once, at any time after it was sent, even *)
(* after the request stopped waiting for it.  A window does not end within *)
(* a behaviour, and all requests share the base key, so a store's counter  *)
(* for a rule is the number of calls it charged (cost 1).                  *)
(***************************************************************************)
EXTENDS HeaderDecisions, FiniteSets

CONSTANTS
    Requests,
    Stores,
    ActiveRules,     \* sequence of rules, in evaluation order
    FallbackStore,   \* resolvedFallbackStore, or NoStore
    NoStore,
    OnStoreError,    \* the plugin's policy, for rules without one of their own
    CustomDecisions  \* per rule, the decision objects an onStoreError function may return

Policies == {"allow", "block", "custom"}

ASSUME RulesType ==
    ActiveRules \in Seq([limit : Nat \ {0}, window : Nat \ {0}, store : Stores, skip : BOOLEAN,
                         onStoreError : Policies \cup {"inherit"}])
ASSUME SomeRule     == ActiveRules # <<>>
ASSUME StoresDiffer == NoStore \notin Stores /\ FallbackStore \in Stores \cup {NoStore}
ASSUME PolicyType   == OnStoreError \in Policies

RuleIds == DOMAIN ActiveRules

Decisions ==
    [rule : RuleIds, limit : Nat, remaining : Nat, retryAfter : Nat, blocked : BOOLEAN]

ASSUME CustomType     == CustomDecisions \in [RuleIds -> SUBSET Decisions]
ASSUME NotADecision   == NoDecision \notin Decisions

VARIABLES
    pc,         \* where each request is suspended
    at,         \* the rule each request evaluates
    decisions,  \* the decisions each request has collected
    header,     \* the decision that fills each request's rate-limit headers
    open,       \* calls <<request, rule, attempt>> sent and not (yet) charged
    ledger      \* per store and rule, the calls charged, in order

vars == <<pc, at, decisions, header, open, ledger>>

Final == {"exempt", "passed", "limited", "failed"}

Calls == Requests \X RuleIds \X {"primary", "fallback"}

StoreOf(c) == IF c[3] = "primary" THEN ActiveRules[c[2]].store ELSE FallbackStore

TypeOK ==
    /\ pc \in [Requests ->
                  {"idle", "rule", "primary", "fallback", "policy", "observe"} \cup Final]
    /\ at \in [Requests -> 1 .. Len(ActiveRules) + 1]
    /\ decisions \in [Requests -> Seq(Decisions)]
    /\ header \in [Requests -> Decisions \cup {NoDecision}]
    /\ open \subseteq Calls
    /\ ledger \in [Stores -> [RuleIds -> Seq(Calls)]]

Init ==
    /\ pc = [q \in Requests |-> "idle"]
    /\ at = [q \in Requests |-> 1]
    /\ decisions = [q \in Requests |-> <<>>]
    /\ header = [q \in Requests |-> NoDecision]
    /\ open = {}
    /\ ledger = [s \in Stores |-> [i \in RuleIds |-> <<>>]]

-----------------------------------------------------------------------------
(* Decisions.                                                              *)

\* Bug: a synthetic block that does not block.
SynthesizeBlock_Open(i) ==
    [rule |-> i, limit |-> ActiveRules[i].limit, remaining |-> 0,
     retryAfter |-> ActiveRules[i].window, blocked |-> FALSE]

SynthesizeBlock(i) ==
    [rule |-> i, limit |-> ActiveRules[i].limit, remaining |-> 0,
     retryAfter |-> ActiveRules[i].window, blocked |-> TRUE]

\* Bug: a store reports how far over the limit the count is.
ToDecisions_Negative(i, n) ==
    LET limit == ActiveRules[i].limit IN
    {[rule |-> i, limit |-> limit, remaining |-> limit - n, retryAfter |-> 0,
      blocked |-> n > limit]}

\* What a store may answer to the n-th call it charges to rule i.  How long a
\* blocked client has to wait depends on when the window began.
ToDecisions(i, n) ==
    LET limit == ActiveRules[i].limit IN
    {[rule |-> i, limit |-> limit, remaining |-> IF n <= limit THEN limit - n ELSE 0,
      retryAfter |-> wait, blocked |-> n > limit] :
        wait \in IF n <= limit THEN {0} ELSE {1, ActiveRules[i].window}}

-----------------------------------------------------------------------------
(* The request's own steps.                                                *)

Goto(q, label) == pc' = [pc EXCEPT ![q] = label]

\* The rule at hand is done, with the decisions ds.
NextRule(q, ds) ==
    /\ Goto(q, "rule")
    /\ at' = [at EXCEPT ![q] = @ + 1]
    /\ decisions' = [decisions EXCEPT ![q] = @ \o ds]

\* options.skip lets the request go without any evaluation, or throws.
Begin(q) ==
    /\ pc[q] = "idle"
    /\ \E label \in {"rule", "exempt", "failed"} : Goto(q, label)
    /\ UNCHANGED <<at, decisions, header, open, ledger>>

\* rule.skip says so.  (When it throws, the rule stays active.)
SkipRule(q) ==
    /\ pc[q] = "rule" /\ at[q] \in RuleIds
    /\ ActiveRules[at[q]].skip
    /\ NextRule(q, <<>>)
    /\ UNCHANGED <<header, open, ledger>>

\* The key resolver throws: the request fails, whatever it was charged so far.
KeyFails(q) ==
    /\ pc[q] = "rule" /\ at[q] \in RuleIds
    /\ Goto(q, "failed")
    /\ UNCHANGED <<at, decisions, header, open, ledger>>

SendPrimary(q) ==
    /\ pc[q] = "rule" /\ at[q] \in RuleIds
    /\ Goto(q, "primary")
    /\ open' = open \cup {<<q, at[q], "primary">>}
    /\ UNCHANGED <<at, decisions, header, ledger>>

\* Bug: the fallback store is also tried when it is the rule's own store.
CanFallBack_Same(q) == pc[q] = "primary" /\ FallbackStore # NoStore

CanFallBack(q) ==
    pc[q] = "primary" /\ FallbackStore \notin {NoStore, ActiveRules[at[q]].store}

\* tryStoreHit reports an error: the fallback is tried once, then the policy.
HitFails(q) ==
    /\ pc[q] \in {"primary", "fallback"}
    /\ IF CanFallBack(q)
       THEN Goto(q, "fallback") /\ open' = open \cup {<<q, at[q], "fallback">>}
       ELSE Goto(q, "policy") /\ UNCHANGED open
    /\ UNCHANGED <<at, decisions, header, ledger>>

\* Bug: only the primary call is raced against the timer.
StoreTimeout_PrimaryOnly(q) == pc[q] = "primary" /\ HitFails(q)

\* withTimeout's timer fires first.  The call itself goes on.
StoreTimeout(q) == HitFails(q)

\* rule.onStoreError ?? onStoreError
PolicyOf(i) ==
    IF ActiveRules[i].onStoreError = "inherit" THEN OnStoreError ELSE ActiveRules[i].onStoreError

\* Bug: after a failed fallback the policy is applied a second time.
PolicyOutcomes_Twice(i) ==
    IF PolicyOf(i) = "block" THEN {<<SynthesizeBlock(i), SynthesizeBlock(i)>>} ELSE {<<>>}

\* What the policy may add to the decisions.  A function that throws allows.
PolicyOutcomes(i) ==
    IF PolicyOf(i) = "allow" THEN {<<>>}
    ELSE IF PolicyOf(i) = "block" THEN {<<SynthesizeBlock(i)>>}
    ELSE {<<>>, <<SynthesizeBlock(i)>>} \cup {<<d>> : d \in CustomDecisions[i]}

ApplyStoreErrorPolicy(q) ==
    /\ pc[q] = "policy"
    /\ \E ds \in PolicyOutcomes(at[q]) : NextRule(q, ds)
    /\ UNCHANGED <<header, open, ledger>>

\* All rules are done: the headers are set, or deferred, and onDecision runs.
Conclude(q) ==
    /\ pc[q] = "rule" /\ at[q] \notin RuleIds
    /\ Goto(q, "observe")
    /\ header' = [header EXCEPT ![q] = HeaderOf(decisions[q])]
    /\ UNCHANGED <<at, decisions, open, ledger>>

\* Some decision blocks: pickHeaderDecision of the blocked ones is not undefined.
IsBlocked(q) == \E n \in DOMAIN decisions[q] : decisions[q][n].blocked

\* onDecision has run, or thrown, which is swallowed; an onLimit that throws is not.
Respond(q) ==
    /\ pc[q] = "observe"
    /\ IF IsBlocked(q)
       THEN Goto(q, "limited") \/ Goto(q, "failed")
       ELSE Goto(q, "passed")
    /\ UNCHANGED <<at, decisions, header, open, ledger>>

-----------------------------------------------------------------------------
(* The stores.                                                             *)

Charge(c) ==
    /\ c \in open
    /\ open' = open \ {c}
    /\ ledger' = [ledger EXCEPT ![StoreOf(c)][c[2]] = Append(@, c)]
    /\ UNCHANGED <<pc, at, decisions, header>>

\* The store answers the call q waits for, which it has charged, with a
\* well-formed HitResult.
StoreAnswers(q) ==
    /\ pc[q] \in {"primary", "fallback"}
    /\ LET c == <<q, at[q], pc[q]>> IN
       \E n \in DOMAIN ledger[StoreOf(c)][at[q]] :
          /\ ledger[StoreOf(c)][at[q]][n] = c
          /\ \E d \in ToDecisions(at[q], n) : NextRule(q, <<d>>)
    /\ UNCHANGED <<header, open, ledger>>

\* It throws, rejects or answers with something malformed, before it charged the
\* call or after.
StoreFails(q) == HitFails(q)

-----------------------------------------------------------------------------

OwnStep(q) ==
    \/ Begin(q) \/ SkipRule(q) \/ KeyFails(q) \/ SendPrimary(q)
    \/ ApplyStoreErrorPolicy(q) \/ Conclude(q) \/ Respond(q)

Next ==
    \/ \E q \in Requests :
          OwnStep(q) \/ StoreTimeout(q) \/ StoreAnswers(q) \/ StoreFails(q)
    \/ \E c \in open : Charge(c)

\* The event loop runs what is ready, user callbacks settle, and storeTimeout is
\* set.  Nothing is assumed of the stores.
Fairness == \A q \in Requests : WF_vars(OwnStep(q)) /\ WF_vars(StoreTimeout(q))

Spec == Init /\ [][Next]_vars /\ Fairness

-----------------------------------------------------------------------------
(* Properties.                                                             *)

\* docs/production.md: the fallback "is skipped to avoid a double hit" when it is
\* the primary.  However calls fail, time out and are charged late, no store
\* charges a request twice for a rule.
ChargedOncePerStore ==
    \A s \in Stores, i \in RuleIds : \A m, n \in DOMAIN ledger[s][i] :
        ledger[s][i][m][1] = ledger[s][i][n][1] => m = n

\* The stores that may answer for rule i.
ServingStores(i) == {ActiveRules[i].store, FallbackStore} \ {NoStore}

\* Under the 'block' policy a rule fails closed: it lets at most `limit` requests
\* pass per store that may answer for it, whatever calls are lost, time out or
\* are charged late, and whatever the other rules' stores and policies do.
FailsClosed ==
    \A i \in RuleIds :
        PolicyOf(i) = "block" /\ ~ActiveRules[i].skip =>
            Cardinality({q \in Requests : pc[q] = "passed"})
                <= ActiveRules[i].limit * Cardinality(ServingStores(i))

Concluded(q) == pc[q] \in {"observe", "passed", "limited"}

\* Each rule contributes at most one decision, in evaluation order; a rule that
\* fails closed and is not skipped contributes exactly one.
EveryRuleCounts ==
    \A q \in Requests :
        /\ \A m, n \in DOMAIN decisions[q] : m < n => decisions[q][m].rule < decisions[q][n].rule
        /\ \A i \in RuleIds :
              Concluded(q) /\ PolicyOf(i) = "block" /\ ~ActiveRules[i].skip =>
                  \E n \in DOMAIN decisions[q] : decisions[q][n].rule = i

\* docs/algorithm.md: a request is answered 429 if any rule blocked it, and the
\* headers are those of the strictest decision, of the blocked ones if any.
StrictestDecisionShown ==
    \A q \in Requests : Concluded(q) /\ decisions[q] # <<>> =>
        LET ds   == decisions[q]
            hits == {n \in DOMAIN ds : ds[n].blocked}
            pool == IF hits = {} THEN DOMAIN ds ELSE hits
        IN  /\ \E m \in pool : ds[m] = header[q] /\ \A n \in pool \ {m} : StricterThan(ds, m, n)
            /\ pc[q] = "passed" => hits = {}
            /\ pc[q] = "limited" => hits # {}

\* With storeTimeout every request is answered, even if no store ever is.
EventuallyAnswered == \A q \in Requests : <>(pc[q] \in Final)
=============================================================================
