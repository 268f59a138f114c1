----------------------- MODULE DecisionEvaluatorProofs -----------------------
(***************************************************************************)
(* Theorems about DecisionEvaluator, for every set of requests, rules and  *)
(* stores, and every way the stores may fail: no store charges a request   *)
(* twice, a rule that fails closed lets no more requests pass than its     *)
(* limit, each rule contributes its decision in its place, and the headers *)
(* are those of the strictest.                                             *)
(***************************************************************************)
EXTENDS DecisionEvaluator, HeaderDecisionProofs, FiniteSetTheorems

-----------------------------------------------------------------------------
(* Where the requests are.                                                 *)

InLoop == {"rule", "primary", "fallback", "policy"}

Over == {"observe", "passed", "limited"}

Positions ==
    /\ pc \in [Requests -> {"idle", "exempt", "failed"} \cup InLoop \cup Over]
    /\ at \in [Requests -> 1 .. Len(ActiveRules) + 1]
    /\ decisions \in [Requests -> Seq(Decisions)]
    /\ open \subseteq Calls
    /\ ledger \in [Stores -> [RuleIds -> Seq(Calls)]]
    /\ \A q \in Requests :
        /\ pc[q] \in {"primary", "fallback", "policy"} => at[q] \in RuleIds
        /\ pc[q] = "fallback" => FallbackStore \notin {NoStore, ActiveRules[at[q]].store}
        /\ pc[q] \in Over => at[q] \notin RuleIds

\* What the assumptions say of one rule.
RuleRecords ==
    [limit : Nat \ {0}, window : Nat \ {0}, store : Stores, skip : BOOLEAN,
     onStoreError : Policies \cup {"inherit"}]

LEMMA OneRule ==
    /\ Len(ActiveRules) \in Nat
    /\ RuleIds = 1 .. Len(ActiveRules)
    /\ \A i \in RuleIds :
        /\ ActiveRules[i].limit \in Nat \ {0}
        /\ ActiveRules[i].window \in Nat \ {0}
        /\ ActiveRules[i].store \in Stores
        /\ ActiveRules[i].onStoreError \in Policies \cup {"inherit"}
  <1>1. ActiveRules \in Seq(RuleRecords)
    BY RulesType DEF RuleRecords
  <1>2. Len(ActiveRules) \in Nat /\ RuleIds = 1 .. Len(ActiveRules)
    BY <1>1 DEF RuleIds
  <1>3. \A i \in RuleIds : ActiveRules[i] \in RuleRecords
    BY <1>1 DEF RuleIds
  <1> QED
    BY <1>2, <1>3 DEF RuleRecords

LEMMA StepDecisions ==
    ASSUME NEW i \in RuleIds
    PROVE  /\ SynthesizeBlock(i) \in Decisions /\ SynthesizeBlock(i).blocked
           /\ \A n \in Nat : ToDecisions(i, n) \subseteq Decisions
           /\ \A ds \in PolicyOutcomes(i) : ds \in Seq(Decisions)
  <1>1. SynthesizeBlock(i) \in Decisions /\ SynthesizeBlock(i).blocked
    BY OneRule DEF SynthesizeBlock, Decisions
  <1>2. ASSUME NEW n \in Nat, NEW d \in ToDecisions(i, n) PROVE d \in Decisions
    <2>1. ActiveRules[i].limit \in Nat /\ ActiveRules[i].window \in Nat
      BY OneRule
    <2>2. PICK wait \in IF n <= ActiveRules[i].limit THEN {0} ELSE {1, ActiveRules[i].window} :
              d = [rule |-> i, limit |-> ActiveRules[i].limit,
                   remaining |-> IF n <= ActiveRules[i].limit THEN ActiveRules[i].limit - n ELSE 0,
                   retryAfter |-> wait, blocked |-> n > ActiveRules[i].limit]
      BY <1>2 DEF ToDecisions
    <2>3. wait \in Nat
      BY <2>1, <2>2
    <2> QED
      BY <2>1, <2>2, <2>3 DEF Decisions
  <1>3. \A d \in Decisions : <<d>> \in Seq(Decisions)
    OBVIOUS
  <1>4. <<>> \in Seq(Decisions)
    OBVIOUS
  <1>5. ASSUME NEW ds \in PolicyOutcomes(i) PROVE ds \in Seq(Decisions)
    <2>1. ds = <<>> \/ ds = <<SynthesizeBlock(i)>> \/ \E d \in CustomDecisions[i] : ds = <<d>>
      BY <1>5 DEF PolicyOutcomes
    <2> QED
      BY <1>1, <1>3, <1>4, <2>1, CustomType
  <1> QED
    BY <1>1, <1>2, <1>5

LEMMA StoresOfCalls ==
    ASSUME NEW c \in Calls, c[3] = "fallback" => FallbackStore # NoStore
    PROVE  StoreOf(c) \in ServingStores(c[2]) /\ StoreOf(c) \in Stores
  BY OneRule, StoresDiffer DEF StoreOf, ServingStores, Calls

LEMMA PositionsInit == Init => Positions
  BY OneRule DEF Init, Positions, InLoop, Over, Calls

\* The steps of one request.
RequestStep(q) ==
    \/ Begin(q) \/ SkipRule(q) \/ KeyFails(q) \/ SendPrimary(q) \/ HitFails(q)
    \/ ApplyStoreErrorPolicy(q) \/ Conclude(q) \/ Respond(q) \/ StoreAnswers(q)

LEMMA StepsOfNext ==
    [Next]_vars => \/ UNCHANGED vars
                   \/ \E c \in open : Charge(c)
                   \/ \E q \in Requests : RequestStep(q)
  BY DEF Next, OwnStep, StoreTimeout, StoreFails, RequestStep

\* A rule that is done gives way to the next.
LEMMA NextRulePositions ==
    ASSUME Positions, NEW q \in Requests, at[q] \in RuleIds,
           NEW ds \in Seq(Decisions), NextRule(q, ds), UNCHANGED <<open, ledger>>
    PROVE  Positions'
  <1>1. at[q] + 1 \in 1 .. Len(ActiveRules) + 1
    BY OneRule
  <1>2. decisions[q] \o ds \in Seq(Decisions)
    BY DEF Positions
  <1>3. /\ pc' = [pc EXCEPT ![q] = "rule"]
        /\ at' = [at EXCEPT ![q] = @ + 1]
        /\ decisions' = [decisions EXCEPT ![q] = @ \o ds]
    BY DEF NextRule, Goto
  <1>4. at' \in [Requests -> 1 .. Len(ActiveRules) + 1]
    BY <1>1, <1>3 DEF Positions
  <1>5. decisions' \in [Requests -> Seq(Decisions)]
    BY <1>2, <1>3 DEF Positions
  <1> QED
    BY <1>3, <1>4, <1>5 DEF Positions, InLoop, Over

LEMMA PositionsInductive == Positions /\ [Next]_vars => Positions'
  <1> SUFFICES ASSUME Positions, [Next]_vars PROVE Positions'
    OBVIOUS
  <1>1. CASE UNCHANGED vars
    BY <1>1 DEF vars, Positions
  <1>2. ASSUME NEW c \in open, Charge(c) PROVE Positions'
    <2>1. c \in Calls
      BY DEF Positions
    <2>2. ASSUME NEW s \in Stores, NEW i \in RuleIds
          PROVE  Append(ledger[s][i], c) \in Seq(Calls)
      BY <2>1 DEF Positions
    <2>3. ledger' \in [Stores -> [RuleIds -> Seq(Calls)]]
      BY <1>2, <2>2 DEF Charge, Positions
    <2> QED
      BY <1>2, <2>3 DEF Charge, Positions
  <1>3. ASSUME NEW q \in Requests, RequestStep(q) PROVE Positions'
    <2> USE DEF InLoop, Over, Goto
    <2>1. CASE Begin(q)
      BY <2>1 DEF Begin, Positions
    <2>2. CASE SkipRule(q)
      <3>1. <<>> \in Seq(Decisions)
        OBVIOUS
      <3> QED
        BY <2>2, <3>1, NextRulePositions DEF SkipRule
    <2>3. CASE KeyFails(q)
      BY <2>3 DEF KeyFails, Positions
    <2>4. CASE SendPrimary(q)
      BY <2>4 DEF SendPrimary, Positions, Calls
    <2>5. CASE HitFails(q)
      <3>1. at[q] \in RuleIds
        BY <2>5 DEF HitFails, Positions
      <3>2. CASE CanFallBack(q)
        <4>1. /\ pc' = [pc EXCEPT ![q] = "fallback"]
              /\ open' = open \cup {<<q, at[q], "fallback">>}
              /\ UNCHANGED <<at, decisions, header, ledger>>
          BY <2>5, <3>2 DEF HitFails
        <4>2. open' \subseteq Calls
          BY <3>1, <4>1 DEF Positions, Calls
        <4>3. FallbackStore \notin {NoStore, ActiveRules[at[q]].store}
          BY <3>2 DEF CanFallBack
        <4> QED
          BY <3>1, <4>1, <4>2, <4>3 DEF Positions
      <3>3. CASE ~CanFallBack(q)
        BY <2>5, <3>1, <3>3 DEF HitFails, Positions
      <3> QED
        BY <3>2, <3>3
    <2>6. CASE ApplyStoreErrorPolicy(q)
      <3>1. at[q] \in RuleIds
        BY <2>6 DEF ApplyStoreErrorPolicy, Positions
      <3>2. PICK ds \in PolicyOutcomes(at[q]) : NextRule(q, ds)
        BY <2>6 DEF ApplyStoreErrorPolicy
      <3>3. ds \in Seq(Decisions)
        BY <3>1, <3>2, StepDecisions
      <3> QED
        BY <2>6, <3>1, <3>2, <3>3, NextRulePositions DEF ApplyStoreErrorPolicy
    <2>7. CASE Conclude(q)
      BY <2>7 DEF Conclude, Positions
    <2>8. CASE Respond(q)
      BY <2>8 DEF Respond, Positions
    <2>9. CASE StoreAnswers(q)
      <3>1. at[q] \in RuleIds
        BY <2>9 DEF StoreAnswers, Positions
      <3>2. PICK n \in Nat : \E d \in ToDecisions(at[q], n) : NextRule(q, <<d>>)
        <4>1. <<q, at[q], pc[q]>> \in Calls
          BY <2>9, <3>1 DEF StoreAnswers, Calls
        <4>2. StoreOf(<<q, at[q], pc[q]>>) \in Stores
          BY <2>9, <4>1, StoresOfCalls DEF StoreAnswers, Positions
        <4>3. DOMAIN ledger[StoreOf(<<q, at[q], pc[q]>>)][at[q]] \subseteq Nat
          BY <3>1, <4>2 DEF Positions
        <4> QED
          BY <2>9, <4>3 DEF StoreAnswers
      <3>3. PICK d \in ToDecisions(at[q], n) : NextRule(q, <<d>>)
        BY <3>2
      <3>4. <<d>> \in Seq(Decisions)
        BY <3>1, <3>3, StepDecisions
      <3> QED
        BY <2>9, <3>1, <3>3, <3>4, NextRulePositions DEF StoreAnswers
    <2> QED
      BY <1>3, <2>1, <2>2, <2>3, <2>4, <2>5, <2>6, <2>7, <2>8, <2>9 DEF RequestStep
  <1> QED
    BY <1>1, <1>2, <1>3, StepsOfNext

-----------------------------------------------------------------------------
(* No store charges a request twice for a rule.                            *)

\* The request of call c has gone past the point where it sends c.
Behind(c) ==
    LET q == c[1] IN
    \/ c[2] < at[q]
    \/ /\ c[2] = at[q]
       /\ \/ pc[q] \in {"fallback", "policy", "failed"}
          \/ pc[q] = "primary" /\ c[3] = "primary"

\* A call that was sent; to the fallback store only if that is another store.
Sent(c) ==
    /\ c \in Calls
    /\ Behind(c)
    /\ c[3] = "fallback" => FallbackStore \notin {NoStore, ActiveRules[c[2]].store}

\* A call that was sent is open, or charged once, to its own rule by its own store.
Accounts ==
    /\ Positions
    /\ \A c \in open : Sent(c)
    /\ \A s \in Stores, i \in RuleIds : \A n \in DOMAIN ledger[s][i] :
        /\ Sent(ledger[s][i][n])
        /\ ledger[s][i][n] \notin open
        /\ ledger[s][i][n][2] = i
        /\ StoreOf(ledger[s][i][n]) = s
        /\ \A m \in DOMAIN ledger[s][i] : ledger[s][i][m] = ledger[s][i][n] => m = n

\* A request does not come back to a call it has sent.
LEMMA BehindStays ==
    ASSUME Positions, NEW q \in Requests, RequestStep(q), NEW c \in Calls, Behind(c)
    PROVE  Behind(c)'
  <1>0. /\ c[1] \in Requests /\ c[2] \in RuleIds /\ c[3] \in {"primary", "fallback"}
        /\ at \in [Requests -> 1 .. Len(ActiveRules) + 1]
        /\ pc \in [Requests -> {"idle", "exempt", "failed"} \cup InLoop \cup Over]
        /\ c[2] \in 1 .. Len(ActiveRules)
        /\ Len(ActiveRules) \in Nat
    BY OneRule DEF Calls, Positions
  <1> USE DEF Goto
  <1>1. ASSUME NEW ds, NextRule(q, ds) PROVE Behind(c)'
    BY <1>0, <1>1 DEF NextRule, Behind
  <1>2. CASE Begin(q)
    BY <1>0, <1>2 DEF Begin, Behind
  <1>3. CASE SkipRule(q)
    BY <1>1, <1>3 DEF SkipRule
  <1>4. CASE KeyFails(q)
    BY <1>0, <1>4 DEF KeyFails, Behind
  <1>5. CASE SendPrimary(q)
    BY <1>0, <1>5 DEF SendPrimary, Behind
  <1>6. CASE HitFails(q)
    BY <1>0, <1>6 DEF HitFails, Behind
  <1>7. CASE ApplyStoreErrorPolicy(q)
    BY <1>1, <1>7 DEF ApplyStoreErrorPolicy
  <1>8. CASE Conclude(q)
    BY <1>0, <1>8 DEF Conclude, Behind
  <1>9. CASE Respond(q)
    BY <1>0, <1>9 DEF Respond, Behind
  <1>10. CASE StoreAnswers(q)
    BY <1>1, <1>10 DEF StoreAnswers
  <1> QED
    BY <1>2, <1>3, <1>4, <1>5, <1>6, <1>7, <1>8, <1>9, <1>10 DEF RequestStep

\* A step of a request sends at most one call, which it had not sent before.
LEMMA CallsSent ==
    ASSUME Positions, NEW q \in Requests, RequestStep(q)
    PROVE  /\ ledger' = ledger
           /\ \/ open' = open
              \/ \E c \in Calls : open' = open \cup {c} /\ ~Behind(c) /\ Sent(c)'
  <1> USE DEF Goto
  <1>0. /\ at[q] \in Int
        /\ at \in [Requests -> 1 .. Len(ActiveRules) + 1]
        /\ pc \in [Requests -> {"idle", "exempt", "failed"} \cup InLoop \cup Over]
    BY OneRule DEF Positions
  <1>1. CASE SendPrimary(q)
    <2> DEFINE c == <<q, at[q], "primary">>
    <2>1. c \in Calls /\ c[1] = q /\ c[2] = at[q] /\ c[3] = "primary"
      BY <1>1 DEF SendPrimary, Calls
    <2>2. /\ open' = open \cup {c} /\ ledger' = ledger
          /\ pc[q] = "rule" /\ pc'[q] = "primary" /\ at' = at
      BY <1>0, <1>1 DEF SendPrimary
    <2>3. PICK d \in Calls : d = c
      BY <2>1
    <2>4. ~Behind(d)
      BY <1>0, <2>1, <2>2, <2>3 DEF Behind
    <2>5. Sent(d)'
      BY <2>1, <2>2, <2>3 DEF Behind, Sent
    <2> QED
      BY <2>2, <2>3, <2>4, <2>5
  <1>2. CASE HitFails(q) /\ CanFallBack(q)
    <2> DEFINE c == <<q, at[q], "fallback">>
    <2>1. c \in Calls /\ c[1] = q /\ c[2] = at[q] /\ c[3] = "fallback"
      BY <1>2 DEF CanFallBack, Positions, Calls
    <2>2. /\ open' = open \cup {c} /\ ledger' = ledger
          /\ pc[q] = "primary" /\ pc'[q] = "fallback" /\ at' = at
      BY <1>0, <1>2 DEF HitFails, CanFallBack
    <2>3. PICK d \in Calls : d = c
      BY <2>1
    <2>4. ~Behind(d)
      BY <1>0, <2>1, <2>2, <2>3 DEF Behind
    <2>5. Sent(d)'
      BY <1>2, <2>1, <2>2, <2>3 DEF Behind, Sent, CanFallBack
    <2> QED
      BY <2>2, <2>3, <2>4, <2>5
  <1> QED
    BY <1>1, <1>2 DEF RequestStep, Begin, SkipRule, KeyFails, HitFails,
       ApplyStoreErrorPolicy, Conclude, Respond, StoreAnswers

LEMMA AccountsInductive == Accounts /\ [Next]_vars => Accounts'
  <1> SUFFICES ASSUME Accounts, [Next]_vars PROVE Accounts'
    OBVIOUS
  <1>0. Positions /\ Positions'
    BY PositionsInductive DEF Accounts
  <1>1. CASE UNCHANGED vars
    BY <1>0, <1>1 DEF vars, Accounts, Sent, Behind
  <1>2. ASSUME NEW c \in open, Charge(c) PROVE Accounts'
    <2>1. /\ c \in Calls /\ Sent(c)
          /\ open' = open \ {c}
          /\ UNCHANGED <<pc, at>>
      BY <1>2 DEF Accounts, Sent, Charge
    <2>2. StoreOf(c) \in Stores /\ c[2] \in RuleIds
      BY <2>1, StoresOfCalls DEF Sent, Calls
    <2>3. \A d : Sent(d)' <=> Sent(d)
      BY <2>1 DEF Sent, Behind
    <2>4. ASSUME NEW s \in Stores, NEW i \in RuleIds
          PROVE  \/ ledger'[s][i] = ledger[s][i]
                 \/ s = StoreOf(c) /\ i = c[2] /\ ledger'[s][i] = Append(ledger[s][i], c)
      BY <1>2, <2>2 DEF Charge, Positions, Accounts
    <2>5. ASSUME NEW s \in Stores, NEW i \in RuleIds, NEW n \in DOMAIN ledger'[s][i]
          PROVE  /\ Sent(ledger'[s][i][n])
                 /\ ledger'[s][i][n] \notin open'
                 /\ ledger'[s][i][n][2] = i
                 /\ StoreOf(ledger'[s][i][n]) = s
                 /\ \A m \in DOMAIN ledger'[s][i] : ledger'[s][i][m] = ledger'[s][i][n] => m = n
      <3>1. CASE ledger'[s][i] = ledger[s][i]
        BY <2>1, <2>5, <3>1 DEF Accounts
      <3>2. CASE s = StoreOf(c) /\ i = c[2] /\ ledger'[s][i] = Append(ledger[s][i], c)
        <4>1. ledger[s][i] \in Seq(Calls)
          BY <1>0 DEF Positions
        <4>2. PICK L \in Seq(Calls) : L = ledger[s][i]
          BY <4>1
        <4>3. /\ DOMAIN Append(L, c) = 1 .. Len(L) + 1
              /\ DOMAIN L = 1 .. Len(L) /\ Len(L) \in Nat
              /\ \A m \in 1 .. Len(L) : Append(L, c)[m] = L[m]
              /\ Append(L, c)[Len(L) + 1] = c
          BY <2>1, <4>2
        <4>4. \A m \in DOMAIN L :
                /\ Sent(L[m]) /\ L[m] \notin open /\ L[m][2] = i /\ StoreOf(L[m]) = s
                /\ L[m] # c
                /\ \A k \in DOMAIN L : L[k] = L[m] => k = m
          BY <1>2, <4>2 DEF Accounts
        <4>5. ledger'[s][i] = Append(L, c)
          BY <3>2, <4>2
        <4> QED
          BY <2>1, <2>5, <3>2, <4>3, <4>4, <4>5
      <3> QED
        BY <2>4, <3>1, <3>2
    <2>6. \A d \in open' : Sent(d)
      BY <2>1 DEF Accounts
    <2> QED
      BY <1>0, <2>3, <2>5, <2>6 DEF Accounts, StoreOf
  <1>3. ASSUME NEW q \in Requests, RequestStep(q) PROVE Accounts'
    <2>1. \A c : Sent(c) => Sent(c)'
      BY <1>0, <1>3, BehindStays DEF Sent
    <2>2. ledger' = ledger
      BY <1>0, <1>3, CallsSent
    <2>3. \A c \in open' : Sent(c)'
      BY <1>0, <1>3, <2>1, CallsSent DEF Accounts
    <2>4. \A c : Sent(c) /\ c \notin open => c \notin open'
      BY <1>0, <1>3, CallsSent DEF Sent
    <2>5. ASSUME NEW s \in Stores, NEW i \in RuleIds, NEW n \in DOMAIN ledger[s][i]
          PROVE  /\ Sent(ledger[s][i][n])'
                 /\ ledger[s][i][n] \notin open'
                 /\ ledger[s][i][n][2] = i
                 /\ StoreOf(ledger[s][i][n]) = s
                 /\ \A m \in DOMAIN ledger[s][i] : ledger[s][i][m] = ledger[s][i][n] => m = n
      <3>1. /\ Sent(ledger[s][i][n])
            /\ ledger[s][i][n] \notin open
            /\ ledger[s][i][n][2] = i
            /\ StoreOf(ledger[s][i][n]) = s
            /\ \A m \in DOMAIN ledger[s][i] : ledger[s][i][m] = ledger[s][i][n] => m = n
        BY <2>5 DEF Accounts
      <3>2. PICK e : e = ledger[s][i][n]
        OBVIOUS
      <3>3. Sent(e)' /\ e \notin open'
        BY <2>1, <2>4, <3>1, <3>2
      <3>4. e' = ledger'[s][i][n]
        BY <2>2, <3>2
      <3> QED
        BY <2>2, <3>1, <3>2, <3>3
    <2> QED
      BY <1>0, <2>2, <2>3, <2>5 DEF Accounts, StoreOf
  <1> QED
    BY <1>1, <1>2, <1>3, StepsOfNext

LEMMA AccountsInit == Init => Accounts
  BY PositionsInit DEF Accounts, Init

\* Charges of the same request by one store for one rule are of the same call.
LEMMA ChargedOnce == Accounts => ChargedOncePerStore
  <1> SUFFICES ASSUME Accounts, NEW s \in Stores, NEW i \in RuleIds,
                      NEW m \in DOMAIN ledger[s][i], NEW n \in DOMAIN ledger[s][i],
                      ledger[s][i][m][1] = ledger[s][i][n][1]
               PROVE  m = n
    BY DEF ChargedOncePerStore
  <1>1. PICK c \in Calls, d \in Calls : c = ledger[s][i][m] /\ d = ledger[s][i][n]
    BY DEF Accounts, Sent
  <1>2. /\ c[1] = d[1] /\ c[2] = i /\ d[2] = i
        /\ StoreOf(c) = s /\ StoreOf(d) = s
        /\ Sent(c) /\ Sent(d)
    BY <1>1 DEF Accounts
  <1>3. c[3] \in {"primary", "fallback"} /\ d[3] \in {"primary", "fallback"}
    BY DEF Calls
  <1>4. c[3] = d[3]
    BY <1>2, <1>3 DEF StoreOf, Sent
  <1>5. c = d
    BY <1>2, <1>4 DEF Calls
  <1>6. ledger[s][i][m] = ledger[s][i][n]
    BY <1>1, <1>5
  <1>7. \A k \in DOMAIN ledger[s][i] : ledger[s][i][k] = ledger[s][i][n] => k = n
    BY DEF Accounts
  <1> QED
    BY <1>6, <1>7

\* No store charges a request twice for a rule, however its calls fail, time out
\* and are charged late.
THEOREM ChargesOnce == Spec => []ChargedOncePerStore
  <1>1. Spec => []Accounts
    BY AccountsInit, AccountsInductive, PTL DEF Spec
  <1> QED
    BY <1>1, ChargedOnce, PTL

-----------------------------------------------------------------------------
(* A rule under the 'block' policy fails closed.                           *)

FailClosedRule(i) == PolicyOf(i) = "block" /\ ~ActiveRules[i].skip

\* Request q is among the first `limit` that a store charged to rule i.
Within(q, i) ==
    \E s \in ServingStores(i) : \E n \in DOMAIN ledger[s][i] :
        n <= ActiveRules[i].limit /\ ledger[s][i][n][1] = q

\* A request that left such a rule behind is blocked, or was within its limit.
Cleared ==
    /\ Positions
    /\ \A q \in Requests :
        /\ \A i \in RuleIds : FailClosedRule(i) /\ i < at[q] => IsBlocked(q) \/ Within(q, i)
        /\ pc[q] = "passed" => ~IsBlocked(q)

SomeBlocks(ds) == \E n \in DOMAIN ds : ds[n].blocked

LEMMA BlockedConcat ==
    ASSUME NEW S, NEW ds \in Seq(S), NEW es \in Seq(S),
           SomeBlocks(ds) \/ SomeBlocks(es)
    PROVE  SomeBlocks(ds \o es)
  <1>1. /\ Len(ds) \in Nat /\ Len(es) \in Nat
        /\ DOMAIN ds = 1 .. Len(ds) /\ DOMAIN es = 1 .. Len(es)
        /\ DOMAIN (ds \o es) = 1 .. Len(ds) + Len(es)
    OBVIOUS
  <1>2. ASSUME NEW n \in DOMAIN ds, ds[n].blocked
        PROVE  SomeBlocks(ds \o es)
    <2>1. n \in DOMAIN (ds \o es) /\ (ds \o es)[n] = ds[n]
      BY <1>1, <1>2
    <2> QED
      BY <1>2, <2>1 DEF SomeBlocks
  <1>3. ASSUME NEW n \in DOMAIN es, es[n].blocked
        PROVE  SomeBlocks(ds \o es)
    <2>1. Len(ds) + n \in DOMAIN (ds \o es) /\ (ds \o es)[Len(ds) + n] = es[n]
      BY <1>1, <1>3
    <2> QED
      BY <1>3, <2>1 DEF SomeBlocks
  <1> QED
    BY <1>2, <1>3 DEF SomeBlocks

\* A rule gives way to the next with a block, or with the request within its limit.
LEMMA NextRuleCleared ==
    ASSUME Cleared, NEW q \in Requests, at[q] \in RuleIds, Positions',
           NEW ds \in Seq(Decisions), NextRule(q, ds), ledger' = ledger,
           FailClosedRule(at[q]) =>
               SomeBlocks(ds) \/ Within(q, at[q])
    PROVE  Cleared'
  <1>1. /\ pc' = [pc EXCEPT ![q] = "rule"]
        /\ at' = [at EXCEPT ![q] = @ + 1]
        /\ decisions' = [decisions EXCEPT ![q] = @ \o ds]
    BY DEF NextRule, Goto
  <1>2. /\ pc \in [Requests -> {"idle", "exempt", "failed"} \cup InLoop \cup Over]
        /\ at \in [Requests -> 1 .. Len(ActiveRules) + 1]
        /\ decisions \in [Requests -> Seq(Decisions)]
        /\ RuleIds = 1 .. Len(ActiveRules) /\ Len(ActiveRules) \in Nat
    BY OneRule DEF Cleared, Positions
  <1>3. \A p \in Requests, i \in RuleIds : Within(p, i)' <=> Within(p, i)
    BY DEF Within
  <1>4. /\ pc'[q] = "rule" /\ at'[q] = at[q] + 1 /\ decisions'[q] = decisions[q] \o ds
        /\ decisions[q] \in Seq(Decisions)
    BY <1>1, <1>2
  <1>5. SomeBlocks(decisions[q]) \/ SomeBlocks(ds) => IsBlocked(q)'
    <2>1. SomeBlocks(decisions[q]) \/ SomeBlocks(ds) => SomeBlocks(decisions[q] \o ds)
      BY <1>4, BlockedConcat
    <2>2. SomeBlocks(decisions'[q]) => IsBlocked(q)'
      BY DEF SomeBlocks, IsBlocked
    <2> QED
      BY <1>4, <2>1, <2>2
  <1>6. ASSUME NEW p \in Requests, p # q
        PROVE  pc'[p] = pc[p] /\ at'[p] = at[p] /\ decisions'[p] = decisions[p]
    BY <1>1, <1>2, <1>6
  <1>7. ASSUME NEW p \in Requests, NEW i \in RuleIds, FailClosedRule(i), i < at'[p]
        PROVE  IsBlocked(p)' \/ Within(p, i)'
    <2>1. CASE p # q
      BY <1>3, <1>6, <1>7, <2>1 DEF Cleared, IsBlocked
    <2>2. CASE p = q /\ i < at[q]
      <3>1. IsBlocked(q) \/ Within(q, i)
        BY <1>7, <2>2 DEF Cleared
      <3>2. IsBlocked(q) => IsBlocked(q)'
        BY <1>5 DEF IsBlocked, SomeBlocks
      <3> QED
        BY <1>3, <2>2, <3>1, <3>2
    <2>3. CASE p = q /\ i = at[q]
      BY <1>3, <1>7, <1>5, <2>3
    <2> QED
      BY <1>2, <1>4, <1>7, <2>1, <2>2, <2>3
  <1>8. ASSUME NEW p \in Requests, pc'[p] = "passed" PROVE ~IsBlocked(p)'
    BY <1>4, <1>6, <1>8 DEF Cleared, IsBlocked
  <1> QED
    BY <1>7, <1>8 DEF Cleared, FailClosedRule

LEMMA ClearedInductive == Cleared /\ [Next]_vars => Cleared'
  <1> SUFFICES ASSUME Cleared, [Next]_vars PROVE Cleared'
    OBVIOUS
  <1>0. Positions /\ Positions'
    BY PositionsInductive DEF Cleared
  <1>1. CASE UNCHANGED vars
    BY <1>0, <1>1 DEF vars, Cleared, Within, IsBlocked, FailClosedRule
  <1>2. ASSUME NEW c \in open, Charge(c) PROVE Cleared'
    <2>1. c \in Calls /\ ledger \in [Stores -> [RuleIds -> Seq(Calls)]]
      BY <1>0 DEF Positions
    <2>2. ASSUME NEW s \in Stores, NEW i \in RuleIds, NEW n \in DOMAIN ledger[s][i]
          PROVE  n \in DOMAIN ledger'[s][i] /\ ledger'[s][i][n] = ledger[s][i][n]
      <3>1. PICK L \in Seq(Calls) : L = ledger[s][i]
        BY <2>1
      <3>2. n \in DOMAIN Append(L, c) /\ Append(L, c)[n] = L[n]
        BY <2>1, <2>2, <3>1
      <3>3. ledger'[s][i] \in {L, Append(L, c)}
        BY <1>2, <2>1, <3>1 DEF Charge
      <3> QED
        BY <2>2, <3>1, <3>2, <3>3
    <2>3. ASSUME NEW q \in Requests, NEW i \in RuleIds, Within(q, i) PROVE Within(q, i)'
      <3>1. ServingStores(i) \subseteq Stores
        BY OneRule, StoresDiffer DEF ServingStores
      <3> QED
        BY <2>2, <2>3, <3>1 DEF Within, ServingStores
    <2> QED
      BY <1>0, <1>2, <2>3 DEF Charge, Cleared, IsBlocked, FailClosedRule
  <1>3. ASSUME NEW q \in Requests, RequestStep(q) PROVE Cleared'
    <2>1. ASSUME ledger' = ledger, at' = at, decisions' = decisions,
                 \A p \in Requests : pc'[p] = "passed" => pc[p] = "passed" \/ ~IsBlocked(p)
          PROVE  Cleared'
      BY <1>0, <2>1 DEF Cleared, Within, IsBlocked, FailClosedRule
    <2>2. /\ pc \in [Requests -> {"idle", "exempt", "failed"} \cup InLoop \cup Over]
          /\ ledger' = ledger
      BY <1>0, <1>3, CallsSent DEF Positions
    <2> USE DEF Goto
    <2>3. CASE \/ Begin(q) \/ KeyFails(q) \/ SendPrimary(q) \/ HitFails(q)
               \/ Conclude(q) \/ Respond(q)
      BY <2>1, <2>2, <2>3 DEF Begin, KeyFails, SendPrimary, HitFails, Conclude, Respond
    <2>4. CASE SkipRule(q)
      <3>1. <<>> \in Seq(Decisions)
        OBVIOUS
      <3> QED
        BY <1>0, <2>2, <2>4, <3>1, NextRuleCleared DEF SkipRule, FailClosedRule
    <2>5. CASE ApplyStoreErrorPolicy(q)
      <3>1. at[q] \in RuleIds
        BY <1>0, <2>5 DEF ApplyStoreErrorPolicy, Positions
      <3>2. PICK ds \in PolicyOutcomes(at[q]) : NextRule(q, ds)
        BY <2>5 DEF ApplyStoreErrorPolicy
      <3>3. ds \in Seq(Decisions) /\ SynthesizeBlock(at[q]).blocked
        BY <3>1, <3>2, StepDecisions
      <3>4. ASSUME FailClosedRule(at[q]) PROVE SomeBlocks(ds)
        <4>1. ds = <<SynthesizeBlock(at[q])>>
          BY <3>2, <3>4 DEF FailClosedRule, PolicyOutcomes
        <4>2. 1 \in DOMAIN ds /\ ds[1] = SynthesizeBlock(at[q])
          BY <4>1
        <4> QED
          BY <3>3, <4>2 DEF SomeBlocks
      <3> QED
        BY <1>0, <2>2, <3>1, <3>2, <3>3, <3>4, NextRuleCleared
    <2>6. CASE StoreAnswers(q)
      <3>1. at[q] \in RuleIds
        BY <1>0, <2>6 DEF StoreAnswers, Positions
      <3>2. PICK c \in Calls : c = <<q, at[q], pc[q]>>
        BY <2>6, <3>1 DEF StoreAnswers, Calls
      <3>3. c[1] = q /\ c[2] = at[q] /\ c[3] = pc[q]
        BY <3>2
      <3>4. StoreOf(c) \in ServingStores(at[q]) /\ StoreOf(c) \in Stores
        BY <1>0, <3>3, StoresOfCalls DEF Positions
      <3>5. PICK n \in DOMAIN ledger[StoreOf(c)][at[q]] :
              /\ ledger[StoreOf(c)][at[q]][n] = c
              /\ \E d \in ToDecisions(at[q], n) : NextRule(q, <<d>>)
        BY <2>6, <3>2 DEF StoreAnswers
      <3>6. PICK d \in ToDecisions(at[q], n) : NextRule(q, <<d>>)
        BY <3>5
      <3>7. n \in Nat
        <4>1. ledger[StoreOf(c)][at[q]] \in Seq(Calls)
          BY <1>0, <3>1, <3>4 DEF Positions
        <4> QED
          BY <3>5, <4>1
      <3>8. d \in Decisions /\ <<d>> \in Seq(Decisions)
        BY <3>1, <3>6, <3>7, StepDecisions
      <3>9. d.blocked = (n > ActiveRules[at[q]].limit)
        BY <3>6 DEF ToDecisions
      <3>10. ActiveRules[at[q]].limit \in Nat
        BY <3>1, OneRule
      <3>11. CASE n <= ActiveRules[at[q]].limit
        <4>1. Within(q, at[q])
          BY <3>3, <3>4, <3>5, <3>11 DEF Within
        <4> QED
          BY <1>0, <2>2, <3>1, <3>6, <3>8, <4>1, NextRuleCleared
      <3>12. CASE n > ActiveRules[at[q]].limit
        <4>1. 1 \in DOMAIN <<d>> /\ <<d>>[1] = d
          OBVIOUS
        <4>2. d.blocked
          BY <3>9, <3>12
        <4>3. SomeBlocks(<<d>>)
          BY <4>1, <4>2 DEF SomeBlocks
        <4> QED
          BY <1>0, <2>2, <3>1, <3>6, <3>8, <4>3, NextRuleCleared
      <3> QED
        BY <3>7, <3>10, <3>11, <3>12
    <2> QED
      BY <1>3, <2>3, <2>4, <2>5, <2>6 DEF RequestStep
  <1> QED
    BY <1>1, <1>2, <1>3, StepsOfNext

LEMMA ClearedInit == Init => Cleared
  <1> SUFFICES ASSUME Init PROVE Cleared
    OBVIOUS
  <1>1. Positions
    BY PositionsInit
  <1>2. \A q \in Requests : at[q] = 1 /\ pc[q] # "passed"
    BY DEF Init
  <1>3. \A i \in RuleIds : ~(i < 1)
    BY OneRule
  <1> QED
    BY <1>1, <1>2, <1>3 DEF Cleared

\* Requests that passed take different places among the first `limit` charges of
\* the stores that serve the rule.
LEMMA PassedAreFew == Cleared => FailsClosed
  <1> SUFFICES ASSUME Cleared, NEW i \in RuleIds, FailClosedRule(i)
               PROVE  Cardinality({q \in Requests : pc[q] = "passed"})
                        <= ActiveRules[i].limit * Cardinality(ServingStores(i))
    BY DEF FailsClosed, FailClosedRule
  <1> DEFINE passed == {q \in Requests : pc[q] = "passed"}
             places == ServingStores(i) \X (1 .. ActiveRules[i].limit)
             Holds(q, x) == x[2] \in DOMAIN ledger[x[1]][i] /\ ledger[x[1]][i][x[2]][1] = q
  <1>1. ASSUME NEW q \in passed PROVE \E x \in places : Holds(q, x)
    <2>1. Within(q, i)
      <3>1. at[q] \in 1 .. Len(ActiveRules) + 1 /\ at[q] \notin RuleIds
        BY DEF Cleared, Positions, Over
      <3>2. i < at[q]
        BY <3>1, OneRule
      <3> QED
        BY <3>2 DEF Cleared
    <2>2. PICK s \in ServingStores(i) : \E n \in DOMAIN ledger[s][i] :
              n <= ActiveRules[i].limit /\ ledger[s][i][n][1] = q
      BY <2>1 DEF Within
    <2>3. PICK n \in DOMAIN ledger[s][i] :
              n <= ActiveRules[i].limit /\ ledger[s][i][n][1] = q
      BY <2>2
    <2>4. s \in Stores
      BY <2>2, OneRule, StoresDiffer DEF ServingStores
    <2>5. n \in 1 .. ActiveRules[i].limit
      <3>1. ledger[s][i] \in Seq(Calls)
        BY <2>4 DEF Cleared, Positions
      <3>2. DOMAIN ledger[s][i] = 1 .. Len(ledger[s][i]) /\ Len(ledger[s][i]) \in Nat
        BY <3>1
      <3>3. ActiveRules[i].limit \in Nat
        BY OneRule
      <3> QED
        BY <2>3, <3>2, <3>3
    <2>6. <<s, n>> \in places /\ Holds(q, <<s, n>>)
      BY <2>2, <2>3, <2>5
    <2> QED
      BY <2>6
  <1>2. IsFiniteSet(ServingStores(i)) /\ Cardinality(ServingStores(i)) \in Nat
    <2>1. IsFiniteSet({ActiveRules[i].store} \cup {FallbackStore})
      BY FS_Singleton, FS_AddElement
    <2>2. {ActiveRules[i].store} \cup {FallbackStore} = {ActiveRules[i].store, FallbackStore}
      OBVIOUS
    <2>3. IsFiniteSet(ServingStores(i))
      BY <2>1, <2>2, FS_RemoveElement DEF ServingStores
    <2> QED
      BY <2>3, FS_CardinalityType
  <1>3. /\ IsFiniteSet(1 .. ActiveRules[i].limit)
        /\ Cardinality(1 .. ActiveRules[i].limit) = ActiveRules[i].limit
    <2>1. ActiveRules[i].limit \in Nat \ {0}
      BY OneRule
    <2>2. PICK k \in Nat \ {0} : k = ActiveRules[i].limit
      BY <2>1
    <2>3. IsFiniteSet(1 .. k) /\ Cardinality(1 .. k) = IF 1 > k THEN 0 ELSE k - 1 + 1
      BY FS_Interval
    <2> QED
      BY <2>2, <2>3
  <1>4. /\ IsFiniteSet(places)
        /\ Cardinality(places) = Cardinality(ServingStores(i)) * ActiveRules[i].limit
    BY <1>2, <1>3, FS_Product
  <1> DEFINE place == [q \in passed |-> CHOOSE x \in places : Holds(q, x)]
  <1>5. \A q \in passed : place[q] \in places /\ Holds(q, place[q])
    <2> HIDE DEF places, Holds, passed
    <2> QED
      BY <1>1
  <1>6. \A p, q \in passed : place[p] = place[q] => p = q
    <2>1. ASSUME NEW p, NEW q, NEW x, Holds(p, x), Holds(q, x) PROVE p = q
      BY <2>1
    <2> HIDE DEF place, places, passed, Holds
    <2> QED
      BY <1>5, <2>1
  <1>7. place \in Injection(passed, places)
    <2>1. place \in [passed -> places]
      <3> HIDE DEF places, Holds, passed
      <3> QED
        BY <1>5
    <2>2. DOMAIN place = passed
      OBVIOUS
    <2> HIDE DEF place, places, passed, Holds
    <2> QED
      BY <1>6, <2>1, <2>2 DEF Injection, IsInjective
  <1>8. Cardinality(passed) <= Cardinality(places)
    <2> HIDE DEF place, places, passed, Holds
    <2> QED
      BY <1>4, <1>7, FS_Injection
  <1>9. ActiveRules[i].limit \in Nat
    BY OneRule
  <1>10. Cardinality(ServingStores(i)) * ActiveRules[i].limit
            = ActiveRules[i].limit * Cardinality(ServingStores(i))
    BY <1>2, <1>9
  <1> QED
    BY <1>4, <1>8, <1>10

\* Under the 'block' policy a rule lets at most `limit` requests pass per store
\* that may answer for it, whatever the stores lose, delay or charge late.
THEOREM RulesFailClosed == Spec => []FailsClosed
  <1>1. Spec => []Cleared
    BY ClearedInit, ClearedInductive, PTL DEF Spec
  <1> QED
    BY <1>1, PassedAreFew, PTL
-----------------------------------------------------------------------------
(* Each rule contributes its decision.                                     *)

\* Under which EveryRuleCounts is stated for every value of the constants: an
\* onStoreError function that returns a decision returns one about the rule it
\* was asked about.  (The code does not look at what the decision names.)
FunctionsNameTheirRule == \A i \in RuleIds : \A d \in CustomDecisions[i] : d.rule = i

\* What rule i may add to the decisions of a request.
Contribution(i, ds) ==
    /\ ds \in Seq(Decisions) /\ Len(ds) \in {0, 1}
    /\ \A n \in DOMAIN ds : ds[n].rule = i
    /\ FailClosedRule(i) => Len(ds) = 1

\* A request's own step leaves its decisions alone or ends its rule.
LEMMA StepContributes ==
    ASSUME FunctionsNameTheirRule, Positions, NEW q \in Requests, RequestStep(q)
    PROVE  \/ UNCHANGED <<at, decisions>>
           \/ /\ at[q] \in RuleIds
              /\ \E ds : Contribution(at[q], ds) /\ NextRule(q, ds)
  <1>0. /\ \A d \in Decisions : <<d>> \in Seq(Decisions) /\ Len(<<d>>) = 1
                                    /\ DOMAIN <<d>> = {1} /\ <<d>>[1] = d
        /\ <<>> \in Seq(Decisions) /\ Len(<<>>) = 0 /\ DOMAIN <<>> = {}
    OBVIOUS
  <1>1. CASE \/ Begin(q) \/ KeyFails(q) \/ SendPrimary(q) \/ HitFails(q)
             \/ Conclude(q) \/ Respond(q)
    BY <1>1 DEF Begin, KeyFails, SendPrimary, HitFails, Conclude, Respond
  <1>2. CASE SkipRule(q)
    <2>1. Contribution(at[q], <<>>)
      BY <1>0, <1>2 DEF SkipRule, Contribution, FailClosedRule
    <2> QED
      BY <1>2, <2>1 DEF SkipRule
  <1>3. CASE ApplyStoreErrorPolicy(q)
    <2>1. at[q] \in RuleIds
      BY <1>3 DEF ApplyStoreErrorPolicy, Positions
    <2>2. PICK ds \in PolicyOutcomes(at[q]) : NextRule(q, ds)
      BY <1>3 DEF ApplyStoreErrorPolicy
    <2>3. SynthesizeBlock(at[q]) \in Decisions /\ SynthesizeBlock(at[q]).rule = at[q]
      BY <2>1, StepDecisions DEF SynthesizeBlock
    <2>4. CustomDecisions[at[q]] \subseteq Decisions
      BY <2>1, CustomType
    <2>5. Contribution(at[q], ds)
      <3>1. CASE ds = <<>> /\ ~FailClosedRule(at[q])
        BY <1>0, <3>1 DEF Contribution
      <3>2. CASE ds = <<SynthesizeBlock(at[q])>>
        BY <1>0, <2>3, <3>2 DEF Contribution
      <3>3. CASE \E d \in CustomDecisions[at[q]] : ds = <<d>>
        BY <1>0, <2>1, <2>4, <3>3 DEF Contribution, FunctionsNameTheirRule
      <3> QED
        BY <2>2, <3>1, <3>2, <3>3 DEF PolicyOutcomes, FailClosedRule
    <2> QED
      BY <2>1, <2>2, <2>5
  <1>4. CASE StoreAnswers(q)
    <2>1. at[q] \in RuleIds
      BY <1>4 DEF StoreAnswers, Positions
    <2>2. PICK n \in Nat : \E d \in ToDecisions(at[q], n) : NextRule(q, <<d>>)
      <3>1. <<q, at[q], pc[q]>> \in Calls
        BY <1>4, <2>1 DEF StoreAnswers, Calls
      <3>2. StoreOf(<<q, at[q], pc[q]>>) \in Stores
        BY <1>4, <3>1, StoresOfCalls DEF StoreAnswers, Positions
      <3>3. DOMAIN ledger[StoreOf(<<q, at[q], pc[q]>>)][at[q]] \subseteq Nat
        BY <2>1, <3>2 DEF Positions
      <3> QED
        BY <1>4, <3>3 DEF StoreAnswers
    <2>3. PICK d \in ToDecisions(at[q], n) : NextRule(q, <<d>>)
      BY <2>2
    <2>4. d \in Decisions /\ d.rule = at[q]
      <3>1. d \in Decisions
        BY <2>1, <2>2, <2>3, StepDecisions
      <3> QED
        BY <2>3, <3>1 DEF ToDecisions
    <2>5. Contribution(at[q], <<d>>)
      BY <1>0, <2>4 DEF Contribution
    <2> QED
      BY <2>1, <2>3, <2>5
  <1> QED
    BY <1>1, <1>2, <1>3, <1>4 DEF RequestStep

\* The decisions ds of a request that is at rule i.
InOrder(ds, i) ==
    /\ \A n \in DOMAIN ds : ds[n].rule < i
    /\ \A m, n \in DOMAIN ds : m < n => ds[m].rule < ds[n].rule
    /\ \A j \in RuleIds : FailClosedRule(j) /\ j < i => \E n \in DOMAIN ds : ds[n].rule = j

Ordered == Positions /\ \A q \in Requests : InOrder(decisions[q], at[q])

LEMMA ConcatParts ==
    ASSUME NEW S, NEW ds \in Seq(S), NEW es \in Seq(S)
    PROVE  /\ Len(ds) \in Nat /\ Len(es) \in Nat
           /\ DOMAIN ds = 1 .. Len(ds) /\ DOMAIN es = 1 .. Len(es)
           /\ DOMAIN (ds \o es) = 1 .. Len(ds) + Len(es)
           /\ \A n \in DOMAIN ds : (ds \o es)[n] = ds[n]
           /\ \A n \in DOMAIN es : (ds \o es)[Len(ds) + n] = es[n]
  OBVIOUS

LEMMA OrderedConcat ==
    ASSUME NEW i \in RuleIds, NEW ds \in Seq(Decisions), InOrder(ds, i),
           NEW es, Contribution(i, es)
    PROVE  InOrder(ds \o es, i + 1)
  <1>1. RuleIds \subseteq Nat /\ \A d \in Decisions : d.rule \in Nat
    BY OneRule DEF Decisions
  <1>2. /\ Len(ds) \in Nat /\ DOMAIN ds = 1 .. Len(ds) /\ \A n \in DOMAIN ds : ds[n].rule \in Nat
    BY <1>1
  <1>3. CASE Len(es) = 0
    <2>1. es = <<>> /\ ~FailClosedRule(i)
      BY <1>3 DEF Contribution
    <2>2. ds \o es = ds
      BY <2>1
    <2>3. \A j \in RuleIds : j < i + 1 => j < i \/ j = i
      BY <1>1
    <2> QED
      BY <1>1, <1>2, <2>1, <2>2, <2>3 DEF InOrder
  <1>4. CASE Len(es) = 1
    <2> DEFINE k == Len(ds) + 1
               cs == ds \o es
    <2>1. /\ DOMAIN cs = 1 .. k /\ cs[k] = es[1] /\ \A n \in 1 .. Len(ds) : cs[n] = ds[n]
      <3>1. es \in Seq(Decisions) /\ Len(es) = 1
        BY <1>4 DEF Contribution
      <3> QED
        BY <1>2, <3>1, ConcatParts
    <2>2. es[1].rule = i
      BY <1>4 DEF Contribution
    <2>3. k \in Nat /\ 1 .. k = (1 .. Len(ds)) \cup {k} /\ \A n \in 1 .. Len(ds) : n < k
      BY <1>2
    <2> HIDE DEF cs, k
    <2>4. cs[k].rule = i
      BY <2>1, <2>2
    <2>5. \A n \in 1 .. Len(ds) : cs[n].rule \in Nat /\ cs[n].rule < i
      BY <1>2, <2>1 DEF InOrder
    <2>6. \A n \in 1 .. k : cs[n].rule < i + 1
      BY <1>1, <2>3, <2>4, <2>5
    <2>7. ASSUME NEW m \in 1 .. k, NEW n \in 1 .. k, m < n PROVE cs[m].rule < cs[n].rule
      <3>1. m \in 1 .. Len(ds)
        BY <1>2, <2>3, <2>7
      <3>2. CASE n = k
        BY <2>4, <2>5, <3>1, <3>2
      <3>3. CASE n \in 1 .. Len(ds)
        BY <1>2, <2>1, <2>7, <3>1, <3>3 DEF InOrder
      <3> QED
        BY <2>3, <3>2, <3>3
    <2>8. ASSUME NEW j \in RuleIds, FailClosedRule(j), j < i + 1
          PROVE  \E n \in 1 .. k : cs[n].rule = j
      <3>1. CASE j = i
        BY <2>3, <2>4, <3>1
      <3>2. CASE j < i
        BY <1>2, <2>1, <2>3, <2>8, <3>2 DEF InOrder
      <3> QED
        BY <1>1, <2>8, <3>1, <3>2
    <2>9. InOrder(cs, i + 1)
      BY <2>1, <2>6, <2>7, <2>8 DEF InOrder
    <2> QED
      BY <2>9 DEF cs
  <1> QED
    BY <1>3, <1>4 DEF Contribution

LEMMA OrderedInductive ==
    ASSUME FunctionsNameTheirRule, Ordered, [Next]_vars
    PROVE  Ordered'
  <1>0. Positions /\ Positions'
    BY PositionsInductive DEF Ordered
  <1>1. ASSUME UNCHANGED <<at, decisions>> PROVE Ordered'
    BY <1>0, <1>1 DEF Ordered
  <1>2. ASSUME NEW q \in Requests, RequestStep(q) PROVE Ordered'
    <2>1. ASSUME at[q] \in RuleIds, NEW ds, Contribution(at[q], ds), NextRule(q, ds)
          PROVE  Ordered'
      <3>1. at'[q] = at[q] + 1 /\ decisions'[q] = decisions[q] \o ds
            /\ \A p \in Requests \ {q} : at'[p] = at[p] /\ decisions'[p] = decisions[p]
        BY <1>0, <2>1 DEF NextRule, Positions
      <3>2. decisions[q] \in Seq(Decisions) /\ InOrder(decisions[q], at[q])
        BY DEF Ordered, Positions
      <3>3. InOrder(decisions[q] \o ds, at[q] + 1)
        BY <2>1, <3>2, OrderedConcat
      <3>4. ASSUME NEW p \in Requests PROVE InOrder(decisions'[p], at'[p])
        BY <3>1, <3>3 DEF Ordered
      <3> QED
        BY <1>0, <3>4 DEF Ordered
    <2> QED
      BY <1>0, <1>1, <1>2, <2>1, StepContributes
  <1>3. ASSUME NEW c \in open, Charge(c) PROVE Ordered'
    BY <1>1, <1>3 DEF Charge
  <1>4. CASE UNCHANGED vars
    BY <1>1, <1>4 DEF vars
  <1> QED
    BY <1>2, <1>3, <1>4, StepsOfNext

\* The decisions of a request are those of its rules, in evaluation order, at most
\* one each; a rule that fails closed is never passed over.
THEOREM RulesCount ==
    ASSUME FunctionsNameTheirRule
    PROVE  Spec => []EveryRuleCounts
  <1>1. Init => Ordered
    <2> SUFFICES ASSUME Init PROVE Ordered
      OBVIOUS
    <2>1. \A i \in RuleIds : ~(i < 1)
      BY OneRule
    <2>2. InOrder(<<>>, 1)
      BY <2>1 DEF InOrder
    <2> QED
      BY <2>2, PositionsInit DEF Init, Ordered
  <1>2. Ordered /\ [Next]_vars => Ordered'
    BY OrderedInductive
  <1>3. Ordered => EveryRuleCounts
    <2> SUFFICES ASSUME Ordered, NEW q \in Requests
                 PROVE  /\ \A m, n \in DOMAIN decisions[q] :
                              m < n => decisions[q][m].rule < decisions[q][n].rule
                        /\ \A i \in RuleIds :
                              Concluded(q) /\ FailClosedRule(i) =>
                                  \E n \in DOMAIN decisions[q] : decisions[q][n].rule = i
      BY DEF EveryRuleCounts, FailClosedRule
    <2>1. InOrder(decisions[q], at[q])
      BY DEF Ordered
    <2>2. Concluded(q) => \A i \in RuleIds : i < at[q]
      BY OneRule DEF Concluded, Ordered, Positions, Over
    <2> QED
      BY <2>1, <2>2 DEF InOrder
  <1> QED
    BY <1>1, <1>2, <1>3, PTL DEF Spec

-----------------------------------------------------------------------------
(* The decision that fills the headers, and the verdict.                   *)

LEMMA DecisionsComparable == Comparable(Decisions)
  BY DEF Decisions, Comparable

HeadersKept ==
    /\ Positions
    /\ header \in [Requests -> Decisions \cup {NoDecision}]
    /\ \A q \in Requests :
        /\ pc[q] \in Over => header[q] = HeaderOf(decisions[q])
        /\ pc[q] = "passed" => ~IsBlocked(q)
        /\ pc[q] = "limited" => IsBlocked(q)

LEMMA HeadersInductive == HeadersKept /\ [Next]_vars => HeadersKept'
  <1> SUFFICES ASSUME HeadersKept, [Next]_vars PROVE HeadersKept'
    OBVIOUS
  <1>0. /\ Positions /\ Positions'
        /\ pc \in [Requests -> {"idle", "exempt", "failed"} \cup InLoop \cup Over]
        /\ decisions \in [Requests -> Seq(Decisions)]
        /\ header \in [Requests -> Decisions \cup {NoDecision}]
    BY PositionsInductive DEF HeadersKept, Positions
  <1>1. ASSUME UNCHANGED <<decisions, header>>,
               \A p \in Requests : \/ pc'[p] = pc[p]
                                   \/ pc'[p] \notin Over
                                   \/ pc[p] \in Over /\ pc'[p] = "passed" /\ ~IsBlocked(p)
                                   \/ pc[p] \in Over /\ pc'[p] = "limited" /\ IsBlocked(p)
        PROVE  HeadersKept'
    BY <1>0, <1>1 DEF HeadersKept, IsBlocked, Over
  <1>2. ASSUME NEW q \in Requests, RequestStep(q) PROVE HeadersKept'
    <2> USE DEF Goto
    <2>1. CASE Begin(q) \/ KeyFails(q) \/ SendPrimary(q) \/ HitFails(q)
      BY <1>0, <1>1, <2>1 DEF Begin, KeyFails, SendPrimary, HitFails, Over
    <2>2. CASE Respond(q)
      BY <1>0, <1>1, <2>2 DEF Respond, Over
    <2>3. ASSUME NEW ds, NextRule(q, ds), UNCHANGED header PROVE HeadersKept'
      <3>1. pc'[q] = "rule" /\ \A p \in Requests \ {q} :
                pc'[p] = pc[p] /\ decisions'[p] = decisions[p]
        BY <1>0, <2>3 DEF NextRule
      <3> QED
        BY <1>0, <2>3, <3>1 DEF HeadersKept, IsBlocked, Over
    <2>4. CASE SkipRule(q) \/ ApplyStoreErrorPolicy(q) \/ StoreAnswers(q)
      BY <2>3, <2>4 DEF SkipRule, ApplyStoreErrorPolicy, StoreAnswers
    <2>5. CASE Conclude(q)
      <3>1. /\ pc' = [pc EXCEPT ![q] = "observe"] /\ decisions' = decisions
            /\ header' = [header EXCEPT ![q] = HeaderOf(decisions[q])]
        BY <2>5 DEF Conclude
      <3>2. HeaderOf(decisions[q]) \in Decisions \cup {NoDecision}
        <4>1. decisions[q] \in Seq(Decisions)
          BY <1>0
        <4>2. CASE decisions[q] = <<>>
          BY <4>2 DEF HeaderOf
        <4>3. CASE decisions[q] # <<>>
          BY <4>1, <4>3, HeaderIsStrictest, DecisionsComparable
        <4> QED
          BY <4>2, <4>3
      <3>3. header' \in [Requests -> Decisions \cup {NoDecision}]
        BY <1>0, <3>1, <3>2
      <3>4. /\ pc'[q] = "observe" /\ header'[q] = HeaderOf(decisions[q])
            /\ \A p \in Requests \ {q} : pc'[p] = pc[p] /\ header'[p] = header[p]
        BY <1>0, <3>1
      <3> QED
        BY <1>0, <3>1, <3>3, <3>4 DEF HeadersKept, IsBlocked
    <2> QED
      BY <1>2, <2>1, <2>2, <2>4, <2>5 DEF RequestStep
  <1>3. ASSUME NEW c \in open, Charge(c) PROVE HeadersKept'
    BY <1>1, <1>3 DEF Charge
  <1>4. CASE UNCHANGED vars
    BY <1>1, <1>4 DEF vars
  <1> QED
    BY <1>2, <1>3, <1>4, StepsOfNext

LEMMA HeadersAreKept == Spec => []HeadersKept
  <1>1. Init => HeadersKept
    BY PositionsInit DEF Init, HeadersKept, Over
  <1> QED
    BY <1>1, HeadersInductive, PTL DEF Spec

\* Type correctness of the evaluator.
THEOREM TypeCorrect == Spec => []TypeOK
  <1>1. HeadersKept => TypeOK
    BY DEF HeadersKept, Positions, TypeOK, InLoop, Over, Final
  <1> QED
    BY <1>1, HeadersAreKept, PTL

\* However many rules there are and whatever they answer, a request is answered
\* 429 if any of them blocked it, and its headers show the strictest decision, of
\* the blocking ones if there is one, ties broken as docs/algorithm.md says.
THEOREM StrictestIsShown == Spec => []StrictestDecisionShown
  <1>1. HeadersKept => StrictestDecisionShown
    <2> SUFFICES ASSUME HeadersKept, NEW q \in Requests, Concluded(q), decisions[q] # <<>>
                 PROVE  /\ \E m \in Pool(decisions[q]) :
                              /\ decisions[q][m] = header[q]
                              /\ \A n \in Pool(decisions[q]) \ {m} :
                                    StricterThan(decisions[q], m, n)
                        /\ pc[q] = "passed" => Blocking(decisions[q]) = {}
                        /\ pc[q] = "limited" => Blocking(decisions[q]) # {}
      BY DEF StrictestDecisionShown, Pool, Blocking
    <2>1. decisions[q] \in Seq(Decisions)
      BY DEF HeadersKept, Positions
    <2>2. header[q] = HeaderOf(decisions[q])
      BY DEF HeadersKept, Concluded, Over
    <2>3. IsBlocked(q) <=> Blocking(decisions[q]) # {}
      BY DEF IsBlocked, Blocking
    <2> QED
      BY <2>1, <2>2, <2>3, HeaderIsStrictest, DecisionsComparable DEF HeadersKept
  <1> QED
    BY <1>1, HeadersAreKept, PTL
=============================================================================
