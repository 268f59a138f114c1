-------------------------- MODULE RequestLifecycle --------------------------
(***************************************************************************)
(* The hooks rateLimit() of src/index.ts installs, over the life of an     *)
(* application: its limiters are constructed and its routes declared, it   *)
(* serves requests, and it stops.  Every request goes through each         *)
(* limiter's onRequest hook, the route macro's beforeHandle, the handler,  *)
(* and the onAfterHandle hooks.  The macro belongs to the limiter that was *)
(* installed last.                                                         *)
(*                                                                         *)
(* A hit counts against its rule's `limit` at cost 1, by one client, in a  *)
(* window that does not end within a behaviour.  A memory store always     *)
(* answers; a custom one does until it is closed.  How a store call and    *)
(* its errors unfold is DecisionEvaluator's.                               *)
(*                                                                         *)
(* A path is the sequence of its segments: <<>> is "/".  Elysia is no part *)
(* of the repository: a response of onRequest or beforeHandle ends the     *)
(* request, onAfterHandle runs for the handler's responses                 *)
(* (docs/production.md, "Lifecycle"), and onStop runs hook by hook.        *)
(***************************************************************************)
EXTENDS CompileRules, StoreRegistry, HeaderDecisions, FiniteSets

CONSTANTS
    Requests,
    Applications  \* the applications explored

Families == {"standard", "legacy"}

(* An application: its limiters' options in the order of installation, the *)
(* routes with a rateLimit option, and the targets <<method, path>> that   *)
(* its clients request.                                                    *)
IsRule(rule) ==
    /\ rule.limit \in Nat
    /\ rule.store \in StoreConfigs \cup {UndefinedStore}
    /\ rule.headers \in [Families -> {"on", "off", "unset"}]
    /\ rule.onStoreError \in {"inherit", "allow", "block"}

IsSequence(s) == s \in Seq(ToSet(s))

ASSUME ApplicationsType ==
    \A a \in Applications :
        /\ a.limiters # <<>> /\ IsSequence(a.limiters) /\ IsSequence(a.routes)
        /\ \A options \in ToSet(a.limiters) :
              /\ IsSequence(CompileRules(options))
              /\ options.store \in StoreConfigs \cup {UndefinedStore}
              /\ options.fallbackStore \in StoreConfigs \cup {NoFallback, MemoryFallback}
              /\ options.cleanupInterval \in Nat
              /\ \A rule \in ToSet(CompileRules(options)) : IsRule(rule)
              /\ options.headers \in [Families -> BOOLEAN]
              /\ options.onStoreError \in {"allow", "block"}
        /\ \A rule \in ToSet(a.routes) : IsRule(rule)

VARIABLES
    app,       \* the application, chosen at the start
    phase,     \* installing, declaring, serving, stopping, stopped, or failed
    rules,     \* the compiled rules of each limiter installed so far
    registry,  \* the registry of each limiter installed so far
    stopAt,    \* the next limiter whose onStop runs
    pc,        \* the hook each request is in
    target,    \* what each request asks for
    at,        \* the limiter whose onRequest hook comes next
    todo,      \* the rules the evaluation under way still has to hit
    evals,     \* history: the request's evaluations [limiter, macro, decisions]
    asked,     \* history: the rules <<limiter, rule>> that were hit, in order
    deferred,  \* deferredHeaders of each limiter: the decision, or NoDecision
    response,  \* what each request is answered
    count      \* the hits charged, per store and key

vars == <<app, phase, rules, registry, stopAt, pc, target, at, todo, evals, asked,
          deferred, response, count>>

setup   == <<app, phase, rules, registry, stopAt>>
request == <<pc, target, at, todo, evals, asked, deferred, response, count>>

Limiters == DOMAIN app.limiters
LastLimiter == Len(app.limiters)

\* Rule i of limiter l; a route's rule is the last limiter's, by a negative index.
RuleOf(l, i) == IF i > 0 THEN rules[l][i] ELSE app.routes[-i]

RuleIndices(l) ==
    DOMAIN rules[l] \cup
        IF l = LastLimiter THEN {-i : i \in DOMAIN app.routes} ELSE {}

\* The id of the rule for a request of t: the macro makes one per method and route.
RuleId(l, i, t) ==
    IF i < 0 /\ RuleOf(l, i).id = NoId THEN [method |-> t[1], path |-> RuleOf(l, i).path]
    ELSE RuleOf(l, i).id

\* <namespace>:<ruleId>:<baseKey> of the one client.
KeyOf(l, i, t) == <<app.limiters[l].namespace, RuleId(l, i, t)>>

RuleStore(l, i) == StoreFor(registry[l], RuleOf(l, i).store)

NoTarget   == <<"none", <<>>>>
NoResponse == [status |-> 0, headers |-> [f \in Families |-> NoDecision], retryAfter |-> 0,
               by |-> 0]

Decisions ==
    [limiter : Limiters, rule : Int, limit : Nat, remaining : Nat, retryAfter : {0, 1},
     blocked : BOOLEAN]

ASSUME NotADecision ==
    LET any == [limiter : Nat, rule : Int, limit : Nat, remaining : Nat, retryAfter : {0, 1},
                blocked : BOOLEAN]
    IN  NoDecision \notin any \cup [decision : any, allowed : [Families -> BOOLEAN]]

\* The ranges of the variables.  While requests are served every rule has a
\* store that can count for it (callStore never meets one without algorithmHit),
\* and a limiter's own rules have a key each.
TypeOK ==
    /\ app \in Applications
    /\ phase \in {"installing", "declaring", "serving", "stopping", "stopped", "failed"}
    /\ Len(registry) <= Len(app.limiters) /\ Len(rules) <= Len(app.limiters)
    /\ stopAt \in 1 .. Len(app.limiters) + 1
    /\ pc \in [Requests -> {"idle", "onRequest", "plugin", "route", "macro", "handler", "done"}]
    /\ \A q \in Requests :
        /\ target[q] \in {NoTarget} \cup app.targets
        /\ at[q] \in 1 .. Len(app.limiters) + 1
        /\ \A n \in DOMAIN evals[q] : \A m \in DOMAIN evals[q][n].decisions :
              evals[q][n].decisions[m] \in Decisions
        /\ deferred[q] \in [Limiters -> {NoDecision} \cup [decision : Decisions,
                                            allowed : [Families -> BOOLEAN]]]
        /\ response[q].status \in {0, 200, 429, 500}
    /\ phase = "serving" =>
        \A l \in Limiters :
            /\ \A i \in RuleIndices(l) :
                  RuleOf(l, i).algorithm # "fixed-window" =>
                      \A s \in {RuleStore(l, i), registry[l].fallback} \ {NoStore} :
                          HasAlgorithmHit(s)
            /\ \A i, j \in DOMAIN rules[l] : i # j => rules[l][i].id # rules[l][j].id

Init ==
    /\ app \in Applications
    /\ phase = "installing"
    /\ rules = <<>>
    /\ registry = <<>>
    /\ stopAt = 1
    /\ pc = [q \in Requests |-> "idle"]
    /\ target = [q \in Requests |-> NoTarget]
    /\ at = [q \in Requests |-> 1]
    /\ todo = [q \in Requests |-> <<>>]
    /\ evals = [q \in Requests |-> <<>>]
    /\ asked = [q \in Requests |-> <<>>]
    /\ deferred = [q \in Requests |-> [l \in Limiters |-> NoDecision]]
    /\ response = [q \in Requests |-> NoResponse]
    /\ count = [c \in {} |-> 0]

-----------------------------------------------------------------------------
(* Set-up.                                                                 *)

\* Bug: the fallback store is not looked at.
Supported_PrimaryOnly(r, rule) ==
    rule.algorithm # "fixed-window" => HasAlgorithmHit(StoreFor(r, rule.store))

\* ensureAlgorithmSupport, of the rule's store and of the fallback store.
Supported(r, rule) ==
    rule.algorithm # "fixed-window" =>
        \A s \in {StoreFor(r, rule.store), r.fallback} \ {NoStore} : HasAlgorithmHit(s)

\* getStore for each rule in turn, up to the first that is invalid (a macro's) or
\* up to and including the first whose store does not support it: there the call
\* throws.
WithStoresFor(r, for, options) ==
    LET after[n \in 0 .. Len(for)] ==
            IF n = 0 THEN [registry |-> r, threw |-> FALSE]
            ELSE LET before == after[n - 1]
                     next   == WithStoreFor(before.registry, for[n].store, options)
                 IN  IF before.threw \/ ~IsValidRule(for[n])
                     THEN [registry |-> before.registry, threw |-> TRUE]
                     ELSE [registry |-> next, threw |-> ~Supported(next, for[n])]
    IN  after[Len(for)]

\* rateLimit() compiles its rules, builds its registry and looks up a store for
\* each of them.
Install ==
    /\ phase = "installing"
    /\ LET l       == Len(registry) + 1
           options == app.limiters[l]
           out     == WithStoresFor(CreateStoreRegistry(l, options), CompileRules(options),
                                    options)
       IN  IF CompileThrows(options) THEN phase' = "failed" /\ UNCHANGED <<rules, registry>>
           ELSE /\ rules' = Append(rules, CompileRules(options))
                /\ registry' = Append(registry, out.registry)
                /\ phase' = IF out.threw THEN "failed"
                            ELSE IF l = LastLimiter THEN "declaring" ELSE "installing"
    /\ UNCHANGED <<app, stopAt, request>>

\* Each route with a rateLimit option: compileRouteMacroRule of the last limiter.
Declare ==
    /\ phase = "declaring"
    /\ LET out == WithStoresFor(registry[LastLimiter], app.routes, app.limiters[LastLimiter])
       IN  /\ registry' = [registry EXCEPT ![LastLimiter] = out.registry]
           /\ phase' = IF out.threw THEN "failed" ELSE "serving"
    /\ UNCHANGED <<app, rules, stopAt, request>>

-----------------------------------------------------------------------------
(* Which rules a request is subject to.                                    *)

PrefixMatches(path, prefix) ==
    prefix = <<>> \/ path = prefix \/ IsStrictPrefix(prefix, path)

MethodMatches(method, rule) == rule.methods = {} \/ method \in rule.methods

\* A route's path is a string or a RegExp: the set of the paths it matches.
PathMatches(path, rule) == path \in rule.paths

Matches(rule, t) ==
    /\ MethodMatches(t[1], rule)
    /\ rule.type = "prefix" => PrefixMatches(t[2], rule.path)
    /\ rule.type = "route" => PathMatches(t[2], rule)

\* getActiveRules, by index.  options.skip is a set of targets.
ActiveRules(l, t) ==
    OnlyIn([i \in DOMAIN rules[l] |-> i], {i \in DOMAIN rules[l] : Matches(rules[l][i], t)})

Skips(l, t) == t \in app.limiters[l].skip

Due(l, t) == IF Skips(l, t) THEN <<>> ELSE ActiveRules(l, t)

\* The rule of the route that t leads to: declared for its methods and its path.
MacroDue(t) ==
    IF Skips(LastLimiter, t) THEN <<>>
    ELSE LET LeadsTo(i) == MethodMatches(t[1], app.routes[i]) /\ t[2] = app.routes[i].path
         IN  OnlyIn([i \in DOMAIN app.routes |-> -i], {-i : i \in {j \in DOMAIN app.routes : LeadsTo(j)}})

PolicyOf(l, i) ==
    IF RuleOf(l, i).onStoreError = "inherit" THEN app.limiters[l].onStoreError
    ELSE RuleOf(l, i).onStoreError

\* shouldUseHeaderFamily for the rules is of limiter l.
FamilyAllowed(l, is, f) ==
    LET says == {RuleOf(l, is[n]).headers[f] : n \in DOMAIN is}
    IN  "on" \in says \/ ("off" \notin says /\ app.limiters[l].headers[f])

-----------------------------------------------------------------------------
(* Stores.                                                                 *)

Counted(c) == IF c \in DOMAIN count THEN count[c] ELSE 0

Charged(c) == [d \in DOMAIN count \cup {c} |-> Counted(d) + IF d = c THEN 1 ELSE 0]

Closed(s) == \E l \in DOMAIN registry : Contains(registry[l].closed, s)

\* The decision of the n-th hit of rule i.
ToDecision(l, i, n) ==
    LET limit == RuleOf(l, i).limit IN
    [limiter |-> l, rule |-> i, limit |-> limit, remaining |-> IF n <= limit THEN limit - n ELSE 0,
     retryAfter |-> IF n <= limit THEN 0 ELSE 1, blocked |-> n > limit]

\* Bug: a synthetic block that does not block.
SynthesizeBlock_Open(l, i) ==
    [limiter |-> l, rule |-> i, limit |-> RuleOf(l, i).limit, remaining |-> 0, retryAfter |-> 1,
     blocked |-> FALSE]

SynthesizeBlock(l, i) ==
    [limiter |-> l, rule |-> i, limit |-> RuleOf(l, i).limit, remaining |-> 0, retryAfter |-> 1,
     blocked |-> TRUE]

\* Where rule i is counted: its store, or the fallback store when that is
\* closed and the fallback is another; NoStore when neither answers.
Serving(l, i) ==
    LET s == RuleStore(l, i)
        f == registry[l].fallback
    IN  IF ~Closed(s) THEN s
        ELSE IF f \notin {NoStore, s} /\ ~Closed(f) THEN f ELSE NoStore

-----------------------------------------------------------------------------
(* Answers.                                                                *)

Goto(q, label) == pc' = [pc EXCEPT ![q] = label]

\* The header families a decision fills.
Shown(d, allowed) == [f \in Families |-> IF allowed[f] THEN d ELSE NoDecision]

AllowedFamilies(l, is) == [f \in Families |-> FamilyAllowed(l, is, f)]

\* A 429 by decision d of limiter l.
Limited(q, l, d, allowed) ==
    /\ Goto(q, "done")
    /\ response' = [response EXCEPT ![q] = [status |-> 429, headers |-> Shown(d, allowed),
                                            retryAfter |-> d.retryAfter, by |-> l]]
    /\ UNCHANGED deferred

Defer(q, l, d, allowed) ==
    deferred' = [deferred EXCEPT ![q][l] = [decision |-> d, allowed |-> allowed]]

\* The hook of limiter l lets the request go on.
GoOn(q) ==
    /\ Goto(q, IF pc[q] = "macro" THEN "handler" ELSE "onRequest")
    /\ at' = [at EXCEPT ![q] = IF pc[q] = "macro" THEN @ ELSE @ + 1]

-----------------------------------------------------------------------------
(* onRequest with one global fixed-window rule in a memory store.          *)

\* `plain`: no onDecision, onLimit, keyGenerator, slow key resolver, storeTimeout,
\* hashKeys or maxKeyLength, and no skip of the rule.
FastEligible(l) ==
    LET o == app.limiters[l] IN
    /\ Len(rules[l]) = 1
    /\ rules[l][1].type = "global" /\ rules[l][1].algorithm = "fixed-window"
    /\ o.plain /\ o.skip = {} /\ registry[l].fallback = NoStore
    /\ PolicyOf(l, 1) = "allow"
    /\ RuleStore(l, 1) \notin CustomStores

\* Bug: a rule's own `false` does not turn a family off.
FastAllowed_IgnoresOff(l, f) == RuleOf(l, 1).headers[f] = "on" \/ app.limiters[l].headers[f]

FastAllowed(l, f) ==
    \/ RuleOf(l, 1).headers[f] = "on"
    \/ RuleOf(l, 1).headers[f] # "off" /\ app.limiters[l].headers[f]

\* Bug: every method is counted.
FastHandle_AllMethods(q) ==
    LET l       == at[q]
        c       == <<RuleStore(l, 1), KeyOf(l, 1, target[q])>>
        d       == ToDecision(l, 1, Counted(c) + 1)
        allowed == [f \in Families |-> FastAllowed(l, f)]
    IN  /\ count' = Charged(c)
        /\ asked' = [asked EXCEPT ![q] = Append(@, <<l, 1>>)]
        /\ evals' = [evals EXCEPT ![q] =
                         Append(@, [limiter |-> l, macro |-> FALSE, decisions |-> <<d>>])]
        /\ IF d.blocked THEN Limited(q, l, d, allowed) /\ UNCHANGED at
           ELSE GoOn(q) /\ Defer(q, l, d, allowed) /\ UNCHANGED response

\* fastGlobalMemoryRequest.handle, all in one step.
FastHandle(q) ==
    LET l       == at[q]
        c       == <<RuleStore(l, 1), KeyOf(l, 1, target[q])>>
        d       == ToDecision(l, 1, Counted(c) + 1)
        allowed == [f \in Families |-> FastAllowed(l, f)]
    IN  IF ~MethodMatches(target[q][1], RuleOf(l, 1))
        THEN GoOn(q) /\ UNCHANGED <<evals, asked, deferred, response, count>>
        ELSE /\ count' = Charged(c)
             /\ asked' = [asked EXCEPT ![q] = Append(@, <<l, 1>>)]
             /\ evals' = [evals EXCEPT ![q] =
                              Append(@, [limiter |-> l, macro |-> FALSE, decisions |-> <<d>>])]
             /\ IF d.blocked THEN Limited(q, l, d, allowed) /\ UNCHANGED at
                ELSE /\ GoOn(q)
                     /\ UNCHANGED response
                     /\ IF \E f \in Families : allowed[f] THEN Defer(q, l, d, allowed)
                        ELSE UNCHANGED deferred

FastRequest(q) ==
    /\ pc[q] = "onRequest" /\ at[q] \in Limiters /\ FastEligible(at[q])
    /\ FastHandle(q)
    /\ UNCHANGED <<setup, target, todo>>

-----------------------------------------------------------------------------
(* evaluateRequest, for onRequest and for the route macro.                 *)

Evaluate(q, label, l, due) ==
    /\ todo' = [todo EXCEPT ![q] = due]
    /\ evals' = [evals EXCEPT ![q] =
                     Append(@, [limiter |-> l, macro |-> label = "macro", decisions |-> <<>>])]
    /\ Goto(q, label)

\* A request comes in.
Receive(q) ==
    /\ pc[q] = "idle" /\ phase = "serving"
    /\ \E t \in app.targets : target' = [target EXCEPT ![q] = t]
    /\ Goto(q, "onRequest")
    /\ UNCHANGED <<setup, at, todo, evals, asked, deferred, response, count>>

\* The onRequest hook of a limiter that is not on the fast path.
OnRequest(q) ==
    /\ pc[q] = "onRequest" /\ at[q] \in Limiters /\ ~FastEligible(at[q])
    /\ LET due == Due(at[q], target[q])
       IN  IF due = <<>> THEN GoOn(q) /\ UNCHANGED <<todo, evals>>
           ELSE Evaluate(q, "plugin", at[q], due) /\ UNCHANGED at
    /\ UNCHANGED <<setup, target, asked, deferred, response, count>>

\* All limiters have let the request go: the route is found, and its macro runs.
BeforeHandle(q) ==
    /\ pc[q] = "onRequest" /\ at[q] \notin Limiters
    /\ LET due == MacroDue(target[q])
       IN  IF due = <<>> THEN Goto(q, "handler") /\ UNCHANGED <<todo, evals>>
           ELSE Evaluate(q, "macro", LastLimiter, due)
    /\ UNCHANGED <<setup, target, at, asked, deferred, response, count>>

\* evaluateDecisions: the next rule's store is hit, or its policy decides.
HitRule(q) ==
    /\ pc[q] \in {"plugin", "macro"} /\ todo[q] # <<>>
    /\ LET n  == Len(evals[q])
           l  == evals[q][n].limiter
           i  == Head(todo[q])
           s  == Serving(l, i)
           c  == <<s, KeyOf(l, i, target[q])>>
           ds == CASE s # NoStore -> <<ToDecision(l, i, Counted(c) + 1)>>
                   [] s = NoStore /\ PolicyOf(l, i) = "block" -> <<SynthesizeBlock(l, i)>>
                   [] s = NoStore /\ PolicyOf(l, i) = "allow" -> <<>>
       IN  /\ evals' = [evals EXCEPT ![q][n].decisions = @ \o ds]
           /\ asked' = [asked EXCEPT ![q] = Append(@, <<l, i>>)]
           /\ count' = IF s = NoStore THEN count ELSE Charged(c)
    /\ todo' = [todo EXCEPT ![q] = Tail(@)]
    /\ UNCHANGED <<setup, pc, target, at, deferred, response>>

\* The rules the evaluation under way is about.
Evaluating(q) ==
    LET e == evals[q][Len(evals[q])]
    IN  IF e.macro THEN MacroDue(target[q]) ELSE Due(e.limiter, target[q])

\* The headers wait for onAfterHandle; a later evaluation replaces them.
ConcludeAllowed(q, l, d) ==
    /\ GoOn(q)
    /\ UNCHANGED response
    /\ IF d = NoDecision THEN UNCHANGED deferred
       ELSE Defer(q, l, d, AllowedFamilies(l, Evaluating(q)))

Conclude(q) ==
    /\ pc[q] \in {"plugin", "macro"} /\ todo[q] = <<>>
    /\ LET e == evals[q][Len(evals[q])]
           d == HeaderOf(e.decisions)
       IN  IF d # NoDecision /\ d.blocked
           THEN Limited(q, e.limiter, d, AllowedFamilies(e.limiter, Evaluating(q))) /\ UNCHANGED at
           ELSE ConcludeAllowed(q, e.limiter, d)
    /\ UNCHANGED <<setup, target, todo, evals, asked, count>>

-----------------------------------------------------------------------------

\* The handler throws, and no onAfterHandle runs.
HandlerThrows(q) ==
    /\ pc[q] = "handler"
    /\ Goto(q, "done")
    /\ response' = [response EXCEPT ![q].status = 500]
    /\ UNCHANGED <<setup, target, at, todo, evals, asked, deferred, count>>

\* It returns, and every limiter's onAfterHandle writes its pending headers over
\* those of the limiters before it.
Respond(q) ==
    /\ pc[q] = "handler"
    /\ Goto(q, "done")
    /\ LET Writers(f) == {l \in Limiters : deferred[q][l] # NoDecision /\ deferred[q][l].allowed[f]}
       IN  response' = [response EXCEPT ![q].status = 200,
                            ![q].headers = [f \in Families |->
                                IF Writers(f) = {} THEN NoDecision
                                ELSE deferred[q][Max(Writers(f))].decision]]
    /\ deferred' = [deferred EXCEPT ![q] = [l \in Limiters |-> NoDecision]]
    /\ UNCHANGED <<setup, target, at, todo, evals, asked, count>>

-----------------------------------------------------------------------------
(* onStop.                                                                 *)

Stop ==
    /\ phase = "serving"
    /\ phase' = "stopping"
    /\ UNCHANGED <<app, rules, registry, stopAt, request>>

\* The next limiter's registry is closed.  If that throws, app.stop() may give up.
OnStop ==
    /\ phase = "stopping"
    /\ registry' = [registry EXCEPT ![stopAt] = Close(@)]
    /\ stopAt' = stopAt + 1
    /\ \/ phase' = IF stopAt = LastLimiter THEN "stopped" ELSE "stopping"
       \/ ~CloseSucceeds(registry[stopAt]) /\ phase' = "stopped"
    /\ UNCHANGED <<app, rules, request>>

-----------------------------------------------------------------------------

RequestStep(q) ==
    \/ Receive(q) \/ FastRequest(q) \/ OnRequest(q) \/ BeforeHandle(q) \/ HitRule(q)
    \/ Conclude(q) \/ HandlerThrows(q) \/ Respond(q)

Next == Install \/ Declare \/ Stop \/ OnStop \/ \E q \in Requests : RequestStep(q)

Spec == Init /\ [][Next]_vars

-----------------------------------------------------------------------------
(* Applications whose rules count apart, told from their options alone.     *)

\* Plugin rule i of limiter l of application a, or, by -i, its i-th route's.
WrittenRule(a, l, i) == IF i > 0 THEN CompileRules(a.limiters[l])[i] ELSE a.routes[-i]

WrittenIndices(a, l) ==
    DOMAIN CompileRules(a.limiters[l]) \cup
        IF l = Len(a.limiters) THEN {-i : i \in DOMAIN a.routes} ELSE {}

\* The rule may apply to a request of t; of a route's rule it is known when.
MayApply(a, l, i, t) ==
    i > 0 \/ LET route == WrittenRule(a, l, i)
             IN  MethodMatches(t[1], route) /\ t[2] = route.path

WrittenKey(a, l, i, t) ==
    LET rule == WrittenRule(a, l, i)
    IN  <<a.limiters[l].namespace,
          IF i < 0 /\ rule.id = NoId THEN [method |-> t[1], path |-> rule.path] ELSE rule.id>>

\* The custom stores that may count for the rule, its own and the fallback.
CustomStoresOf(a, l, i) ==
    LET o   == a.limiters[l]
        own == WrittenRule(a, l, i).store
    IN  {s \in CustomStores :
            CustomConfig(s) \in {IF own = UndefinedStore THEN o.store ELSE own, o.fallbackStore}}

\* No two rules count under one key of one store: of one limiter, a route's rule and
\* any other have different keys (compileRules sees to the plugin's); of two limiters,
\* rules with the same key have no custom store in common.
CountApart ==
    \A a \in Applications : \A l, k \in DOMAIN a.limiters : \A t, u \in a.targets :
        \A i \in WrittenIndices(a, l), j \in WrittenIndices(a, k) :
            /\ MayApply(a, l, i, t) /\ MayApply(a, k, j, u)
            /\ WrittenKey(a, l, i, t) = WrittenKey(a, k, j, u)
            /\ l # k => CustomStoresOf(a, l, i) \cap CustomStoresOf(a, k, j) # {}
            => l = k /\ (i = j \/ (i > 0 /\ j > 0))

-----------------------------------------------------------------------------
(* Properties of the requests.                                             *)

Answered(q) == pc[q] = "done"

Named(l, is) == [n \in DOMAIN is |-> <<l, is[n]>>]

\* The plugin-level rules of the first m limiters that apply to q.
DueUpTo(q, m) == FlattenSeq([l \in 1 .. m |-> Named(l, Due(l, target[q]))])

LastEvaluation(q) == evals[q][Len(evals[q])]

\* docs/examples.md: "each rule increments its own counter".  A request is counted
\* once by every rule that applies to it, in order, whichever path its limiters
\* take; one that is blocked, by no limiter after that, and by the macro last.
CountedByEveryRule ==
    \A q \in Requests : Answered(q) =>
        asked[q] =
            IF response[q].status = 429 /\ ~LastEvaluation(q).macro
            THEN DueUpTo(q, response[q].by)
            ELSE DueUpTo(q, LastLimiter) \o Named(LastLimiter, MacroDue(target[q]))

\* Every decision made for q.
AllDecisions(q) == UNION {ToSet(evals[q][n].decisions) : n \in DOMAIN evals[q]}

\* docs/algorithm.md: a request is answered 429, with a retry-after, if and only if
\* some rule blocked it.  The headers shown are one decision's, made for this very
\* request; no other decision of its evaluation was stricter, and it counts no hits
\* but its own rule's.
HeadersHonest ==
    \A q \in Requests : Answered(q) =>
        /\ response[q].status = 429 <=> \E d \in AllDecisions(q) : d.blocked
        /\ response[q].status = 429 => response[q].retryAfter >= 1
        /\ \A f \in Families : LET d == response[q].headers[f] IN
              d # NoDecision =>
                  /\ d.blocked <=> response[q].status = 429
                  /\ d.limit - d.remaining <=
                        Cardinality({p \in Requests : <<d.limiter, d.rule>> \in ToSet(asked[p])})
                     \/ d.blocked
                  /\ \E n \in DOMAIN evals[q] :
                        LET ds == ToSet(evals[q][n].decisions)
                        IN  /\ d \in ds
                            /\ \A e \in ds : e.blocked => d.blocked
                            /\ \A e \in ds : d.remaining <= e.remaining

\* Whether a header family is shown is the last word of the evaluations that decided
\* something: on if a rule of it says so, else off if a rule says so, else as the
\* plugin has it; the fast path says the same as the general one.
HeaderFamilies ==
    \A q \in Requests, f \in Families :
        Answered(q) /\ response[q].status # 500 =>
            LET decided == {n \in DOMAIN evals[q] : evals[q][n].decisions # <<>>}
                LastOf(l) == Max({n \in decided : evals[q][n].limiter = l})
                RulesOf(n) == IF evals[q][n].macro THEN MacroDue(target[q])
                              ELSE Due(evals[q][n].limiter, target[q])
                Allows(n) == FamilyAllowed(evals[q][n].limiter, RulesOf(n), f)
            IN  response[q].headers[f] # NoDecision <=>
                    IF response[q].status = 429 THEN Allows(Len(evals[q]))
                    ELSE \E l \in {evals[q][n].limiter : n \in decided} : Allows(LastOf(l))

\* A rule that fails closed, or whose store always answers, lets at most `limit`
\* requests of a key through per store that may count for it, however requests
\* overlap with one another and with the application's stop.
FailsClosed ==
    phase \notin {"installing", "declaring", "failed"} =>
        \A l \in Limiters : \A i \in RuleIndices(l) : \A t \in app.targets :
            LET stores  == {RuleStore(l, i), registry[l].fallback} \ {NoStore}
                through == {q \in Requests : /\ Answered(q) /\ response[q].status # 429
                                             /\ RuleId(l, i, target[q]) = RuleId(l, i, t)
                                             /\ i \in ToSet(Due(l, target[q])) \cup
                                                      ToSet(MacroDue(target[q]))}
            IN  PolicyOf(l, i) = "block" \/ RuleStore(l, i) \notin CustomStores =>
                    Cardinality(through) <= RuleOf(l, i).limit * Cardinality(stores)

-----------------------------------------------------------------------------
(* Properties of the registries.                                           *)

\* The configuration whose store a rule gets.
Effective(l, rule) ==
    IF rule.store = UndefinedStore THEN app.limiters[l].store ELSE rule.store

\* src/core/storeFactory.ts: equal configurations of rules share one store, and
\* different ones never do, except through the same custom object.  The fallback
\* store never is a rule's memory store: it survives what breaks that one.
StoresShared ==
    \A l \in DOMAIN registry :
        LET r == registry[l]
        IN  \A a, b \in {rule \in {RuleOf(l, i) : i \in RuleIndices(l)} : RuleStoreCacheKey(rule.store) \in DOMAIN r.cache} :
                /\ a.store = b.store => StoreFor(r, a.store) = StoreFor(r, b.store)
                /\ StoreFor(r, a.store) = StoreFor(r, b.store) =>
                      Effective(l, a) = Effective(l, b)
                /\ StoreFor(r, a.store) \notin CustomStores =>
                      StoreFor(r, a.store) # r.fallback

\* tests/plugin/plugin.test.ts: one cleanup timer also "when primary and fallback
\* share a store instance".  Until the stop each store that a hit can reach has
\* exactly one timer if it can be cleaned up, and the stores without one have none.
OneTimerPerStore ==
    phase = "serving" =>
        \A l \in Limiters :
            LET r == registry[l] IN
            /\ IsInjective(r.running)
            /\ ToSet(r.running) = IF app.limiters[l].cleanupInterval = 0 THEN {}
                                  ELSE {s \in ToSet(r.activeStores) : HasCleanup(s)}
            /\ \A key \in DOMAIN r.cache : r.cache[key] \in ToSet(r.activeStores)

\* docs/production.md: onStop clears the cleanup timers and closes the stores with
\* a close(), each once per limiter that uses it.  A close() that throws leaves no
\* timer of its limiter behind.
StopReleases ==
    phase = "stopped" =>
        \A l \in 1 .. stopAt - 1 :
            /\ registry[l].running = <<>>
            /\ IsInjective(registry[l].closed)
            /\ CloseSucceeds(registry[l]) =>
                  ToSet(registry[l].closed) = ToSet(registry[l].activeStores) \cap WithClose

\* docs/examples.md:324: "Headers and `retry-after` use the strictest relevant
\* decision" of the rules that match, which the route macro's rules are among
\* (docs/configuration.md:82).
StrictestShown ==
    \A q \in Requests, f \in Families :
        Answered(q) /\ response[q].headers[f] # NoDecision =>
            \A d \in AllDecisions(q) :
                d.limiter = response[q].headers[f].limiter =>
                    response[q].headers[f].remaining <= d.remaining
=============================================================================
