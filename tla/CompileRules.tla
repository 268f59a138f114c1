---------------------------- MODULE CompileRules ----------------------------
(***************************************************************************)
(* compileRules of src/core/compileRules.ts: the rules that the options of *)
(* rateLimit() stand for, in the order in which they are evaluated, or the *)
(* error that keeps the limiter from being constructed.                    *)
(*                                                                         *)
(* A rule as the user writes it is a record with at least                  *)
(*   id        [name], or NoId                                             *)
(*   limit, algorithm, path                                                *)
(*   methods   the set of its method option; {} when it has none           *)
(*   keyMethod the METHOD of its "METHOD /path" key in a map of routes     *)
(* A compiled rule has its type and its id beside.  Durations, costs and   *)
(* bans are parsed and checked like limits, and left out.                  *)
(***************************************************************************)
EXTENDS Integers, SequencesExt

HTTP_METHODS ==
    {"GET", "POST", "PUT", "PATCH", "DELETE", "OPTIONS", "HEAD", "TRACE", "CONNECT"}

ALGORITHMS == {"fixed-window", "sliding-window", "token-bucket", "gcra"}

NoId     == [name |-> ""]
NoMethod == "none"

\* ensureValidRule
HasValidNumbers(rule) == rule.limit > 0

\* normalizeMethodSet
HasValidMethods(rule) == rule.methods \subseteq HTTP_METHODS

IsValidRule(rule) ==
    rule.algorithm \in ALGORITHMS /\ HasValidNumbers(rule) /\ HasValidMethods(rule)

\* The method is written in the map's key or in the rule, never in both.
RouteKeyIsValid(rule) ==
    rule.keyMethod # NoMethod => rule.keyMethod \in HTTP_METHODS /\ rule.methods = {}

RouteRule(rule) ==
    [rule EXCEPT !.methods = IF rule.keyMethod = NoMethod THEN @ ELSE {rule.keyMethod}]

\* `global`, `prefix:<prefix>:<index>` or `route:<path>:<index>`.
IdOf(type, rule, index) ==
    CASE rule.id # NoId                    -> rule.id
      [] rule.id = NoId /\ type = "global" -> [name |-> "global"]
      [] rule.id = NoId /\ type # "global" -> [type |-> type, path |-> rule.path, index |-> index]

WithType(type, written) ==
    [n \in DOMAIN written |->
        [field \in DOMAIN written[n] \cup {"type"} |->
            CASE field = "type" -> type
              [] field = "id"   -> IdOf(type, written[n], n)
              [] OTHER          -> written[n][field]]]

\* The top-level shorthand stands for a global rule: sequences of one or none.
GlobalRules(options) == options.shorthand \o options.global

HasBothGlobals(options) == options.shorthand # <<>> /\ options.global # <<>>

CompileRules(options) ==
    WithType("global", GlobalRules(options))
        \o WithType("prefix", options.prefixes)
        \o WithType("route", [n \in DOMAIN options.routes |-> RouteRule(options.routes[n])])

\* registerId meets an id again.
HasDuplicateId(rules) == \E m, n \in DOMAIN rules : m # n /\ rules[m].id = rules[n].id

CompileThrows(options) ==
    LET rules == CompileRules(options) IN
    \/ HasBothGlobals(options)
    \/ \E n \in DOMAIN options.routes : ~RouteKeyIsValid(options.routes[n])
    \/ \E rule \in ToSet(rules) : ~IsValidRule(rule)
    \/ HasDuplicateId(rules)
=============================================================================
