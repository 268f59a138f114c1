------------------------- MODULE MCRequestLifecycle -------------------------
(***************************************************************************)
(* Seven applications for TLC, each with what another has not: the fast    *)
(* path before a limiter whose only rule is a route's, rules that meet on  *)
(* one custom store under several names, memory stores told apart by their *)
(* cap, a fallback that cannot count, an id used twice, and a close() that *)
(* throws.                                                                 *)
(***************************************************************************)
EXTENDS RequestLifecycle, TLC

CONSTANTS c1, c2, q1, q2, q3

Plain == [standard |-> "unset", legacy |-> "unset"]

MCRule(methods, path, limit, store) ==
    [id |-> NoId, methods |-> methods, keyMethod |-> NoMethod, path |-> path, paths |-> {path},
     limit |-> limit, store |-> store, algorithm |-> "fixed-window", headers |-> Plain,
     onStoreError |-> "inherit"]

AnyMethod == {}

\* A limiter without rules, to be completed.
MCLimiter(store, fallback) ==
    [namespace |-> "rate-limit", shorthand |-> <<>>, global |-> <<>>, prefixes |-> <<>>,
     routes |-> <<>>, store |-> store, fallbackStore |-> fallback, cleanupInterval |-> 1,
     headers |-> [standard |-> TRUE, legacy |-> FALSE], onStoreError |-> "allow",
     plain |-> TRUE, skip |-> {}]

Login == <<"login">>
Api   == <<"api">>
ApiX  == <<"api", "x">>

\* A fast path that counts only POST and turns a family round, then a route's rule.
FastThenRoute ==
    [limiters |->
        <<[MCLimiter(UndefinedStore, NoFallback) EXCEPT
              !.shorthand = <<[MCRule({"POST"}, <<>>, 1, UndefinedStore)
                                  EXCEPT !.headers = [standard |-> "off", legacy |-> "on"]]>>],
          MCLimiter(CustomConfig(c1), NoFallback)>>,
     routes  |-> <<MCRule({"POST", "GET"}, Login, 1, UndefinedStore)>>,
     targets |-> {<<"POST", Login>>, <<"GET", Login>>, <<"POST", Api>>}]

\* One limiter whose plugin rule and route rule share the fast path's memory store.
OneLimiter ==
    [limiters |-> <<[MCLimiter(UndefinedStore, NoFallback) EXCEPT
                        !.global = <<MCRule(AnyMethod, <<>>, 1, UndefinedStore)>>]>>,
     routes  |-> <<[MCRule({"GET"}, Login, 2, UndefinedStore)
                       EXCEPT !.id = [name |-> "login"],
                              !.headers = [standard |-> "unset", legacy |-> "on"]]>>,
     targets |-> {<<"GET", Login>>, <<"GET", Api>>}]

\* Two rules on one custom store: the default, by name, and as the fallback.
SharedCustom ==
    [limiters |->
        <<[MCLimiter(CustomConfig(c1), CustomConfig(c1)) EXCEPT
              !.global = <<[MCRule(AnyMethod, <<>>, 1, UndefinedStore)
                               EXCEPT !.onStoreError = "block"]>>,
              !.prefixes = <<[MCRule(AnyMethod, Api, 2, CustomConfig(c1))
                                 EXCEPT !.headers = [standard |-> "off", legacy |-> "unset"]]>>,
              !.skip = {<<"GET", Login>>}]>>,
     routes  |-> <<>>,
     targets |-> {<<"GET", ApiX>>, <<"GET", Api>>, <<"GET", Login>>}]

\* Memory stores of two caps, and a fallback for the custom store of a third rule.
Capped ==
    [limiters |->
        <<[MCLimiter(MemoryConfig(1), MemoryFallback) EXCEPT
              !.global = <<MCRule(AnyMethod, <<>>, 1, CustomConfig(c1))>>,
              !.prefixes = <<MCRule(AnyMethod, Api, 1, MemoryConfig(1))>>,
              !.routes = <<[MCRule(AnyMethod, ApiX, 1, MemoryConfig(2))
                               EXCEPT !.algorithm = "gcra", !.keyMethod = "GET"]>>,
              !.onStoreError = "block", !.cleanupInterval = 0]>>,
     routes  |-> <<MCRule({"GET"}, ApiX, 2, MemoryConfig(2))>>,
     targets |-> {<<"GET", ApiX>>, <<"POST", ApiX>>, <<"GET", Login>>}]

\* A gcra rule whose fallback store has no algorithmHit, after a store that has.
Unsupported ==
    [limiters |->
        <<[MCLimiter(UndefinedStore, CustomConfig(c2)) EXCEPT
              !.global = <<[MCRule(AnyMethod, <<>>, 1, CustomConfig(c1))
                               EXCEPT !.algorithm = "gcra"]>>]>>,
     routes  |-> <<>>,
     targets |-> {<<"GET", Login>>}]

\* The same id for a prefix and, by default, for the global rule.
DuplicateId ==
    [limiters |->
        <<[MCLimiter(UndefinedStore, NoFallback) EXCEPT
              !.global = <<MCRule(AnyMethod, <<>>, 1, UndefinedStore)>>,
              !.prefixes = <<[MCRule(AnyMethod, Api, 2, UndefinedStore)
                                 EXCEPT !.id = [name |-> "global"]]>>]>>,
     routes  |-> <<>>,
     targets |-> {<<"GET", Login>>}]

\* Two limiters that share both custom stores, one of which fails to close.
Throwing ==
    [limiters |->
        <<[MCLimiter(UndefinedStore, NoFallback) EXCEPT
              !.global = <<MCRule(AnyMethod, <<>>, 2, CustomConfig(c2))>>,
              !.prefixes = <<MCRule(AnyMethod, <<>>, 1, CustomConfig(c1))>>,
              !.headers.legacy = TRUE],
          [MCLimiter(UndefinedStore, NoFallback) EXCEPT
              !.global = <<MCRule(AnyMethod, <<>>, 2, CustomConfig(c1))>>]>>,
     routes  |-> <<>>,
     targets |-> {<<"GET", Login>>}]

AllApplications ==
    {FastThenRoute, OneLimiter, SharedCustom, Capped, Unsupported, DuplicateId, Throwing}

SameRequests == Permutations(Requests)

RouteApplication == {OneLimiter}

\* Their rules count apart, as HeadersHonest needs.
ASSUME RulesCountApart == CountApart
=============================================================================
