----------------------------- MODULE RedisState -----------------------------
(***************************************************************************)
(* algorithmHit of src/plugins/redisStore.ts (RedisFixedWindow has the     *)
(* fixed window).  gcra runs as a Lua script where it can; otherwise, and  *)
(* for token-bucket, a hit reads one state key, evaluates it in the        *)
(* process (evaluateAlgorithmHit) and writes the result back.  A sliding   *)
(* window is a counter per window and a ban key, in several commands.      *)
(*                                                                         *)
(* Script and portable path store different things under one key: the      *)
(* script a number (the arrival time, and the ban in a key of its own), the  *)
(* portable path a JSON object that holds the ban too.  Neither can read   *)
(* the other's: JSON.parse of a number has no `algorithm`, and tonumber of *)
(* JSON is nil, on which the script's arithmetic fails.                    *)
(*                                                                         *)
(* Units are those of Algorithms.  The rounding of doubles, and of Lua's   *)
(* tostring, is not modelled.                                              *)
(***************************************************************************)
EXTENDS Algorithms, RedisServer, FiniteSets

CONSTANTS
    Hits,
    Instances,       \* the createRedisStore instances of the processes
    InstanceOf,      \* the instance each hit calls
    AtomicSupported, \* the instances that may use the script
    RuleChoices,     \* the rules; a behaviour is about one of them
    MaxLag,          \* bound: how long a hit is under way
    MaxFailures,     \* bound: EVALs lost or refused, and hits that fail midway
    MaxClock         \* bound: the clock stops here

ASSUME HitsFinite      == IsFiniteSet(Hits)
ASSUME InstanceType    == InstanceOf \in [Hits -> Instances]
ASSUME SupportedType   == AtomicSupported \subseteq Instances
ASSUME ChoicesType     == RuleChoices \subseteq {r \in Rules : r.algorithm # "fixed-window"}
ASSUME MaxLagType      == MaxLag \in Nat
ASSUME MaxFailuresType == MaxFailures \in Nat
ASSUME MaxClockType    == MaxClock \in Nat

VARIABLES
    rule,          \* the rule of the key, of RuleChoices
    clock,         \* the time, of the processes and of the server
    stateKey,      \* the key both paths keep the state under
    windowKeys,    \* the counter of each sliding window, by the window's number
    banKey,        \* the ban key of the script and of the sliding window
    useGcraAtomic, \* per instance: the script has not been found unavailable
    pc,            \* the command each hit sends next
    job,           \* what each pending hit knows
    late,          \* EVALs given up that may still reach the server, with their `now`
    failures,      \* how many there have been
    paths,         \* history: the paths that have been taken
    charged,       \* history: the arrival time after every hit that was ever charged
    reference,     \* history: the state the in-process algorithm would have
    promised,      \* history: the latest banUntil reported
    admitted       \* history: hits let through whose `now` is a time or before

server  == <<stateKey, windowKeys, banKey>>
history == <<paths, charged, reference, promised, admitted>>
vars    == <<rule, clock, server, useGcraAtomic, pc, job, late, failures, history>>

\* A state as the script stores it.
Number(tat) == [algorithm |-> "number", tat |-> tat]

\* The reference is lost: hits overlapped, came late, failed or mixed the paths.
Unknown == [algorithm |-> "unknown"]

NoJob == [now |-> 0, next |-> NoState, current |-> 0, previous |-> 0]

\* The commands of a sliding-window hit.
Sliding == {"incrby", "pttl", "pexpire", "get previous", "pttl ban", "psetex ban"}

\* The number of the window that `now` lies in.
Window(now) == now \div rule.window

\* The ranges of the variables; the script is only sent where it may be used,
\* and no key outlives a hit's arrival by more than two windows or a ban.
TypeOK ==
    /\ rule \in RuleChoices
    /\ clock \in 0 .. MaxClock
    /\ windowKeys \in [0 .. MaxClock -> KeysHolding(Nat)]
    /\ stateKey \in KeysHolding({NoState} \cup StatesOf(rule)
                                \cup [algorithm : {"number"}, tat : Nat])
    /\ stateKey.expires <= clock + Larger(2 * rule.window, rule.ban) + MaxLag
    /\ banKey \in KeysHolding({0, 1})
    /\ useGcraAtomic \in [Instances -> BOOLEAN]
    /\ pc \in [Hits -> {"idle", "eval", "get", "psetex", "done", "failed"} \cup Sliding]
    /\ \A h \in Hits : /\ job[h].now \in 0 .. clock
                       /\ pc[h] = "eval" => /\ InstanceOf[h] \in AtomicSupported
                                            /\ rule.algorithm = "gcra"
                       /\ pc[h] = "psetex" => job[h].next.state \in StatesOf(rule)
    /\ late \subseteq Hits \X (0 .. clock)
    /\ failures \in 0 .. MaxFailures
    /\ paths \subseteq {"script", "portable", "sliding"}
    /\ charged \in Nat
    /\ reference \in {NoState, Unknown} \cup StatesOf(rule)
    /\ promised \in Nat
    /\ admitted \in [0 .. MaxClock -> Nat]

Init ==
    /\ rule \in RuleChoices
    /\ clock = 0
    /\ windowKeys = [w \in 0 .. MaxClock |-> [value |-> 0, expires |-> Gone]]
    /\ stateKey = [value |-> NoState, expires |-> Gone]
    /\ banKey = [value |-> 0, expires |-> Gone]
    /\ useGcraAtomic = [i \in Instances |-> i \in AtomicSupported]
    /\ pc = [h \in Hits |-> "idle"]
    /\ job = [h \in Hits |-> NoJob]
    /\ late = {}
    /\ failures = 0
    /\ paths = {}
    /\ charged = 0
    /\ reference = NoState
    /\ promised = 0
    /\ admitted = [t \in 0 .. MaxClock |-> 0]

-----------------------------------------------------------------------------
(* GCRA_SCRIPT of src/plugins/redisScripts.ts at the present server time.  *)

Stored == Get(stateKey, clock, NoState)

\* tonumber of the portable path's JSON is nil.
ScriptErrors == Stored.algorithm = rule.algorithm

ScriptTat(now) == IF Stored.algorithm = "number" THEN Stored.tat ELSE now * rule.limit

RunningBan == Larger(Pttl(banKey, clock), 0)

\* Bug: an arrival time in the past is not brought up to `now`.
ScriptNextTat_NoMax(now) == ScriptTat(now) + rule.window * rule.cost

ScriptNextTat(now) == Larger(ScriptTat(now), now * rule.limit) + rule.window * rule.cost

ScriptWait(now) == ScriptNextTat(now) - Capacity(rule) - now * rule.limit

ScriptEarly(now) == RunningBan = 0 /\ ScriptWait(now) > 0

\* Bug: the ban is not looked at.
ScriptAdmits_Banned(now) == ScriptWait(now) <= 0

ScriptAdmits(now) == RunningBan = 0 /\ ScriptWait(now) <= 0

\* The ban after the script.
ScriptBanTtl(now) == IF ScriptEarly(now) /\ rule.ban > 0 THEN rule.ban ELSE RunningBan

ScriptRetryAfter(now) ==
    IF ScriptEarly(now) THEN Larger(CeilDiv(ScriptWait(now), rule.limit), ScriptBanTtl(now))
    ELSE RunningBan

\* What hitGcraAtomic answers.
ScriptHit(now) ==
    LET used == Larger((IF ScriptAdmits(now) THEN ScriptNextTat(now) ELSE ScriptTat(now))
                           - now * rule.limit, 0)
        left == Larger((Capacity(rule) - used) \div rule.window, 0)
        ban  == ScriptBanTtl(now)
    IN  HitResult(Larger(rule.limit - left, 0), left, now + CeilDiv(used, rule.limit),
            ~ScriptAdmits(now),
            ScriptRetryAfter(now),
            IF ban > 0 THEN now + ban ELSE 0)

ScriptTtl(now) == Larger(1, CeilDiv(Capacity(rule) + ScriptNextTat(now) - now * rule.limit,
                                    rule.limit))

\* Bug: a refused hit is charged as well.
ScriptState_ChargeRefused(now) ==
    Psetex(Number(ScriptNextTat(now)), clock, ScriptTtl(now))

ScriptState(now) ==
    IF ScriptAdmits(now) THEN Psetex(Number(ScriptNextTat(now)), clock, ScriptTtl(now))
    ELSE stateKey

-----------------------------------------------------------------------------
(* The portable path.                                                      *)

\* readState and evaluateAlgorithmHit: the number of the script is no state.
Evaluated(now) == EvaluateAlgorithmHit(rule, now, SameState(Stored, rule.algorithm))

StateTtl(now, evaluated) == Larger(evaluated.expiresAt - now, 1)

-----------------------------------------------------------------------------
(* hitSliding.                                                             *)

\* floor(previousCount * weight + currentCount)
SlidingEstimate(now, previous, current) == Estimated(rule, now, previous, current)

\* The ban of a hit whose PTTL of the ban key answered ttl.
SlidingBanTtl(over, ttl) ==
    IF rule.ban = 0 THEN 0 ELSE IF over /\ ttl <= 0 THEN rule.ban ELSE Larger(ttl, 0)

\* What hitSliding answers.
SlidingHit(now, previous, current, banTtl) ==
    LET count   == SlidingEstimate(now, previous, current)
        resetAt == WindowStart(rule, now) + rule.window
        blocked == count > rule.limit \/ banTtl > 0
    IN  HitResult(count, Larger(rule.limit - count, 0), resetAt, blocked,
            IF blocked THEN Larger(resetAt - now, banTtl) ELSE 0,
            IF banTtl > 0 THEN now + banTtl ELSE 0)

WindowCount(w) == IF w < 0 THEN 0 ELSE Get(windowKeys[w], clock, 0)

\* What a hit of the present time, sent without interruption, would answer.
SlidingHitNow ==
    LET previous == WindowCount(Window(clock) - 1)
        current  == WindowCount(Window(clock)) + rule.cost
        over     == SlidingEstimate(clock, previous, current) > rule.limit
    IN  SlidingHit(clock, previous, current, SlidingBanTtl(over, Pttl(banKey, clock)))

-----------------------------------------------------------------------------
(* History.                                                                *)

\* A hit answers what `hit` says.
Answer(h, now, hit) ==
    /\ pc' = [pc EXCEPT ![h] = "done"]
    /\ job' = [job EXCEPT ![h] = NoJob]
    /\ promised' = Larger(promised, hit.banUntil)
    /\ admitted' = IF hit.blocked THEN admitted
                   ELSE [t \in DOMAIN admitted |-> admitted[t] + IF now <= t THEN 1 ELSE 0]

Continue(h, command, j) ==
    /\ pc' = [pc EXCEPT ![h] = command]
    /\ job' = [job EXCEPT ![h] = j]

\* The allowance of a hit is spent, or not.
Charge(now, spent) == charged' = IF spent THEN NextTat(rule, now, charged) ELSE charged

\* A sliding hit that has counted itself and has not answered.
UnderWay(h) == pc[h] \in Sliding \ {"incrby"}

\* The reference takes the hit too, if it is at once and alone.
Follow(now, path) ==
    /\ paths' = paths \cup {path}
    /\ reference' = IF \/ reference = Unknown
                       \/ now # clock
                       \/ paths \notin {{}, {path}}
                       \/ \E h \in Hits : pc[h] = "psetex" \/ UnderWay(h)
                    THEN Unknown
                    ELSE EvaluateAlgorithmHit(rule, now, reference).state

ScriptRuns(now) ==
    /\ stateKey' = ScriptState(now)
    /\ banKey' = IF ScriptEarly(now) /\ ScriptBanTtl(now) > 0
                 THEN Psetex(1, clock, ScriptBanTtl(now)) ELSE banKey
    /\ Charge(now, ScriptAdmits(now))
    /\ Follow(now, "script")

-----------------------------------------------------------------------------
(* hitAlgorithm                                                            *)

\* Bug: the script is sent for every algorithm and by every instance.
Start_Always(h) ==
    /\ pc[h] = "idle"
    /\ Continue(h, "eval", [NoJob EXCEPT !.now = clock])
    /\ UNCHANGED <<clock, server, useGcraAtomic, late, failures, history>>

Start(h) ==
    /\ pc[h] = "idle"
    /\ Continue(h, IF rule.algorithm = "gcra" /\ useGcraAtomic[InstanceOf[h]]
                   THEN "eval"
                   ELSE IF rule.algorithm = "sliding-window" THEN "incrby" ELSE "get",
                [NoJob EXCEPT !.now = clock])
    /\ UNCHANGED <<clock, server, useGcraAtomic, late, failures, history>>

EvalAnswers(h) ==
    /\ pc[h] = "eval"
    /\ ~ScriptErrors
    /\ ScriptRuns(job[h].now)
    /\ Answer(h, job[h].now, ScriptHit(job[h].now))
    /\ UNCHANGED <<clock, windowKeys, useGcraAtomic, late, failures>>

\* The script raises; its message is not one of isPermanentLuaFailure.
EvalRaises(h) ==
    /\ pc[h] = "eval"
    /\ ScriptErrors
    /\ Continue(h, "get", job[h])
    /\ UNCHANGED <<clock, server, useGcraAtomic, late, failures, history>>

\* The EVAL fails for this request only (connection, timeout).
EvalLost(h) ==
    /\ pc[h] = "eval"
    /\ failures < MaxFailures
    /\ failures' = failures + 1
    /\ late' = late \cup {<<h, job[h].now>>}
    /\ Continue(h, "get", job[h])
    /\ UNCHANGED <<clock, server, useGcraAtomic, history>>

\* The server had the script, or gets it later, and nobody hears the reply.
LateScript(h) ==
    \E now \in 0 .. clock :
        /\ <<h, now>> \in late
        /\ late' = late \ {<<h, now>>}
        /\ IF ScriptErrors THEN UNCHANGED <<stateKey, banKey, charged, paths, reference>>
                           ELSE ScriptRuns(now)
        /\ UNCHANGED <<clock, windowKeys, useGcraAtomic, pc, job, failures, promised, admitted>>

\* isPermanentLuaFailure: the instance gives the script up.
EvalRefused(h) ==
    /\ pc[h] = "eval"
    /\ failures < MaxFailures
    /\ failures' = failures + 1
    /\ useGcraAtomic' = [useGcraAtomic EXCEPT ![InstanceOf[h]] = FALSE]
    /\ Continue(h, "get", job[h])
    /\ UNCHANGED <<clock, server, late, history>>

ReadState(h) ==
    /\ pc[h] = "get"
    /\ Continue(h, "psetex", [job[h] EXCEPT !.next = Evaluated(job[h].now)])
    /\ Follow(job[h].now, "portable")
    /\ UNCHANGED <<clock, server, useGcraAtomic, late, failures, charged, promised, admitted>>

WriteState(h) ==
    /\ pc[h] = "psetex"
    /\ LET now == job[h].now
           next == job[h].next
       IN  /\ stateKey' = Psetex(next.state, clock, StateTtl(now, next))
           /\ Charge(now, ~next.hit.blocked)
           /\ Answer(h, now, next.hit)
    /\ UNCHANGED <<clock, windowKeys, banKey, useGcraAtomic, late, failures, paths, reference>>

\* A sliding-window hit has learnt everything it needs; one that took longer
\* than the present millisecond is past what the reference can follow.
SlidingAnswer(h, previous, banTtl) ==
    LET now == job[h].now IN
    /\ Answer(h, now, SlidingHit(now, previous, job[h].current, banTtl))
    /\ reference' = IF now = clock THEN reference ELSE Unknown
    /\ UNCHANGED <<clock, stateKey, windowKeys, useGcraAtomic, late, failures, paths, charged>>

CountHit(h) ==
    LET w == Window(job[h].now) IN
    /\ pc[h] = "incrby"
    /\ windowKeys' = [windowKeys EXCEPT ![w] = Incrby(@, clock, rule.cost)]
    /\ Continue(h, "pttl", [job[h] EXCEPT !.current = windowKeys'[w].value])
    /\ Follow(job[h].now, "sliding")
    /\ UNCHANGED <<clock, stateKey, banKey, useGcraAtomic, late, failures, charged, promised,
                   admitted>>

ReadWindowTtl(h) ==
    LET ttl == Pttl(windowKeys[Window(job[h].now)], clock) IN
    /\ pc[h] = "pttl"
    /\ Continue(h, IF job[h].current = rule.cost \/ ttl < 0 THEN "pexpire" ELSE "get previous",
                job[h])
    /\ UNCHANGED <<clock, server, useGcraAtomic, late, failures, history>>

\* Bug: the counter is gone before the window after its own is over.
ExpireWindow_OneWindow(h) ==
    /\ pc[h] = "pexpire"
    /\ windowKeys' = [windowKeys EXCEPT ![Window(job[h].now)] =
                          Pexpire(@, clock, rule.window - 1)]
    /\ Continue(h, "get previous", job[h])
    /\ UNCHANGED <<clock, stateKey, banKey, useGcraAtomic, late, failures, history>>

ExpireWindow(h) ==
    /\ pc[h] = "pexpire"
    /\ windowKeys' = [windowKeys EXCEPT ![Window(job[h].now)] =
                          Pexpire(@, clock, 2 * rule.window)]
    /\ Continue(h, "get previous", job[h])
    /\ UNCHANGED <<clock, stateKey, banKey, useGcraAtomic, late, failures, history>>

OverLimit(h, previous) ==
    SlidingEstimate(job[h].now, previous, job[h].current) > rule.limit

ReadPrevious(h) ==
    LET previous == WindowCount(Window(job[h].now) - 1) IN
    /\ pc[h] = "get previous"
    /\ IF rule.ban > 0
       THEN /\ Continue(h, "pttl ban", [job[h] EXCEPT !.previous = previous])
            /\ UNCHANGED <<clock, server, useGcraAtomic, late, failures, history>>
       ELSE SlidingAnswer(h, previous, 0) /\ UNCHANGED banKey

ReadSlidingBan(h) ==
    LET ttl == Pttl(banKey, clock) IN
    /\ pc[h] = "pttl ban"
    /\ IF OverLimit(h, job[h].previous) /\ ttl <= 0
       THEN /\ Continue(h, "psetex ban", job[h])
            /\ UNCHANGED <<clock, server, useGcraAtomic, late, failures, history>>
       ELSE SlidingAnswer(h, job[h].previous, Larger(ttl, 0)) /\ UNCHANGED banKey

SetSlidingBan(h) ==
    /\ pc[h] = "psetex ban"
    /\ banKey' = Psetex(1, clock, rule.ban)
    /\ SlidingAnswer(h, job[h].previous, rule.ban)

-----------------------------------------------------------------------------

\* A command's error reaches the caller, or the process is gone.
Fail(h) ==
    /\ pc[h] \in {"get", "psetex"} \cup Sliding
    /\ failures < MaxFailures
    /\ failures' = failures + 1
    /\ Continue(h, "failed", NoJob)
    /\ reference' = IF pc[h] = "psetex" \/ UnderWay(h) THEN Unknown ELSE reference
    /\ UNCHANGED <<clock, server, useGcraAtomic, late, paths, charged, promised, admitted>>

Tick ==
    /\ clock < MaxClock
    /\ \A h \in Hits : pc[h] \notin {"idle", "done", "failed"} => clock - job[h].now < MaxLag
    /\ \A l \in late : clock - l[2] < MaxLag
    /\ clock' = clock + 1
    /\ stateKey' = Forgotten(stateKey, clock', NoState)
    /\ windowKeys' = [w \in DOMAIN windowKeys |-> Forgotten(windowKeys[w], clock', 0)]
    /\ banKey' = Forgotten(banKey, clock', 0)
    /\ UNCHANGED <<useGcraAtomic, pc, job, late, failures, history>>

Step(h) ==
    \/ Start(h) \/ EvalAnswers(h) \/ EvalRaises(h) \/ EvalLost(h) \/ LateScript(h)
    \/ EvalRefused(h) \/ ReadState(h) \/ WriteState(h) \/ CountHit(h) \/ ReadWindowTtl(h)
    \/ ExpireWindow(h) \/ ReadPrevious(h) \/ ReadSlidingBan(h) \/ SetSlidingBan(h) \/ Fail(h)

Next == (Tick \/ \E h \in Hits : Step(h)) /\ UNCHANGED rule

Spec == Init /\ [][Next]_vars

-----------------------------------------------------------------------------
(* What the store promises.                                                *)

Admitted(from, to) == admitted[to] - IF from = 0 THEN 0 ELSE admitted[from - 1]

\* gcra, as long as every hit is the script's: the hits let through whose `now`
\* lies between any two times fit the burst and the refill between them.
\* sliding-window: those whose `now` lies in one window fit the limit.  Both in
\* whatever order the hits of the processes reach the server.
BurstRate ==
    /\ rule.algorithm = "gcra" /\ paths \subseteq {"script"} =>
           \A a \in 0 .. MaxClock : \A b \in a .. MaxClock :
               rule.cost * rule.window * Admitted(a, b) <= Capacity(rule) + (b - a) * rule.limit
    /\ rule.algorithm = "sliding-window" =>
           \A t \in 0 .. MaxClock :
               rule.cost * Admitted(WindowStart(rule, t), t) <= rule.limit

\* A banUntil that a hit reported is kept: until then a new hit is refused, as
\* long as every hit of the key is the script's, or is of a sliding window.
BanHonoured ==
    clock < promised =>
        /\ rule.algorithm = "gcra" /\ paths \subseteq {"script"} => ScriptHit(clock).blocked
        /\ rule.algorithm = "sliding-window" => SlidingHitNow.blocked

\* Each path by itself, without overlapping hits, answers what the in-process
\* algorithm answers: that the state is spread over keys of different expiry
\* is not seen from outside.
MatchesReference ==
    reference # Unknown /\ (\A h \in Hits : pc[h] # "psetex" /\ ~UnderWay(h)) =>
        LET expected == EvaluateAlgorithmHit(rule, clock, reference).hit
        IN  /\ rule.algorithm = "gcra" /\ paths \subseteq {"script"}
                   => ScriptHit(clock) = expected
            /\ rule.algorithm = "sliding-window" => SlidingHitNow = expected
            /\ paths \subseteq {"portable"} => Evaluated(clock).hit = expected

\* Lost updates, lost replies and mixed paths of gcra and token-bucket forget
\* hits but never invent any: no path refuses a hit, other than by a ban, that
\* fits beside all the hits that were ever charged.
NeverTooStrict ==
    \A now \in 0 .. clock :
        /\ rule.algorithm # "sliding-window"
        /\ Larger(charged, now * rule.limit) + rule.window * rule.cost - Capacity(rule)
               <= now * rule.limit
        =>
            /\ rule.algorithm = "gcra" /\ ~ScriptErrors /\ RunningBan = 0 => ~ScriptHit(now).blocked
            /\ ActiveBanUntil(SameState(Stored, rule.algorithm), now) = 0
                   => ~Evaluated(now).hit.blocked

\* docs/stores.md:198: while no script was found unavailable, a failed EVAL
\* makes only its own request fall back: the EVAL of a later one is answered.
FallsBackOnlyForThatRequest ==
    useGcraAtomic = [i \in Instances |-> TRUE] =>
        \A h \in Hits : pc[h] = "eval" => ~ScriptErrors
=============================================================================
