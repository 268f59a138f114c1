-------------------------- MODULE RedisFixedWindow --------------------------
(***************************************************************************)
(* hit of src/plugins/redisStore.ts: fixed windows counted in Redis, by    *)
(* one Lua script or, when the script fails, by a series of commands.      *)
(* Several store instances (processes) hit the same logical key; each      *)
(* command is a round trip, so hits interleave between any two commands,   *)
(* and a hit may end between them: its process dies, its request gives up  *)
(* or a command's error is thrown to the caller.  The reply's resetAt and  *)
(* retryAfter, on which nothing depends, are left out.                     *)
(***************************************************************************)
EXTENDS RedisServer, FiniteSets

CONSTANTS
    Hits,
    Instances,       \* the createRedisStore instances of the processes
    InstanceOf,      \* the instance each hit calls
    AtomicSupported, \* the instances that may use the script
    Limit,
    Window,
    Cost,
    Ban,             \* 0 when the rule has none
    MaxFailures,     \* bound: EVALs lost, and hits that fail midway
    MaxClock         \* bound: the clock stops here

ASSUME HitsFinite      == IsFiniteSet(Hits)
ASSUME InstanceType    == InstanceOf \in [Hits -> Instances]
ASSUME SupportedType   == AtomicSupported \subseteq Instances
ASSUME LimitType       == Limit \in Nat \ {0}
ASSUME WindowType      == Window \in Nat \ {0}
ASSUME CostType        == Cost \in Nat \ {0}
ASSUME BanType         == Ban \in Nat
ASSUME MaxFailuresType == MaxFailures \in Nat
ASSUME MaxClockType    == MaxClock \in Nat

VARIABLES
    clock,      \* the time, of the processes and of the server
    counter,    \* the counter key
    banKey,     \* the ban key
    useAtomic,  \* per instance: the script has not been found unavailable
    pc,         \* the command each hit sends next
    job,        \* what each pending hit knows; history: what one let through was charged
    late,       \* hits whose EVAL was given up and may still reach the server
    failures,   \* how many there have been
    life,       \* history: how many counters have been started
    answered,   \* history: the last of them of which a hit was answered
    promised    \* history: the latest banUntil reported

server  == <<counter, banKey, life>>
history == <<answered, promised>>
vars    == <<clock, server, useAtomic, pc, job, late, failures, history>>

\* `held`: the latest banUntil reported before the hit began.
NoJob == [now |-> 0, held |-> 0, chargedAt |-> 0, life |-> 0, count |-> 0, banTtl |-> 0]

Commands == {"incrby", "pttl", "pexpire", "ban pttl", "psetex"}

\* The ranges of the variables; the script is only sent by an instance that
\* may use it.
TypeOK ==
    /\ clock \in 0 .. MaxClock
    /\ counter \in KeysHolding(Nat)
    /\ banKey \in KeysHolding({0, 1})
    /\ useAtomic \in [Instances -> BOOLEAN]
    /\ pc \in [Hits -> Commands \cup {"idle", "eval", "done", "failed"}]
    /\ job \in [Hits -> [now : 0 .. clock, held : Nat, chargedAt : 0 .. clock,
                         life : 0 .. life, count : Nat, banTtl : {0}]]
    /\ \A h \in Hits : pc[h] = "eval" => InstanceOf[h] \in AtomicSupported
    /\ late \subseteq Hits
    /\ failures \in 0 .. MaxFailures
    /\ life \in Nat
    /\ answered \in 0 .. life
    /\ promised \in Nat

Init ==
    /\ clock = 0
    /\ counter = [value |-> 0, expires |-> Gone]
    /\ banKey = [value |-> 0, expires |-> Gone]
    /\ useAtomic = [i \in Instances |-> i \in AtomicSupported]
    /\ pc = [h \in Hits |-> "idle"]
    /\ job = [h \in Hits |-> NoJob]
    /\ late = {}
    /\ failures = 0
    /\ life = 0
    /\ answered = 0
    /\ promised = 0

-----------------------------------------------------------------------------
(* Helpers.                                                                *)

Later(a, b) == IF a > b THEN a ELSE b

\* Bug: only the first hit of a window gives the counter an expiry.
NeedsExpiry_FirstOnly(count, ttl) == count = Cost

NeedsExpiry(count, ttl) == count = Cost \/ ttl < 0

\* Bug: only a hit over the limit is blocked, whatever the ban.
Blocked_NoBan(j) == j.count > Limit

Blocked(j) == j.count > Limit \/ j.banTtl > 0

\* The counter after INCRBY.
Charged == Incrby(counter, clock, Cost)

LifeCharged == IF Alive(counter, clock) THEN life ELSE life + 1

RunningBan == Later(Pttl(banKey, clock), 0)

\* What is remembered of a hit that is let through.
Receipt(j) == [NoJob EXCEPT !.chargedAt = j.chargedAt, !.life = j.life, !.count = j.count]

\* Hit h answers what j holds.
Answer(h, j) ==
    /\ pc' = [pc EXCEPT ![h] = "done"]
    /\ job' = [job EXCEPT ![h] = IF Blocked(j) THEN NoJob ELSE Receipt(j)]
    /\ answered' = Later(answered, j.life)
    /\ promised' = IF j.banTtl > 0 THEN Later(promised, j.now + j.banTtl) ELSE promised

\* Hit h knows j and sends its next command.
Continue(h, command, j) ==
    /\ pc' = [pc EXCEPT ![h] = command]
    /\ job' = [job EXCEPT ![h] = j]
    /\ UNCHANGED history

-----------------------------------------------------------------------------
(* ATOMIC_SCRIPT of src/plugins/redisScripts.ts.                           *)

ScriptArms == Ban > 0 /\ Charged.value > Limit /\ RunningBan = 0

ScriptRuns ==
    /\ counter' = IF NeedsExpiry(Charged.value, Pttl(Charged, clock))
                  THEN Pexpire(Charged, clock, Window) ELSE Charged
    /\ banKey' = IF ScriptArms THEN Psetex(1, clock, Ban) ELSE banKey
    /\ life' = LifeCharged

\* Bug: a reply that is not a JavaScript array is taken for a first hit.
ScriptReply_NoArray(j) ==
    [j EXCEPT !.chargedAt = clock, !.life = LifeCharged, !.count = Cost, !.banTtl = 0]

\* What the script returns, as parseAtomicResult reads it.
ScriptReply(j) ==
    [j EXCEPT !.chargedAt = clock, !.life = LifeCharged, !.count = Charged.value,
              !.banTtl = IF Ban = 0 THEN 0 ELSE IF ScriptArms THEN Ban ELSE RunningBan]

-----------------------------------------------------------------------------
(* hit                                                                     *)

\* Bug: the script is sent whether it is supported or not.
Start_Always(h) ==
    /\ pc[h] = "idle"
    /\ Continue(h, "eval", [NoJob EXCEPT !.now = clock, !.held = promised])
    /\ UNCHANGED <<clock, server, useAtomic, late, failures>>

\* evaluateRequest has read the clock and calls the store.
Start(h) ==
    /\ pc[h] = "idle"
    /\ Continue(h, IF useAtomic[InstanceOf[h]] THEN "eval" ELSE "incrby",
                [NoJob EXCEPT !.now = clock, !.held = promised])
    /\ UNCHANGED <<clock, server, useAtomic, late, failures>>

EvalAnswers(h) ==
    /\ pc[h] = "eval"
    /\ ScriptRuns
    /\ Answer(h, ScriptReply(job[h]))
    /\ UNCHANGED <<clock, useAtomic, late, failures>>

\* The EVAL fails for this request only (connection, timeout).
EvalLost(h) ==
    /\ pc[h] = "eval"
    /\ failures < MaxFailures
    /\ failures' = failures + 1
    /\ late' = late \cup {h}
    /\ Continue(h, "incrby", job[h])
    /\ UNCHANGED <<clock, server, useAtomic>>

\* The server had the script, or gets it later, and nobody hears the reply.
LateScript(h) ==
    /\ h \in late
    /\ late' = late \ {h}
    /\ ScriptRuns
    /\ UNCHANGED <<clock, useAtomic, pc, job, failures, history>>

\* isPermanentLuaFailure: the instance gives the script up.
EvalRefused(h) ==
    /\ pc[h] = "eval"
    /\ useAtomic' = [useAtomic EXCEPT ![InstanceOf[h]] = FALSE]
    /\ Continue(h, "incrby", job[h])
    /\ UNCHANGED <<clock, server, late, failures>>

-----------------------------------------------------------------------------
(* hitMulti, a command at a time                                           *)

\* The commands on the counter are over.
CounterRead(h) == IF Ban > 0 THEN Continue(h, "ban pttl", job[h]) ELSE Answer(h, job[h])

CountHit(h) ==
    /\ pc[h] = "incrby"
    /\ counter' = Charged
    /\ life' = LifeCharged
    /\ Continue(h, "pttl", [job[h] EXCEPT !.count = Charged.value, !.chargedAt = clock,
                                          !.life = LifeCharged])
    /\ UNCHANGED <<clock, banKey, useAtomic, late, failures>>

ReadTtl(h) ==
    /\ pc[h] = "pttl"
    /\ IF NeedsExpiry(job[h].count, Pttl(counter, clock))
       THEN Continue(h, "pexpire", job[h])
       ELSE CounterRead(h)
    /\ UNCHANGED <<clock, server, useAtomic, late, failures>>

\* The PTTL that follows feeds resetAt alone.
ArmExpiry(h) ==
    /\ pc[h] = "pexpire"
    /\ counter' = Pexpire(counter, clock, Window)
    /\ CounterRead(h)
    /\ UNCHANGED <<clock, banKey, life, useAtomic, late, failures>>

ReadBan(h) ==
    /\ pc[h] = "ban pttl"
    /\ IF job[h].count > Limit /\ RunningBan = 0
       THEN Continue(h, "psetex", job[h])
       ELSE Answer(h, [job[h] EXCEPT !.banTtl = RunningBan])
    /\ UNCHANGED <<clock, server, useAtomic, late, failures>>

StartBan(h) ==
    /\ pc[h] = "psetex"
    /\ banKey' = Psetex(1, clock, Ban)
    /\ Answer(h, [job[h] EXCEPT !.banTtl = Ban])
    /\ UNCHANGED <<clock, counter, life, useAtomic, late, failures>>

-----------------------------------------------------------------------------

\* A command's error reaches the caller, or the process is gone.
Fail(h) ==
    /\ pc[h] \in Commands
    /\ failures < MaxFailures
    /\ failures' = failures + 1
    /\ Continue(h, "failed", NoJob)
    /\ UNCHANGED <<clock, server, useAtomic, late>>

Tick ==
    /\ clock < MaxClock
    /\ clock' = clock + 1
    /\ counter' = Forgotten(counter, clock', 0)
    /\ banKey' = Forgotten(banKey, clock', 0)
    /\ UNCHANGED <<useAtomic, pc, job, late, failures, life, history>>

Step(h) ==
    \/ Start(h) \/ EvalAnswers(h) \/ EvalLost(h) \/ LateScript(h) \/ EvalRefused(h)
    \/ CountHit(h) \/ ReadTtl(h) \/ ArmExpiry(h) \/ ReadBan(h) \/ StartBan(h)
    \/ Fail(h)

Next == Tick \/ \E h \in Hits : Step(h)

Spec == Init /\ [][Next]_vars

-----------------------------------------------------------------------------
(* What the store promises, whatever interleaves, fails or is retried.     *)

LetThrough(h) == pc[h] = "done" /\ job[h] # NoJob

\* Any stretch of time shorter than the window touches at most two counters,
\* so at most two limits of hits are admitted in it: however the two paths
\* mix, whoever dies, and however late an expiry is set.
FixedRate ==
    \A t \in 0 .. MaxClock :
        Cost * Cardinality({h \in Hits : LetThrough(h) /\ t <= job[h].chargedAt
                                                       /\ job[h].chargedAt < t + Window})
            <= 2 * Limit

\* A hit that was answered leaves no counter behind that would block its key
\* for ever: the counter it was charged to, if it is still there, has an
\* expiry (docs/production.md: Redis TTL drift is re-armed).
ExpiryRearmed ==
    answered = life /\ life > 0 /\ Alive(counter, clock) => counter.expires # NoExpiry

\* A banUntil that was reported is kept: no hit that starts after it was
\* reported and is answered before it is over is let through, on either path.
BanHonoured ==
    [][\A h \in Hits : pc[h] # "done" /\ pc'[h] = "done" /\ clock < job[h].held
                           => job'[h] = NoJob]_vars
=============================================================================
