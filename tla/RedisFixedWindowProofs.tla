----------------------- MODULE RedisFixedWindowProofs -----------------------
(***************************************************************************)
(* Theorems about RedisFixedWindow, for any number of hits and instances,  *)
(* any rule, and any failures: no answered hit leaves a counter without an *)
(* expiry, a reported ban holds, and no stretch of time shorter than the   *)
(* window admits more than two limits.                                     *)
(***************************************************************************)
EXTENDS RedisFixedWindow, FunctionTheorems, FiniteSetTheorems, TLAPS

\* The record a hit keeps; only the life it remembers matters here.
IsJob(j) == "life" \in DOMAIN j /\ j.life \in Nat

\* What the argument needs to know of the ranges.
Ranges ==
    /\ clock \in Nat
    /\ counter.expires \in Nat \cup {NoExpiry, Gone}
    /\ counter = [value |-> counter.value, expires |-> counter.expires]
    /\ life \in Nat
    /\ answered \in 0 .. life
    /\ pc \in [Hits -> Commands \cup {"idle", "eval", "done", "failed"}]
    /\ DOMAIN job = Hits
    /\ \A h \in Hits : IsJob(job[h]) /\ job[h].life <= life

\* The counter that the life n is about is not there without an expiry.
Settled(n) == n = life /\ life > 0 /\ Alive(counter, clock) => counter.expires # NoExpiry

\* The same after a step.
SettledNext(n) ==
    n = life' /\ life' > 0 /\ Alive(counter', clock') => counter'.expires # NoExpiry

\* The invariant: hits past the commands on the counter have seen or set its
\* expiry, and so have those that were answered.
IInv ==
    /\ Ranges
    /\ Settled(answered)
    /\ \A h \in Hits : pc[h] \in {"ban pttl", "psetex"} => Settled(job[h].life)

-----------------------------------------------------------------------------

\* INCRBY keeps an expiry that is there, and starts a new life otherwise.
LEMMA ChargedKeeps ==
    ASSUME Ranges
    PROVE  /\ Charged = [value |-> Charged.value, expires |-> Charged.expires]
           /\ Charged.expires = IF Alive(counter, clock) THEN counter.expires ELSE NoExpiry
           /\ Alive(Charged, clock)
           /\ LifeCharged = IF Alive(counter, clock) THEN life ELSE life + 1
<1>1. CASE Alive(counter, clock)
  <2>1. Charged = [value |-> counter.value + Cost, expires |-> counter.expires]
    BY <1>1 DEF Charged, Incrby, Ranges
  <2> QED BY <1>1, <2>1 DEF Alive, LifeCharged
<1>2. CASE ~Alive(counter, clock)
  <2>1. Charged = [value |-> Cost, expires |-> NoExpiry]
    BY <1>2 DEF Charged, Incrby
  <2> QED BY <1>2, <2>1 DEF Alive, LifeCharged
<1> QED BY <1>1, <1>2

\* PTTL answers a time only for a key that has an expiry.
LEMMA TtlOfNoExpiry ==
    ASSUME NEW key, NEW t \in Nat, key.expires = NoExpiry
    PROVE  Pttl(key, t) < 0
  BY DEF Pttl, Alive, NoExpiry, Gone

\* A key without an expiry needs one, whatever was counted.
LEMMA NoExpiryNeedsOne ==
    ASSUME NEW key, NEW t \in Nat, NEW count, key.expires = NoExpiry
    PROVE  NeedsExpiry(count, Pttl(key, t))
  BY TtlOfNoExpiry DEF NeedsExpiry

\* PEXPIRE leaves a key with an expiry, or a key that is gone.
LEMMA PexpireArms ==
    ASSUME NEW key, NEW t \in Nat, NEW ttl \in Nat,
           key = [value |-> key.value, expires |-> key.expires],
           key.expires \in Nat \cup {NoExpiry, Gone}
    PROVE  LET after == Pexpire(key, t, ttl)
           IN  /\ after = [value |-> after.value, expires |-> after.expires]
               /\ after.expires \in Nat \cup {Gone}
<1>1. CASE Alive(key, t)
  <2>1. Pexpire(key, t, ttl) = [value |-> key.value, expires |-> t + ttl]
    BY <1>1 DEF Pexpire
  <2> QED BY <1>1, <2>1
<1>2. CASE ~Alive(key, t)
  <2>1. Pexpire(key, t, ttl) = key
    BY <1>2 DEF Pexpire
  <2>2. key.expires # NoExpiry
    BY <1>2 DEF Alive
  <2> QED BY <1>2, <2>1, <2>2
<1> QED BY <1>1, <1>2

\* The script leaves a counter with an expiry.
LEMMA ScriptArmsExpiry ==
    ASSUME Ranges, ScriptRuns
    PROVE  /\ counter' = [value |-> counter'.value, expires |-> counter'.expires]
           /\ counter'.expires \in Nat \cup {Gone}
           /\ life' \in Nat /\ life <= life'
<1>1. /\ Charged = [value |-> Charged.value, expires |-> Charged.expires]
      /\ Charged.expires \in Nat \cup {NoExpiry, Gone}
  BY ChargedKeeps DEF Ranges
<1>2. clock \in Nat /\ Window \in Nat
  BY WindowType DEF Ranges
<1>3. life' \in Nat /\ life <= life'
  BY ChargedKeeps DEF ScriptRuns, Ranges
<1>4. CASE NeedsExpiry(Charged.value, Pttl(Charged, clock))
  <2>1. counter' = Pexpire(Charged, clock, Window)
    BY <1>4 DEF ScriptRuns
  <2> QED BY <1>1, <1>2, <1>3, <2>1, PexpireArms
<1>5. CASE ~NeedsExpiry(Charged.value, Pttl(Charged, clock))
  <2>1. counter' = Charged
    BY <1>5 DEF ScriptRuns
  <2>2. Charged.expires # NoExpiry
    BY <1>2, <1>5, NoExpiryNeedsOne
  <2> QED BY <1>1, <1>3, <2>1, <2>2
<1> QED BY <1>4, <1>5

-----------------------------------------------------------------------------
(* The parts of a step.                                                    *)

\* What a step does to the server and the clock, as far as it matters.
ServerStep ==
    /\ clock' \in Nat
    /\ counter'.expires \in Nat \cup {NoExpiry, Gone}
    /\ counter' = [value |-> counter'.value, expires |-> counter'.expires]
    /\ life' \in Nat
    /\ life <= life'
    /\ \A n \in 0 .. life : Settled(n) => SettledNext(n)

LEMMA SameServer ==
    ASSUME Ranges, UNCHANGED <<clock, counter, life>>
    PROVE  ServerStep
  BY DEF Ranges, ServerStep, Settled, SettledNext

LEMMA ScriptServer ==
    ASSUME Ranges, ScriptRuns, UNCHANGED clock
    PROVE  ServerStep /\ \A n : SettledNext(n)
<1>1. counter'.expires # NoExpiry
  BY ScriptArmsExpiry DEF NoExpiry, Gone
<1>2. \A n : SettledNext(n)
  BY <1>1 DEF SettledNext
<1> QED BY <1>2, ScriptArmsExpiry DEF ServerStep, Ranges

LEMMA CountServer ==
    ASSUME Ranges, counter' = Charged, life' = LifeCharged, UNCHANGED clock
    PROVE  ServerStep
<1>1. CASE Alive(counter, clock)
  <2>1. counter'.expires = counter.expires /\ life' = life
    BY <1>1, ChargedKeeps
  <2> QED BY <1>1, <2>1, ChargedKeeps DEF Ranges, ServerStep, Settled, SettledNext
<1>2. CASE ~Alive(counter, clock)
  <2>1. life' = life + 1 /\ counter'.expires = NoExpiry
    BY <1>2, ChargedKeeps
  <2>2. \A n \in 0 .. life : SettledNext(n)
    BY <2>1 DEF SettledNext, Ranges
  <2> QED BY <2>1, <2>2, ChargedKeeps DEF Ranges, ServerStep
<1> QED BY <1>1, <1>2

LEMMA PexpireServer ==
    ASSUME Ranges, counter' = Pexpire(counter, clock, Window), UNCHANGED <<clock, life>>
    PROVE  ServerStep /\ \A n : SettledNext(n)
<1>1. /\ counter' = [value |-> counter'.value, expires |-> counter'.expires]
      /\ counter'.expires \in Nat \cup {Gone}
  BY PexpireArms, WindowType DEF Ranges
<1>2. \A n : SettledNext(n)
  BY <1>1 DEF SettledNext, NoExpiry, Gone
<1> QED BY <1>1, <1>2 DEF ServerStep, Ranges

LEMMA TickServer ==
    ASSUME Ranges, Tick
    PROVE  ServerStep
<1>1. clock' = clock + 1 /\ life' = life /\ counter' = Forgotten(counter, clock + 1, 0)
  BY DEF Tick
<1>2. CASE Alive(counter, clock + 1)
  <2>1. counter' = counter /\ Alive(counter, clock)
    BY <1>1, <1>2 DEF Forgotten, Alive, Ranges, NoExpiry, Gone
  <2> QED BY <1>1, <2>1 DEF Ranges, ServerStep, Settled, SettledNext
<1>3. CASE ~Alive(counter, clock + 1)
  <2>1. counter' = [value |-> 0, expires |-> Gone]
    BY <1>1, <1>3 DEF Forgotten
  <2> QED BY <1>1, <2>1 DEF Ranges, ServerStep, SettledNext, NoExpiry, Gone
<1> QED BY <1>2, <1>3

-----------------------------------------------------------------------------
(* The ranges, a hit at a time.                                            *)

\* What a hit keeps is about a life the counter has had.
LEMMA JobKnown ==
    ASSUME Ranges, NEW g \in Hits
    PROVE  IsJob(job[g]) /\ job[g].life \in 0 .. life
<1>1. IsJob(job[g]) /\ job[g].life <= life /\ life \in Nat
  BY DEF Ranges
<1>2. job[g].life \in Nat
  BY <1>1 DEF IsJob
<1> QED BY <1>1, <1>2

\* What was answered stays about a life the counter has had.
LEMMA AnsweredInRange ==
    ASSUME Ranges, ServerStep
    PROVE  answered \in 0 .. life'
  BY DEF Ranges, ServerStep

\* A step that keeps the server's ranges and moves one hit keeps the ranges.
LEMMA RangesKept ==
    ASSUME Ranges, ServerStep, NEW h \in Hits, NEW j, IsJob(j), j.life \in 0 .. life',
           NEW command \in Commands \cup {"idle", "eval", "done", "failed"},
           pc' = [pc EXCEPT ![h] = command], job' = [job EXCEPT ![h] = j],
           answered' \in 0 .. life'
    PROVE  Ranges'
<1>1. pc' \in [Hits -> Commands \cup {"idle", "eval", "done", "failed"}]
  BY DEF Ranges
<1>2. DOMAIN job' = Hits
  BY DEF Ranges
<1>3. ASSUME NEW g \in Hits
      PROVE  IsJob(job'[g]) /\ job'[g].life <= life'
  <2>1. CASE g = h
    <3>1. job'[g] = j
      BY <2>1 DEF Ranges
    <3> QED BY <3>1
  <2>2. CASE g # h
    <3>1. job'[g] = job[g]
      BY <2>2 DEF Ranges
    <3>2. IsJob(job[g]) /\ job[g].life \in 0 .. life
      BY JobKnown
    <3>3. life \in Nat /\ life' \in Nat /\ life <= life'
      BY DEF Ranges, ServerStep
    <3>4. job[g].life <= life'
      BY <3>2, <3>3
    <3> QED BY <3>1, <3>2, <3>4
  <2> QED BY <2>1, <2>2
<1>4. /\ clock' \in Nat
      /\ counter'.expires \in Nat \cup {NoExpiry, Gone}
      /\ counter' = [value |-> counter'.value, expires |-> counter'.expires]
      /\ life' \in Nat
  BY DEF ServerStep
<1>5. \A g \in Hits : IsJob(job[g])' /\ (job[g].life)' <= life'
  BY <1>3 DEF IsJob
<1> QED BY <1>1, <1>2, <1>4, <1>5 DEF Ranges

\* A hit goes on: it is past the counter only if the counter is settled.
LEMMA ContinueKeeps ==
    ASSUME IInv, ServerStep, NEW h \in Hits, NEW j, IsJob(j),
           NEW command \in Commands \cup {"idle", "eval", "done", "failed"},
           Continue(h, command, j), j.life \in 0 .. life',
           command \in {"ban pttl", "psetex"} => SettledNext(j.life)
    PROVE  IInv'
<1>1. /\ pc' = [pc EXCEPT ![h] = command]
      /\ job' = [job EXCEPT ![h] = j]
      /\ answered' = answered
  BY DEF Continue, history
<1>0. Ranges
  BY DEF IInv
<1>2. Ranges'
  <2>1. answered' \in 0 .. life'
    BY <1>0, <1>1, AnsweredInRange
  <2> QED BY <1>0, <1>1, <2>1, RangesKept
<1>3. Settled(answered)'
  BY <1>1 DEF IInv, Ranges, ServerStep, Settled, SettledNext
<1>4. ASSUME NEW g \in Hits, pc'[g] \in {"ban pttl", "psetex"}
      PROVE  Settled(job[g].life)'
  <2>1. SettledNext(job'[g].life)
    <3>1. CASE g = h
      BY <1>1, <1>4, <3>1 DEF IInv, Ranges
    <3>2. CASE g # h
      <4>1. pc[g] = pc'[g] /\ job'[g] = job[g]
        BY <1>1, <3>2 DEF IInv, Ranges
      <4>2. Settled(job[g].life) /\ job[g].life \in 0 .. life
        BY <1>0, <1>4, <4>1, JobKnown DEF IInv
      <4> QED BY <4>1, <4>2 DEF ServerStep
    <3> QED BY <3>1, <3>2
  <2> QED BY <2>1 DEF Settled, SettledNext
<1> QED BY <1>2, <1>3, <1>4 DEF IInv

\* A hit answers: the counter it was charged to is settled.
LEMMA AnswerKeeps ==
    ASSUME IInv, ServerStep, NEW h \in Hits, NEW j,
           Answer(h, j), j.life \in 0 .. life', SettledNext(j.life)
    PROVE  IInv'
<1>1. /\ pc' = [pc EXCEPT ![h] = "done"]
      /\ answered' = IF answered > j.life THEN answered ELSE j.life
  BY DEF Answer, Later
<1> DEFINE i == IF Blocked(j) THEN NoJob ELSE Receipt(j)
<1>2. job' = [job EXCEPT ![h] = i] /\ IsJob(i) /\ i.life \in 0 .. life'
  BY DEF Answer, NoJob, Receipt, IsJob, ServerStep
<1> HIDE DEF i
<1>0. Ranges
  BY DEF IInv
<1>3. Ranges'
  <2>1. answered' \in 0 .. life'
    BY <1>0, <1>1 DEF Ranges, ServerStep
  <2> QED BY <1>0, <1>1, <1>2, <2>1, RangesKept
<1>4. SettledNext(answered')
  BY <1>1 DEF IInv, Ranges, ServerStep
<1>5. ASSUME NEW g \in Hits, pc'[g] \in {"ban pttl", "psetex"}
      PROVE  SettledNext(job'[g].life)
  <2>1. g # h /\ pc[g] = pc'[g] /\ job'[g] = job[g]
    BY <1>1, <1>2, <1>5 DEF IInv, Ranges
  <2>2. Settled(job[g].life) /\ job[g].life \in 0 .. life
    BY <1>0, <1>5, <2>1, JobKnown DEF IInv
  <2> QED BY <2>1, <2>2 DEF ServerStep
<1> QED BY <1>3, <1>4, <1>5 DEF IInv, Settled, SettledNext

\* No hit moves.
LEMMA OthersKeep ==
    ASSUME IInv, ServerStep, UNCHANGED <<pc, job, answered>>
    PROVE  IInv'
<1>1. pc' = pc /\ job' = job /\ answered' = answered
  OBVIOUS
<1>0. Ranges
  BY DEF IInv
<1>2. Ranges'
  <2>1. \A g \in Hits : IsJob(job[g]) /\ job[g].life \in 0 .. life
    BY <1>0, JobKnown
  <2>2. \A g \in Hits : IsJob(job[g])' /\ (job[g].life)' <= life'
    BY <1>0, <1>1, <2>1 DEF IsJob, Ranges, ServerStep
  <2> QED BY <1>0, <1>1, <2>2 DEF Ranges, ServerStep
<1>3. SettledNext(answered')
  BY <1>1 DEF IInv, Ranges, ServerStep
<1>4. ASSUME NEW g \in Hits, pc'[g] \in {"ban pttl", "psetex"}
      PROVE  SettledNext(job'[g].life)
  <2>1. Settled(job[g].life) /\ job[g].life \in 0 .. life
    BY <1>0, <1>1, <1>4, JobKnown DEF IInv
  <2> QED BY <1>1, <2>1 DEF ServerStep
<1> QED BY <1>2, <1>3, <1>4 DEF IInv, Settled, SettledNext

-----------------------------------------------------------------------------
(* The invariant.                                                          *)

LEMMA InitSettled == Init => IInv
<1> SUFFICES ASSUME Init PROVE IInv
  OBVIOUS
<1>1. Ranges
  BY DEF Init, Ranges, NoJob, IsJob, Commands, Gone
<1>2. \A n : Settled(n)
  BY DEF Init, Settled
<1>3. \A h \in Hits : pc[h] = "idle"
  BY DEF Init
<1> QED BY <1>1, <1>2, <1>3 DEF IInv

\* Every step of a hit and every tick keeps the invariant.
LEMMA NextSettled == IInv /\ [Next]_vars => IInv'
<1> SUFFICES ASSUME IInv, [Next]_vars PROVE IInv'
  OBVIOUS
<1>0. Ranges
  BY DEF IInv
<1>1. CASE UNCHANGED vars
  <2>1. UNCHANGED <<clock, counter, life, pc, job, answered>>
    BY <1>1 DEF vars, server, history
  <2> QED BY <1>0, <2>1, SameServer, OthersKeep
<1>2. CASE Tick
  <2>1. UNCHANGED <<pc, job, answered>>
    BY <1>2 DEF Tick, history
  <2> QED BY <1>0, <1>2, <2>1, TickServer, OthersKeep
<1>3. ASSUME NEW h \in Hits, Step(h) PROVE IInv'
  <2>1. /\ IsJob(job[h])
        /\ job[h].life \in 0 .. life
        /\ pc[h] \in {"ban pttl", "psetex"} => Settled(job[h].life)
    BY <1>0, JobKnown DEF IInv
  <2>2. CASE Start(h)
    <3> DEFINE j == [NoJob EXCEPT !.now = clock, !.held = promised]
    <3>1. IsJob(j) /\ j.life = 0
      BY DEF NoJob, IsJob
    <3>2. PICK command \in {"eval", "incrby"} : Continue(h, command, j)
      BY <2>2 DEF Start
    <3>3. ServerStep
      BY <1>0, <2>2, SameServer DEF Start, server
    <3>4. j.life \in 0 .. life'
      BY <3>1, <3>3 DEF ServerStep
    <3> HIDE DEF j
    <3> QED BY <3>1, <3>2, <3>3, <3>4, ContinueKeeps DEF Commands
  <2>3. CASE EvalAnswers(h)
    <3> DEFINE j == ScriptReply(job[h])
    <3>1. ServerStep /\ SettledNext(j.life)
      BY <1>0, <2>3, ScriptServer DEF EvalAnswers
    <3>2. j.life \in 0 .. life'
      BY <1>0, <2>1, <2>3, ScriptArmsExpiry DEF EvalAnswers, ScriptRuns, ScriptReply, IsJob
    <3>3. Answer(h, j)
      BY <2>3 DEF EvalAnswers
    <3> HIDE DEF j
    <3> QED BY <3>1, <3>2, <3>3, AnswerKeeps
  <2>4. CASE EvalLost(h) \/ EvalRefused(h)
    <3>1. Continue(h, "incrby", job[h]) /\ UNCHANGED <<clock, counter, life>>
      BY <2>4 DEF EvalLost, EvalRefused, server
    <3>2. ServerStep /\ job[h].life \in 0 .. life'
      BY <1>0, <2>1, <3>1, SameServer DEF Ranges
    <3> QED BY <2>1, <3>1, <3>2, ContinueKeeps DEF Commands
  <2>5. CASE LateScript(h)
    <3>1. ScriptRuns /\ UNCHANGED <<clock, pc, job, answered>>
      BY <2>5 DEF LateScript, history
    <3> QED BY <1>0, <3>1, ScriptServer, OthersKeep
  <2>6. CASE CountHit(h)
    <3> DEFINE j == [job[h] EXCEPT !.count = Charged.value, !.chargedAt = clock,
                                   !.life = LifeCharged]
    <3>1. /\ counter' = Charged
          /\ life' = LifeCharged
          /\ UNCHANGED clock
          /\ Continue(h, "pttl", j)
      BY <2>6 DEF CountHit
    <3>2. ServerStep
      BY <1>0, <3>1, CountServer
    <3>3. IsJob(j) /\ j.life = life'
      BY <2>1, <3>1, <3>2 DEF IsJob, ServerStep
    <3>4. j.life \in 0 .. life'
      BY <3>2, <3>3 DEF ServerStep
    <3> HIDE DEF j
    <3> QED BY <3>1, <3>2, <3>3, <3>4, ContinueKeeps DEF Commands
  <2>7. CASE ReadTtl(h)
    <3>1. UNCHANGED <<clock, counter, life>>
      BY <2>7 DEF ReadTtl, server
    <3>2. ServerStep /\ job[h].life \in 0 .. life'
      BY <1>0, <2>1, <3>1, SameServer DEF Ranges
    <3>3. CASE NeedsExpiry(job[h].count, Pttl(counter, clock))
      <4>1. Continue(h, "pexpire", job[h])
        BY <2>7, <3>3 DEF ReadTtl
      <4> QED BY <2>1, <3>2, <4>1, ContinueKeeps DEF Commands
    <3>4. CASE ~NeedsExpiry(job[h].count, Pttl(counter, clock))
      <4>1. counter.expires # NoExpiry
        BY <1>0, <3>4, NoExpiryNeedsOne DEF Ranges
      <4>2. SettledNext(job[h].life)
        BY <3>1, <4>1 DEF SettledNext
      <4>3. CounterRead(h)
        BY <2>7, <3>4 DEF ReadTtl
      <4>4. CASE Ban > 0
        BY <2>1, <3>2, <4>2, <4>3, <4>4, ContinueKeeps DEF CounterRead, Commands
      <4>5. CASE ~(Ban > 0)
        BY <3>2, <4>2, <4>3, <4>5, AnswerKeeps DEF CounterRead
      <4> QED BY <4>4, <4>5
    <3> QED BY <3>3, <3>4
  <2>8. CASE ArmExpiry(h)
    <3>1. counter' = Pexpire(counter, clock, Window) /\ UNCHANGED <<clock, life>>
      BY <2>8 DEF ArmExpiry
    <3>2. ServerStep /\ SettledNext(job[h].life)
      BY <1>0, <3>1, PexpireServer
    <3>3. job[h].life \in 0 .. life'
      BY <1>0, <2>1, <3>1 DEF Ranges
    <3>4. CounterRead(h)
      BY <2>8 DEF ArmExpiry
    <3>5. CASE Ban > 0
      BY <2>1, <3>2, <3>3, <3>4, <3>5, ContinueKeeps DEF CounterRead, Commands
    <3>6. CASE ~(Ban > 0)
      BY <3>2, <3>3, <3>4, <3>6, AnswerKeeps DEF CounterRead
    <3> QED BY <3>5, <3>6
  <2>9. CASE ReadBan(h)
    <3>1. UNCHANGED <<clock, counter, life>>
      BY <2>9 DEF ReadBan, server
    <3>2. ServerStep /\ job[h].life \in 0 .. life'
      BY <1>0, <2>1, <3>1, SameServer DEF Ranges
    <3>3. SettledNext(job[h].life)
      BY <2>1, <2>9, <3>1 DEF ReadBan, Settled, SettledNext
    <3>4. CASE Continue(h, "psetex", job[h])
      BY <2>1, <3>2, <3>3, <3>4, ContinueKeeps DEF Commands
    <3>5. CASE Answer(h, [job[h] EXCEPT !.banTtl = RunningBan])
      <4> DEFINE j == [job[h] EXCEPT !.banTtl = RunningBan]
      <4>1. j.life = job[h].life
        BY <2>1 DEF IsJob
      <4>2. Answer(h, j)
        BY <3>5
      <4> HIDE DEF j
      <4> QED BY <3>2, <3>3, <4>1, <4>2, AnswerKeeps
    <3> QED BY <2>9, <3>4, <3>5 DEF ReadBan
  <2>10. CASE StartBan(h)
    <3> DEFINE j == [job[h] EXCEPT !.banTtl = Ban]
    <3>1. UNCHANGED <<clock, counter, life>> /\ Answer(h, j)
      BY <2>10 DEF StartBan
    <3>2. ServerStep /\ job[h].life \in 0 .. life'
      BY <1>0, <2>1, <3>1, SameServer DEF Ranges
    <3>3. SettledNext(job[h].life)
      BY <2>1, <2>10, <3>1 DEF StartBan, Settled, SettledNext
    <3>4. j.life = job[h].life
      BY <2>1 DEF IsJob
    <3> HIDE DEF j
    <3> QED BY <3>1, <3>2, <3>3, <3>4, AnswerKeeps
  <2>11. CASE Fail(h)
    <3>1. Continue(h, "failed", NoJob) /\ UNCHANGED <<clock, counter, life>>
      BY <2>11 DEF Fail, server
    <3>2. IsJob(NoJob) /\ NoJob.life = 0
      BY DEF NoJob, IsJob
    <3>3. ServerStep /\ NoJob.life \in 0 .. life'
      BY <1>0, <3>1, <3>2, SameServer DEF Ranges
    <3> QED BY <3>1, <3>2, <3>3, ContinueKeeps DEF Commands
  <2> QED
    BY <1>3, <2>2, <2>3, <2>4, <2>5, <2>6, <2>7, <2>8, <2>9, <2>10, <2>11 DEF Step
<1> QED BY <1>1, <1>2, <1>3 DEF Next

\* A hit that was answered leaves no counter behind that would block its key
\* for ever, for every number of hits and instances, rule and failure.
THEOREM ExpiryIsRearmed == Spec => []ExpiryRearmed
<1>1. IInv => ExpiryRearmed
  BY DEF IInv, Settled, ExpiryRearmed
<1> QED BY <1>1, InitSettled, NextSettled, PTL DEF Spec
-----------------------------------------------------------------------------
(* The ranges of all variables.                                            *)

\* An instance takes up the script when it starts, or never.
TypeInv ==
    TypeOK /\ \A i \in Instances : useAtomic[i] => i \in AtomicSupported

\* What a hit may know when the clock and the lives are at c and n.
Jobs(c, n) ==
    [now : 0 .. c, held : Nat, chargedAt : 0 .. c, life : 0 .. n, count : Nat, banTtl : {0}]

Labels == Commands \cup {"idle", "eval", "done", "failed"}

LEMMA JobsGrow ==
    ASSUME NEW c \in Nat, NEW d \in Nat, c <= d, NEW n \in Nat, NEW m \in Nat, n <= m
    PROVE  Jobs(c, n) \subseteq Jobs(d, m)
  <1>1. 0 .. c \subseteq 0 .. d /\ 0 .. n \subseteq 0 .. m
    BY SMT
  <1> QED
    BY <1>1 DEF Jobs

\* What the commands leave in a key.
LEMMA CommandTypes ==
    ASSUME NEW V, NEW key \in KeysHolding(V), NEW t \in Nat, NEW ttl \in Nat
    PROVE  /\ Pexpire(key, t, ttl) \in KeysHolding(V)
           /\ \A x \in V : Psetex(x, t, ttl) \in KeysHolding(V) /\ Forgotten(key, t, x) \in KeysHolding(V)
           /\ Pttl(key, t) \in Int
  <1>1. t + ttl \in Nat /\ Gone \in Int /\ NoExpiry \in Int
    BY SMT DEF Gone, NoExpiry
  <1>2. key.expires \in Nat => key.expires - t \in Int
    BY SMT
  <1>3. Pttl(key, t) \in Int
    BY <1>1, <1>2 DEF Pttl, Alive, KeysHolding
  <1>4. Pexpire(key, t, ttl) \in KeysHolding(V)
    BY <1>1 DEF Pexpire, KeysHolding
  <1>5. \A x \in V : Psetex(x, t, ttl) \in KeysHolding(V) /\ Forgotten(key, t, x) \in KeysHolding(V)
    BY <1>1 DEF Psetex, Forgotten, KeysHolding
  <1> QED
    BY <1>3, <1>4, <1>5

LEMMA ChargedType ==
    ASSUME counter \in KeysHolding(Nat), clock \in Nat, life \in Nat
    PROVE  Charged \in KeysHolding(Nat) /\ LifeCharged \in Nat /\ life <= LifeCharged
  <1>1. counter.value \in Nat /\ counter.value + Cost \in Nat /\ Cost \in Nat
    BY CostType, SMT DEF KeysHolding
  <1>2. Charged \in KeysHolding(Nat)
    BY <1>1 DEF Charged, Incrby, KeysHolding
  <1>3. LifeCharged \in Nat /\ life <= LifeCharged
    BY SMT DEF LifeCharged
  <1> QED
    BY <1>2, <1>3

LEMMA ScriptTypes ==
    ASSUME counter \in KeysHolding(Nat), banKey \in KeysHolding({0, 1}), clock \in Nat,
           life \in Nat, ScriptRuns
    PROVE  counter' \in KeysHolding(Nat) /\ banKey' \in KeysHolding({0, 1})
  <1>1. Charged \in KeysHolding(Nat)
    BY ChargedType
  <1>2. Pexpire(Charged, clock, Window) \in KeysHolding(Nat)
    BY <1>1, WindowType, CommandTypes
  <1>3. Psetex(1, clock, Ban) \in KeysHolding({0, 1})
    BY BanType, CommandTypes
  <1> QED
    BY <1>1, <1>2, <1>3 DEF ScriptRuns

LEMMA RunningBanType ==
    ASSUME banKey \in KeysHolding({0, 1}), clock \in Nat
    PROVE  RunningBan \in Nat
  <1>1. Pttl(banKey, clock) \in Int
    BY CommandTypes
  <1> QED
    BY <1>1, SMT DEF RunningBan, Later

\* Hit h moves to `label` with j in mind, and the others stay.
LEMMA MoveType ==
    ASSUME TypeInv, clock' \in clock .. MaxClock, life' \in Nat, life <= life',
           NEW h \in Hits, NEW label \in Labels, NEW j \in Jobs(clock', life'),
           label = "eval" => InstanceOf[h] \in AtomicSupported,
           pc' = [pc EXCEPT ![h] = label], job' = [job EXCEPT ![h] = j]
    PROVE  /\ pc' \in [Hits -> Labels]
           /\ job' \in [Hits -> Jobs(clock', life')]
           /\ \A g \in Hits : pc'[g] = "eval" => InstanceOf[g] \in AtomicSupported
  <1>1. /\ pc \in [Hits -> Labels] /\ job \in [Hits -> Jobs(clock, life)]
        /\ clock \in 0 .. MaxClock /\ life \in Nat
        /\ \A g \in Hits : pc[g] = "eval" => InstanceOf[g] \in AtomicSupported
    BY DEF TypeInv, TypeOK, Labels, Jobs
  <1>2. clock \in Nat /\ clock' \in Nat /\ clock <= clock'
    BY <1>1, MaxClockType, SMT
  <1>3. Jobs(clock, life) \subseteq Jobs(clock', life')
    BY <1>1, <1>2, JobsGrow
  <1> QED
    BY <1>1, <1>3

\* The other variables stay in range in the steps of a hit.
LEMMA StepType ==
    ASSUME TypeInv, NEW h \in Hits, clock' = clock, life' \in Nat, life <= life',
           counter' \in KeysHolding(Nat), banKey' \in KeysHolding({0, 1}),
           useAtomic' \in [Instances -> BOOLEAN],
           \A i \in Instances : useAtomic'[i] => i \in AtomicSupported,
           pc' \in [Hits -> Labels], job' \in [Hits -> Jobs(clock', life')],
           \A g \in Hits : pc'[g] = "eval" => InstanceOf[g] \in AtomicSupported,
           late' \subseteq Hits, failures' \in 0 .. MaxFailures,
           answered' \in 0 .. life', promised' \in Nat
    PROVE  TypeInv'
  BY DEF TypeInv, TypeOK, Labels, Jobs

\* A hit that goes on.
LEMMA ContinueType ==
    ASSUME TypeInv, NEW h \in Hits, clock' = clock, life' \in Nat, life <= life',
           counter' \in KeysHolding(Nat), banKey' \in KeysHolding({0, 1}),
           useAtomic' = useAtomic
               \/ useAtomic' = [useAtomic EXCEPT ![InstanceOf[h]] = FALSE],
           late' \subseteq Hits, failures' \in 0 .. MaxFailures,
           NEW label \in Labels, NEW j \in Jobs(clock, life'),
           label = "eval" => InstanceOf[h] \in AtomicSupported,
           Continue(h, label, j)
    PROVE  TypeInv'
  <1>1. /\ pc' = [pc EXCEPT ![h] = label] /\ job' = [job EXCEPT ![h] = j]
        /\ answered' = answered /\ promised' = promised
    BY DEF Continue, history
  <1>2. clock \in 0 .. MaxClock
    BY DEF TypeInv, TypeOK
  <1>3. clock' \in clock .. MaxClock
    BY <1>2, MaxClockType, SMT
  <1>4. answered' \in 0 .. life' /\ promised' \in Nat
    BY <1>1, SMT DEF TypeInv, TypeOK
  <1>5. /\ useAtomic' \in [Instances -> BOOLEAN]
        /\ \A i \in Instances : useAtomic'[i] => i \in AtomicSupported
    BY InstanceType DEF TypeInv, TypeOK
  <1>6. /\ pc' \in [Hits -> Labels] /\ job' \in [Hits -> Jobs(clock', life')]
        /\ \A g \in Hits : pc'[g] = "eval" => InstanceOf[g] \in AtomicSupported
    BY <1>1, <1>3, MoveType
  <1> QED
    BY <1>4, <1>5, <1>6, StepType

\* A hit that answers what j holds.
LEMMA AnswerType ==
    ASSUME TypeInv, NEW h \in Hits, clock' = clock, life' \in Nat, life <= life',
           counter' \in KeysHolding(Nat), banKey' \in KeysHolding({0, 1}),
           UNCHANGED <<useAtomic, late, failures>>,
           NEW j, j.now \in 0 .. clock, j.chargedAt \in 0 .. clock, j.life \in 0 .. life',
           j.count \in Nat, j.banTtl \in Nat,
           Answer(h, j)
    PROVE  TypeInv'
  <1> DEFINE i == IF Blocked(j) THEN NoJob ELSE Receipt(j)
  <1>1. /\ pc' = [pc EXCEPT ![h] = "done"] /\ job' = [job EXCEPT ![h] = i]
        /\ answered' = Later(answered, j.life)
        /\ promised' = IF j.banTtl > 0 THEN Later(promised, j.now + j.banTtl) ELSE promised
    BY DEF Answer
  <1>2. clock \in 0 .. MaxClock /\ life \in Nat /\ clock \in Nat
    BY MaxClockType, SMT DEF TypeInv, TypeOK
  <1>3. clock' \in clock .. MaxClock
    BY <1>2, MaxClockType, SMT
  <1>4. answered' \in 0 .. life' /\ promised' \in Nat
    <2>1. answered \in 0 .. life /\ promised \in Nat
      BY DEF TypeInv, TypeOK
    <2>2. j.now + j.banTtl \in Nat
      BY <1>2, SMT
    <2> QED
      BY <1>1, <1>2, <2>1, <2>2, SMT DEF Later
  <1>5. i \in Jobs(clock', life')
    <2>1. 0 \in 0 .. clock /\ 0 \in 0 .. life'
      BY <1>2, SMT
    <2> QED
      BY <2>1 DEF NoJob, Receipt, Jobs
  <1> HIDE DEF i
  <1>6. /\ pc' \in [Hits -> Labels] /\ job' \in [Hits -> Jobs(clock', life')]
        /\ \A g \in Hits : pc'[g] = "eval" => InstanceOf[g] \in AtomicSupported
    BY <1>1, <1>3, <1>5, MoveType DEF Labels
  <1>7. /\ useAtomic' \in [Instances -> BOOLEAN] /\ late' \subseteq Hits
        /\ failures' \in 0 .. MaxFailures
        /\ \A k \in Instances : useAtomic'[k] => k \in AtomicSupported
    BY DEF TypeInv, TypeOK
  <1> QED
    BY <1>4, <1>6, <1>7, StepType
LEMMA TypeInit == Init => TypeInv
  <1> SUFFICES ASSUME Init PROVE TypeInv
    OBVIOUS
  <1>1. NoJob \in Jobs(0, 0)
    BY DEF NoJob, Jobs
  <1>2. /\ 0 \in 0 .. MaxClock /\ 0 \in 0 .. MaxFailures
    BY MaxClockType, MaxFailuresType, SMT
  <1>3. counter \in KeysHolding(Nat) /\ banKey \in KeysHolding({0, 1})
    BY DEF Init, KeysHolding
  <1>4. \A h \in Hits : pc[h] = "idle"
    BY DEF Init
  <1>5. pc \in [Hits -> Labels] /\ job \in [Hits -> Jobs(clock, life)]
    BY <1>1 DEF Init, Labels
  <1>6. /\ useAtomic \in [Instances -> BOOLEAN]
        /\ \A i \in Instances : useAtomic[i] => i \in AtomicSupported
    <2>1. useAtomic = [i \in Instances |-> i \in AtomicSupported]
      BY DEF Init
    <2>2. \A i \in Instances : useAtomic[i] = (i \in AtomicSupported)
      BY <2>1, Zenon
    <2>3. [i \in Instances |-> i \in AtomicSupported] \in [Instances -> BOOLEAN]
      BY SMT
    <2>4. useAtomic \in [Instances -> BOOLEAN]
      BY <2>1, <2>3, Zenon
    <2> QED
      BY <2>2, <2>4, Zenon
  <1> QED
    BY <1>2, <1>3, <1>4, <1>5, <1>6 DEF Init, TypeInv, TypeOK, Labels, Jobs

LEMMA TypeInductive == TypeInv /\ [Next]_vars => TypeInv'
  <1> SUFFICES ASSUME TypeInv, [Next]_vars PROVE TypeInv'
    OBVIOUS
  <1>1. /\ clock \in Nat /\ clock \in 0 .. MaxClock /\ life \in Nat
        /\ counter \in KeysHolding(Nat) /\ banKey \in KeysHolding({0, 1})
        /\ late \subseteq Hits /\ failures \in 0 .. MaxFailures
        /\ life <= life
    BY MaxClockType, SMT DEF TypeInv, TypeOK
  <1>2. CASE UNCHANGED vars
    BY <1>2 DEF vars, server, history, TypeInv, TypeOK
  <1>3. CASE Tick
    <2>1. /\ clock < MaxClock /\ clock' = clock + 1
          /\ counter' = Forgotten(counter, clock + 1, 0) /\ banKey' = Forgotten(banKey, clock + 1, 0)
          /\ UNCHANGED <<useAtomic, pc, job, late, failures, life, answered, promised>>
      BY <1>3 DEF Tick, history
    <2>2. clock' \in 0 .. MaxClock /\ clock' \in Nat /\ clock <= clock' /\ clock + 1 \in Nat
      BY <1>1, <2>1, MaxClockType, SMT
    <2>3. counter' \in KeysHolding(Nat) /\ banKey' \in KeysHolding({0, 1})
      <3>1. 0 \in Nat /\ 0 \in {0, 1}
        OBVIOUS
      <3> QED
        BY <1>1, <2>1, <2>2, <3>1, CommandTypes
    <2>4. Jobs(clock, life) \subseteq Jobs(clock', life')
      BY <1>1, <2>1, <2>2, JobsGrow
    <2>5. job' \in [Hits -> Jobs(clock', life')]
      BY <2>1, <2>4 DEF TypeInv, TypeOK, Jobs
    <2> QED
      BY <2>1, <2>2, <2>3, <2>5 DEF TypeInv, TypeOK, Jobs
  <1>4. ASSUME NEW h \in Hits, Step(h) PROVE TypeInv'
    <2>1. /\ job[h] \in Jobs(clock, life) /\ pc[h] \in Labels
          /\ pc[h] = "eval" => InstanceOf[h] \in AtomicSupported
          /\ NoJob \in Jobs(clock, life)
      <3>1. 0 \in 0 .. clock /\ 0 \in 0 .. life
        BY <1>1, SMT
      <3> QED
        BY <3>1 DEF TypeInv, TypeOK, Labels, Jobs, NoJob
    <2>2. /\ job[h].now \in 0 .. clock /\ job[h].chargedAt \in 0 .. clock
          /\ job[h].life \in 0 .. life /\ job[h].count \in Nat /\ job[h].banTtl \in {0}
          /\ DOMAIN job[h] = {"now", "held", "chargedAt", "life", "count", "banTtl"}
      BY <2>1 DEF Jobs
    <2>3. CASE Start(h)
      <3> DEFINE j == [NoJob EXCEPT !.now = clock, !.held = promised]
                 label == IF useAtomic[InstanceOf[h]] THEN "eval" ELSE "incrby"
      <3>1. j \in Jobs(clock, life)
        <4>1. promised \in Nat /\ clock \in 0 .. clock
          BY <1>1, SMT DEF TypeInv, TypeOK
        <4> QED
          BY <2>1, <4>1 DEF Jobs
      <3>2. label \in Labels /\ (label = "eval" => InstanceOf[h] \in AtomicSupported)
        BY InstanceType DEF TypeInv, Labels, Commands
      <3>3. Continue(h, label, j) /\ UNCHANGED <<clock, counter, banKey, life, useAtomic, late, failures>>
        BY <2>3 DEF Start, server
      <3> HIDE DEF j, label
      <3> QED
        BY <1>1, <3>1, <3>2, <3>3, ContinueType
    <2>4. CASE EvalAnswers(h)
      <3> DEFINE j == ScriptReply(job[h])
      <3>1. /\ ScriptRuns /\ Answer(h, j) /\ UNCHANGED <<clock, useAtomic, late, failures>>
            /\ life' = LifeCharged
        BY <2>4 DEF EvalAnswers, ScriptRuns
      <3>2. Charged \in KeysHolding(Nat) /\ LifeCharged \in Nat /\ life <= LifeCharged
        BY <1>1, ChargedType
      <3>3. RunningBan \in Nat /\ Ban \in Nat
        BY <1>1, RunningBanType, BanType
      <3>4. /\ j.now = job[h].now /\ j.chargedAt = clock /\ j.life = LifeCharged
            /\ j.count = Charged.value /\ j.banTtl \in Nat
        BY <2>2, <3>3 DEF ScriptReply
      <3> HIDE DEF j
      <3>5. clock \in 0 .. clock /\ LifeCharged \in 0 .. life' /\ Charged.value \in Nat
        <4>1. Charged.value \in Nat
          BY <3>2 DEF KeysHolding
        <4> QED
          BY <1>1, <3>1, <3>2, <4>1, SMT
      <3>6. counter' \in KeysHolding(Nat) /\ banKey' \in KeysHolding({0, 1})
        BY <1>1, <3>1, ScriptTypes
      <3> QED
        BY <1>1, <2>2, <3>1, <3>2, <3>4, <3>5, <3>6, AnswerType
    <2>5. CASE EvalLost(h)
      <3>1. /\ Continue(h, "incrby", job[h]) /\ failures < MaxFailures /\ failures' = failures + 1
            /\ late' = late \cup {h} /\ UNCHANGED <<clock, counter, banKey, life, useAtomic>>
        BY <2>5 DEF EvalLost, server
      <3>2. failures' \in 0 .. MaxFailures
        BY <1>1, <3>1, MaxFailuresType, SMT
      <3>3. "incrby" \in Labels
        BY DEF Labels, Commands
      <3> QED
        BY <1>1, <2>1, <3>1, <3>2, <3>3, ContinueType
    <2>6. CASE LateScript(h)
      <3>1. /\ ScriptRuns /\ late' = late \ {h} /\ life' = LifeCharged
            /\ UNCHANGED <<clock, useAtomic, pc, job, failures, answered, promised>>
        BY <2>6 DEF LateScript, history, ScriptRuns
      <3>2. LifeCharged \in Nat /\ life <= LifeCharged
        BY <1>1, ChargedType
      <3>3. counter' \in KeysHolding(Nat) /\ banKey' \in KeysHolding({0, 1})
        BY <1>1, <3>1, ScriptTypes
      <3>4. Jobs(clock, life) \subseteq Jobs(clock', life')
        <4>1. clock <= clock /\ clock' = clock
          BY <1>1, <3>1, SMT
        <4> QED
          BY <1>1, <3>1, <3>2, <4>1, JobsGrow
      <3>5. job' \in [Hits -> Jobs(clock', life')] /\ pc' \in [Hits -> Labels]
        BY <3>1, <3>4 DEF TypeInv, TypeOK, Jobs, Labels
      <3>6. answered' \in 0 .. life' /\ promised' \in Nat
        <4>1. answered \in 0 .. life /\ promised \in Nat
          BY DEF TypeInv, TypeOK
        <4> QED
          BY <1>1, <3>1, <3>2, <4>1, SMT
      <3> QED
        BY <1>1, <3>1, <3>2, <3>3, <3>5, <3>6, StepType DEF TypeInv, TypeOK
    <2>7. CASE EvalRefused(h)
      <3>1. /\ Continue(h, "incrby", job[h]) /\ useAtomic' = [useAtomic EXCEPT ![InstanceOf[h]] = FALSE]
            /\ UNCHANGED <<clock, counter, banKey, life, late, failures>>
        BY <2>7 DEF EvalRefused, server
      <3>2. "incrby" \in Labels
        BY DEF Labels, Commands
      <3> QED
        BY <1>1, <2>1, <3>1, <3>2, ContinueType
    <2>8. CASE CountHit(h)
      <3> DEFINE j == [job[h] EXCEPT !.count = Charged.value, !.chargedAt = clock,
                                     !.life = LifeCharged]
      <3>1. /\ Continue(h, "pttl", j) /\ counter' = Charged /\ life' = LifeCharged
            /\ UNCHANGED <<clock, banKey, useAtomic, late, failures>>
        BY <2>8 DEF CountHit
      <3>2. Charged \in KeysHolding(Nat) /\ LifeCharged \in Nat /\ life <= LifeCharged
        BY <1>1, ChargedType
      <3>3. clock \in 0 .. clock /\ LifeCharged \in 0 .. LifeCharged
        BY <1>1, <3>2, SMT
      <3>4. j \in Jobs(clock, LifeCharged)
        BY <2>1, <3>2, <3>3 DEF Jobs, KeysHolding
      <3>5. "pttl" \in Labels
        BY DEF Labels, Commands
      <3> HIDE DEF j
      <3> QED
        BY <1>1, <3>1, <3>2, <3>4, <3>5, ContinueType
    <2>9. ASSUME CounterRead(h), UNCHANGED <<clock, banKey, life, useAtomic, late, failures>>,
                 counter' \in KeysHolding(Nat)
          PROVE  TypeInv'
      <3>1. CASE Continue(h, "ban pttl", job[h])
        <4>1. "ban pttl" \in Labels
          BY DEF Labels, Commands
        <4> QED
          BY <1>1, <2>1, <2>9, <3>1, <4>1, ContinueType
      <3>2. CASE Answer(h, job[h])
        <4>1. job[h].banTtl \in Nat
          BY <2>2
        <4> QED
          BY <1>1, <2>2, <2>9, <3>2, <4>1, AnswerType
      <3> QED
        BY <2>9, <3>1, <3>2 DEF CounterRead
    <2>10. CASE ReadTtl(h)
      <3>1. UNCHANGED <<clock, counter, banKey, life, useAtomic, late, failures>>
        BY <2>10 DEF ReadTtl, server
      <3>2. CASE Continue(h, "pexpire", job[h])
        <4>1. "pexpire" \in Labels
          BY DEF Labels, Commands
        <4> QED
          BY <1>1, <2>1, <3>1, <3>2, <4>1, ContinueType
      <3>3. CASE CounterRead(h)
        BY <1>1, <2>9, <3>1, <3>3
      <3> QED
        BY <2>10, <3>2, <3>3 DEF ReadTtl
    <2>11. CASE ArmExpiry(h)
      <3>1. /\ CounterRead(h) /\ counter' = Pexpire(counter, clock, Window)
            /\ UNCHANGED <<clock, banKey, life, useAtomic, late, failures>>
        BY <2>11 DEF ArmExpiry
      <3>2. counter' \in KeysHolding(Nat)
        BY <1>1, <3>1, WindowType, CommandTypes
      <3> QED
        BY <2>9, <3>1, <3>2
    <2>12. CASE ReadBan(h)
      <3>1. UNCHANGED <<clock, counter, banKey, life, useAtomic, late, failures>>
        BY <2>12 DEF ReadBan, server
      <3>2. CASE Continue(h, "psetex", job[h])
        <4>1. "psetex" \in Labels
          BY DEF Labels, Commands
        <4> QED
          BY <1>1, <2>1, <3>1, <3>2, <4>1, ContinueType
      <3>3. CASE Answer(h, [job[h] EXCEPT !.banTtl = RunningBan])
        <4> DEFINE j == [job[h] EXCEPT !.banTtl = RunningBan]
        <4>1. /\ j.now = job[h].now /\ j.chargedAt = job[h].chargedAt /\ j.life = job[h].life
              /\ j.count = job[h].count /\ j.banTtl \in Nat
          BY <1>1, <2>2, RunningBanType
        <4>2. Answer(h, j)
          BY <3>3
        <4> HIDE DEF j
        <4> QED
          BY <1>1, <2>2, <3>1, <4>1, <4>2, AnswerType
      <3> QED
        BY <2>12, <3>2, <3>3 DEF ReadBan
    <2>13. CASE StartBan(h)
      <3> DEFINE j == [job[h] EXCEPT !.banTtl = Ban]
      <3>1. /\ Answer(h, j) /\ banKey' = Psetex(1, clock, Ban)
            /\ UNCHANGED <<clock, counter, life, useAtomic, late, failures>>
        BY <2>13 DEF StartBan
      <3>2. banKey' \in KeysHolding({0, 1})
        BY <1>1, <3>1, BanType, CommandTypes
      <3>3. /\ j.now = job[h].now /\ j.chargedAt = job[h].chargedAt /\ j.life = job[h].life
            /\ j.count = job[h].count /\ j.banTtl \in Nat
        BY <2>2, BanType
      <3> HIDE DEF j
      <3> QED
        BY <1>1, <2>2, <3>1, <3>2, <3>3, AnswerType
    <2>14. CASE Fail(h)
      <3>1. /\ Continue(h, "failed", NoJob) /\ failures < MaxFailures /\ failures' = failures + 1
            /\ UNCHANGED <<clock, counter, banKey, life, useAtomic, late>>
        BY <2>14 DEF Fail, server
      <3>2. failures' \in 0 .. MaxFailures
        BY <1>1, <3>1, MaxFailuresType, SMT
      <3>3. "failed" \in Labels
        BY DEF Labels
      <3> QED
        BY <1>1, <2>1, <3>1, <3>2, <3>3, ContinueType
    <2> QED
      BY <1>4, <2>3, <2>4, <2>5, <2>6, <2>7, <2>8, <2>10, <2>11, <2>12, <2>13, <2>14 DEF Step
  <1> QED
    BY <1>2, <1>3, <1>4 DEF Next

\* Every variable keeps to its range, and the script is only ever sent by an
\* instance that may use it.
THEOREM TypeCorrect == Spec => []TypeOK
  <1>1. TypeInv => TypeOK
    BY DEF TypeInv
  <1> QED
    BY <1>1, TypeInit, TypeInductive, PTL DEF Spec
-----------------------------------------------------------------------------
(* Bans.  The ban key lasts for as long as anyone was told, and a hit knows *)
(* of no ban that was not promised by then.                                *)

BanInv ==
    /\ TypeInv
    /\ promised > clock => banKey.expires >= promised
    /\ banKey.expires <= clock + Ban /\ banKey.expires # NoExpiry
    /\ Ban = 0 => promised = 0
    /\ \A h \in Hits :
        /\ job[h].held <= promised
        /\ pc[h] \in {"ban pttl", "psetex"} => Ban > 0

\* What a step does to the ban key: it is left alone, started anew or forgotten.
BanStep ==
    /\ clock' \in Nat /\ clock <= clock'
    /\ \/ banKey'.expires = banKey.expires
       \/ banKey'.expires = clock' + Ban
       \/ banKey'.expires = Gone /\ banKey.expires < clock'

\* A reply whose banTtl the ban key backs, if it names a ban.
Backed(j) ==
    /\ j.now \in 0 .. clock /\ j.banTtl \in Nat
    /\ j.banTtl > 0 => Ban > 0 /\ banKey'.expires >= clock + j.banTtl

LEMMA TypeFacts ==
    ASSUME TypeInv
    PROVE  /\ clock \in Nat /\ promised \in Nat /\ life \in Nat /\ Ban \in Nat
           /\ counter \in KeysHolding(Nat) /\ counter.expires \in Nat \cup {NoExpiry, Gone}
           /\ counter.value \in Nat
           /\ banKey.expires \in Nat \cup {NoExpiry, Gone}
           /\ DOMAIN pc = Hits /\ DOMAIN job = Hits
           /\ \A h \in Hits : job[h] \in Jobs(clock, life)
  <1>1. /\ clock \in 0 .. MaxClock /\ promised \in Nat /\ life \in Nat
        /\ DOMAIN pc = Hits /\ DOMAIN job = Hits
        /\ counter \in KeysHolding(Nat) /\ banKey \in KeysHolding({0, 1})
        /\ \A h \in Hits : job[h] \in Jobs(clock, life)
    BY DEF TypeInv, TypeOK, Jobs
  <1>2. clock \in Nat
    BY <1>1, MaxClockType, SMT
  <1> QED
    BY <1>1, <1>2, BanType DEF KeysHolding

LEMMA NatOrder == \A n \in Nat : 0 <= n /\ n <= n
  BY SMT

LEMMA BanStepKeeps ==
    ASSUME BanInv, BanStep
    PROVE  /\ promised > clock' => banKey'.expires >= promised
           /\ banKey'.expires <= clock' + Ban /\ banKey'.expires # NoExpiry
  <1>1. /\ promised \in Nat /\ clock \in Nat /\ Ban \in Nat
        /\ banKey.expires \in Nat \cup {NoExpiry, Gone}
    BY TypeFacts DEF BanInv
  <1>2. /\ promised > clock => banKey.expires >= promised
        /\ banKey.expires <= clock + Ban /\ banKey.expires # NoExpiry
    BY DEF BanInv
  <1>3. /\ clock' \in Nat /\ clock <= clock'
        /\ \/ banKey'.expires = banKey.expires
           \/ banKey'.expires = clock' + Ban
           \/ banKey'.expires = Gone /\ banKey.expires < clock'
    BY DEF BanStep
  <1> QED
    BY <1>1, <1>2, <1>3, SMT DEF NoExpiry, Gone

\* No hit is answered.
LEMMA SilentKeepsBan ==
    ASSUME BanInv, BanStep, TypeInv', promised' = promised,
           \A h \in Hits : /\ job'[h].held = job[h].held \/ job'[h].held \in {0, promised}
                           /\ \/ pc'[h] \in {"ban pttl", "psetex"} => Ban > 0
                              \/ pc'[h] = pc[h]
    PROVE  BanInv'
  <1>1. ASSUME NEW h \in Hits
        PROVE  job'[h].held <= promised /\ (pc'[h] \in {"ban pttl", "psetex"} => Ban > 0)
    <2>1. promised \in Nat
      BY TypeFacts DEF BanInv
    <2> QED
      BY <2>1, NatOrder DEF BanInv
  <1> QED
    BY <1>1, BanStepKeeps DEF BanInv

\* A hit is answered with a reply the ban key backs.
LEMMA AnswerKeepsBan ==
    ASSUME BanInv, BanStep, TypeInv', NEW h \in Hits, NEW j, Answer(h, j), Backed(j),
           clock' = clock
    PROVE  BanInv'
  <1>1. /\ pc' = [pc EXCEPT ![h] = "done"]
        /\ job' = [job EXCEPT ![h] = IF Blocked(j) THEN NoJob ELSE Receipt(j)]
        /\ promised' = IF j.banTtl > 0 THEN Later(promised, j.now + j.banTtl) ELSE promised
    BY DEF Answer
  <1>2. /\ promised \in Nat /\ clock \in Nat /\ Ban \in Nat
        /\ DOMAIN pc = Hits /\ DOMAIN job = Hits
        /\ banKey'.expires \in Nat \cup {NoExpiry, Gone}
    <2>1. banKey'.expires \in Nat \cup {NoExpiry, Gone}
      BY DEF TypeInv, TypeOK, KeysHolding
    <2> QED
      BY <2>1, TypeFacts DEF BanInv
  <1>3. /\ promised > clock => banKey'.expires >= promised
        /\ banKey'.expires <= clock' + Ban /\ banKey'.expires # NoExpiry
    BY BanStepKeeps
  <1>4. /\ j.now \in 0 .. clock /\ j.banTtl \in Nat
        /\ j.banTtl > 0 => Ban > 0 /\ banKey'.expires >= clock + j.banTtl
    BY DEF Backed
  <1>5. /\ promised' > clock => banKey'.expires >= promised'
        /\ promised' \in Nat /\ promised <= promised'
        /\ Ban = 0 => promised' = promised
    <2>1. CASE j.banTtl > 0
      <3>1. promised' = Later(promised, j.now + j.banTtl)
        BY <1>1, <2>1
      <3>2. j.now + j.banTtl \in Nat /\ j.now + j.banTtl <= banKey'.expires
        BY <1>2, <1>4, <2>1, SMT DEF NoExpiry, Gone
      <3> QED
        BY <1>2, <1>3, <1>4, <2>1, <3>1, <3>2, SMT DEF Later, NoExpiry, Gone
    <2>2. CASE ~(j.banTtl > 0)
      BY <1>1, <1>2, <1>3, <2>2, SMT
    <2> QED
      BY <2>1, <2>2
  <1>6. ASSUME NEW g \in Hits
        PROVE  job'[g].held <= promised' /\ (pc'[g] \in {"ban pttl", "psetex"} => Ban > 0)
    <2>1. CASE g = h
      <3>1. job'[g].held = 0 /\ pc'[g] = "done"
        BY <1>1, <1>2, <2>1 DEF NoJob, Receipt
      <3> QED
        BY <1>5, <3>1, SMT
    <2>2. CASE g # h
      <3>1. job'[g] = job[g] /\ pc'[g] = pc[g]
        BY <1>1, <1>2, <2>2
      <3>2. job[g].held \in Nat /\ job[g].held <= promised
        BY DEF BanInv, TypeInv, TypeOK
      <3>3. job[g].held <= promised'
        BY <1>2, <1>5, <3>2, SMT
      <3> QED
        BY <3>1, <3>3 DEF BanInv
    <2> QED
      BY <2>1, <2>2
  <1> QED
    BY <1>3, <1>5, <1>6 DEF BanInv

LEMMA BanInit == Init => BanInv
  <1> SUFFICES ASSUME Init PROVE BanInv
    OBVIOUS
  <1>1. /\ clock = 0 /\ banKey.expires = Gone /\ promised = 0
        /\ \A h \in Hits : job[h].held = 0 /\ pc[h] = "idle"
    BY DEF Init, NoJob
  <1>2. banKey.expires <= clock + Ban /\ banKey.expires # NoExpiry /\ ~(promised > clock)
    BY <1>1, BanType, SMT DEF Gone, NoExpiry
  <1>3. 0 <= 0
    BY SMT
  <1> QED
    BY <1>1, <1>2, <1>3, TypeInit DEF BanInv

\* The time a running ban has left.
LEMMA RunningBanIs ==
    ASSUME BanInv
    PROVE  /\ RunningBan \in Nat
           /\ RunningBan > 0 => banKey.expires = clock + RunningBan
           /\ promised > clock => RunningBan > 0
  <1>1. /\ promised \in Nat /\ clock \in Nat
        /\ banKey.expires \in Nat \cup {NoExpiry, Gone}
        /\ banKey.expires # NoExpiry
        /\ promised > clock => banKey.expires >= promised
    BY TypeFacts DEF BanInv
  <1> QED
    BY <1>1, SMT DEF RunningBan, Later, Pttl, Alive, NoExpiry, Gone

\* What the script does to the ban key and says of it.
LEMMA ScriptBacks ==
    ASSUME BanInv, ScriptRuns, clock' = clock, NEW h \in Hits
    PROVE  /\ BanStep
           /\ Backed(ScriptReply(job[h]))
           /\ promised > clock => ScriptReply(job[h]).banTtl > 0
  <1> DEFINE j == ScriptReply(job[h])
  <1>1. /\ clock \in Nat /\ Ban \in Nat /\ job[h] \in Jobs(clock, life)
        /\ promised \in Nat /\ (Ban = 0 => promised = 0)
    BY TypeFacts DEF BanInv
  <1>2. /\ j.now = job[h].now /\ job[h].now \in 0 .. clock
        /\ j.banTtl = IF Ban = 0 THEN 0 ELSE IF ScriptArms THEN Ban ELSE RunningBan
    BY <1>1 DEF ScriptReply, Jobs
  <1> HIDE DEF j
  <1>3. banKey' = IF ScriptArms THEN Psetex(1, clock, Ban) ELSE banKey
    BY DEF ScriptRuns
  <1>4. /\ RunningBan \in Nat
        /\ RunningBan > 0 => banKey.expires = clock + RunningBan
        /\ promised > clock => RunningBan > 0
    BY RunningBanIs
  <1>5. CASE ScriptArms
    <2>1. banKey'.expires = clock + Ban /\ Ban > 0
      BY <1>3, <1>5 DEF Psetex, ScriptArms
    <2>2. j.banTtl = Ban
      BY <1>1, <1>2, <1>5, <2>1, SMT
    <2>3. clock <= clock /\ clock + Ban >= clock + Ban
      BY <1>1, SMT
    <2> QED
      BY <1>1, <1>2, <2>1, <2>2, <2>3 DEF BanStep, Backed, j
  <1>6. CASE ~ScriptArms
    <2>1. banKey' = banKey
      BY <1>3, <1>6
    <2>2. j.banTtl \in Nat /\ (j.banTtl > 0 => Ban > 0 /\ j.banTtl = RunningBan)
      BY <1>1, <1>2, <1>4, <1>6, SMT
    <2>3. j.banTtl > 0 => banKey.expires >= clock + j.banTtl
      BY <1>1, <1>4, <2>2, SMT
    <2>4. promised > clock => j.banTtl > 0
      BY <1>1, <1>2, <1>4, <1>6, SMT
    <2>5. clock <= clock
      BY <1>1, SMT
    <2> QED
      BY <1>1, <1>2, <2>1, <2>2, <2>3, <2>4, <2>5 DEF BanStep, Backed, j
  <1> QED
    BY <1>5, <1>6
\* BanHonoured of one step.
HonouredStep ==
    \A h \in Hits : pc[h] # "done" /\ pc'[h] = "done" /\ clock < job[h].held => job'[h] = NoJob

\* A reply that names a ban whenever one is promised lets no hit through.
LEMMA AnswerHonours ==
    ASSUME BanInv, NEW h \in Hits, NEW j, Answer(h, j), promised > clock => j.banTtl > 0
    PROVE  HonouredStep
  <1>1. /\ pc' = [pc EXCEPT ![h] = "done"]
        /\ job' = [job EXCEPT ![h] = IF Blocked(j) THEN NoJob ELSE Receipt(j)]
    BY DEF Answer
  <1>2. DOMAIN pc = Hits /\ DOMAIN job = Hits
    BY TypeFacts DEF BanInv
  <1>3. ASSUME NEW g \in Hits, pc[g] # "done", pc'[g] = "done", clock < job[g].held
        PROVE  job'[g] = NoJob
    <2>1. g = h
      BY <1>1, <1>2, <1>3
    <2>2. job[g] \in Jobs(clock, life) /\ job[g].held <= promised
              /\ promised \in Nat /\ clock \in Nat
      BY TypeFacts DEF BanInv
    <2>3. job[g].held \in Nat
      BY <2>2 DEF Jobs
    <2>4. promised > clock
      BY <1>3, <2>2, <2>3, SMT
    <2>5. Blocked(j)
      BY <2>4 DEF Blocked
    <2> QED
      BY <1>1, <1>2, <2>1, <2>5
  <1> QED
    BY <1>3 DEF HonouredStep

LEMMA SilentHonours ==
    ASSUME \A h \in Hits : pc'[h] = pc[h] \/ pc'[h] # "done"
    PROVE  HonouredStep
  BY DEF HonouredStep

\* A hit that goes on is not answered, and learns of no ban but the promised one.
LEMMA ContinueKeepsBan ==
    ASSUME BanInv, BanStep, TypeInv', NEW h \in Hits, NEW label, NEW j, Continue(h, label, j),
           label # "done", j.held \in {0, promised, job[h].held},
           label \in {"ban pttl", "psetex"} => Ban > 0
    PROVE  BanInv' /\ HonouredStep
  <1>1. /\ pc' = [pc EXCEPT ![h] = label] /\ job' = [job EXCEPT ![h] = j]
        /\ promised' = promised
    BY DEF Continue, history
  <1>2. DOMAIN pc = Hits /\ DOMAIN job = Hits
    BY TypeFacts DEF BanInv
  <1>3. ASSUME NEW g \in Hits
        PROVE  /\ job'[g].held = job[g].held \/ job'[g].held \in {0, promised}
               /\ \/ pc'[g] \in {"ban pttl", "psetex"} => Ban > 0
                  \/ pc'[g] = pc[g]
               /\ pc'[g] = pc[g] \/ pc'[g] # "done"
    BY <1>1, <1>2
  <1> QED
    BY <1>1, <1>3, SilentKeepsBan, SilentHonours

LEMMA BanInductive == BanInv /\ [Next]_vars => BanInv' /\ HonouredStep
  <1> SUFFICES ASSUME BanInv, [Next]_vars PROVE BanInv' /\ HonouredStep
    OBVIOUS
  <1>1. TypeInv'
    BY TypeInductive DEF BanInv
  <1>2. clock \in Nat /\ clock <= clock /\ banKey.expires \in Nat \cup {NoExpiry, Gone}
    BY TypeFacts, NatOrder DEF BanInv
  <1>3. UNCHANGED <<clock, banKey>> => BanStep
    BY <1>2 DEF BanStep
  <1>4. UNCHANGED <<pc, job, promised>> /\ BanStep => BanInv' /\ HonouredStep
    BY <1>1, SilentKeepsBan, SilentHonours
  <1>5. CASE UNCHANGED vars
    BY <1>3, <1>4, <1>5 DEF vars, server, history
  <1>6. CASE Tick
    <2>1. /\ clock' = clock + 1 /\ banKey' = Forgotten(banKey, clock + 1, 0)
          /\ UNCHANGED <<pc, job, promised>>
      BY <1>6 DEF Tick, history
    <2>2. clock' \in Nat /\ clock <= clock'
      BY <1>2, <2>1, SMT
    <2>3. BanStep
      <3>1. CASE Alive(banKey, clock + 1)
        BY <2>1, <2>2, <3>1 DEF Forgotten, BanStep
      <3>2. CASE ~Alive(banKey, clock + 1)
        <4>1. banKey'.expires = Gone
          BY <2>1, <3>2 DEF Forgotten
        <4>2. banKey.expires < clock'
          BY <1>2, <2>1, <3>2, SMT DEF Alive, NoExpiry, Gone
        <4> QED
          BY <2>2, <4>1, <4>2 DEF BanStep
      <3> QED
        BY <3>1, <3>2
    <2> QED
      BY <1>4, <2>1, <2>3
  <1>7. ASSUME NEW h \in Hits, Step(h) PROVE BanInv' /\ HonouredStep
    <2>1. /\ job[h] \in Jobs(clock, life)
          /\ pc[h] \in {"ban pttl", "psetex"} => Ban > 0
      BY TypeFacts DEF BanInv
    <2>2. /\ job[h].now \in 0 .. clock /\ job[h].banTtl = 0
          /\ DOMAIN job[h] = {"now", "held", "chargedAt", "life", "count", "banTtl"}
      BY <2>1 DEF Jobs
    <2>3. CASE Start(h)
      <3> DEFINE j == [NoJob EXCEPT !.now = clock, !.held = promised]
      <3>1. UNCHANGED <<clock, banKey>>
                /\ \E label \in {"eval", "incrby"} : Continue(h, label, j)
        BY <2>3 DEF Start, server
      <3>2. PICK label \in {"eval", "incrby"} : Continue(h, label, j)
        BY <3>1
      <3>3. j.held = promised /\ label # "done" /\ label \notin {"ban pttl", "psetex"}
        BY DEF NoJob
      <3> HIDE DEF j
      <3> QED
        BY <1>1, <1>3, <3>1, <3>2, <3>3, ContinueKeepsBan
    <2>4. CASE EvalAnswers(h)
      <3> DEFINE j == ScriptReply(job[h])
      <3>1. ScriptRuns /\ Answer(h, j) /\ clock' = clock
        BY <2>4 DEF EvalAnswers
      <3> HIDE DEF j
      <3>2. BanStep /\ Backed(j) /\ (promised > clock => j.banTtl > 0)
        BY <3>1, ScriptBacks DEF j
      <3> QED
        BY <1>1, <3>1, <3>2, AnswerKeepsBan, AnswerHonours
    <2>5. CASE EvalLost(h) \/ EvalRefused(h)
      <3>1. UNCHANGED <<clock, banKey>> /\ Continue(h, "incrby", job[h])
        BY <2>5 DEF EvalLost, EvalRefused, server
      <3> QED
        BY <1>1, <1>3, <3>1, ContinueKeepsBan
    <2>6. CASE LateScript(h)
      <3>1. ScriptRuns /\ clock' = clock /\ UNCHANGED <<pc, job, promised>>
        BY <2>6 DEF LateScript, history
      <3> QED
        BY <1>4, <3>1, ScriptBacks
    <2>7. CASE CountHit(h)
      <3> DEFINE j == [job[h] EXCEPT !.count = Charged.value, !.chargedAt = clock,
                                     !.life = LifeCharged]
      <3>1. UNCHANGED <<clock, banKey>> /\ Continue(h, "pttl", j)
        BY <2>7 DEF CountHit
      <3>2. j.held = job[h].held
        BY <2>2
      <3> HIDE DEF j
      <3> QED
        BY <1>1, <1>3, <3>1, <3>2, ContinueKeepsBan
    <2>8. ASSUME CounterRead(h), UNCHANGED <<clock, banKey>>
          PROVE  BanInv' /\ HonouredStep
      <3>1. CASE Ban > 0
        BY <1>1, <1>3, <2>8, <3>1, ContinueKeepsBan DEF CounterRead
      <3>2. CASE ~(Ban > 0)
        <4>1. promised = 0 /\ ~(promised > clock)
          <5>1. Ban \in Nat /\ (Ban = 0 => promised = 0)
            BY BanType DEF BanInv
          <5> QED
            BY <1>2, <3>2, <5>1, SMT
        <4>2. Backed(job[h]) /\ Answer(h, job[h])
          BY <2>2, <2>8, <3>2 DEF CounterRead, Backed
        <4> QED
          BY <1>1, <1>3, <2>8, <4>1, <4>2, AnswerKeepsBan, AnswerHonours
      <3> QED
        BY <3>1, <3>2
    <2>9. CASE ReadTtl(h)
      <3>1. UNCHANGED <<clock, banKey>>
        BY <2>9 DEF ReadTtl, server
      <3>2. CASE Continue(h, "pexpire", job[h])
        BY <1>1, <1>3, <3>1, <3>2, ContinueKeepsBan
      <3>3. CASE CounterRead(h)
        BY <2>8, <3>1, <3>3
      <3> QED
        BY <2>9, <3>2, <3>3 DEF ReadTtl
    <2>10. CASE ArmExpiry(h)
      BY <2>8, <2>10 DEF ArmExpiry
    <2>11. CASE ReadBan(h)
      <3>1. UNCHANGED <<clock, banKey>> /\ Ban > 0
        BY <2>1, <2>11 DEF ReadBan, server
      <3>2. CASE Continue(h, "psetex", job[h])
        BY <1>1, <1>3, <3>1, <3>2, ContinueKeepsBan
      <3>3. CASE Answer(h, [job[h] EXCEPT !.banTtl = RunningBan])
        <4> DEFINE j == [job[h] EXCEPT !.banTtl = RunningBan]
        <4>1. j.now = job[h].now /\ j.banTtl = RunningBan
          BY <2>2
        <4>2. Answer(h, j)
          BY <3>3
        <4> HIDE DEF j
        <4>3. /\ RunningBan \in Nat
              /\ RunningBan > 0 => banKey.expires = clock + RunningBan
              /\ promised > clock => RunningBan > 0
          BY RunningBanIs
        <4>4. RunningBan > 0 => banKey.expires >= clock + RunningBan
          BY <1>2, <4>3, SMT
        <4>5. Backed(j)
          BY <2>2, <3>1, <4>1, <4>3, <4>4 DEF Backed
        <4> QED
          BY <1>1, <1>3, <3>1, <4>1, <4>2, <4>3, <4>5, AnswerKeepsBan, AnswerHonours
      <3> QED
        BY <2>11, <3>2, <3>3 DEF ReadBan
    <2>12. CASE StartBan(h)
      <3> DEFINE j == [job[h] EXCEPT !.banTtl = Ban]
      <3>1. /\ Answer(h, j) /\ banKey'.expires = clock + Ban /\ clock' = clock /\ Ban > 0
        BY <2>1, <2>12 DEF StartBan, Psetex
      <3>2. j.now = job[h].now /\ j.banTtl = Ban
        BY <2>2
      <3> HIDE DEF j
      <3>3. clock + Ban >= clock + Ban /\ Ban \in Nat
        BY <1>2, BanType, SMT
      <3>4. Backed(j) /\ BanStep
        BY <1>2, <2>2, <3>1, <3>2, <3>3 DEF Backed, BanStep
      <3> QED
        BY <1>1, <3>1, <3>2, <3>4, AnswerKeepsBan, AnswerHonours
    <2>13. CASE Fail(h)
      <3>1. UNCHANGED <<clock, banKey>> /\ Continue(h, "failed", NoJob) /\ NoJob.held = 0
        BY <2>13 DEF Fail, server, NoJob
      <3> QED
        BY <1>1, <1>3, <3>1, ContinueKeepsBan
    <2> QED
      BY <1>7, <2>3, <2>4, <2>5, <2>6, <2>7, <2>9, <2>10, <2>11, <2>12, <2>13 DEF Step
  <1> QED
    BY <1>5, <1>6, <1>7 DEF Next

\* No hit that starts after a ban was reported and is answered before it is over
\* is let through, on whichever path, whatever interleaves, fails or comes late.
THEOREM BanIsHonoured == Spec => BanHonoured
  <1>1. BanInv /\ [Next]_vars => [HonouredStep]_vars
    BY BanInductive
  <1>2. [][HonouredStep]_vars => BanHonoured
    BY PTL DEF HonouredStep, BanHonoured
  <1>3. BanInv /\ [Next]_vars => BanInv'
    BY BanInductive
  <1> QED
    BY <1>1, <1>2, <1>3, BanInit, PTL DEF Spec
-----------------------------------------------------------------------------
(* The rate.  A hit that was charged and may be let through, or was, holds a *)
(* receipt: which life of the counter it was charged to, when, and the count *)
(* it found.  Receipts of one life have different counts, and one life is  *)
(* over a window later than any receipt of the lives before it.            *)

Holds(h) == pc[h] \in {"pttl", "pexpire", "ban pttl", "psetex"} \/ LetThrough(h)

Multiples == {n * Cost : n \in Nat \ {0}}

\* The life that follows the one of a receipt at `at` lasts for a window from then on.
Overlived(at, key, now) ==
    IF Alive(key, now) THEN key.expires = NoExpiry \/ key.expires >= at + Window
    ELSE now >= at + Window

\* Receipt j agrees with the counter, in its life n.
ReceiptFits(j, key, n, now) ==
    /\ j.count \in Multiples
    /\ j.life = n /\ Alive(key, now) => j.count <= key.value
    /\ j.life < n => Overlived(j.chargedAt, key, now)
    /\ j.life + 1 < n => j.chargedAt + Window <= now

\* Two receipts of different hits.
Apart(i, j) ==
    /\ i.life = j.life => i.count # j.count
    /\ i.life + 1 < j.life => i.chargedAt + Window <= j.chargedAt

RateInv ==
    /\ TypeInv
    /\ counter.value \in {0} \cup Multiples
    /\ \A h \in Hits : Holds(h) => ReceiptFits(job[h], counter, life, clock)
    /\ \A g, h \in Hits : g # h /\ Holds(g) /\ Holds(h) => Apart(job[g], job[h])
    /\ \A h \in Hits : LetThrough(h) => job[h].count <= Limit

IsReceipt(j, n, now) == j.life \in 0 .. n /\ j.count \in Nat /\ j.chargedAt \in 0 .. now

LEMMA MultiplesNat == Multiples \subseteq Nat /\ \A m \in {0} \cup Multiples : m + Cost \in Multiples
  <1>1. \A n \in Nat \ {0} : n * Cost \in Nat /\ n * Cost + Cost = (n + 1) * Cost /\ n + 1 \in Nat \ {0}
    BY CostType, SMT
  <1>2. 0 + Cost = 1 * Cost /\ 1 \in Nat \ {0}
    BY CostType, SMT
  <1> QED
    BY <1>1, <1>2, Zenon DEF Multiples

\* A charge keeps the receipts there are, and gives one that is apart from them.
LEMMA ChargeFits ==
    ASSUME NEW now \in Nat, NEW n \in Nat,
           NEW key \in KeysHolding(Nat), key.value \in {0} \cup Multiples,
           NEW next \in KeysHolding(Nat),
           NEW m, m = IF Alive(key, now) THEN n ELSE n + 1,
           next.value = IF Alive(key, now) THEN key.value + Cost ELSE Cost,
           \/ next.expires = IF Alive(key, now) THEN key.expires ELSE NoExpiry
           \/ next.expires = now + Window
    PROVE  /\ next.value \in Multiples
           /\ \A i : IsReceipt(i, n, now) /\ ReceiptFits(i, key, n, now) =>
                  /\ ReceiptFits(i, next, m, now)
                  /\ \A j : j.life = m /\ j.count = next.value /\ j.chargedAt = now =>
                         Apart(i, j) /\ Apart(j, i)
           /\ \A j : j.life = m /\ j.count = next.value /\ j.chargedAt = now =>
                  ReceiptFits(j, next, m, now)
  <1>1. /\ next.value \in Multiples /\ next.value \in Nat /\ key.value \in Nat
        /\ Cost \in Nat \ {0} /\ Window \in Nat \ {0}
    <2>1. key.value + Cost \in Multiples /\ 0 + Cost \in Multiples
      BY MultiplesNat
    <2>2. 0 + Cost = Cost
      BY CostType, SMT
    <2> QED
      BY <2>1, <2>2, CostType, WindowType DEF KeysHolding
  <1>2. /\ key.expires \in Nat \cup {NoExpiry, Gone} /\ next.expires \in Nat \cup {NoExpiry, Gone}
        /\ NoExpiry = -1 /\ Gone = -2
    BY DEF KeysHolding, NoExpiry, Gone
  <1>3. Alive(next, now)
    <2>1. now <= now + Window
      BY <1>1, SMT
    <2>2. CASE next.expires = now + Window
      BY <2>1, <2>2 DEF Alive
    <2>3. CASE next.expires = IF Alive(key, now) THEN key.expires ELSE NoExpiry
      BY <2>3 DEF Alive
    <2> QED
      BY <2>2, <2>3
  <1>4. m \in Nat /\ n <= m
    BY SMT
  <1>5. ASSUME NEW i, IsReceipt(i, n, now), ReceiptFits(i, key, n, now)
        PROVE  /\ ReceiptFits(i, next, m, now)
               /\ \A j : j.life = m /\ j.count = next.value /\ j.chargedAt = now =>
                      Apart(i, j) /\ Apart(j, i)
    <2>1. i.life \in Nat /\ i.life <= n /\ i.count \in Nat /\ i.chargedAt \in Nat /\ i.chargedAt <= now
      BY <1>5, SMT DEF IsReceipt
    <2>2. /\ i.count \in Multiples
          /\ i.life = n /\ Alive(key, now) => i.count <= key.value
          /\ i.life < n => Overlived(i.chargedAt, key, now)
          /\ i.life + 1 < n => i.chargedAt + Window <= now
      BY <1>5 DEF ReceiptFits
    <2>3. i.life = m => i.count < next.value
      BY <1>1, <2>1, <2>2, SMT
    <2>4. i.life < m => Overlived(i.chargedAt, next, now)
      <3>1. i.chargedAt + Window <= now + Window
        BY <1>1, <2>1, SMT
      <3>2. CASE next.expires = now + Window
        BY <1>3, <3>1, <3>2, SMT DEF Overlived
      <3>3. CASE next.expires = (IF Alive(key, now) THEN key.expires ELSE NoExpiry)
        <4>1. CASE Alive(key, now)
          BY <1>3, <2>2, <3>3, <4>1 DEF Overlived
        <4>2. CASE ~Alive(key, now)
          BY <1>3, <3>3, <4>2 DEF Overlived
        <4> QED
          BY <4>1, <4>2
      <3> QED
        BY <3>2, <3>3
    <2>5. i.life + 1 < m => i.chargedAt + Window <= now
      <3>1. CASE Alive(key, now)
        BY <2>2, <3>1
      <3>2. CASE ~Alive(key, now) /\ i.life < n
        BY <2>2, <3>2 DEF Overlived
      <3>3. CASE ~Alive(key, now) /\ ~(i.life < n)
        BY <2>1, <3>3, SMT
      <3> QED
        BY <3>1, <3>2, <3>3
    <2>6. i.count <= next.value \/ i.life # m
      BY <1>1, <2>1, <2>3, SMT
    <2>7. ReceiptFits(i, next, m, now)
      BY <2>2, <2>4, <2>5, <2>6 DEF ReceiptFits
    <2>8. ASSUME NEW j, j.life = m, j.count = next.value, j.chargedAt = now
          PROVE  Apart(i, j) /\ Apart(j, i)
      <3>1. i.life = m => i.count # next.value
        BY <1>1, <2>1, <2>3, SMT
      <3>2. ~(m + 1 < i.life)
        BY <1>4, <2>1, SMT
      <3> QED
        BY <2>5, <2>8, <3>1, <3>2 DEF Apart
    <2> QED
      BY <2>7, <2>8
  <1>6. ASSUME NEW j, j.life = m, j.count = next.value, j.chargedAt = now
        PROVE  ReceiptFits(j, next, m, now)
    <2>1. next.value <= next.value /\ ~(m < m) /\ ~(m + 1 < m)
      BY <1>1, <1>4, SMT
    <2> QED
      BY <1>1, <1>6, <2>1 DEF ReceiptFits
  <1> QED
    BY <1>1, <1>5, <1>6

\* So does any other step: time goes by, or an expiry is set.
LEMMA RestFits ==
    ASSUME NEW now \in Nat, NEW later \in Nat, now <= later, NEW n \in Nat,
           NEW key \in KeysHolding(Nat), NEW next \in KeysHolding(Nat),
           Alive(next, later) =>
               /\ Alive(key, now) /\ next.value = key.value
               /\ next.expires = key.expires \/ next.expires = later + Window,
           ~Alive(next, later) /\ Alive(key, now) =>
               key.expires # NoExpiry /\ key.expires < later
    PROVE  \A i : IsReceipt(i, n, now) /\ ReceiptFits(i, key, n, now) => ReceiptFits(i, next, n, later)
  <1> SUFFICES ASSUME NEW i, IsReceipt(i, n, now), ReceiptFits(i, key, n, now)
               PROVE  ReceiptFits(i, next, n, later)
    OBVIOUS
  <1>1. i.chargedAt \in Nat /\ i.chargedAt <= now /\ Window \in Nat
    BY WindowType, SMT DEF IsReceipt
  <1>2. /\ i.count \in Multiples
        /\ i.life = n /\ Alive(key, now) => i.count <= key.value
        /\ i.life < n => Overlived(i.chargedAt, key, now)
        /\ i.life + 1 < n => i.chargedAt + Window <= now
    BY DEF ReceiptFits
  <1>3. /\ key.expires \in Nat \cup {NoExpiry, Gone} /\ next.expires \in Nat \cup {NoExpiry, Gone}
        /\ NoExpiry = -1 /\ Gone = -2
    BY DEF KeysHolding, NoExpiry, Gone
  <1>4. i.life < n => Overlived(i.chargedAt, next, later)
    <2>1. CASE Alive(next, later)
      <3>1. i.chargedAt + Window <= later + Window
        BY <1>1, SMT
      <3>2. CASE next.expires = later + Window
        BY <2>1, <3>1, <3>2, SMT DEF Overlived
      <3>3. CASE next.expires = key.expires
        BY <1>2, <2>1, <3>3 DEF Overlived
      <3> QED
        BY <2>1, <3>2, <3>3
    <2>2. CASE ~Alive(next, later) /\ Alive(key, now)
      <3>1. i.life < n => key.expires >= i.chargedAt + Window
        BY <1>2, <2>2 DEF Overlived
      <3>2. i.life < n => later >= i.chargedAt + Window
        BY <1>1, <1>3, <2>2, <3>1, SMT
      <3> QED
        BY <2>2, <3>2 DEF Overlived
    <2>3. CASE ~Alive(next, later) /\ ~Alive(key, now)
      <3>1. i.life < n => now >= i.chargedAt + Window
        BY <1>2, <2>3 DEF Overlived
      <3>2. i.life < n => later >= i.chargedAt + Window
        BY <1>1, <3>1, SMT
      <3> QED
        BY <2>3, <3>2 DEF Overlived
    <2> QED
      BY <2>1, <2>2, <2>3
  <1>5. i.life + 1 < n => i.chargedAt + Window <= later
    BY <1>1, <1>2, SMT
  <1> QED
    BY <1>2, <1>4, <1>5 DEF ReceiptFits
\* Hit g has the receipt it had, or gives it up.
Kept(g) ==
    Holds(g)' => /\ Holds(g)
                 /\ job'[g].life = job[g].life /\ job'[g].count = job[g].count
                 /\ job'[g].chargedAt = job[g].chargedAt

\* Hit g is charged.
Fresh(g) ==
    /\ job'[g].life = life' /\ job'[g].count = counter'.value /\ job'[g].chargedAt = clock

WithinLimit(g) == LetThrough(g)' => job'[g].count <= Limit

LEMMA ReceiptsTyped ==
    ASSUME TypeInv
    PROVE  \A g \in Hits : IsReceipt(job[g], life, clock)
  BY TypeFacts DEF Jobs, IsReceipt

\* A step that charges nobody.
LEMMA RestKeepsRate ==
    ASSUME RateInv, TypeInv', life' = life, clock <= clock',
           counter'.value \in {0, counter.value},
           Alive(counter, clock)' =>
               /\ Alive(counter, clock) /\ counter'.value = counter.value
               /\ counter'.expires = counter.expires \/ counter'.expires = clock' + Window,
           ~Alive(counter, clock)' /\ Alive(counter, clock) =>
               counter.expires # NoExpiry /\ counter.expires < clock',
           \A g \in Hits : Kept(g) /\ WithinLimit(g)
    PROVE  RateInv'
  <1>1. TypeInv /\ clock \in Nat /\ life \in Nat /\ counter \in KeysHolding(Nat)
    BY TypeFacts DEF RateInv
  <1>2. clock' \in Nat /\ counter' \in KeysHolding(Nat)
    <2>1. clock' \in 0 .. MaxClock /\ counter' \in KeysHolding(Nat)
      BY DEF TypeInv, TypeOK
    <2> QED
      BY <2>1, MaxClockType, SMT
  <1>3. \A i : IsReceipt(i, life, clock) /\ ReceiptFits(i, counter, life, clock) =>
                   ReceiptFits(i, counter', life, clock')
    BY <1>1, <1>2, RestFits DEF Alive
  <1>4. ASSUME NEW g \in Hits, Holds(g)' PROVE ReceiptFits(job[g], counter, life, clock)'
    <2>1. ReceiptFits(job[g], counter', life, clock')
      BY <1>1, <1>3, <1>4, ReceiptsTyped DEF RateInv, Kept
    <2> QED
      BY <1>4, <2>1 DEF Kept, ReceiptFits, Overlived, Alive
  <1>5. ASSUME NEW g \in Hits, NEW h \in Hits, g # h, Holds(g)', Holds(h)'
        PROVE  Apart(job[g], job[h])'
    BY <1>5 DEF RateInv, Kept, Apart
  <1>6. counter'.value \in {0} \cup Multiples
    BY DEF RateInv
  <1> QED
    BY <1>4, <1>5, <1>6 DEF RateInv, WithinLimit, Multiples

\* A step that charges hit h, or nobody who would learn of it.
LEMMA ChargeKeepsRate ==
    ASSUME RateInv, TypeInv', clock' = clock, life' = LifeCharged,
           counter'.value = Charged.value,
           \/ counter'.expires = Charged.expires
           \/ counter'.expires = clock + Window,
           NEW h \in Hits,
           Kept(h) \/ Fresh(h), WithinLimit(h),
           \A g \in Hits \ {h} : Kept(g) /\ WithinLimit(g)
    PROVE  RateInv'
  <1>1. TypeInv /\ clock \in Nat /\ life \in Nat /\ counter \in KeysHolding(Nat)
        /\ counter.value \in {0} \cup Multiples
    BY TypeFacts DEF RateInv
  <1>2. counter' \in KeysHolding(Nat)
    BY DEF TypeInv, TypeOK
  <1>3. /\ counter'.value = IF Alive(counter, clock) THEN counter.value + Cost ELSE Cost
        /\ \/ counter'.expires = IF Alive(counter, clock) THEN counter.expires ELSE NoExpiry
           \/ counter'.expires = clock + Window
        /\ life' = IF Alive(counter, clock) THEN life ELSE life + 1
    BY <1>1 DEF Charged, Incrby, LifeCharged, KeysHolding
  <1>4. /\ counter'.value \in Multiples
        /\ \A i : IsReceipt(i, life, clock) /\ ReceiptFits(i, counter, life, clock) =>
               /\ ReceiptFits(i, counter', life', clock)
               /\ \A j : j.life = life' /\ j.count = counter'.value /\ j.chargedAt = clock =>
                      Apart(i, j) /\ Apart(j, i)
        /\ \A j : j.life = life' /\ j.count = counter'.value /\ j.chargedAt = clock =>
               ReceiptFits(j, counter', life', clock)
    BY <1>1, <1>2, <1>3, ChargeFits
  <1>5. \A g \in Hits : Kept(g) \/ (g = h /\ Fresh(g))
    OBVIOUS
  <1>6. ASSUME NEW g \in Hits, Holds(g)', Kept(g)
        PROVE  /\ ReceiptFits(job[g], counter, life, clock)'
               /\ Fresh(h) /\ g # h => Apart(job[g], job[h])' /\ Apart(job[h], job[g])'
    <2>1. Holds(g) /\ IsReceipt(job[g], life, clock) /\ ReceiptFits(job[g], counter, life, clock)
      BY <1>1, <1>6, ReceiptsTyped DEF RateInv, Kept
    <2>2. /\ ReceiptFits(job[g], counter', life', clock)
          /\ Fresh(h) => Apart(job[g], job'[h]) /\ Apart(job'[h], job[g])
      BY <1>4, <2>1 DEF Fresh
    <2> QED
      BY <1>6, <2>2 DEF Kept, ReceiptFits, Overlived, Alive, Apart
  <1>7. ASSUME NEW g \in Hits, Holds(g)' PROVE ReceiptFits(job[g], counter, life, clock)'
    <2>1. CASE Kept(g)
      BY <1>6, <1>7, <2>1
    <2>2. CASE Fresh(g)
      <3>1. ReceiptFits(job'[g], counter', life', clock)
        BY <1>4, <2>2 DEF Fresh
      <3> QED
        BY <3>1 DEF ReceiptFits, Overlived, Alive
    <2> QED
      BY <1>5, <2>1, <2>2
  <1>8. ASSUME NEW f \in Hits, NEW g \in Hits, f # g, Holds(f)', Holds(g)'
        PROVE  Apart(job[f], job[g])'
    <2>1. CASE Kept(f) /\ Kept(g)
      BY <1>8, <2>1 DEF RateInv, Kept, Apart
    <2>2. CASE Kept(f) /\ g = h /\ Fresh(g)
      BY <1>6, <1>8, <2>2
    <2>3. CASE Kept(g) /\ f = h /\ Fresh(f)
      BY <1>6, <1>8, <2>3
    <2> QED
      BY <1>5, <1>8, <2>1, <2>2, <2>3
  <1> QED
    BY <1>4, <1>7, <1>8 DEF RateInv, WithinLimit, Multiples

\* The hits a step does not move keep what they have.
LEMMA OthersKept ==
    ASSUME RateInv, NEW h \in Hits, NEW label, NEW j,
           pc' = [pc EXCEPT ![h] = label], job' = [job EXCEPT ![h] = j]
    PROVE  /\ \A g \in Hits \ {h} : Kept(g) /\ WithinLimit(g)
           /\ pc'[h] = label /\ job'[h] = j
  <1>1. DOMAIN pc = Hits /\ DOMAIN job = Hits
    BY TypeFacts DEF RateInv
  <1>2. ASSUME NEW g \in Hits \ {h} PROVE Kept(g) /\ WithinLimit(g)
    <2>1. pc'[g] = pc[g] /\ job'[g] = job[g]
      BY <1>1
    <2> QED
      BY <2>1 DEF Kept, WithinLimit, Holds, LetThrough, RateInv
  <1> QED
    BY <1>1, <1>2
\* Hit h goes on with the receipt it has, or has none.
LEMMA ContinueKeepsReceipt ==
    ASSUME RateInv, NEW h \in Hits, NEW label, Continue(h, label, job[h]), label # "done",
           label \in {"pttl", "pexpire", "ban pttl", "psetex"} => Holds(h)
    PROVE  \A g \in Hits : Kept(g) /\ WithinLimit(g)
  <1>1. pc' = [pc EXCEPT ![h] = label] /\ job' = [job EXCEPT ![h] = job[h]]
    BY DEF Continue
  <1>2. /\ \A g \in Hits \ {h} : Kept(g) /\ WithinLimit(g)
        /\ pc'[h] = label /\ job'[h] = job[h]
    BY <1>1, OthersKept
  <1>3. Kept(h) /\ WithinLimit(h)
    BY <1>2 DEF Kept, WithinLimit, Holds, LetThrough
  <1> QED
    BY <1>2, <1>3

\* Hit h is answered with what it knows.
LEMMA AnswerKeepsReceipt ==
    ASSUME RateInv, NEW h \in Hits, Holds(h), NEW j, Answer(h, j),
           j.life = job[h].life, j.count = job[h].count, j.chargedAt = job[h].chargedAt
    PROVE  \A g \in Hits : Kept(g) /\ WithinLimit(g)
  <1> DEFINE i == IF Blocked(j) THEN NoJob ELSE Receipt(j)
  <1>1. pc' = [pc EXCEPT ![h] = "done"] /\ job' = [job EXCEPT ![h] = i]
    BY DEF Answer
  <1> HIDE DEF i
  <1>2. /\ \A g \in Hits \ {h} : Kept(g) /\ WithinLimit(g)
        /\ pc'[h] = "done" /\ job'[h] = i
    BY <1>1, OthersKept
  <1>3. CASE Blocked(j)
    <2>1. ~Holds(h)'
      BY <1>2, <1>3 DEF Holds, LetThrough, i
    <2> QED
      BY <1>2, <2>1 DEF Kept, WithinLimit, Holds
  <1>4. CASE ~Blocked(j)
    <2>1. i.life = j.life /\ i.count = j.count /\ i.chargedAt = j.chargedAt
      BY <1>4 DEF Receipt, NoJob, i
    <2>2. job[h].count \in Nat /\ Limit \in Nat
      BY LimitType, TypeFacts DEF RateInv, Jobs
    <2>3. j.count <= Limit
      BY <1>4, <2>2, SMT DEF Blocked
    <2> QED
      BY <1>2, <2>1, <2>3 DEF Kept, WithinLimit
  <1> QED
    BY <1>3, <1>4

\* What the script and PEXPIRE do to the counter.
LEMMA PexpireParts ==
    ASSUME NEW key, key \in KeysHolding(Nat), NEW t
    PROVE  /\ Pexpire(key, t, Window).value = key.value
           /\ Pexpire(key, t, Window).expires = IF Alive(key, t) THEN t + Window ELSE key.expires
  BY DEF Pexpire, KeysHolding

LEMMA ScriptCharges ==
    ASSUME TypeInv, ScriptRuns
    PROVE  /\ life' = LifeCharged /\ counter'.value = Charged.value
           /\ counter'.expires = Charged.expires \/ counter'.expires = clock + Window
  <1>1. Charged \in KeysHolding(Nat)
    BY TypeFacts, ChargedType
  <1> QED
    BY <1>1, PexpireParts DEF ScriptRuns

LEMMA RateInit == Init => RateInv
  <1> SUFFICES ASSUME Init PROVE RateInv
    OBVIOUS
  <1>1. counter.value = 0
    BY DEF Init
  <1>2. \A h \in Hits : ~Holds(h)
    BY DEF Init, Holds, LetThrough
  <1> QED
    BY <1>1, <1>2, TypeInit DEF RateInv, Holds

LEMMA RateInductive == RateInv /\ [Next]_vars => RateInv'
  <1> SUFFICES ASSUME RateInv, [Next]_vars PROVE RateInv'
    OBVIOUS
  <1>1. TypeInv'
    BY TypeInductive DEF RateInv
  <1>2. /\ TypeInv /\ clock \in Nat /\ clock <= clock /\ counter \in KeysHolding(Nat)
        /\ counter.expires \in Nat \cup {NoExpiry, Gone} /\ counter.value \in Nat
        /\ DOMAIN pc = Hits /\ DOMAIN job = Hits
    BY TypeFacts, NatOrder DEF RateInv
  <1>3. ASSUME UNCHANGED <<clock, counter, life>>, \A g \in Hits : Kept(g) /\ WithinLimit(g)
        PROVE  RateInv'
    <2>1. /\ Alive(counter, clock)' <=> Alive(counter, clock)
          /\ counter'.value \in {0, counter.value} /\ clock <= clock'
      BY <1>2, <1>3 DEF Alive
    <2> QED
      BY <1>1, <1>3, <2>1, RestKeepsRate
  <1>4. ASSUME UNCHANGED <<pc, job>>
        PROVE  \A g \in Hits : Kept(g) /\ WithinLimit(g)
    BY <1>4 DEF Kept, WithinLimit, Holds, LetThrough, RateInv
  <1>5. CASE UNCHANGED vars
    BY <1>3, <1>4, <1>5 DEF vars, server
  <1>6. CASE Tick
    <2>1. /\ clock' = clock + 1 /\ life' = life /\ counter' = Forgotten(counter, clock + 1, 0)
          /\ UNCHANGED <<pc, job>>
      BY <1>6 DEF Tick
    <2>2. clock <= clock' /\ clock + 1 \in Nat
      BY <1>2, <2>1, SMT
    <2>3. CASE Alive(counter, clock + 1)
      <3>1. counter' = counter /\ Alive(counter, clock)' /\ Alive(counter, clock)
        BY <1>2, <2>1, <2>3, SMT DEF Forgotten, Alive, NoExpiry, Gone
      <3>2. counter'.value \in {0, counter.value}
        BY <3>1
      <3> QED
        BY <1>1, <1>4, <2>1, <2>2, <3>1, <3>2, RestKeepsRate
    <2>4. CASE ~Alive(counter, clock + 1)
      <3>1. counter' = [value |-> 0, expires |-> Gone]
        BY <2>1, <2>4 DEF Forgotten
      <3>2. ~Alive(counter, clock)'
        BY <2>1, <2>2, <3>1, SMT DEF Alive, NoExpiry, Gone
      <3>3. counter.expires # NoExpiry /\ counter.expires < clock'
        BY <1>2, <2>1, <2>4, SMT DEF Alive, NoExpiry, Gone
      <3>4. counter'.value \in {0, counter.value}
        BY <3>1
      <3> QED
        BY <1>1, <1>4, <2>1, <2>2, <3>2, <3>3, <3>4, RestKeepsRate
    <2> QED
      BY <2>3, <2>4
  <1>7. ASSUME NEW h \in Hits, Step(h) PROVE RateInv'
    <2>1. /\ job[h] \in Jobs(clock, life)
          /\ DOMAIN job[h] = {"now", "held", "chargedAt", "life", "count", "banTtl"}
      BY TypeFacts DEF RateInv, Jobs
    <2>2. ASSUME NEW label, NEW j, Continue(h, label, j),
                 label \notin {"pttl", "pexpire", "ban pttl", "psetex", "done"}
          PROVE  \A g \in Hits : Kept(g) /\ WithinLimit(g)
      <3>1. /\ \A g \in Hits \ {h} : Kept(g) /\ WithinLimit(g)
            /\ pc'[h] = label
        BY <2>2, OthersKept DEF Continue
      <3>2. ~Holds(h)' /\ ~LetThrough(h)'
        BY <2>2, <3>1 DEF Holds, LetThrough
      <3> QED
        BY <3>1, <3>2 DEF Kept, WithinLimit
    <2>3. CASE Start(h)
      <3> DEFINE j == [NoJob EXCEPT !.now = clock, !.held = promised]
      <3>1. PICK label \in {"eval", "incrby"} : Continue(h, label, j)
        BY <2>3 DEF Start
      <3>2. label \notin {"pttl", "pexpire", "ban pttl", "psetex", "done"}
        OBVIOUS
      <3> HIDE DEF j
      <3> QED
        BY <1>3, <2>2, <2>3, <3>1, <3>2 DEF Start, server
    <2>4. CASE EvalLost(h) \/ EvalRefused(h) \/ Fail(h)
      <3>1. UNCHANGED <<clock, counter, life>>
                /\ \E label \in {"incrby", "failed"}, j \in {job[h], NoJob} : Continue(h, label, j)
        BY <2>4 DEF EvalLost, EvalRefused, Fail, server
      <3> QED
        BY <1>3, <2>2, <3>1
    <2>5. CASE EvalAnswers(h)
      <3> DEFINE j == ScriptReply(job[h])
                 i == IF Blocked(j) THEN NoJob ELSE Receipt(j)
      <3>1. ScriptRuns /\ clock' = clock /\ Answer(h, j)
        BY <2>5 DEF EvalAnswers
      <3>2. pc' = [pc EXCEPT ![h] = "done"] /\ job' = [job EXCEPT ![h] = i]
        BY <3>1 DEF Answer
      <3> HIDE DEF i
      <3>3. /\ \A g \in Hits \ {h} : Kept(g) /\ WithinLimit(g)
            /\ pc'[h] = "done" /\ job'[h] = i
        BY <3>2, OthersKept
      <3>4. /\ life' = LifeCharged /\ counter'.value = Charged.value
            /\ counter'.expires = Charged.expires \/ counter'.expires = clock + Window
        BY <1>2, <3>1, ScriptCharges
      <3>5. j.chargedAt = clock /\ j.life = LifeCharged /\ j.count = Charged.value
        BY <2>1 DEF ScriptReply
      <3> HIDE DEF j
      <3>6. (Kept(h) \/ Fresh(h)) /\ WithinLimit(h)
        <4>1. CASE Blocked(j)
          <5>1. ~Holds(h)' /\ ~LetThrough(h)'
            BY <3>3, <4>1 DEF Holds, LetThrough, i
          <5> QED
            BY <5>1 DEF Kept, WithinLimit
        <4>2. CASE ~Blocked(j)
          <5>1. i.life = j.life /\ i.count = j.count /\ i.chargedAt = j.chargedAt
            BY <4>2 DEF Receipt, NoJob, i
          <5>2. Charged.value \in Nat /\ Limit \in Nat
            BY LimitType, TypeFacts, ChargedType DEF RateInv, KeysHolding
          <5>3. j.count <= Limit
            BY <3>5, <4>2, <5>2, SMT DEF Blocked
          <5> QED
            BY <3>3, <3>4, <3>5, <5>1, <5>3 DEF Fresh, WithinLimit
        <4> QED
          BY <4>1, <4>2
      <3> QED
        BY <1>1, <3>1, <3>3, <3>4, <3>6, ChargeKeepsRate
    <2>6. CASE LateScript(h)
      <3>1. ScriptRuns /\ clock' = clock /\ UNCHANGED <<pc, job>>
        BY <2>6 DEF LateScript
      <3>2. /\ life' = LifeCharged /\ counter'.value = Charged.value
            /\ counter'.expires = Charged.expires \/ counter'.expires = clock + Window
        BY <1>2, <3>1, ScriptCharges
      <3> QED
        BY <1>1, <1>4, <3>1, <3>2, ChargeKeepsRate
    <2>7. CASE CountHit(h)
      <3> DEFINE j == [job[h] EXCEPT !.count = Charged.value, !.chargedAt = clock,
                                     !.life = LifeCharged]
      <3>1. /\ clock' = clock /\ counter' = Charged /\ life' = LifeCharged /\ Continue(h, "pttl", j)
        BY <2>7 DEF CountHit
      <3>2. /\ \A g \in Hits \ {h} : Kept(g) /\ WithinLimit(g)
            /\ pc'[h] = "pttl" /\ job'[h] = j
        BY <3>1, OthersKept DEF Continue
      <3>3. j.chargedAt = clock /\ j.life = LifeCharged /\ j.count = Charged.value
        BY <2>1
      <3> HIDE DEF j
      <3>4. Fresh(h) /\ WithinLimit(h)
        BY <3>1, <3>2, <3>3 DEF Fresh, WithinLimit, LetThrough
      <3> QED
        BY <1>1, <3>1, <3>2, <3>4, ChargeKeepsRate
    <2>8. ASSUME CounterRead(h), Holds(h)
          PROVE  \A g \in Hits : Kept(g) /\ WithinLimit(g)
      <3>1. CASE Continue(h, "ban pttl", job[h])
        BY <2>8, <3>1, ContinueKeepsReceipt
      <3>2. CASE Answer(h, job[h])
        BY <2>8, <3>2, AnswerKeepsReceipt
      <3> QED
        BY <2>8, <3>1, <3>2 DEF CounterRead
    <2>9. CASE ReadTtl(h)
      <3>1. Holds(h) /\ UNCHANGED <<clock, counter, life>>
        BY <2>9 DEF ReadTtl, Holds, server
      <3>2. CASE Continue(h, "pexpire", job[h])
        BY <1>3, <3>1, <3>2, ContinueKeepsReceipt
      <3>3. CASE CounterRead(h)
        BY <1>3, <2>8, <3>1, <3>3
      <3> QED
        BY <2>9, <3>2, <3>3 DEF ReadTtl
    <2>10. CASE ArmExpiry(h)
      <3>1. /\ Holds(h) /\ CounterRead(h) /\ clock' = clock /\ life' = life
            /\ counter' = Pexpire(counter, clock, Window)
        BY <2>10 DEF ArmExpiry, Holds
      <3>2. /\ counter'.value = counter.value
            /\ counter'.expires = IF Alive(counter, clock) THEN clock + Window ELSE counter.expires
        BY <1>2, <3>1, PexpireParts
      <3>3. Alive(counter, clock)' <=> Alive(counter, clock)
        <4>1. clock <= clock + Window
          BY <1>2, WindowType, SMT
        <4> QED
          BY <3>1, <3>2, <4>1 DEF Alive
      <3>4. clock <= clock' /\ counter'.value \in {0, counter.value}
                /\ (counter'.expires = counter.expires \/ counter'.expires = clock' + Window)
        BY <1>2, <3>1, <3>2
      <3> QED
        BY <1>1, <2>8, <3>1, <3>2, <3>3, <3>4, RestKeepsRate
    <2>11. CASE ReadBan(h)
      <3>1. Holds(h) /\ UNCHANGED <<clock, counter, life>>
        BY <2>11 DEF ReadBan, Holds, server
      <3>2. CASE Continue(h, "psetex", job[h])
        BY <1>3, <3>1, <3>2, ContinueKeepsReceipt
      <3>3. CASE Answer(h, [job[h] EXCEPT !.banTtl = RunningBan])
        <4> DEFINE j == [job[h] EXCEPT !.banTtl = RunningBan]
        <4>1. /\ j.chargedAt = job[h].chargedAt /\ j.life = job[h].life /\ j.count = job[h].count
              /\ Answer(h, j)
          BY <2>1, <3>3
        <4> HIDE DEF j
        <4> QED
          BY <1>3, <3>1, <4>1, AnswerKeepsReceipt
      <3> QED
        BY <2>11, <3>2, <3>3 DEF ReadBan
    <2>12. CASE StartBan(h)
      <3> DEFINE j == [job[h] EXCEPT !.banTtl = Ban]
      <3>1. Holds(h) /\ UNCHANGED <<clock, counter, life>>
        BY <2>12 DEF StartBan, Holds
      <3>2. /\ j.chargedAt = job[h].chargedAt /\ j.life = job[h].life /\ j.count = job[h].count
            /\ Answer(h, j)
        BY <2>1, <2>12 DEF StartBan
      <3> HIDE DEF j
      <3> QED
        BY <1>3, <3>1, <3>2, AnswerKeepsReceipt
    <2> QED
      BY <1>7, <2>3, <2>4, <2>5, <2>6, <2>7, <2>9, <2>10, <2>11, <2>12 DEF Step
  <1> QED
    BY <1>5, <1>6, <1>7 DEF Next

-----------------------------------------------------------------------------
(* From the receipts to the rate.                                          *)

\* Receipts of which no two are more than one life apart lie in two lives.
LEMMA TwoLives ==
    ASSUME NEW X, NEW r, NEW first \in X, \A h \in X : r[h].life \in Nat,
           \A g, h \in X : ~(r[g].life + 1 < r[h].life)
    PROVE  \E n \in Nat : \A h \in X : r[h].life \in {n, n + 1}
  <1>1. CASE \E g \in X : r[g].life < r[first].life
    <2>1. PICK g \in X : r[g].life < r[first].life
      BY <1>1
    <2>2. ASSUME NEW h \in X PROVE r[h].life \in {r[g].life, r[g].life + 1}
      <3>1. /\ r[g].life \in Nat /\ r[first].life \in Nat /\ r[h].life \in Nat
            /\ ~(r[g].life + 1 < r[h].life) /\ ~(r[h].life + 1 < r[first].life)
            /\ ~(r[g].life + 1 < r[first].life)
        BY <2>1
      <3> QED
        BY <2>1, <3>1, SMT
    <2> QED
      BY <2>1, <2>2
  <1>2. CASE \A g \in X : ~(r[g].life < r[first].life)
    <2>1. ASSUME NEW h \in X PROVE r[h].life \in {r[first].life, r[first].life + 1}
      <3>1. /\ r[first].life \in Nat /\ r[h].life \in Nat
            /\ ~(r[first].life + 1 < r[h].life) /\ ~(r[h].life < r[first].life)
        BY <1>2
      <3> QED
        BY <3>1, SMT
    <2> QED
      BY <2>1
  <1> QED
    BY <1>1, <1>2

\* Receipts of two lives, within the limit and of different counts in each, are
\* worth two limits at most.
LEMMA TwoLimits ==
    ASSUME NEW X, NEW r, NEW n \in Nat,
           \A h \in X : /\ r[h].life \in {n, n + 1}
                        /\ r[h].count \in Multiples /\ r[h].count <= Limit,
           \A g, h \in X : g # h /\ r[g].life = r[h].life => r[g].count # r[h].count
    PROVE  IsFiniteSet(X) /\ Cost * Cardinality(X) <= 2 * Limit
  <1> DEFINE q == Limit \div Cost
             nth(h) == CHOOSE m \in Nat \ {0} : r[h].count = m * Cost
             f == [h \in X |-> IF r[h].life = n THEN nth(h) ELSE q + nth(h)]
  <1>1. q \in Nat /\ Cost * q <= Limit
    BY LimitType, CostType, SMT
  <1>2. ASSUME NEW m \in Nat, m * Cost <= Limit PROVE m <= q
    BY <1>2, LimitType, CostType, SMT
  <1>3. ASSUME NEW h \in X
        PROVE  nth(h) \in 1 .. q /\ r[h].count = nth(h) * Cost
    <2>1. \E m \in Nat \ {0} : r[h].count = m * Cost
      BY DEF Multiples
    <2>2. nth(h) \in Nat \ {0} /\ r[h].count = nth(h) * Cost
      BY <2>1
    <2> HIDE DEF nth, q
    <2>3. nth(h) <= q
      BY <1>2, <2>2
    <2> QED
      BY <1>1, <2>2, <2>3, SMT
  <1> HIDE DEF nth, q
  <1>4. f \in [X -> 1 .. (2 * q)]
    <2>1. ASSUME NEW h \in X PROVE nth(h) \in 1 .. (2 * q) /\ q + nth(h) \in 1 .. (2 * q)
      BY <1>1, <1>3, SMT
    <2> QED
      BY <2>1
  <1>5. ASSUME NEW g \in X, NEW h \in X, f[g] = f[h] PROVE g = h
    <2>1. nth(g) \in 1 .. q /\ nth(h) \in 1 .. q
      BY <1>3
    <2>2. nth(g) # q + nth(h) /\ nth(h) # q + nth(g)
      BY <1>1, <2>1, SMT
    <2>3. q + nth(g) = q + nth(h) => nth(g) = nth(h)
      BY <1>1, <2>1, SMT
    <2>4. nth(g) = nth(h) /\ (r[g].life = n <=> r[h].life = n)
      BY <1>5, <2>2, <2>3
    <2>5. r[g].life = r[h].life
      BY <2>4
    <2>6. r[g].count = r[h].count
      BY <1>3, <2>4
    <2> QED
      BY <2>5, <2>6
  <1>6. f \in Injection(X, 1 .. (2 * q))
    <2> HIDE DEF f
    <2> QED
      BY <1>4, <1>5, Fun_IsInj
  <1>7. IsFiniteSet(1 .. (2 * q)) /\ Cardinality(1 .. (2 * q)) = 2 * q
    <2>1. 1 \in Int /\ 2 * q \in Int /\ 2 * q \in Nat
      BY <1>1, SMT
    <2>2. /\ IsFiniteSet(1 .. (2 * q))
          /\ Cardinality(1 .. (2 * q)) = IF 1 > 2 * q THEN 0 ELSE 2 * q - 1 + 1
      BY <2>1, FS_Interval
    <2> QED
      BY <2>1, <2>2, SMT
  <1>8. IsFiniteSet(X) /\ Cardinality(X) <= 2 * q
    <2> HIDE DEF f
    <2> QED
      BY <1>6, <1>7, FS_Injection
  <1>9. Cardinality(X) \in Nat
    BY <1>8, FS_CardinalityType
  <1>10. ASSUME NEW k \in Nat, k <= 2 * q PROVE Cost * k <= 2 * Limit
    <2>1. Cost * k <= Cost * (2 * q)
      BY <1>1, <1>10, CostType, SMT
    <2>2. Cost * (2 * q) = 2 * (Cost * q)
      BY <1>1, CostType, SMT
    <2> QED
      BY <1>1, <1>10, <2>1, <2>2, LimitType, CostType, SMT
  <1> QED
    BY <1>8, <1>9, <1>10

\* What the receipts say of any stretch of time shorter than the window.
LEMMA ReceiptsBoundRate == RateInv => FixedRate
  <1> SUFFICES ASSUME RateInv, NEW t \in 0 .. MaxClock
               PROVE  Cost * Cardinality({h \in Hits : LetThrough(h) /\ t <= job[h].chargedAt
                                              /\ job[h].chargedAt < t + Window}) <= 2 * Limit
    BY DEF FixedRate
  <1> DEFINE X == {h \in Hits : LetThrough(h) /\ t <= job[h].chargedAt
                                              /\ job[h].chargedAt < t + Window}
  <1>1. ASSUME NEW h \in X
        PROVE  /\ job[h].life \in Nat
               /\ job[h].count \in Multiples /\ job[h].count <= Limit
    <2>1. h \in Hits /\ LetThrough(h) /\ Holds(h)
      BY DEF Holds
    <2>2. TypeInv
      BY DEF RateInv
    <2>3. job[h].life \in Nat
      <3>1. IsReceipt(job[h], life, clock)
        BY <2>1, <2>2, ReceiptsTyped
      <3> QED
        BY <3>1, SMT DEF IsReceipt
    <2> QED
      BY <2>1, <2>3 DEF RateInv, ReceiptFits
  <1>2. ASSUME NEW g \in X, NEW h \in X, g # h
        PROVE  /\ job[g].life = job[h].life => job[g].count # job[h].count
               /\ ~(job[g].life + 1 < job[h].life)
    <2>1. /\ g \in Hits /\ LetThrough(g) /\ Holds(g) /\ t <= job[g].chargedAt
          /\ h \in Hits /\ LetThrough(h) /\ Holds(h) /\ job[h].chargedAt < t + Window
      BY DEF Holds
    <2>2. Apart(job[g], job[h])
      BY <1>2, <2>1 DEF RateInv
    <2>3. job[g].chargedAt \in Nat /\ job[h].chargedAt \in Nat
      BY <2>1, ReceiptsTyped, SMT DEF IsReceipt, RateInv, TypeInv
    <2>4. ~(job[g].chargedAt + Window <= job[h].chargedAt)
      BY <2>1, <2>3, WindowType, SMT
    <2> QED
      BY <2>2, <2>4 DEF Apart
  <1>3. CASE X = {}
    <2>1. Cardinality(X) = 0
      BY <1>3, FS_EmptySet
    <2>2. Cost * 0 <= 2 * Limit
      BY CostType, LimitType, SMT
    <2> QED
      BY <2>1, <2>2
  <1>4. CASE X # {}
    <2>1. PICK first \in X : TRUE
      BY <1>4
    <2>2. ASSUME NEW g \in X, NEW h \in X PROVE ~(job[g].life + 1 < job[h].life)
      <3>1. job[g].life \in Nat
        BY <1>1
      <3>2. CASE g = h
        BY <3>1, <3>2, SMT
      <3>3. CASE g # h
        BY <1>2, <3>3
      <3> QED
        BY <3>2, <3>3
    <2> HIDE DEF X
    <2>3. PICK n \in Nat : \A h \in X : job[h].life \in {n, n + 1}
      BY <1>1, <2>1, <2>2, TwoLives
    <2>4. IsFiniteSet(X) /\ Cost * Cardinality(X) <= 2 * Limit
      BY <1>1, <1>2, <2>3, TwoLimits
    <2> QED
      BY <2>4 DEF X
  <1> QED
    BY <1>3, <1>4

\* No stretch of time shorter than the window admits more than two limits, however
\* the two paths mix, whoever dies, and however late an expiry is set.
THEOREM FixedRateHolds == Spec => []FixedRate
  <1>1. RateInv /\ [Next]_vars => RateInv'
    BY RateInductive
  <1> QED
    BY <1>1, RateInit, ReceiptsBoundRate, PTL DEF Spec
=============================================================================
