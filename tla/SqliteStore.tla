----------------------------- MODULE SqliteStore -----------------------------
(***************************************************************************)
(* SqliteRateLimitStore of src/plugins/sqliteStore.ts: processes on one    *)
(* machine that keep their counters in the same database file, are stopped *)
(* or killed, and are started again, perhaps with another algorithm for    *)
(* the same keys.                                                          *)
(*                                                                         *)
(* A hit is a deferred transaction: its SELECT fixes a snapshot of the     *)
(* database, and its upsert is refused (SQLITE_BUSY) when another process  *)
(* has written since, or holds the lock.  That part is SQLite's.  A hit's  *)
(* `now` is the clock at its SELECT; MemoryStore has the hits whose `now`  *)
(* is older than that.                                                     *)
(***************************************************************************)
EXTENDS Algorithms

CONSTANTS
    Processes,
    Keys,
    Rule,      \* each key's rule; its algorithm is the process's
    Offered,   \* the algorithms a process may be configured with
    OldRows,   \* rows a database without the later columns may hold
    MaxStarts, \* bound: constructor calls of all processes together
    MaxCount,  \* bound: no hit raises a row's count above this
    MaxClock   \* bound: the clock stops here

ASSUME RuleType      == Rule \in [Keys -> Rules]
ASSUME OfferedType   == Offered \subseteq AlgorithmNames
ASSUME OldRowsType   == OldRows \subseteq [count : Nat, resetAt : Nat, banUntil : Nat]
ASSUME MaxStartsType == MaxStarts \in Nat
ASSUME MaxCountType  == MaxCount \in Nat
ASSUME MaxClockType  == MaxClock \in Nat

VARIABLES
    clock,      \* the machine's clock
    columns,    \* the columns of the table that older versions did not have
    table,      \* key -> row, or NoRow
    pc,         \* what each process does: down, a step of its constructor, up, in a hit
    algorithm,  \* the algorithm each process is configured with
    tx,         \* what each process's open transaction has read
    starts,     \* constructor calls so far
    shadow,     \* history: the rows if nothing were ever cleaned up or read too early
    promised,   \* history: per key, the latest ban reported that its last writer knows of
    lastWriter  \* history: the algorithm of the last hit that wrote the key

db   == <<columns, table>>
vars == <<clock, db, pc, algorithm, tx, starts, shadow, promised, lastWriter>>

AddedColumns == {"state", "expires_at"}

\* The database file has no table yet.
NoTable == {"no table"}

NoRow == [count |-> 0, resetAt |-> 0, banUntil |-> 0, state |-> NoState, expiresAt |-> 0]

RuleFor(k, a) == [Rule[k] EXCEPT !.algorithm = a]

IsRowOf(k, row) ==
    /\ row.count \in Nat /\ row.resetAt \in Nat /\ row.banUntil \in Nat
    /\ row.expiresAt \in 0 .. clock + 2 * Rule[k].window + Rule[k].ban
    /\ row.state = NoState \/ \E a \in AlgorithmNames : row.state \in StatesOf(RuleFor(k, a))

\* An older version's row: ALTER TABLE ... ADD COLUMN gives it the defaults.
Migrated(old) ==
    [count |-> old.count, resetAt |-> old.resetAt, banUntil |-> old.banUntil,
     state |-> NoState, expiresAt |-> 0]

\* No open transaction, or one whose snapshot is out of date.
NoTx == [key |-> "none"]

Starting == {"create", "check state", "add state", "check expires_at", "add expires_at"}

\* The ranges of the variables: a row's times are within the rule's reach.
TypeOK ==
    /\ clock \in 0 .. MaxClock
    /\ columns \in {NoTable} \cup SUBSET AddedColumns
    /\ pc \in [Processes -> {"down", "up", "hit"} \cup Starting]
    /\ algorithm \in [Processes -> AlgorithmNames]
    /\ starts \in 0 .. MaxStarts
    /\ DOMAIN table = Keys
    /\ \A k \in Keys :
        /\ IsRowOf(k, table[k]) /\ IsRowOf(k, shadow[k])
        /\ promised[k] \in Nat
        /\ lastWriter[k] \in AlgorithmNames
    /\ \A p \in Processes :
        tx[p] # NoTx => pc[p] = "hit" /\ tx[p].key \in Keys /\ tx[p].now <= clock

Init ==
    /\ clock = 0
    /\ \/ columns = NoTable /\ table = [k \in Keys |-> NoRow]
       \/ columns = {} /\ table \in [Keys -> {NoRow} \cup {Migrated(old) : old \in OldRows}]
    /\ pc = [p \in Processes |-> "down"]
    /\ algorithm \in [Processes -> {"fixed-window"}]
    /\ tx = [p \in Processes |-> NoTx]
    /\ starts = 0
    /\ shadow = table
    /\ promised = [k \in Keys |-> table[k].banUntil]
    /\ lastWriter = [k \in Keys |-> "fixed-window"]

Goto(p, label) == pc' = [pc EXCEPT ![p] = label]

-----------------------------------------------------------------------------
(* The constructor.                                                        *)

Start(p) ==
    /\ pc[p] = "down" /\ starts < MaxStarts
    /\ starts' = starts + 1
    /\ \E a \in Offered : algorithm' = [algorithm EXCEPT ![p] = a]
    /\ Goto(p, "create")
    /\ UNCHANGED <<clock, db, tx, shadow, promised, lastWriter>>

\* CREATE TABLE IF NOT EXISTS leaves an older version's table as it is.
CreateTable(p) ==
    /\ pc[p] = "create"
    /\ columns' = IF columns = NoTable THEN AddedColumns ELSE columns
    /\ Goto(p, "check state")
    /\ UNCHANGED <<clock, table, algorithm, tx, starts, shadow, promised, lastWriter>>

AfterColumn(c) == IF c = "state" THEN "check expires_at" ELSE "up"

\* Bug: an existing table is taken to have every column.
CheckColumn_Trusting(p) ==
    \E c \in AddedColumns :
        /\ pc[p] = (IF c = "state" THEN "check state" ELSE "check expires_at")
        /\ Goto(p, AfterColumn(c))
        /\ UNCHANGED <<clock, db, algorithm, tx, starts, shadow, promised, lastWriter>>

\* ensureColumn reads table_info and closes the statement ...
CheckColumn(p) ==
    \E c \in AddedColumns :
        /\ pc[p] = (IF c = "state" THEN "check state" ELSE "check expires_at")
        /\ Goto(p, IF c \in columns THEN AfterColumn(c)
                   ELSE IF c = "state" THEN "add state" ELSE "add expires_at")
        /\ UNCHANGED <<clock, db, algorithm, tx, starts, shadow, promised, lastWriter>>

\* ... and adds the column, which throws when another process has done so.
AddColumn(p) ==
    \E c \in AddedColumns :
        /\ pc[p] = (IF c = "state" THEN "add state" ELSE "add expires_at")
        /\ columns' = columns \cup {c}
        /\ Goto(p, IF c \in columns THEN "down" ELSE AfterColumn(c))
        /\ UNCHANGED <<clock, table, algorithm, tx, starts, shadow, promised, lastWriter>>

-----------------------------------------------------------------------------
(* What a hit reads and writes.                                            *)

\* hit() reads the columns, whatever wrote them.
ColumnState(row) ==
    IF row = NoRow THEN NoState
    ELSE [algorithm |-> "fixed-window", count |-> row.count, resetAt |-> row.resetAt,
          banUntil |-> row.banUntil]

\* algorithmHit() reads the state and ignores another algorithm's.
Evaluated(k, a, now, row) ==
    IF a = "fixed-window" THEN FixedWindowHit(RuleFor(k, a), now, ColumnState(row))
    ELSE EvaluateAlgorithmHit(RuleFor(k, a), now, SameState(row.state, a))

\* Bug: reset_at is given the expiry of the state.
WrittenRow_ResetAtExpiry(a, out) ==
    IF a = "fixed-window"
    THEN [count |-> out.state.count, resetAt |-> out.state.resetAt,
          banUntil |-> out.state.banUntil, state |-> NoState, expiresAt |-> 0]
    ELSE [count |-> out.hit.count, resetAt |-> out.expiresAt, banUntil |-> out.hit.banUntil,
          state |-> out.state, expiresAt |-> out.expiresAt]

WrittenRow(a, out) ==
    IF a = "fixed-window"
    THEN [count |-> out.state.count, resetAt |-> out.state.resetAt,
          banUntil |-> out.state.banUntil, state |-> NoState, expiresAt |-> 0]
    ELSE [count |-> out.hit.count, resetAt |-> out.hit.resetAt, banUntil |-> out.hit.banUntil,
          state |-> out.state, expiresAt |-> out.expiresAt]

\* Bug: the read and the write of a hit are no transaction.
Outdated_OwnOnly(p) == [tx EXCEPT ![p] = NoTx]

\* A write of p makes every other snapshot old.
Outdated(p) == [q \in Processes |-> NoTx]

-----------------------------------------------------------------------------
(* hit() and algorithmHit().                                               *)

\* BEGIN and SELECT.
Read(p) ==
    /\ pc[p] = "up"
    /\ \E k \in Keys :
        tx' = [tx EXCEPT ![p] = [key |-> k, now |-> clock, row |-> table[k]]]
    /\ Goto(p, "hit")
    /\ UNCHANGED <<clock, db, algorithm, starts, shadow, promised, lastWriter>>

\* The latest ban reported for k that a hit of algorithm a knows of: a fixed window
\* reads the ban of any row, the others the one of their own state only, and they
\* start without one when they take the key over.
Promise(k, a, out) ==
    IF a \in {lastWriter[k], "fixed-window"} THEN Larger(promised[k], out.hit.banUntil)
    ELSE out.hit.banUntil

\* The upsert and COMMIT, when nobody has written since the SELECT.
Upsert(p) ==
    /\ pc[p] = "hit"
    /\ tx[p] # NoTx
    /\ LET k   == tx[p].key
           a   == algorithm[p]
           out == Evaluated(k, a, tx[p].now, tx[p].row)
       IN  /\ out.hit.count <= MaxCount
           /\ table' = [table EXCEPT ![k] = WrittenRow(a, out)]
           /\ shadow' = [shadow EXCEPT ![k] =
                             WrittenRow(a, Evaluated(k, a, tx[p].now, shadow[k]))]
           /\ promised' = [promised EXCEPT ![k] = Promise(k, a, out)]
           /\ lastWriter' = [lastWriter EXCEPT ![k] = a]
    /\ tx' = Outdated(p)
    /\ Goto(p, "up")
    /\ UNCHANGED <<clock, columns, algorithm, starts>>

\* SQLITE_BUSY: the transaction is rolled back and the hit throws.
Busy(p) ==
    /\ pc[p] = "hit"
    /\ tx' = [tx EXCEPT ![p] = NoTx]
    /\ Goto(p, "up")
    /\ UNCHANGED <<clock, db, algorithm, starts, shadow, promised, lastWriter>>

-----------------------------------------------------------------------------

\* Bug: rows without an expiry go when their window is over, bans or not.
Expired_ForgetsBans(row) ==
    \/ row.expiresAt > 0 /\ row.expiresAt <= clock
    \/ row.expiresAt = 0 /\ row.resetAt <= clock

Expired(row) ==
    \/ row.expiresAt > 0 /\ row.expiresAt <= clock
    \/ row.expiresAt = 0 /\ row.resetAt <= clock /\ row.banUntil <= clock

\* cleanup(), one DELETE.
Cleanup(p) ==
    /\ pc[p] = "up"
    /\ table' = [k \in Keys |-> IF Expired(table[k]) THEN NoRow ELSE table[k]]
    /\ tx' = IF table' = table THEN tx ELSE Outdated(p)
    /\ UNCHANGED <<clock, columns, pc, algorithm, starts, shadow, promised, lastWriter>>

\* Bug: a process that is gone leaves its transaction open.
Down_TxOpen(p) ==
    /\ pc[p] # "down"
    /\ Goto(p, "down")
    /\ UNCHANGED <<clock, db, algorithm, tx, starts, shadow, promised, lastWriter>>

\* close(), or the process is killed: what it has not committed is rolled back.
Down(p) ==
    /\ pc[p] # "down"
    /\ tx' = [tx EXCEPT ![p] = NoTx]
    /\ Goto(p, "down")
    /\ UNCHANGED <<clock, db, algorithm, starts, shadow, promised, lastWriter>>

Tick ==
    /\ clock < MaxClock
    /\ clock' = clock + 1
    /\ UNCHANGED <<db, pc, algorithm, tx, starts, shadow, promised, lastWriter>>

Step(p) ==
    \/ Start(p) \/ CreateTable(p) \/ CheckColumn(p) \/ AddColumn(p)
    \/ Read(p) \/ Upsert(p) \/ Busy(p) \/ Cleanup(p) \/ Down(p)

Next == Tick \/ \E p \in Processes : Step(p)

Spec == Init /\ [][Next]_vars

-----------------------------------------------------------------------------
(* Properties.                                                             *)

\* A process that answers hits finds every column its statements name, whoever
\* created or extended the table meanwhile and wherever a start was cut off.
SchemaReady == \A p \in Processes : pc[p] \in {"up", "hit"} => columns = AddedColumns

\* Whatever algorithm asks next, it is answered as if the committed hits had run
\* one after the other on a table that nothing is ever deleted from: no hit of
\* the other process is lost, and cleanup is not seen.
MatchesSerialTable ==
    \A k \in Keys, a \in Offered :
        Evaluated(k, a, clock, table[k]).hit = Evaluated(k, a, clock, shadow[k]).hit

\* docs/algorithm.md: the stores "preserve active bans across window rollover".
\* A reported ban blocks the algorithm that wrote the key last, and a fixed window
\* whoever wrote it, through rollovers, cleanups, failed hits, kills, restarts and
\* migrations, until it ends or an algorithm other than fixed-window takes the key
\* over.  That one does not read the ban (algorithmHit selects the state alone),
\* nor does the one that reported it once a fixed window has cleared the state.
BanHonoured ==
    \A k \in Keys : clock < promised[k] =>
        \A a \in {lastWriter[k], "fixed-window"} :
            Evaluated(k, a, clock, table[k]).hit.blocked

\* A restart with another algorithm never locks a key out for longer than that
\* algorithm itself could: one window, or the ban.  (A hit that costs more than
\* the limit is never admitted, and may be told to wait for longer.)
CarriedWaitBounded ==
    \A k \in Keys, a \in Offered :
        Rule[k].cost <= Rule[k].limit =>
            Evaluated(k, a, clock, table[k]).hit.retryAfter <= Larger(Rule[k].window, Rule[k].ban)
=============================================================================
