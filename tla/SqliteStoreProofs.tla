-------------------------- MODULE SqliteStoreProofs --------------------------
(***************************************************************************)
(* Theorems about SqliteStore, for every set of processes and keys, every  *)
(* rule, and any number of starts: the statements of a running process     *)
(* find their columns, a reported ban holds, the answers are those of the  *)
(* committed hits one after the other, and no row makes a key wait for     *)
(* longer than a window or a ban.                                          *)
(***************************************************************************)
EXTENDS SqliteStore, AlgorithmLemmas

-----------------------------------------------------------------------------
(* The columns.  They are only ever added, and a process passes a check    *)
(* only when the column is there.                                          *)

PastState == {"check expires_at", "add expires_at", "up", "hit"}

SchemaInvariant ==
    /\ pc \in [Processes -> {"down", "create", "check state", "add state"} \cup PastState]
    /\ columns \in {NoTable} \cup SUBSET AddedColumns
    /\ \A p \in Processes :
        /\ pc[p] \in {"check state", "add state"} \cup PastState => columns \in SUBSET AddedColumns
        /\ pc[p] \in PastState => "state" \in columns
        /\ pc[p] \in {"up", "hit"} => "expires_at" \in columns

LEMMA SchemaInit == Init => SchemaInvariant
  BY DEF Init, SchemaInvariant, PastState, AddedColumns, NoTable

LEMMA SchemaInductive == SchemaInvariant /\ [Next]_vars => SchemaInvariant'
  <1> SUFFICES ASSUME SchemaInvariant, [Next]_vars PROVE SchemaInvariant'
    OBVIOUS
  <1> USE DEF SchemaInvariant, PastState, AddedColumns, NoTable, Goto, db
  <1>1. CASE Tick \/ UNCHANGED vars
    BY <1>1 DEF Tick, vars
  <1>2. ASSUME NEW p \in Processes, Step(p) PROVE SchemaInvariant'
    <2>1. CASE Start(p)
      BY <2>1 DEF Start
    <2>2. CASE CreateTable(p)
      BY <2>2 DEF CreateTable
    <2>3. CASE CheckColumn(p)
      BY <2>3 DEF CheckColumn, AfterColumn
    <2>4. CASE AddColumn(p)
      <3>1. PICK c \in AddedColumns :
                /\ pc[p] = (IF c = "state" THEN "add state" ELSE "add expires_at")
                /\ columns' = columns \cup {c}
                /\ Goto(p, IF c \in columns THEN "down" ELSE AfterColumn(c))
        BY <2>4 DEF AddColumn
      <3>2. CASE c = "state"
        BY <3>1, <3>2 DEF AfterColumn
      <3>3. CASE c = "expires_at"
        BY <3>1, <3>3 DEF AfterColumn
      <3> QED
        BY <3>2, <3>3
    <2>5. CASE Read(p)
      BY <2>5 DEF Read
    <2>6. CASE Upsert(p)
      BY <2>6 DEF Upsert
    <2>7. CASE Busy(p)
      BY <2>7 DEF Busy
    <2>8. CASE Cleanup(p)
      BY <2>8 DEF Cleanup
    <2>9. CASE Down(p)
      BY <2>9 DEF Down
    <2> QED
      BY <1>2, <2>1, <2>2, <2>3, <2>4, <2>5, <2>6, <2>7, <2>8, <2>9 DEF Step
  <1> QED
    BY <1>1, <1>2 DEF Next

LEMMA SchemaSuffices == SchemaInvariant => SchemaReady
  BY DEF SchemaInvariant, SchemaReady, PastState, AddedColumns, NoTable

\* Whatever the order in which processes create, check, extend, fail and are
\* killed, one that answers hits never names a column the table lacks.
THEOREM SchemaAlwaysReady == Spec => []SchemaReady
  BY SchemaInit, SchemaInductive, SchemaSuffices, PTL DEF Spec

-----------------------------------------------------------------------------
(* Bans.  A row stores the ban it promises where the algorithm that wrote  *)
(* it and a fixed window both find it, and outlives it.                    *)

\* A state some algorithm has written for key k, or none.
IsState(k, state) ==
    state = NoState \/ \E a \in AlgorithmNames : state \in StatesOf(RuleFor(k, a))

RowKnown(k) ==
    table[k].banUntil \in Nat /\ table[k].expiresAt \in Nat /\ IsState(k, table[k].state)

\* An open transaction still sees the row as it is.
TxCurrent(p) ==
    tx[p] # NoTx => /\ tx[p].key \in Keys /\ tx[p].now \in 0 .. clock
                    /\ tx[p].row = table[tx[p].key]

BanStored(k) ==
    /\ table[k].banUntil >= promised[k]
    /\ IF lastWriter[k] = "fixed-window" THEN table[k].expiresAt = 0
       ELSE /\ table[k].state.algorithm = lastWriter[k]
            /\ table[k].state.banUntil >= promised[k]
            /\ table[k].expiresAt >= promised[k]

BanInvariant ==
    /\ clock \in Nat
    /\ algorithm \in [Processes -> AlgorithmNames]
    /\ DOMAIN table = Keys
    /\ DOMAIN tx = Processes
    /\ promised \in [Keys -> Nat]
    /\ lastWriter \in [Keys -> AlgorithmNames]
    /\ \A p \in Processes : TxCurrent(p)
    /\ \A k \in Keys : RowKnown(k)
    /\ \A k \in Keys : promised[k] > clock => BanStored(k)

LEMMA RuleForType ==
    ASSUME NEW k \in Keys, NEW a \in AlgorithmNames
    PROVE  RuleFor(k, a) \in Rules /\ RuleFor(k, a).algorithm = a
  BY RuleType DEF RuleFor, Rules

\* A state is of the algorithm that wrote it.
LEMMA OwnStates ==
    ASSUME NEW k \in Keys, NEW a \in AlgorithmNames, NEW s \in StatesOf(RuleFor(k, a))
    PROVE  s.algorithm = a
  BY RuleForType
  DEF StatesOf, FixedStates, SlidingStates, TokenStates, GcraStates, AlgorithmNames

LEMMA SameStateType ==
    ASSUME NEW k \in Keys, NEW a \in AlgorithmNames, NEW state, IsState(k, state)
    PROVE  SameState(state, a) \in StatesOf(RuleFor(k, a)) \cup {NoState}
  <1>1. CASE state = NoState
    BY <1>1 DEF SameState
  <1>2. ASSUME NEW b \in AlgorithmNames, state \in StatesOf(RuleFor(k, b))
        PROVE  SameState(state, a) \in StatesOf(RuleFor(k, a)) \cup {NoState}
    BY <1>2, OwnStates DEF SameState
  <1> QED
    BY <1>1, <1>2 DEF IsState

\* A fixed window keeps the ban of the columns, whatever the others hold.
LEMMA ColumnBan ==
    ASSUME NEW r \in Rules, NEW now \in Nat, NEW s, s.banUntil \in Nat,
           s.algorithm \in {"fixed-window", "none"}, s.algorithm = "none" => s = NoState
    PROVE  LET out == FixedWindowHit(r, now, s)
           IN  /\ out.state.banUntil \in Nat
               /\ out.hit.banUntil = out.state.banUntil
               /\ s.banUntil > now => out.state.banUntil = s.banUntil /\ out.hit.blocked
  <1> DEFINE next == FixedState(r, now, s)
             over == (IF WindowOpen(s, now) THEN s.count + r.cost ELSE r.cost) > r.limit
             out  == FixedWindowHit(r, now, s)
  <1>1. SameState(s, "fixed-window") = s
    BY DEF SameState
  <1>2. next.banUntil = ArmBan(r, now, ActiveBanUntil(s, now), over)
    BY DEF FixedState
  <1> HIDE DEF over
  <1>3. next.banUntil \in Nat /\ (s.banUntil > now => next.banUntil = s.banUntil)
    BY <1>2, SMT DEF ArmBan, ActiveBanUntil, Rules
  <1>4. /\ out.state = next
        /\ out.hit.banUntil = next.banUntil
        /\ out.hit.blocked = (next.banUntil > now \/ next.count > r.limit)
    BY <1>1 DEF FixedWindowHit, HitResult
  <1> QED
    BY <1>3, <1>4

\* What a hit on row `row` of k reports and stores.
LEMMA EvaluatedBan ==
    ASSUME NEW k \in Keys, NEW a \in AlgorithmNames, NEW now \in Nat, NEW row,
           row.banUntil \in Nat, IsState(k, row.state)
    PROVE  LET out == Evaluated(k, a, now, row)
           IN  /\ out.state.banUntil \in Nat
               /\ out.hit.banUntil = out.state.banUntil
               /\ a # "fixed-window" => /\ out.state \in StatesOf(RuleFor(k, a))
                                        /\ out.expiresAt \in Nat
                                        /\ out.expiresAt >= out.state.banUntil
               /\ a = "fixed-window" /\ row.banUntil > now =>
                      out.state.banUntil = row.banUntil /\ out.hit.blocked
               /\ a # "fixed-window" /\ row.state.algorithm = a /\ row.state.banUntil > now =>
                      out.state.banUntil = row.state.banUntil /\ out.hit.blocked
  <1> DEFINE out == Evaluated(k, a, now, row)
  <1>1. CASE a = "fixed-window"
    <2>1. out = FixedWindowHit(RuleFor(k, a), now, ColumnState(row))
      BY <1>1 DEF Evaluated
    <2>2. /\ ColumnState(row).banUntil \in Nat
          /\ ColumnState(row).algorithm \in {"fixed-window", "none"}
          /\ ColumnState(row).algorithm = "none" => ColumnState(row) = NoState
          /\ ColumnState(row).banUntil = row.banUntil
      BY DEF ColumnState, NoState, NoRow
    <2> QED
      BY <1>1, <2>1, <2>2, RuleForType, ColumnBan
  <1>2. CASE a # "fixed-window"
    <2> DEFINE s == SameState(row.state, a)
    <2>1. out = EvaluateAlgorithmHit(RuleFor(k, a), now, s)
      BY <1>2 DEF Evaluated
    <2>2. s \in StatesOf(RuleFor(k, a)) \cup {NoState}
      BY SameStateType
    <2>3. row.state.algorithm = a => s = row.state
      BY DEF SameState
    <2> HIDE DEF s
    <2>4. out.state \in StatesOf(RuleFor(k, a)) /\ out.expiresAt \in Nat
      BY <2>1, <2>2, RuleForType, EvaluateType
    <2>5. out.state.banUntil \in Nat
      BY <2>4, RuleForType, BanUntilNat
    <2>6. BanKept(out, s, now)
      BY <2>1, <2>2, RuleForType, EvaluateBan
    <2> QED
      BY <1>2, <2>3, <2>4, <2>5, <2>6 DEF BanKept
  <1> QED
    BY <1>1, <1>2

LEMMA BanInit == Init => BanInvariant
  <1> SUFFICES ASSUME Init PROVE BanInvariant
    OBVIOUS
  <1>1. /\ clock = 0 /\ DOMAIN table = Keys /\ DOMAIN tx = Processes
        /\ algorithm \in [Processes -> AlgorithmNames]
        /\ lastWriter = [k \in Keys |-> "fixed-window"]
        /\ promised = [k \in Keys |-> table[k].banUntil]
        /\ \A p \in Processes : tx[p] = NoTx
    BY DEF Init, AlgorithmNames
  <1>2. ASSUME NEW k \in Keys
        PROVE  table[k].banUntil \in Nat /\ table[k].expiresAt = 0 /\ table[k].state = NoState
    <2>1. table[k] \in {NoRow} \cup {Migrated(old) : old \in OldRows}
      BY DEF Init
    <2> QED
      BY <2>1, OldRowsType DEF Migrated, NoRow
  <1>3. lastWriter \in [Keys -> AlgorithmNames] /\ promised \in [Keys -> Nat]
    BY <1>1, <1>2 DEF AlgorithmNames
  <1>4. \A k \in Keys : RowKnown(k)
    BY <1>2 DEF RowKnown, IsState
  <1>5. \A k \in Keys : BanStored(k)
    BY <1>1, <1>2 DEF BanStored
  <1>6. \A p \in Processes : TxCurrent(p)
    BY <1>1 DEF TxCurrent
  <1> QED
    BY <1>1, <1>3, <1>4, <1>5, <1>6 DEF BanInvariant

\* A hit that commits keeps a running ban of its key, and stores its own.
LEMMA UpsertKeepsBan ==
    ASSUME BanInvariant, NEW p \in Processes, Upsert(p)
    PROVE  BanInvariant'
  <1>a. /\ tx[p].key \in Keys /\ tx[p].now \in 0 .. clock
        /\ tx[p].row = table[tx[p].key]
        /\ algorithm[p] \in AlgorithmNames
    BY DEF BanInvariant, TxCurrent, Upsert
  <1>b. PICK k \in Keys : k = tx[p].key
    BY <1>a
  <1>c. PICK a \in AlgorithmNames : a = algorithm[p]
    BY <1>a
  <1> DEFINE now == tx[p].now
             out == Evaluated(k, a, now, tx[p].row)
  <1>1. /\ k \in Keys /\ now \in 0 .. clock /\ tx[p].row = table[k] /\ a \in AlgorithmNames
        /\ now \in Nat /\ clock \in Nat
    BY <1>a, <1>b, <1>c, SMT DEF BanInvariant
  <1>2. /\ table' = [table EXCEPT ![k] = WrittenRow(a, out)]
        /\ promised' = [promised EXCEPT ![k] = Promise(k, a, out)]
        /\ lastWriter' = [lastWriter EXCEPT ![k] = a]
        /\ tx' = [q \in Processes |-> NoTx]
        /\ clock' = clock /\ algorithm' = algorithm
    BY <1>b, <1>c DEF Upsert, Outdated
  <1>3. table[k].banUntil \in Nat /\ IsState(k, table[k].state)
    BY <1>1 DEF BanInvariant, RowKnown
  <1>4. /\ out.state.banUntil \in Nat
        /\ out.hit.banUntil = out.state.banUntil
        /\ a # "fixed-window" => /\ out.state \in StatesOf(RuleFor(k, a))
                                 /\ out.expiresAt \in Nat
                                 /\ out.expiresAt >= out.state.banUntil
        /\ a = "fixed-window" /\ table[k].banUntil > now =>
               out.state.banUntil = table[k].banUntil
        /\ a # "fixed-window" /\ table[k].state.algorithm = a /\ table[k].state.banUntil > now =>
               out.state.banUntil = table[k].state.banUntil
    BY <1>1, <1>3, EvaluatedBan
  <1>5. a # "fixed-window" => out.state.algorithm = a
    BY <1>1, <1>4, OwnStates
  <1> HIDE DEF out
  <1>6. /\ WrittenRow(a, out).banUntil = out.state.banUntil
        /\ a = "fixed-window" => /\ WrittenRow(a, out).expiresAt = 0
                                 /\ WrittenRow(a, out).state = NoState
        /\ a # "fixed-window" => /\ WrittenRow(a, out).expiresAt = out.expiresAt
                                 /\ WrittenRow(a, out).state = out.state
    BY <1>4 DEF WrittenRow
  <1>7. promised[k] \in Nat /\ (promised[k] > clock => BanStored(k))
    BY <1>1 DEF BanInvariant
  <1>8. lastWriter[k] # "fixed-window" /\ promised[k] > clock =>
            table[k].state.algorithm = lastWriter[k] /\ table[k].state.banUntil >= promised[k]
    BY <1>7 DEF BanStored
  <1>9. promised[k] > clock => table[k].banUntil >= promised[k]
    BY <1>7 DEF BanStored
  <1>10. table[k].state.banUntil \in Nat
    <2>1. CASE table[k].state = NoState
      BY <2>1 DEF NoState
    <2>2. ASSUME NEW b \in AlgorithmNames, table[k].state \in StatesOf(RuleFor(k, b))
          PROVE  table[k].state.banUntil \in Nat
      BY <1>1, <2>2, RuleForType, BanUntilNat
    <2> QED
      BY <1>3, <2>1, <2>2 DEF IsState
  <1>11. a \in {lastWriter[k], "fixed-window"} /\ promised[k] > clock =>
             out.state.banUntil >= promised[k]
    <2>1. CASE a = "fixed-window"
      BY <1>1, <1>3, <1>4, <1>7, <1>9, <2>1, SMT
    <2>2. CASE a # "fixed-window" /\ a = lastWriter[k]
      BY <1>1, <1>4, <1>7, <1>8, <1>10, <2>2, SMT
    <2> QED
      BY <2>1, <2>2
  <1>12. /\ Promise(k, a, out) \in Nat
         /\ Promise(k, a, out) > clock => out.state.banUntil >= Promise(k, a, out)
    BY <1>1, <1>4, <1>7, <1>11, SMT DEF Promise, Larger
  <1> HIDE DEF now
  <1>13. \A j \in Keys : j # k => table'[j] = table[j] /\ promised'[j] = promised[j]
                                 /\ lastWriter'[j] = lastWriter[j]
    BY <1>2 DEF BanInvariant
  <1>14. table'[k] = WrittenRow(a, out) /\ promised'[k] = Promise(k, a, out)
             /\ lastWriter'[k] = a
    BY <1>1, <1>2 DEF BanInvariant
  <1>15. RowKnown(k)' /\ (promised'[k] > clock' => BanStored(k)')
    <2>1. RowKnown(k)'
      BY <1>1, <1>4, <1>6, <1>14 DEF RowKnown, IsState
    <2>2. CASE a = "fixed-window"
      BY <1>2, <1>6, <1>12, <1>14, <2>1, <2>2 DEF BanStored
    <2>3. CASE a # "fixed-window"
      BY <1>2, <1>4, <1>5, <1>6, <1>12, <1>14, <2>1, <2>3, SMT DEF BanStored
    <2> QED
      BY <2>1, <2>2, <2>3
  <1>16. ASSUME NEW j \in Keys, j # k
         PROVE  RowKnown(j)' /\ (promised'[j] > clock' => BanStored(j)')
    BY <1>2, <1>13, <1>16 DEF BanInvariant, RowKnown, BanStored
  <1>17. DOMAIN table' = Keys /\ DOMAIN tx' = Processes /\ clock' \in Nat
             /\ algorithm' \in [Processes -> AlgorithmNames]
    BY <1>2 DEF BanInvariant
  <1>18. promised' \in [Keys -> Nat] /\ lastWriter' \in [Keys -> AlgorithmNames]
    BY <1>1, <1>2, <1>12 DEF BanInvariant
  <1>19. \A q \in Processes : TxCurrent(q)'
    BY <1>2 DEF TxCurrent
  <1> QED
    BY <1>15, <1>16, <1>17, <1>18, <1>19 DEF BanInvariant

\* cleanup deletes no row whose ban still runs.
LEMMA CleanupKeepsBan ==
    ASSUME BanInvariant, NEW p \in Processes, Cleanup(p)
    PROVE  BanInvariant'
  <1>1. /\ table' = [k \in Keys |-> IF Expired(table[k]) THEN NoRow ELSE table[k]]
        /\ tx' = (IF table' = table THEN tx ELSE Outdated(p))
        /\ clock' = clock /\ algorithm' = algorithm
        /\ promised' = promised /\ lastWriter' = lastWriter
    BY DEF Cleanup
  <1>2. ASSUME NEW k \in Keys PROVE RowKnown(k)'
    <2>1. table'[k] \in {NoRow, table[k]} /\ RowKnown(k)
      BY <1>1 DEF BanInvariant
    <2> QED
      BY <2>1 DEF RowKnown, NoRow, IsState
  <1>3. ASSUME NEW k \in Keys, promised'[k] > clock' PROVE BanStored(k)'
    <2>1. /\ promised[k] \in Nat /\ clock \in Nat /\ promised[k] > clock
          /\ RowKnown(k) /\ BanStored(k)
      BY <1>1, <1>3 DEF BanInvariant
    <2>2. ~Expired(table[k])
      BY <2>1, SMT DEF BanStored, Expired, RowKnown
    <2>3. table'[k] = table[k]
      BY <1>1, <2>2
    <2> QED
      BY <1>1, <2>1, <2>3 DEF BanStored
  <1>4. DOMAIN table' = Keys /\ DOMAIN tx' = Processes
    BY <1>1 DEF BanInvariant, Outdated
  <1>5. ASSUME NEW q \in Processes PROVE TxCurrent(q)'
    <2>1. CASE table' = table
      BY <1>1, <2>1 DEF BanInvariant, TxCurrent
    <2>2. CASE table' # table
      BY <1>1, <2>2 DEF Outdated, TxCurrent
    <2> QED
      BY <2>1, <2>2
  <1> QED
    BY <1>1, <1>2, <1>3, <1>4, <1>5 DEF BanInvariant

\* The steps that leave the rows and what was promised alone.
LEMMA OthersKeepBan ==
    ASSUME BanInvariant, UNCHANGED <<table, promised, lastWriter>>,
           clock' \in Nat, clock' >= clock,
           algorithm' \in [Processes -> AlgorithmNames],
           DOMAIN tx' = Processes,
           \A p \in Processes : tx'[p] = tx[p] \/ TxCurrent(p)'
    PROVE  BanInvariant'
  <1>1. ASSUME NEW k \in Keys
        PROVE  RowKnown(k)' /\ (promised'[k] > clock' => BanStored(k)')
    <2>1. promised[k] \in Nat /\ clock \in Nat /\ RowKnown(k)
              /\ (promised[k] > clock => BanStored(k))
      BY DEF BanInvariant
    <2>2. promised'[k] > clock' => promised[k] > clock
      BY <2>1, SMT
    <2> QED
      BY <2>1, <2>2 DEF RowKnown, BanStored
  <1>2. ASSUME NEW p \in Processes PROVE TxCurrent(p)'
    <2>1. CASE tx'[p] = tx[p]
      <3>1. TxCurrent(p) /\ clock \in Nat
        BY DEF BanInvariant
      <3> QED
        BY <2>1, <3>1, SMT DEF TxCurrent
    <2> QED
      BY <2>1
  <1> QED
    BY <1>1, <1>2 DEF BanInvariant

LEMMA BanInductive == BanInvariant /\ [Next]_vars => BanInvariant'
  <1> SUFFICES ASSUME BanInvariant, [Next]_vars PROVE BanInvariant'
    OBVIOUS
  <1>1. /\ clock \in Nat /\ clock >= clock /\ algorithm \in [Processes -> AlgorithmNames]
        /\ DOMAIN tx = Processes
    BY SMT DEF BanInvariant
  <1>2. CASE UNCHANGED vars
    BY <1>1, <1>2, OthersKeepBan DEF vars, db
  <1>3. CASE Tick
    <2>1. clock' \in Nat /\ clock' >= clock
      BY <1>1, <1>3, SMT DEF Tick
    <2> QED
      BY <1>1, <1>3, <2>1, OthersKeepBan DEF Tick, db
  <1>4. ASSUME NEW p \in Processes, Step(p) PROVE BanInvariant'
    <2>1. CASE Start(p)
      <3>1. algorithm' \in [Processes -> AlgorithmNames]
        BY <1>1, <2>1, OfferedType DEF Start
      <3> QED
        BY <1>1, <2>1, <3>1, OthersKeepBan DEF Start, db
    <2>2. CASE CreateTable(p) \/ CheckColumn(p) \/ AddColumn(p)
      <3>1. UNCHANGED <<table, promised, lastWriter, clock, algorithm, tx>>
        BY <2>2 DEF CreateTable, CheckColumn, AddColumn, db
      <3> QED
        BY <1>1, <3>1, OthersKeepBan
    <2>3. CASE Read(p)
      <3>1. PICK k \in Keys : tx' = [tx EXCEPT ![p] = [key |-> k, now |-> clock, row |-> table[k]]]
        BY <2>3 DEF Read
      <3>2. UNCHANGED <<table, promised, lastWriter, clock, algorithm>>
        BY <2>3 DEF Read, db
      <3>3. DOMAIN tx' = Processes
        BY <1>1, <3>1
      <3>4. TxCurrent(p)'
        <4>1. tx'[p] = [key |-> k, now |-> clock, row |-> table[k]]
          BY <1>1, <3>1
        <4>2. clock \in 0 .. clock
          BY <1>1, SMT
        <4> QED
          BY <3>2, <4>1, <4>2 DEF TxCurrent
      <3>5. \A q \in Processes : tx'[q] = tx[q] \/ TxCurrent(q)'
        BY <1>1, <3>1, <3>4
      <3> QED
        BY <1>1, <3>2, <3>3, <3>5, OthersKeepBan
    <2>4. CASE Upsert(p)
      BY <2>4, UpsertKeepsBan
    <2>5. CASE Busy(p) \/ Down(p)
      <3>1. UNCHANGED <<table, promised, lastWriter, clock, algorithm>>
                /\ tx' = [tx EXCEPT ![p] = NoTx]
        BY <2>5 DEF Busy, Down, db
      <3>2. \A q \in Processes : tx'[q] = tx[q] \/ TxCurrent(q)'
        BY <1>1, <3>1 DEF TxCurrent
      <3> QED
        BY <1>1, <3>1, <3>2, OthersKeepBan
    <2>6. CASE Cleanup(p)
      BY <2>6, CleanupKeepsBan
    <2> QED
      BY <1>4, <2>1, <2>2, <2>3, <2>4, <2>5, <2>6 DEF Step
  <1> QED
    BY <1>2, <1>3, <1>4 DEF Next

LEMMA BanBlocks == BanInvariant => BanHonoured
  <1> SUFFICES ASSUME BanInvariant, NEW k \in Keys, clock < promised[k],
                      NEW a \in {lastWriter[k], "fixed-window"}
               PROVE  Evaluated(k, a, clock, table[k]).hit.blocked
    BY DEF BanHonoured
  <1>1. /\ clock \in Nat /\ promised[k] \in Nat /\ promised[k] > clock
        /\ lastWriter[k] \in AlgorithmNames /\ a \in AlgorithmNames
        /\ RowKnown(k)
    BY SMT DEF BanInvariant, AlgorithmNames
  <1>2. BanStored(k)
    BY <1>1 DEF BanInvariant
  <1>3. table[k].banUntil \in Nat /\ IsState(k, table[k].state)
    BY <1>1 DEF RowKnown
  <1>4. CASE a = "fixed-window"
    <2>1. table[k].banUntil > clock
      BY <1>1, <1>2, <1>3, SMT DEF BanStored
    <2> QED
      BY <1>1, <1>3, <1>4, <2>1, EvaluatedBan
  <1>5. CASE a # "fixed-window" /\ a = lastWriter[k]
    <2>1. table[k].state.algorithm = a /\ table[k].state.banUntil >= promised[k]
      BY <1>2, <1>5 DEF BanStored
    <2>2. table[k].state.banUntil \in Nat
      <3>1. CASE table[k].state = NoState
        BY <3>1 DEF NoState
      <3>2. ASSUME NEW b \in AlgorithmNames, table[k].state \in StatesOf(RuleFor(k, b))
            PROVE  table[k].state.banUntil \in Nat
        BY <3>2, RuleForType, BanUntilNat
      <3> QED
        BY <1>3, <3>1, <3>2 DEF IsState
    <2>3. table[k].state.banUntil > clock
      BY <1>1, <2>1, <2>2, SMT
    <2> QED
      BY <1>1, <1>3, <1>5, <2>1, <2>3, EvaluatedBan
  <1> QED
    BY <1>4, <1>5

\* A ban that a hit reported blocks the algorithm that wrote the key last, and a
\* fixed window whoever wrote it, through cleanups, failed hits, kills, restarts
\* and migrations of the table, until it ends or an algorithm other than
\* fixed-window takes the key over (that one does not read the ban).
THEOREM BansSurvive == Spec => []BanHonoured
  BY BanInit, BanInductive, BanBlocks, PTL DEF Spec
-----------------------------------------------------------------------------
(* The rows.  Every row is one the rule can have led to by now, and differs *)
(* from the row of a table that nothing is deleted from only in ways that   *)
(* no hit can tell.                                                        *)

\* The rows an older version left were written under the rules in force: no later
\* than time 0, and so reaching no further than a window or a ban.
OldRowsInReach ==
    \A old \in OldRows : \A k \in Keys :
        old.resetAt <= Rule[k].window /\ old.banUntil <= Rule[k].ban

\* A row that hits on k up to time t have left.
RowFit(k, row, t) ==
    /\ row.count \in Nat /\ row.resetAt \in Nat /\ row.banUntil \in Nat /\ row.expiresAt \in Nat
    /\ IsState(k, row.state) /\ InReach(Rule[k], t, row.state)
    /\ row.expiresAt <= t + 2 * Rule[k].window + Rule[k].ban
    /\ row.state = NoState => row.expiresAt = 0
    /\ row.state # NoState =>
        /\ Outlives(RuleFor(k, row.state.algorithm), row.state, row.expiresAt)
        /\ row.resetAt <= row.expiresAt /\ row.banUntil <= row.expiresAt
    /\ OldRowsInReach => /\ row.resetAt <= t + Rule[k].window
                         /\ row.banUntil <= t + Rule[k].ban

\* No hit on k from time t on can tell the row from the undeleted one.
Alike(k, row, undeleted, t) ==
    \/ row = undeleted
    \/ /\ row.count = undeleted.count /\ row.resetAt = undeleted.resetAt
       /\ row.banUntil = undeleted.banUntil /\ row.expiresAt = undeleted.expiresAt
       /\ row.state # NoState /\ undeleted.state # NoState
       /\ Twins(Rule[k], t, row.state, undeleted.state)
    \/ /\ row = NoRow
       /\ undeleted.resetAt <= t /\ undeleted.banUntil <= t /\ undeleted.expiresAt <= t

RowsAt(k, t) ==
    /\ RowFit(k, table[k], t) /\ RowFit(k, shadow[k], t)
    /\ Alike(k, table[k], shadow[k], t)

\* The rows of an open transaction are those of the time of its SELECT.
TxRows(p) == tx[p] # NoTx => pc[p] = "hit" /\ RowsAt(tx[p].key, tx[p].now)

RowsInvariant ==
    /\ BanInvariant /\ SchemaInvariant
    /\ clock \in 0 .. MaxClock /\ starts \in 0 .. MaxStarts
    /\ DOMAIN shadow = Keys
    /\ \A k \in Keys : RowsAt(k, clock)
    /\ \A p \in Processes : TxRows(p)
-----------------------------------------------------------------------------
(* A hit on two alike rows.                                                *)

\* The rule differs from process to process in its algorithm only.
LEMMA RuleForReach ==
    ASSUME NEW k \in Keys, NEW a \in AlgorithmNames
    PROVE  /\ \A t, s : InReach(RuleFor(k, a), t, s) <=> InReach(Rule[k], t, s)
           /\ \A t, x, y : Twins(RuleFor(k, a), t, x, y) <=> Twins(Rule[k], t, x, y)
           /\ RuleFor(k, a).window = Rule[k].window /\ RuleFor(k, a).ban = Rule[k].ban
           /\ RuleFor(k, a).limit = Rule[k].limit /\ RuleFor(k, a).cost = Rule[k].cost
           /\ Rule[k].window \in Nat \ {0} /\ Rule[k].ban \in Nat /\ Rule[k].limit \in Nat \ {0}
           /\ Rule[k].cost \in Nat \ {0}
  <1>1. /\ RuleFor(k, a).window = Rule[k].window /\ RuleFor(k, a).ban = Rule[k].ban
        /\ RuleFor(k, a).limit = Rule[k].limit /\ RuleFor(k, a).cost = Rule[k].cost
        /\ Rule[k].window \in Nat \ {0} /\ Rule[k].ban \in Nat /\ Rule[k].limit \in Nat \ {0}
        /\ Rule[k].cost \in Nat \ {0}
    BY RuleType DEF RuleFor, Rules
  <1>2. Capacity(RuleFor(k, a)) = Capacity(Rule[k])
    BY <1>1 DEF Capacity
  <1>3. \A t, s : InReach(RuleFor(k, a), t, s) <=> InReach(Rule[k], t, s)
    BY <1>1, <1>2, Zenon DEF InReach
  <1>4. \A t, x, y : Twins(RuleFor(k, a), t, x, y) <=> Twins(Rule[k], t, x, y)
    BY <1>1, Zenon DEF Twins
  <1> QED
    BY <1>1, <1>3, <1>4

\* What a fixed window finds in the columns.
LEMMA ColumnStateFit ==
    ASSUME NEW k \in Keys, NEW t \in Nat, NEW row, RowFit(k, row, t)
    PROVE  /\ ColumnState(row) \in FixedStates \cup {NoState}
           /\ OldRowsInReach => InReach(Rule[k], t, ColumnState(row))
  <1>1. CASE row = NoRow
    <2>1. ColumnState(row) = NoState
      BY <1>1 DEF ColumnState
    <2>2. 0 <= t + Rule[k].ban
      BY RuleType, SMT DEF Rules
    <2> QED
      BY <2>1, <2>2 DEF InReach, NoState
  <1>2. CASE row # NoRow
    <2>1. ColumnState(row) = [algorithm |-> "fixed-window", count |-> row.count,
                              resetAt |-> row.resetAt, banUntil |-> row.banUntil]
      BY <1>2 DEF ColumnState
    <2> QED
      BY <2>1 DEF RowFit, FixedStates, InReach
  <1> QED
    BY <1>1, <1>2

\* The fixed windows of two alike rows are the same.
LEMMA AlikeFixed ==
    ASSUME NEW k \in Keys, NEW t \in Nat, NEW row, NEW undeleted,
           RowFit(k, row, t), RowFit(k, undeleted, t), Alike(k, row, undeleted, t)
    PROVE  Evaluated(k, "fixed-window", t, row) = Evaluated(k, "fixed-window", t, undeleted)
  <1> DEFINE r == RuleFor(k, "fixed-window")
             Fixed(s) == FixedWindowHit(r, t, s)
  <1>1. r \in Rules /\ r.algorithm = "fixed-window"
    BY RuleForType DEF AlgorithmNames
  <1>2. SUFFICES Fixed(ColumnState(row)) = Fixed(ColumnState(undeleted))
    BY DEF Evaluated
  <1>3. CASE row = undeleted
    BY <1>3
  <1>4. CASE /\ row.count = undeleted.count /\ row.resetAt = undeleted.resetAt
             /\ row.banUntil = undeleted.banUntil
             /\ row.state # NoState /\ undeleted.state # NoState
    <2>1. row # NoRow /\ undeleted # NoRow
      BY <1>4 DEF NoRow
    <2> QED
      BY <1>4, <2>1 DEF ColumnState
  <1>5. CASE row = NoRow /\ undeleted.resetAt <= t /\ undeleted.banUntil <= t
    <2>1. ColumnState(row) = NoState
      BY <1>5 DEF ColumnState
    <2>2. CASE undeleted = NoRow
      BY <1>5, <2>2
    <2>3. CASE undeleted # NoRow
      <3>1. ColumnState(undeleted) \in FixedStates
        BY <2>3 DEF ColumnState, RowFit, FixedStates
      <3>2. Outlives(r, ColumnState(undeleted), t)
        BY <1>1, <1>5, <2>3 DEF ColumnState, Outlives
      <3>3. t <= t
        BY SMT
      <3> QED
        BY <1>1, <2>1, <3>1, <3>2, <3>3, FixedWindowLapsed
    <2> QED
      BY <2>2, <2>3
  <1> QED
    BY <1>3, <1>4, <1>5 DEF Alike

\* The other algorithms cannot tell the states of two alike rows apart.
LEMMA AlikeStates ==
    ASSUME NEW k \in Keys, NEW a \in AlgorithmNames, NEW t \in Nat, NEW row, NEW undeleted,
           RowFit(k, row, t), RowFit(k, undeleted, t), Alike(k, row, undeleted, t),
           a # "fixed-window"
    PROVE  SameAnswer(RuleFor(k, a), t, Evaluated(k, a, t, row), Evaluated(k, a, t, undeleted))
  <1> DEFINE r == RuleFor(k, a)
             x == SameState(row.state, a)
             y == SameState(undeleted.state, a)
  <1>1. r \in Rules /\ r.algorithm = a
    BY RuleForType
  <1>2. /\ Evaluated(k, a, t, row) = EvaluateAlgorithmHit(r, t, x)
        /\ Evaluated(k, a, t, undeleted) = EvaluateAlgorithmHit(r, t, y)
    BY DEF Evaluated
  <1>3. x \in StatesOf(r) \cup {NoState} /\ y \in StatesOf(r) \cup {NoState}
    BY SameStateType DEF RowFit
  <1>4. CASE Twins(r, t, x, y)
    BY <1>1, <1>2, <1>3, <1>4, EvaluateTwins
  <1>5. CASE row = undeleted
    BY <1>4, <1>5 DEF Twins
  <1>6. CASE Twins(Rule[k], t, row.state, undeleted.state)
    <2>1. Twins(r, t, row.state, undeleted.state)
      BY <1>6, RuleForReach
    <2>2. Twins(r, t, x, y)
      BY <2>1 DEF Twins, SameState
    <2> QED
      BY <1>4, <2>2
  <1>7. CASE row = NoRow /\ undeleted.expiresAt <= t
    <2>1. x = NoState
      BY <1>7 DEF SameState, NoRow
    <2>2. CASE y = NoState
      BY <1>4, <2>1, <2>2 DEF Twins
    <2>3. CASE y # NoState
      <3>1. y = undeleted.state /\ undeleted.state # NoState /\ undeleted.state.algorithm = a
        BY <2>3 DEF SameState
      <3>2. Outlives(r, y, undeleted.expiresAt) /\ undeleted.expiresAt \in Nat
        BY <3>1 DEF RowFit
      <3>3. y \in StatesOf(r)
        BY <1>3, <2>3
      <3> QED
        BY <1>1, <1>2, <1>7, <2>1, <3>2, <3>3, EvaluateLapsedTwins
    <2> QED
      BY <2>2, <2>3
  <1> QED
    BY <1>5, <1>6, <1>7 DEF Alike

\* Two alike rows answer a hit alike, and are alike after it.
LEMMA AlikeHit ==
    ASSUME NEW k \in Keys, NEW a \in AlgorithmNames, NEW t \in Nat, NEW row, NEW undeleted,
           RowFit(k, row, t), RowFit(k, undeleted, t), Alike(k, row, undeleted, t)
    PROVE  LET one   == Evaluated(k, a, t, row)
               other == Evaluated(k, a, t, undeleted)
           IN  one.hit = other.hit /\ Alike(k, WrittenRow(a, one), WrittenRow(a, other), t)
  <1> DEFINE one   == Evaluated(k, a, t, row)
             other == Evaluated(k, a, t, undeleted)
             Goal  == one.hit = other.hit /\ Alike(k, WrittenRow(a, one), WrittenRow(a, other), t)
  <1>1. ASSUME a = "fixed-window" PROVE Goal
    <2>1. one = other
      BY <1>1, AlikeFixed
    <2> HIDE DEF one, other
    <2> QED
      BY <2>1 DEF Alike
  <1>2. ASSUME a # "fixed-window" PROVE Goal
    <2> DEFINE x == SameState(row.state, a)
               y == SameState(undeleted.state, a)
    <2>1. SameAnswer(RuleFor(k, a), t, one, other)
      BY <1>2, AlikeStates
    <2>2. one.state \in StatesOf(RuleFor(k, a)) /\ other.state \in StatesOf(RuleFor(k, a))
      <3>1. IsState(k, row.state) /\ row.banUntil \in Nat
                /\ IsState(k, undeleted.state) /\ undeleted.banUntil \in Nat
        BY DEF RowFit
      <3> QED
        BY <1>2, <3>1, EvaluatedBan
    <2>3. one.state.algorithm = a /\ other.state.algorithm = a
      BY <2>2, OwnStates
    <2>4. one.state # NoState /\ other.state # NoState
      BY <2>3 DEF NoState, AlgorithmNames
    <2> HIDE DEF one, other
    <2>5. /\ one.hit = other.hit /\ one.expiresAt = other.expiresAt
          /\ Twins(Rule[k], t, one.state, other.state)
      BY <2>1, RuleForReach DEF SameAnswer
    <2> QED
      BY <1>2, <2>4, <2>5 DEF WrittenRow, Alike
  <1> QED
    BY <1>1, <1>2
-----------------------------------------------------------------------------
(* A hit writes a row that fits, and rows stay fit and alike as time goes. *)

LEMMA InReachNothing ==
    ASSUME NEW k \in Keys, NEW t \in Nat
    PROVE  InReach(Rule[k], t, NoState) /\ IsState(k, NoState)
  <1>1. 0 <= t + Rule[k].ban
    BY RuleType, SMT DEF Rules
  <1> QED
    BY <1>1 DEF InReach, NoState, IsState

LEMMA NoRowFit ==
    ASSUME NEW k \in Keys, NEW t \in Nat
    PROVE  RowFit(k, NoRow, t)
  <1>1. 0 <= t + Rule[k].ban /\ 0 <= t + Rule[k].window /\ 0 <= t + 2 * Rule[k].window + Rule[k].ban
    BY RuleType, SMT DEF Rules
  <1> QED
    BY <1>1, InReachNothing DEF RowFit, NoRow

LEMMA FixedWrittenFit ==
    ASSUME NEW k \in Keys, NEW t \in Nat, NEW row, RowFit(k, row, t)
    PROVE  RowFit(k, WrittenRow("fixed-window", Evaluated(k, "fixed-window", t, row)), t)
  <1> DEFINE r   == RuleFor(k, "fixed-window")
             s   == ColumnState(row)
             out == FixedWindowHit(r, t, s)
             new == WrittenRow("fixed-window", out)
  <1>1. r \in Rules
    BY RuleForType DEF AlgorithmNames
  <1>2. s \in FixedStates \cup {NoState} /\ (OldRowsInReach => InReach(r, t, s))
    BY ColumnStateFit, RuleForReach DEF AlgorithmNames
  <1>3. out.state \in FixedStates
    BY <1>1, <1>2, FixedWindowType
  <1>4. OldRowsInReach => InReach(Rule[k], t, out.state)
    BY <1>1, <1>2, FixedWindowReach, RuleForReach DEF AlgorithmNames
  <1>5. Evaluated(k, "fixed-window", t, row) = out
    BY DEF Evaluated
  <1> HIDE DEF out
  <1>6. /\ new.count = out.state.count /\ new.resetAt = out.state.resetAt
        /\ new.banUntil = out.state.banUntil /\ new.state = NoState /\ new.expiresAt = 0
    BY DEF WrittenRow
  <1> HIDE DEF new
  <1>7. 0 <= t + 2 * Rule[k].window + Rule[k].ban
    BY RuleType, SMT DEF Rules
  <1>8. /\ out.state.count \in Nat /\ out.state.resetAt \in Nat /\ out.state.banUntil \in Nat
        /\ out.state.algorithm = "fixed-window"
    BY <1>3 DEF FixedStates
  <1>9. OldRowsInReach => out.state.resetAt <= t + Rule[k].window
                              /\ out.state.banUntil <= t + Rule[k].ban
    BY <1>4, <1>8 DEF InReach
  <1>10. RowFit(k, new, t)
    BY <1>6, <1>7, <1>8, <1>9, InReachNothing DEF RowFit
  <1> QED
    BY <1>5, <1>10 DEF new

LEMMA StateWrittenFit ==
    ASSUME NEW k \in Keys, NEW a \in AlgorithmNames, NEW t \in Nat, NEW row, RowFit(k, row, t),
           a # "fixed-window"
    PROVE  RowFit(k, WrittenRow(a, Evaluated(k, a, t, row)), t)
  <1> DEFINE r   == RuleFor(k, a)
             s   == SameState(row.state, a)
             out == Evaluated(k, a, t, row)
             new == WrittenRow(a, out)
  <1>1. r \in Rules /\ r.algorithm = a
    BY RuleForType
  <1>2. IsState(k, row.state) /\ row.banUntil \in Nat /\ InReach(Rule[k], t, row.state)
    BY DEF RowFit
  <1>3. s \in StatesOf(r) \cup {NoState} /\ InReach(r, t, s)
    <2>1. s \in {row.state, NoState}
      BY DEF SameState
    <2> QED
      BY <1>2, <2>1, SameStateType, InReachNothing, RuleForReach
  <1>4. out = EvaluateAlgorithmHit(r, t, s)
    BY DEF Evaluated
  <1>5. /\ InReach(r, t, out.state) /\ Foreseen(r, t, out)
        /\ Outlives(r, out.state, out.expiresAt)
    BY <1>1, <1>3, <1>4, EvaluateReach, EvaluateOutlives
  <1>6. /\ out.state \in StatesOf(r) /\ out.expiresAt \in Nat
        /\ out.state.banUntil \in Nat /\ out.hit.banUntil = out.state.banUntil
        /\ out.expiresAt >= out.state.banUntil
    BY <1>2, EvaluatedBan
  <1>7. out.state.algorithm = a
    BY <1>6, OwnStates
  <1> HIDE DEF out
  <1>8. /\ new.count = out.hit.count /\ new.resetAt = out.hit.resetAt
        /\ new.banUntil = out.hit.banUntil /\ new.state = out.state
        /\ new.expiresAt = out.expiresAt
    BY DEF WrittenRow
  <1> HIDE DEF new
  <1>9. /\ out.hit.count \in Nat /\ out.hit.resetAt \in Nat
        /\ out.hit.resetAt <= t + Rule[k].window /\ out.hit.resetAt <= out.expiresAt
        /\ out.expiresAt <= t + 2 * Rule[k].window + Rule[k].ban
    BY <1>5, RuleForReach DEF Foreseen
  <1>10. InReach(Rule[k], t, out.state) /\ out.state.banUntil <= t + Rule[k].ban
    <2>1. InReach(Rule[k], t, out.state)
      BY <1>5, RuleForReach
    <2> QED
      BY <2>1 DEF InReach
  <1>11. out.state # NoState /\ IsState(k, out.state)
    BY <1>6, <1>7 DEF NoState, AlgorithmNames, IsState
  <1>12. out.state.banUntil <= out.expiresAt
    BY <1>6, SMT
  <1>13. /\ new.count \in Nat /\ new.resetAt \in Nat /\ new.banUntil \in Nat
         /\ new.expiresAt \in Nat
    BY <1>6, <1>8, <1>9
  <1>14. RowFit(k, new, t)
    BY <1>5, <1>6, <1>7, <1>8, <1>9, <1>10, <1>11, <1>12, <1>13 DEF RowFit
  <1> QED
    BY <1>14 DEF new, out

LEMMA WrittenFit ==
    ASSUME NEW k \in Keys, NEW a \in AlgorithmNames, NEW t \in Nat, NEW row, RowFit(k, row, t)
    PROVE  RowFit(k, WrittenRow(a, Evaluated(k, a, t, row)), t)
  BY FixedWrittenFit, StateWrittenFit

LEMMA StateTimes ==
    ASSUME NEW r \in Rules, NEW s \in StatesOf(r)
    PROVE  /\ s.banUntil \in Nat
           /\ s.algorithm = "fixed-window" => s.resetAt \in Nat
           /\ s.algorithm = "gcra" => s.tat \in Nat
  <1>1. r.algorithm \in AlgorithmNames
    BY DEF Rules
  <1>2. s \in FixedStates \cup SlidingStates \cup TokenStates(r) \cup GcraStates
    BY <1>1 DEF StatesOf, AlgorithmNames
  <1> QED
    BY <1>2 DEF FixedStates, SlidingStates, TokenStates, GcraStates

\* A row that hits up to t may have left may have been left by later ones.
LEMMA FitLater ==
    ASSUME NEW k \in Keys, NEW t \in Nat, NEW u \in Nat, t <= u, NEW row, RowFit(k, row, t)
    PROVE  RowFit(k, row, u)
  <1> DEFINE w == Rule[k].window
             b == Rule[k].ban
             l == Rule[k].limit
  <1>1. w \in Nat /\ b \in Nat /\ l \in Nat /\ Capacity(Rule[k]) \in Nat
    BY RuleType, CapacityNat DEF Rules
  <1>2. t * l \in Nat /\ u * l \in Nat /\ t * l <= u * l
    BY <1>1, SMT
  <1> HIDE DEF w, b, l
  <1>3. /\ \A n \in Nat : n <= t + b => n <= u + b
        /\ \A n \in Nat : n <= t + w => n <= u + w
        /\ \A n \in Nat : n <= t + 2 * w + b => n <= u + 2 * w + b
    BY <1>1, SMT
  <1>4. \A n, c \in Nat : n <= t * l + c => n <= u * l + c
    <2>1. \A x, y, n, c \in Nat : x <= y /\ n <= x + c => n <= y + c
      BY SMT
    <2> QED
      BY <1>2, <2>1
  <1>5. InReach(Rule[k], u, row.state)
    <2>1. IsState(k, row.state) /\ InReach(Rule[k], t, row.state)
      BY DEF RowFit
    <2>2. CASE row.state = NoState
      BY <2>2, InReachNothing
    <2>3. ASSUME NEW a \in AlgorithmNames, row.state \in StatesOf(RuleFor(k, a))
          PROVE  InReach(Rule[k], u, row.state)
      <3>1. /\ row.state.banUntil \in Nat
            /\ row.state.algorithm = "fixed-window" => row.state.resetAt \in Nat
            /\ row.state.algorithm = "gcra" => row.state.tat \in Nat
        BY <2>3, RuleForType, StateTimes
      <3> QED
        BY <1>1, <1>3, <1>4, <2>1, <3>1 DEF InReach, w, b, l
    <2> QED
      BY <2>1, <2>2, <2>3 DEF IsState
  <1> QED
    BY <1>3, <1>5 DEF RowFit, w, b

LEMMA AlikeLater ==
    ASSUME NEW k \in Keys, NEW t \in Nat, NEW u \in Nat, t <= u, NEW row, NEW undeleted,
           RowFit(k, row, t), RowFit(k, undeleted, t), Alike(k, row, undeleted, t)
    PROVE  Alike(k, row, undeleted, u)
  <1> DEFINE l == Rule[k].limit
  <1>1. l \in Nat
    BY RuleType DEF Rules
  <1>2. t * l \in Nat /\ u * l \in Nat /\ t * l <= u * l
    BY <1>1, SMT
  <1> HIDE DEF l
  <1>3. \A x, y, n \in Nat : x <= y /\ n <= x => n <= y
    BY SMT
  <1>4. undeleted.resetAt \in Nat /\ undeleted.banUntil \in Nat /\ undeleted.expiresAt \in Nat
    BY DEF RowFit
  <1>5. ASSUME NEW other, RowFit(k, other, t), other.state.algorithm = "gcra"
        PROVE  other.state.tat \in Nat
    <2>1. other.state # NoState
      BY <1>5 DEF NoState
    <2>2. PICK a \in AlgorithmNames : other.state \in StatesOf(RuleFor(k, a))
      BY <1>5, <2>1 DEF RowFit, IsState
    <2> QED
      BY <1>5, <2>2, RuleForType, StateTimes
  <1>6. Twins(Rule[k], t, row.state, undeleted.state) => Twins(Rule[k], u, row.state, undeleted.state)
    BY <1>2, <1>3, <1>5 DEF Twins, l
  <1> QED
    BY <1>3, <1>4, <1>6 DEF Alike
-----------------------------------------------------------------------------

LEMMA RowsInit == Init => RowsInvariant
  <1> SUFFICES ASSUME Init PROVE RowsInvariant
    OBVIOUS
  <1>1. /\ clock = 0 /\ starts = 0 /\ shadow = table /\ DOMAIN table = Keys
        /\ \A p \in Processes : tx[p] = NoTx
    BY DEF Init
  <1>2. ASSUME NEW k \in Keys PROVE RowFit(k, table[k], 0)
    <2>1. table[k] \in {NoRow} \cup {Migrated(old) : old \in OldRows}
      BY DEF Init
    <2>2. CASE table[k] = NoRow
      BY <2>2, NoRowFit
    <2>3. ASSUME NEW old \in OldRows, table[k] = Migrated(old)
          PROVE  RowFit(k, table[k], 0)
      <3>1. old.count \in Nat /\ old.resetAt \in Nat /\ old.banUntil \in Nat
        BY OldRowsType
      <3>2. /\ Rule[k].window \in Nat /\ Rule[k].ban \in Nat
        BY RuleType DEF Rules
      <3>3. 0 <= 0 + 2 * Rule[k].window + Rule[k].ban
        BY <3>2, SMT
      <3>4. OldRowsInReach => old.resetAt <= 0 + Rule[k].window /\ old.banUntil <= 0 + Rule[k].ban
        BY <3>2 DEF OldRowsInReach
      <3>5. 0 \in Nat
        OBVIOUS
      <3>6. /\ table[k].count = old.count /\ table[k].resetAt = old.resetAt
            /\ table[k].banUntil = old.banUntil /\ table[k].state = NoState
            /\ table[k].expiresAt = 0
        BY <2>3 DEF Migrated
      <3>7. InReach(Rule[k], 0, NoState) /\ IsState(k, NoState)
        BY <3>5, InReachNothing
      <3> QED
        BY <3>1, <3>3, <3>4, <3>5, <3>6, <3>7 DEF RowFit
    <2> QED
      BY <2>1, <2>2, <2>3
  <1>3. \A k \in Keys : RowsAt(k, clock)
    BY <1>1, <1>2 DEF RowsAt, Alike
  <1>4. \A p \in Processes : TxRows(p)
    BY <1>1 DEF TxRows
  <1>5. clock \in 0 .. MaxClock /\ starts \in 0 .. MaxStarts
    BY <1>1, MaxClockType, MaxStartsType, SMT
  <1> QED
    BY <1>1, <1>3, <1>4, <1>5, BanInit, SchemaInit DEF RowsInvariant

\* The steps that leave the rows alone.
LEMMA OthersKeepRows ==
    ASSUME RowsInvariant, UNCHANGED <<table, shadow>>, clock' \in Nat, clock' >= clock,
           \A p \in Processes :
               \/ tx'[p] = tx[p] /\ pc'[p] = pc[p]
               \/ tx'[p] = NoTx
               \/ TxRows(p)'
    PROVE  (\A k \in Keys : RowsAt(k, clock)') /\ (\A p \in Processes : TxRows(p)')
  <1>1. ASSUME NEW k \in Keys PROVE RowsAt(k, clock)'
    <2>1. RowsAt(k, clock) /\ clock \in Nat /\ clock <= clock'
      BY SMT DEF RowsInvariant, BanInvariant
    <2>2. RowFit(k, table[k], clock') /\ RowFit(k, shadow[k], clock')
      BY <2>1, FitLater DEF RowsAt
    <2>3. Alike(k, table[k], shadow[k], clock')
      BY <2>1, AlikeLater DEF RowsAt
    <2> QED
      BY <2>2, <2>3 DEF RowsAt, RowFit, Alike
  <1>2. ASSUME NEW p \in Processes PROVE TxRows(p)'
    <2>1. TxRows(p)
      BY DEF RowsInvariant
    <2>2. CASE tx'[p] = tx[p] /\ pc'[p] = pc[p]
      BY <2>1, <2>2 DEF TxRows, RowsAt, RowFit, Alike
    <2>3. CASE tx'[p] = NoTx
      BY <2>3 DEF TxRows
    <2> QED
      BY <2>2, <2>3
  <1> QED
    BY <1>1, <1>2

\* A commit writes rows that fit the time of its SELECT, and so the clock.
LEMMA UpsertKeepsRows ==
    ASSUME RowsInvariant, NEW p \in Processes, Upsert(p)
    PROVE  (\A k \in Keys : RowsAt(k, clock)') /\ (\A q \in Processes : TxRows(q)')
  <1>1. /\ tx[p].key \in Keys /\ tx[p].now \in 0 .. clock /\ tx[p].row = table[tx[p].key]
        /\ RowsAt(tx[p].key, tx[p].now) /\ algorithm[p] \in AlgorithmNames
        /\ clock \in Nat /\ DOMAIN table = Keys /\ DOMAIN shadow = Keys
    BY DEF RowsInvariant, BanInvariant, TxCurrent, TxRows, Upsert
  <1>2. PICK k \in Keys : k = tx[p].key
    BY <1>1
  <1>3. PICK a \in AlgorithmNames : a = algorithm[p]
    BY <1>1
  <1>4. tx[p].now \in Nat /\ tx[p].now <= clock
    BY <1>1, SMT
  <1>5. PICK now \in Nat : now = tx[p].now
    BY <1>4
  <1> DEFINE new == WrittenRow(a, Evaluated(k, a, now, table[k]))
             kept == WrittenRow(a, Evaluated(k, a, now, shadow[k]))
  <1>6. /\ table' = [table EXCEPT ![k] = new] /\ shadow' = [shadow EXCEPT ![k] = kept]
        /\ tx' = [q \in Processes |-> NoTx] /\ clock' = clock
    BY <1>1, <1>2, <1>3, <1>5 DEF Upsert, Outdated
  <1>7. RowFit(k, table[k], now) /\ RowFit(k, shadow[k], now) /\ Alike(k, table[k], shadow[k], now)
    BY <1>1, <1>2, <1>5 DEF RowsAt
  <1>8. RowFit(k, new, now) /\ RowFit(k, kept, now) /\ Alike(k, new, kept, now)
    BY <1>7, WrittenFit, AlikeHit
  <1> HIDE DEF new, kept
  <1>9. RowFit(k, new, clock) /\ RowFit(k, kept, clock) /\ Alike(k, new, kept, clock)
    BY <1>1, <1>4, <1>5, <1>8, FitLater, AlikeLater
  <1>10. ASSUME NEW j \in Keys PROVE RowsAt(j, clock)'
    <2>1. CASE j = k
      <3>1. table'[j] = new /\ shadow'[j] = kept
        BY <1>1, <1>6, <2>1
      <3> QED
        BY <1>6, <1>9, <2>1, <3>1 DEF RowsAt, RowFit, Alike
    <2>2. CASE j # k
      <3>1. table'[j] = table[j] /\ shadow'[j] = shadow[j] /\ RowsAt(j, clock)
        BY <1>1, <1>6, <2>2 DEF RowsInvariant
      <3> QED
        BY <1>6, <3>1 DEF RowsAt, RowFit, Alike
    <2> QED
      BY <2>1, <2>2
  <1>11. \A q \in Processes : TxRows(q)'
    BY <1>6 DEF TxRows
  <1> QED
    BY <1>10, <1>11

\* cleanup takes rows away only when no hit can tell that they are gone.
LEMMA CleanupKeepsRows ==
    ASSUME RowsInvariant, NEW p \in Processes, Cleanup(p)
    PROVE  (\A k \in Keys : RowsAt(k, clock)') /\ (\A q \in Processes : TxRows(q)')
  <1>1. /\ table' = [k \in Keys |-> IF Expired(table[k]) THEN NoRow ELSE table[k]]
        /\ tx' = (IF table' = table THEN tx ELSE [q \in Processes |-> NoTx])
        /\ clock' = clock /\ shadow' = shadow /\ pc' = pc
    BY DEF Cleanup, Outdated
  <1>2. ASSUME NEW k \in Keys PROVE RowsAt(k, clock)'
    <2>1. RowsAt(k, clock) /\ clock \in Nat
      BY DEF RowsInvariant, BanInvariant
    <2>2. CASE Expired(table[k])
      <3>1. table'[k] = NoRow
        BY <1>1, <2>2
      <3>2. /\ table[k].resetAt \in Nat /\ table[k].banUntil \in Nat /\ table[k].expiresAt \in Nat
            /\ table[k].expiresAt # 0 => /\ table[k].resetAt <= table[k].expiresAt
                                         /\ table[k].banUntil <= table[k].expiresAt
        BY <2>1 DEF RowsAt, RowFit
      <3>3. /\ table[k].resetAt <= clock /\ table[k].banUntil <= clock
            /\ table[k].expiresAt <= clock
        BY <2>1, <2>2, <3>2, SMT DEF Expired
      <3>4. Alike(k, NoRow, shadow[k], clock)
        BY <2>1, <3>3 DEF RowsAt, Alike
      <3>5. RowFit(k, NoRow, clock)
        BY <2>1, NoRowFit
      <3> QED
        BY <1>1, <2>1, <3>1, <3>4, <3>5 DEF RowsAt, RowFit, Alike
    <2>3. CASE ~Expired(table[k])
      BY <1>1, <2>1, <2>3 DEF RowsAt, RowFit, Alike
    <2> QED
      BY <2>2, <2>3
  <1>3. ASSUME NEW q \in Processes PROVE TxRows(q)'
    <2>1. CASE table' = table
      <3>1. TxRows(q) /\ tx' = tx
        BY <1>1, <2>1 DEF RowsInvariant
      <3> QED
        BY <1>1, <2>1, <3>1 DEF TxRows, RowsAt, RowFit, Alike
    <2>2. CASE table' # table
      BY <1>1, <2>2 DEF TxRows
    <2> QED
      BY <2>1, <2>2
  <1> QED
    BY <1>2, <1>3

LEMMA RowsInductive == RowsInvariant /\ [Next]_vars => RowsInvariant'
  <1> SUFFICES ASSUME RowsInvariant, [Next]_vars PROVE RowsInvariant'
    OBVIOUS
  <1>1. BanInvariant' /\ SchemaInvariant'
    BY BanInductive, SchemaInductive DEF RowsInvariant
  <1>2. /\ clock \in Nat /\ clock >= clock /\ DOMAIN tx = Processes /\ DOMAIN pc = Processes
        /\ \A q \in Processes : pc[q] # "hit" => tx[q] = NoTx
    <2>1. clock \in Nat /\ DOMAIN tx = Processes /\ DOMAIN pc = Processes
      BY DEF RowsInvariant, BanInvariant, SchemaInvariant
    <2>2. \A q \in Processes : pc[q] # "hit" => tx[q] = NoTx
      BY DEF RowsInvariant, TxRows
    <2>3. clock >= clock
      BY <2>1, SMT
    <2> QED
      BY <2>1, <2>2, <2>3
  <1> DEFINE Rows == (\A k \in Keys : RowsAt(k, clock)') /\ (\A q \in Processes : TxRows(q)')
             Bounds == /\ clock' \in 0 .. MaxClock /\ starts' \in 0 .. MaxStarts
                       /\ DOMAIN shadow' = Keys
  <1>3. SUFFICES Rows /\ Bounds
    BY <1>1 DEF RowsInvariant
  <1>4. ASSUME UNCHANGED vars PROVE Rows /\ Bounds
    <2>1. UNCHANGED <<table, shadow, clock, tx, pc, starts>>
      BY <1>4 DEF vars, db
    <2>2. Bounds
      BY <2>1 DEF RowsInvariant
    <2>3. Rows
      BY <1>2, <2>1, OthersKeepRows
    <2> QED
      BY <2>2, <2>3
  <1>5. ASSUME Tick PROVE Rows /\ Bounds
    <2>1. UNCHANGED <<table, shadow, tx, pc, starts>>
      BY <1>5 DEF Tick, db
    <2>2. clock' \in Nat /\ clock' >= clock /\ clock' \in 0 .. MaxClock
      BY <1>2, <1>5, MaxClockType, SMT DEF Tick
    <2>3. Bounds
      BY <2>1, <2>2 DEF RowsInvariant
    <2>4. Rows
      BY <2>1, <2>2, OthersKeepRows
    <2> QED
      BY <2>3, <2>4
  <1>6. ASSUME NEW p \in Processes, Step(p) PROVE Rows /\ Bounds
    <2>1. Bounds
      <3>1. starts' = starts \/ starts' \in 0 .. MaxStarts
        <4>1. starts \in 0 .. MaxStarts
          BY DEF RowsInvariant
        <4>2. starts' = starts \/ (starts < MaxStarts /\ starts' = starts + 1)
          BY <1>6
          DEF Step, Start, CreateTable, CheckColumn, AddColumn, Read, Upsert, Busy, Cleanup, Down
        <4> QED
          BY <4>1, <4>2, MaxStartsType, SMT
      <3>2. clock' = clock /\ (shadow' = shadow \/ DOMAIN shadow' = DOMAIN shadow)
        BY <1>6
        DEF Step, Start, CreateTable, CheckColumn, AddColumn, Read, Upsert, Busy, Cleanup, Down
      <3> QED
        BY <3>1, <3>2 DEF RowsInvariant
    <2>2. CASE Start(p) \/ CreateTable(p) \/ CheckColumn(p) \/ AddColumn(p)
      <3>1. UNCHANGED <<table, shadow, clock, tx>> /\ pc[p] # "hit"
                /\ \A q \in Processes : q # p => pc'[q] = pc[q]
        BY <1>2, <2>2 DEF Start, CreateTable, CheckColumn, AddColumn, db, Goto
      <3> QED
        BY <1>2, <2>1, <3>1, OthersKeepRows
    <2>3. CASE Read(p)
      <3>1. PICK k \in Keys : tx' = [tx EXCEPT ![p] = [key |-> k, now |-> clock, row |-> table[k]]]
        BY <2>3 DEF Read
      <3>2. UNCHANGED <<table, shadow, clock>> /\ pc' = [pc EXCEPT ![p] = "hit"]
        BY <2>3 DEF Read, db, Goto
      <3>3. tx'[p] = [key |-> k, now |-> clock, row |-> table[k]] /\ pc'[p] = "hit"
        BY <1>2, <3>1, <3>2
      <3>4. TxRows(p)'
        <4>1. RowsAt(k, clock)
          BY DEF RowsInvariant
        <4> QED
          BY <3>2, <3>3, <4>1 DEF TxRows, RowsAt, RowFit, Alike
      <3>5. \A q \in Processes : q # p => tx'[q] = tx[q] /\ pc'[q] = pc[q]
        BY <1>2, <3>1, <3>2
      <3>6. \A q \in Processes : (tx'[q] = tx[q] /\ pc'[q] = pc[q]) \/ TxRows(q)'
        BY <3>4, <3>5
      <3> QED
        BY <1>2, <2>1, <3>2, <3>6, OthersKeepRows
    <2>4. CASE Upsert(p)
      BY <2>1, <2>4, UpsertKeepsRows
    <2>5. CASE Busy(p) \/ Down(p)
      <3>1. UNCHANGED <<table, shadow, clock>> /\ tx' = [tx EXCEPT ![p] = NoTx]
                /\ \A q \in Processes : q # p => pc'[q] = pc[q]
        BY <1>2, <2>5 DEF Busy, Down, db, Goto
      <3>2. tx'[p] = NoTx /\ \A q \in Processes : q # p => tx'[q] = tx[q]
        BY <1>2, <3>1
      <3> QED
        BY <1>2, <2>1, <3>1, <3>2, OthersKeepRows
    <2>6. CASE Cleanup(p)
      BY <2>1, <2>6, CleanupKeepsRows
    <2> QED
      BY <1>6, <2>2, <2>3, <2>4, <2>5, <2>6 DEF Step
  <1> QED
    BY <1>4, <1>5, <1>6 DEF Next
LEMMA RowsTyped == RowsInvariant => TypeOK
  <1> SUFFICES ASSUME RowsInvariant PROVE TypeOK
    OBVIOUS
  <1>1. clock \in Nat /\ clock \in 0 .. MaxClock /\ starts \in 0 .. MaxStarts
    BY DEF RowsInvariant, BanInvariant
  <1>2. /\ columns \in {NoTable} \cup SUBSET AddedColumns
        /\ pc \in [Processes -> {"down", "up", "hit"} \cup Starting]
    BY DEF RowsInvariant, SchemaInvariant, PastState, Starting
  <1>3. /\ algorithm \in [Processes -> AlgorithmNames] /\ DOMAIN table = Keys
        /\ promised \in [Keys -> Nat] /\ lastWriter \in [Keys -> AlgorithmNames]
    BY DEF RowsInvariant, BanInvariant
  <1>4. ASSUME NEW k \in Keys, NEW row, RowFit(k, row, clock) PROVE IsRowOf(k, row)
    <2>1. row.expiresAt \in Nat /\ row.expiresAt <= clock + 2 * Rule[k].window + Rule[k].ban
      BY <1>4 DEF RowFit
    <2>2. Rule[k].window \in Nat /\ Rule[k].ban \in Nat
      BY RuleType DEF Rules
    <2>3. row.expiresAt \in 0 .. clock + 2 * Rule[k].window + Rule[k].ban
      BY <1>1, <2>1, <2>2, SMT
    <2> QED
      BY <1>4, <2>3 DEF RowFit, IsRowOf, IsState
  <1>5. \A k \in Keys : IsRowOf(k, table[k]) /\ IsRowOf(k, shadow[k])
    BY <1>4 DEF RowsInvariant, RowsAt
  <1>6. ASSUME NEW p \in Processes, tx[p] # NoTx
        PROVE  pc[p] = "hit" /\ tx[p].key \in Keys /\ tx[p].now <= clock
    <2>1. TxRows(p) /\ TxCurrent(p)
      BY DEF RowsInvariant, BanInvariant
    <2>2. pc[p] = "hit" /\ tx[p].key \in Keys /\ tx[p].now \in 0 .. clock
      BY <1>6, <2>1 DEF TxRows, TxCurrent
    <2> QED
      BY <1>1, <2>2, SMT
  <1> QED
    BY <1>1, <1>2, <1>3, <1>5, <1>6 DEF TypeOK

LEMMA RowsMatch == RowsInvariant => MatchesSerialTable
  <1> SUFFICES ASSUME RowsInvariant, NEW k \in Keys, NEW a \in Offered
               PROVE  Evaluated(k, a, clock, table[k]).hit = Evaluated(k, a, clock, shadow[k]).hit
    BY DEF MatchesSerialTable
  <1>1. clock \in Nat /\ RowsAt(k, clock) /\ a \in AlgorithmNames
    BY OfferedType DEF RowsInvariant, BanInvariant
  <1> QED
    BY <1>1, AlikeHit DEF RowsAt

LEMMA WaitInReach ==
    ASSUME OldRowsInReach, NEW k \in Keys, NEW a \in AlgorithmNames, NEW t \in Nat, NEW row,
           RowFit(k, row, t), Rule[k].cost <= Rule[k].limit
    PROVE  Evaluated(k, a, t, row).hit.retryAfter <= Larger(Rule[k].window, Rule[k].ban)
  <1> DEFINE r   == RuleFor(k, a)
             out == Evaluated(k, a, t, row)
  <1>1. r \in Rules /\ r.algorithm = a
    BY RuleForType
  <1>2. Foreseen(r, t, out)
    <2>1. CASE a = "fixed-window"
      <3>1. ColumnState(row) \in FixedStates \cup {NoState} /\ InReach(r, t, ColumnState(row))
        BY ColumnStateFit, RuleForReach
      <3> QED
        BY <1>1, <2>1, <3>1, FixedWindowReach DEF Evaluated
    <2>2. CASE a # "fixed-window"
      <3>1. IsState(k, row.state) /\ InReach(r, t, row.state) /\ InReach(r, t, NoState)
        BY InReachNothing, RuleForReach DEF RowFit
      <3>2. SameState(row.state, a) \in {row.state, NoState}
        BY DEF SameState
      <3>3. SameState(row.state, a) \in StatesOf(r) \cup {NoState}
                /\ InReach(r, t, SameState(row.state, a))
        BY <3>1, <3>2, SameStateType
      <3> QED
        BY <1>1, <2>2, <3>3, EvaluateReach DEF Evaluated
    <2> QED
      BY <2>1, <2>2
  <1> HIDE DEF out
  <1>3. out.hit.retryAfter <= Larger(Rule[k].window, Rule[k].ban)
    BY <1>2, RuleForReach DEF Foreseen
  <1> QED
    BY <1>3 DEF out

LEMMA RowsBoundWaits ==
    ASSUME OldRowsInReach
    PROVE  RowsInvariant => CarriedWaitBounded
  <1> SUFFICES ASSUME RowsInvariant, NEW k \in Keys, NEW a \in Offered,
                      Rule[k].cost <= Rule[k].limit
               PROVE  Evaluated(k, a, clock, table[k]).hit.retryAfter
                          <= Larger(Rule[k].window, Rule[k].ban)
    BY DEF CarriedWaitBounded
  <1>1. clock \in Nat /\ RowFit(k, table[k], clock) /\ a \in AlgorithmNames
    BY OfferedType DEF RowsInvariant, BanInvariant, RowsAt
  <1> QED
    BY <1>1, WaitInReach

\* Every row, transaction and counter keeps to its range, and no row is kept for
\* longer than twice its rule's window and the ban.
THEOREM RowsTypeCorrect == Spec => []TypeOK
  BY RowsInit, RowsInductive, RowsTyped, PTL DEF Spec

\* However hits of several processes interleave, fail and are killed, and whatever
\* is cleaned up in between, a hit is answered as if all committed ones had run one
\* after the other on a table that keeps every row.
THEOREM SerialTable == Spec => []MatchesSerialTable
  BY RowsInit, RowsInductive, RowsMatch, PTL DEF Spec

\* Whatever algorithms a key's row went through, a blocked hit is told to wait for
\* a window or the ban at most, if the rows of an older version kept to that too.
THEOREM WaitsBounded ==
    ASSUME OldRowsInReach
    PROVE  Spec => []CarriedWaitBounded
  <1>1. RowsInvariant => CarriedWaitBounded
    BY RowsBoundWaits
  <1> QED
    BY <1>1, RowsInit, RowsInductive, PTL DEF Spec
=============================================================================
