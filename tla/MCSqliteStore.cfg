\* One key, three starts: each process may come back with another algorithm.
CONSTANTS
    p1 = p1
    p2 = p2
    k1 = k1
    k2 = k2
    Processes = {p1, p2}
    Keys = {k1}
    Rule <- SqliteRules
    Offered = {"fixed-window", "sliding-window", "token-bucket", "gcra"}
    OldRows <- OldVersionRows
    MaxStarts = 3
    MaxCount = 3
    MaxClock = 4
SYMMETRY Interchangeable
SPECIFICATION Spec
CHECK_DEADLOCK FALSE
INVARIANTS
    TypeOK
    SchemaReady
    MatchesSerialTable
    BanHonoured
    CarriedWaitBounded
