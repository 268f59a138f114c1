\* Three keys compete for a cap of two records.
CONSTANTS
    k1 = k1
    k2 = k2
    k3 = k3
    Keys = {k1, k2, k3}
    Rule <- CapRules
    MaxLag <- CapLags
    MaxEntries = 2
    SweepInterval = 2
    MaxCount = 2
    MaxClock = 5
SPECIFICATION EvictionSpec
INVARIANTS
    TypeOK
    WithinCapacity
    OrderIsRecency
PROPERTIES
    DropsLeastRecentOnly
    ExpiredPurged
