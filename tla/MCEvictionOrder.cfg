\* Three keys, a cap of two records, sweeps at least two ticks apart.
CONSTANTS
    k1 = k1
    k2 = k2
    k3 = k3
    Keys = {k1, k2, k3}
    Rule <- CapRules
    MaxLag <- NoLags
    MaxEntries = 2
    SweepInterval = 2
    MaxCount = 2
    MaxClock = 5
SPECIFICATION EvictionSpec
PROPERTY
    ExpiredEvictedFirst
