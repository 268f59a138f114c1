\* Every algorithm, no cap; the hits of k1 and k5 may be a tick late.
CONSTANTS
    k1 = k1
    k2 = k2
    k3 = k3
    k4 = k4
    k5 = k5
    Keys = {k1, k2, k3, k4, k5}
    Rule <- RateRules
    MaxLag <- RateLags
    MaxEntries = 0
    SweepInterval = 2
    MaxCount = 4
    MaxClock = 6
SPECIFICATION FocusSpec
INVARIANTS
    RateLimited
    BanHonoured
    RemainingExact
    RetryAfterHonestWhereExact
    InlineHitMatchesReference
PROPERTIES
    CleanupInvisible
    ImplementsMeter
