\* A sliding window.
CONSTANTS
    k1 = k1
    k2 = k2
    k3 = k3
    k4 = k4
    k5 = k5
    Keys = {k2}
    Rule <- RateRules
    MaxLag <- RateLags
    MaxEntries = 0
    SweepInterval = 2
    MaxCount = 4
    MaxClock = 6
SPECIFICATION FocusSpec
INVARIANT
    RetryAfterHonest
