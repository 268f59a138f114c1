\* gcra by script or not, token buckets and sliding windows; EVALs may fail.
CONSTANTS
    h1 = h1
    h2 = h2
    h3 = h3
    i1 = i1
    i2 = i2
    Hits = {h1, h2, h3}
    Instances = {i1, i2}
    InstanceOf <- TwoInstances
    AtomicSupported = {i1, i2}
    RuleChoices <- EveryRule
    MaxLag = 2
    MaxFailures = 2
    MaxClock = 5
SYMMETRY SameInstance
SPECIFICATION Spec
CHECK_DEADLOCK FALSE
INVARIANTS
    TypeOK
    BurstRate
    BanHonoured
    MatchesReference
    NeverTooStrict
