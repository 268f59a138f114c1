\* A window of two ticks, and a ban that outlives it.
CONSTANTS
    h1 = h1
    h2 = h2
    h3 = h3
    i1 = i1
    i2 = i2
    Hits = {h1, h2, h3}
    Instances = {i1, i2}
    InstanceOf <- TwoInstances
    AtomicSupported = {i1}
    MaxFailures = 1
    Limit = 1
    Window = 2
    Cost = 1
    Ban = 3
    MaxClock = 3
SYMMETRY SameInstance
SPECIFICATION Spec
CHECK_DEADLOCK FALSE
INVARIANTS
    TypeOK
    FixedRate
    ExpiryRearmed
PROPERTIES
    BanHonoured
