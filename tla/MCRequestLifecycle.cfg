\* Seven applications, three requests; a request may end, so the system may stop.
CONSTANTS
    c1 = c1
    c2 = c2
    q1 = q1
    q2 = q2
    q3 = q3
    CustomStores = {c1, c2}
    WithCleanup = {c1}
    WithClose = {c1, c2}
    CloseThrows = {c2}
    WithAlgorithmHit = {c1}
    Requests = {q1, q2, q3}
    Applications <- AllApplications
    NoDecision = NoDecision
SYMMETRY SameRequests
SPECIFICATION Spec
CHECK_DEADLOCK FALSE
INVARIANTS
    TypeOK
    CountedByEveryRule
    HeadersHonest
    HeaderFamilies
    FailsClosed
    StoresShared
    OneTimerPerStore
    StopReleases
