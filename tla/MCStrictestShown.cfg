\* A plugin rule and a route option of one limiter.
CONSTANTS
    c1 = c1
    c2 = c2
    q1 = q1
    q2 = q2
    q3 = q3
    CustomStores = {c1, c2}
    WithCleanup = {c1}
    WithClose = {c1, c2}
    CloseThrows = {c2}
    WithAlgorithmHit = {c1}
    Requests = {q1, q2}
    Applications <- RouteApplication
    NoDecision = NoDecision
SPECIFICATION Spec
CHECK_DEADLOCK FALSE
INVARIANT
    StrictestShown
