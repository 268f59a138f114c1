\* Two requests, two rules, two stores; a request may end, so the system may stop.
CONSTANTS
    s1 = s1
    s2 = s2
    q1 = q1
    q2 = q2
    Requests = {q1, q2}
    Stores = {s1, s2}
    ActiveRules <- TwoRules
    FallbackStore = s2
    NoStore = NoStore
    OnStoreError = "allow"
    CustomDecisions <- FunctionDecisions
    NoDecision = NoDecision
SPECIFICATION Spec
INVARIANTS
    TypeOK
    ChargedOncePerStore
    FailsClosed
    EveryRuleCounts
    StrictestDecisionShown
PROPERTY
    EventuallyAnswered
CHECK_DEADLOCK FALSE
