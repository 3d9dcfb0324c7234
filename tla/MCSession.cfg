SPECIFICATION Spec
CONSTANTS
    t1 = t1
    t2 = t2
    u1 = u1
    u2 = u2
    Tab = {t1, t2}
    User = {u1, u2}
    NoUser = NoUser
    MaxTokens = 3
    MaxFlows = 2
    MaxFaults = 1
    Scenarios <- MCScenarios
INVARIANTS TypeOK  ActsAsShown SignedOutStays StateUsedOnce
CHECK_DEADLOCK FALSE
PROPERTY LoadsEventually
