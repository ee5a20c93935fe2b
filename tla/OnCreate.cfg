SPECIFICATION FairSpec
CONSTANTS
    Callers = {c1, c2}
    Workers = {w1, w2}
    Partners = {p1, p2}
    NoPartner = NoPartner
    Levels = {1, 2, 3}
    MaxTries = 2
    MaxCrashes = 1
    MaxRaises = 1
    MaxExpiries = 1
INVARIANTS
    OneRequestPerKey
    DispatchedOncePerRun
PROPERTIES
    ImplementsLifecycle
    LeavesNew
