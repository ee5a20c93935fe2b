SPECIFICATION Spec
CONSTANTS
    Messages = {m1, m2, m3}
    Workers = {w1, w2}
    MidCommit = FALSE
    BatchSize = 2
    MaxAttempts = 2
    Visibility = 2
    RetryBase = 1
    MaxCrashes = 1
INVARIANTS
    DuplicatesOnlyByCrash
PROPERTY SettledForGood
SYMMETRY Symmetry
CHECK_DEADLOCK FALSE
