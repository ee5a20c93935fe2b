SPECIFICATION FairSpec
CONSTANTS
    Messages = {m1}
    Workers = {w1, w2}
    MidCommit = TRUE
    BatchSize = 1
    MaxAttempts = 3
    Visibility = 1
    RetryBase = 1
    MaxCrashes = 1
PROPERTY EventuallySettled
CHECK_DEADLOCK FALSE
