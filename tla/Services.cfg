SPECIFICATION MCSpec
CONSTANTS
    Attempts = 3
    Timeout = 2
    BaseDelay = 1
    MaxDelay = 2
    Threshold = 2
    ResetTimeout = 3
    CacheTtl = 3
    FetchTime = 1
    Longest = 3
    Skew = 4
    Lifetimes = {2, 6}
    Kids = {"k1", "k2"}
    Requests = {"r1", "r2"}
    Ttl = 2
    LongestFetch = 1
    MaxAge = 5
    Ids = {1, 2, 3, 4}
    Times = {1, 2}
    PageLimit = 2
    Rows = {"r1", "r2", "r3"}
    Workers = {"w1", "w2"}
    RetentionDays = 1
    BatchSize = 2
    DayHours = 3
    WeekDays = 3
    Horizon = 7
    Starts = {0, 1, 2, 3, 4, 5, 6, 7, 8}
    MaxAmount = 5
    Changes = {4, 5, 6}
    Instants = {0, 1, 4, 6}
    Confidences = {0, 30, 70, 120}
    NotANumber = 1000
    ConfidenceThreshold = 70
    MaxHits = 2
    Subjects = {"u1", "u2"}
    Partners = {"p1", "p2"}
    Clients = {"g1"}
INVARIANTS TypesOK SkewCovers ListFresh VerdictsSound PagesSound ForgottenOnce
INVARIANTS DeadlinesRight StatesSound CategoriesSound MatchesSound AccessSound DeliveriesReported
PROPERTIES BreakerQuiet Recovers
CHECK_DEADLOCK FALSE
