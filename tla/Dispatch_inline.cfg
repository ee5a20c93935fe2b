SPECIFICATION FairSpec
CONSTANTS
    Partners = {p1, p2}
    NoPartner = NoPartner
    Channels = 1
    Servers = {s1}
    Workers = {w1}
    OperatorTargets = {"CANCELLED", "DISPATCHED"}
    Replies = {"accepted", "rejected"}
    MaxChain = 1
    MaxDispatches = 1
    MaxTries = 2
    MaxCrashes = 1
    MaxRaises = 2
INVARIANTS
    MessageDeliveredOnce
    DispatchIsWatched
PROPERTIES
    OnlyStaleFailure
    PerformLostOnlyByDrain
    DispatchEnds
VIEW WithoutRecords
CHECK_DEADLOCK FALSE
