SPECIFICATION Spec
CONSTANTS
    Partners = {p1, p2}
    NoPartner = NoPartner
    Channels = 1
    Servers = {}
    Workers = {w1, w2}
    OperatorTargets = {"CANCELLED"}
    Replies = {"accepted", "rejected", "in_progress", "done"}
    MaxChain = 1
    MaxDispatches = 2
    MaxTries = 2
    MaxCrashes = 0
    MaxRaises = 0
INVARIANTS
    AttemptNumbersGapless
PROPERTIES
    FollowsLifecycle
SYMMETRY Symmetry
VIEW WithoutRecords
CHECK_DEADLOCK FALSE
