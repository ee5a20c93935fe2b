SPECIFICATION Spec
CONSTANTS
    Partners = {p1, p2}
    NoPartner = NoPartner
    Channels = 1
    Servers = {}
    Workers = {w1}
    OperatorTargets = {}
    Replies = {"accepted", "rejected"}
    MaxChain = 1
    MaxDispatches = 1
    MaxTries = 2
    MaxCrashes = 0
    MaxRaises = 0
INVARIANT DeclinedNotAskedAgain
CHECK_DEADLOCK FALSE
