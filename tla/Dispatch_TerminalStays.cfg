SPECIFICATION Spec
CONSTANTS
    Partners = {p1, p2}
    NoPartner = NoPartner
    Channels = 1
    Servers = {s1}
    Workers = {w1}
    OperatorTargets = {"CANCELLED"}
    Replies = {"accepted", "rejected"}
    MaxChain = 0
    MaxDispatches = 1
    MaxTries = 2
    MaxCrashes = 0
    MaxRaises = 0
PROPERTY TerminalStays
CHECK_DEADLOCK FALSE
