SPECIFICATION Spec
CONSTANTS
    Callers = {c1, c2}
    Workers = {w1, w2}
    Partners = {p1, p2}
    NoPartner = NoPartner
    Levels = {3}
    MaxTries = 2
    MaxCrashes = 1
    MaxRaises = 0
    MaxExpiries = 0
PROPERTIES
    RestartIdempotent
SYMMETRY Symmetry
