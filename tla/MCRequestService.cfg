SPECIFICATION Spec
CONSTANTS
    Partners = {p1, p2}
    Dates = {d1, d2}
    Reasons = {r1, r2}
    Servers = {s1, s2}
    NoPartner = NoPartner
    NoDate = NoDate
    NoReason = NoReason
    MaxHistory = 16
INVARIANTS
    AuditTrail
    PaidProvenance
PROPERTIES
    ImplementsLifecycle
    BackOnlyByDrain
SYMMETRY Symmetry
CHECK_DEADLOCK FALSE
