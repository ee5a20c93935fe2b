SPECIFICATION FairSpec
CONSTANTS
    Partners = {p1, p2}
    Handlers = {h1, h2}
    Pollers = {q1, q2}
    MaxSent = 2
    MaxDispatches = 2
    MaxDrops = 1
CHECK_DEADLOCK FALSE
INVARIANTS
    AppliedOnce
    OwnWord
PROPERTIES
    FollowsLifecycle
    WebhookHeard
