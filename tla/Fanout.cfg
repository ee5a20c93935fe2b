CONSTANTS
    Requester = "user"
    Partners = {"p1"}
    NoPartner = "none"
    Devices <- MCDevices
    Deployments <- MCDeployments
    Beginnings = {"ABSENT", "DISPATCHED"}
    Known = {"user"}
    Workers = {1, 2}
    BatchSize = 2
    MaxAttempts = 2
    MaxEvents = 2
    MaxMessages = 2
    MaxAborts = 1
SPECIFICATION Spec
INVARIANTS AnnouncedOnce MailNotRepeated
PROPERTIES LiveDevicesKept EveryMessageSettles
CHECK_DEADLOCK FALSE
