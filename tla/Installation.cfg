SPECIFICATION MCSpec
CONSTANTS
    Invocations = {p1, p2}
    Method = "golden-restore"
    Commands = {"up", "reinstall", "down", "destroy", "on", "off", "restart"}
    FaultAt = {"planning", "recording", "guarding", "stopping", "undefining", "unlinking", "creating", "defining", "launching", "starting", "polling", "waiting", "detaching", "draining", "reading", "redefining", "booting", "committing", "halting", "settling", "resetting", "forgetting"}
    MaxFaults = 2
    MaxDeploys = 2
    MaxRetries = 3
    PowerFails = TRUE
    MaxAttempts = 3
    MaxRefusals = 2
    Nodes = {p1, p2}
    NodeOf <- OwnNode
    MaxBreaks = 1
    Other = Other
    p1 = p1
    p2 = p2
    None = None
INVARIANTS
    TypesOK
    MediaDetached
    NewMeansNothing
    OutputIsOwn
    CapturedAtRest
PROPERTIES
    MarkedSystemOnly
    MediaStay
    CapturesStay
    WorkEnds
