SPECIFICATION MCSpec
CONSTANTS
    Invocations = {p1, p2}
    Golden = TRUE
    Commands = {"up", "reinstall", "down", "destroy", "on", "off", "restart", "verify"}
    FaultAt = {"planning", "opening", "recording", "forcing", "clearing2", "clearing1", "inserting2", "inserting1", "overriding", "powering", "starting", "polling", "ejecting2", "ejecting1", "booting", "committing", "removing2", "removing1", "cutting", "forgetting", "halting", "settling", "resetting"}
    MaxFaults = 2
    MaxDeploys = 2
    Legacy = "answers"
    Surprises = {"power", "session"}
    Neighbour = Neighbour
    MaxLosses = 2
    MaxSize = 7
    MaxByte = 9
    Chunk = 3
    p1 = p1
    p2 = p2
    None = None
INVARIANTS
    TypesOK
    MediaDetached
    InstallerIsRecorded
    TunnelsEnd
    OpenIsServed
    Slices
PROPERTIES
    MarkedSystemOnly
    ServesWhileOwned
    WorkEnds
