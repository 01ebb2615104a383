SPECIFICATION Spec
SYMMETRY Symmetry
CONSTANTS
    Nodes = {1, 2}
    Services = {s1, s2}
    Provider = "helvetios"
    NfsServer = 1
    ServesMedia = TRUE
    Fingerprints = {f1}
    Configurations = {c1}
    NoPlaybook = {}
    Operations = {"up", "down"}
    MaxWorkers = 2
    Foreign = {}
    Surprises = {}
    s1 = s1
    s2 = s2
    f1 = f1
    c1 = c1
    Legacy = Legacy
    None = None
INVARIANTS
    Exclusive
    ConfigurationNeedsEveryNode
    UpDelivers
    FailureIsRecorded
PROPERTIES
    StorageOutlivesClients
