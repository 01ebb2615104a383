SPECIFICATION FairSpec
CONSTANTS
    Nodes = {1}
    Services = {s1, s2}
    Provider = "libvirt"
    NfsServer = None
    ServesMedia = FALSE
    Fingerprints = {f1, f2}
    Configurations = {c1, plain}
    NoPlaybook = {plain}
    Operations = {"up", "deploy", "configure", "down", "destroy"}
    MaxWorkers = 2
    Foreign = {1}
    Surprises = {"power", "removal"}
    s1 = s1
    s2 = s2
    f1 = f1
    f2 = f2
    c1 = c1
    plain = plain
    Legacy = Legacy
    None = None
INVARIANTS
    TypeOK
    ReadyIsConfigured
    NoOrphan
PROPERTIES
    InstalledSystemKept
    InvocationsEnd
