SPECIFICATION Spec
SYMMETRY Symmetry
CONSTANTS
    Nodes = {1}
    Services = {s1}
    Provider = "libvirt"
    NfsServer = None
    ServesMedia = FALSE
    Fingerprints = {f1}
    Configurations = {c1}
    NoPlaybook = {}
    Operations = {"configure", "destroy"}
    MaxWorkers = 2
    Foreign = {1}
    Surprises = {}
    s1 = s1
    f1 = f1
    c1 = c1
    Legacy = Legacy
    None = None
PROPERTIES
    UnmanagedProtected
