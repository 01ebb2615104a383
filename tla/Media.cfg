SPECIFICATION MCSpec
CONSTANTS
    TargetSize = 2
    Pieces = 2
    Home = 2
    Space = 2
    MaxSize = 3
    MaxDeploys = 2
    Virtual = FALSE
    Builders = {u, v}
    Outputs = 2
    MaxBuilds = 8
    MaxKills = 3
    MaxFlaws = 2
    Uploaders = {u, v, w}
    Desk <- TwoDesks
    MaxCuts = 3
    MaxRebuilds = 2
    u = u
    v = v
    w = w
    None = None
INVARIANTS
    MarkerMeansRestored
PROPERTIES
    UntouchedUntilVerified
    LeavesComplete
    StoreSpecs
    WorkEnds
