SPECIFICATION FairSpec
CONSTANTS
    Invocations = {a, b}
    Keys = {1, 2}
    Bastion = TRUE
    None = None
    a = a
    b = b
INVARIANTS
    WorkIsCovered
    ContentionHasAWinner
    LossIsReported
PROPERTIES
    LeasesReturn
