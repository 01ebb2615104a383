SPECIFICATION FairSpec
CONSTANTS
    Clients = {a, b}
    Site = "local"
    Scheme = "url"
    MaxKills = 2
    None = None
    a = a
    b = b
PROPERTIES
    StoreSpec
    RetrySucceeds
