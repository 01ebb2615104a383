SPECIFICATION FairSpec
CONSTANTS
    Clients = {a, b}
    Site = "bastion"
    Scheme = "url"
    MaxKills = 2
    None = None
    a = a
    b = b
PROPERTIES
    RetrySucceeds
