SPECIFICATION FairSpec
CONSTANTS
    Jobs = {1, 2}
    Magnets = {}
    Gids = {1, 2}
    MaxActive = 1
    Ops = {"pause", "resume", "retry"}
    MaxOps = 1
    Faults = {"rpc", "db", "restart", "forget", "full"}
    MaxFault = 1
    None = None

    
PROPERTIES
    ForgottenRecovers
    PendingSubmitted
