SPECIFICATION AllSpec
CONSTANTS
    Requests = {r1, r2}
    RootsTTL = 1
    ItemsTTL = 1
    LastTick = 2
    Failures = 1
    MaxNodes = 4
    MaxDepth = 1
    MaxTitles = 3
    Channels = {c1, c2}
    Hours = 1
    Budgets = {1}
    Rounds = 2
    Cost = 1
    MaxCalls = 1
    MaxConvs = 1
    MaxAsked = 3
    Seasons = {1, 2}
    Numbers = {1, 2}
    Libraries <- SmallLibraries
    Traits <- SmallTraits
    Calls = {k1, k2, k3}
    MaxLogins = 4
    MaxRevokes = 2
    MaxFailures = 1
    Sources = {s1, s2}
    TTL = 2
    LastProbe = 4
    MaxSweeps = 3
    FreshFor = 1
    LocalFor = 1
    StaleFor = 2
    LastTime = 3
    Nobody = Nobody
    Dirs = {1, 2}
    Scores = {0, 1, 2}
    FileKinds <- SmallKinds
    MaxFiles = 2
    Invites = {1}
    MaxSessions = 2
    MaxOps = 3
    MaxWait = 2
SYMMETRY Symmetry
INVARIANTS
    Typed
    
    
    
PROPERTIES
    SharedWork
    
    KnownIsServed
CHECK_DEADLOCK FALSE
