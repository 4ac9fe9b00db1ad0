SPECIFICATION AllSpec
CONSTANTS
    Users = {u1, u2}
    Episodes = {e1}
    Replicas = {r1, r2}
    Limit = 2
    Lookback = 2
    Horizon = 2
    ScheduleKeep = 2
    LedgerKeep = 5
    Every = 1
    MaxSlip = 2
    MaxRun = 1
    MaxTime = 6
    MaxFault = 1
    MaxChange = 1
    Rebuilders = {b1, b2}
    Slots = {1, 2, 3}
    Data <- SmallData
    NoEtag = NoEtag
    ForceEmptyDb = ForceEmptyDb
    ForcedResync = ForcedResync
    Mixed = Mixed
    StartVersion = 1
    MaxVersion = 3
    MaxRuns = 2
    Clicks = {c1, c2}
    Drains = {d1, d2}
    Titles = {t1, t2, t3}
    Buckets = 2
    MaxNight = 3
    LocalLife = 1
    StoredLife = 2
    LastVersion = 2
    LastHour = 2
    Images <- SmallImages
    Bad = {3}
    Stores = 1
    Starts = 4
    Nobody = Nobody
    Payments <- SmallPayments
    Viewers = {v1, v2}
    ListTTL = 2
    Window = 1
    LastTick = 3
    Readers = {g1, g2}
    Writers = {w1}
    NoValue = NoValue
    TTL = 2
    MaxCall = 1
    LastTime = 4
    MaxWrite = 2
    MaxError = 1
    Items <- SmallItems
    RelationSets <- SmallRelations
    OverrideSets <- SmallOverrides
    MaxItems = 3
SYMMETRY Symmetry
INVARIANTS
    Typed
    MailedOnce
    UpkeepHolds
    
PROPERTIES
    ReplacesWhole
    CachesHold
CHECK_DEADLOCK FALSE
