SPECIFICATION FairSpec
CONSTANTS
    Keys = {k1}
    Targets = {t1}
    Replicas = {r1}
    Slots = 1
    MaxRow = 2
    MaxRevive = 1
    MaxRestart = 1
    MaxDbError = 0
    None = None
PROPERTIES
    DownloadsEnd
    PendingDrains
