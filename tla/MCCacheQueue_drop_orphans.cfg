SPECIFICATION Spec
CONSTANTS
    Keys = {k1}
    Targets = {t1}
    Replicas = {r1}
    Slots = 1
    MaxRow = 1
    MaxRevive = 0
    MaxRestart = 0
    MaxDbError = 0
    None = None
INVARIANTS
    DroppedFileGone
