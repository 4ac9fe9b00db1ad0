SPECIFICATION Spec
CONSTANTS
    Keys = {k1}
    Targets = {t1}
    Replicas = {r1, r2}
    Slots = 1
    MaxRow = 2
    MaxRevive = 1
    MaxRestart = 1
    MaxDbError = 1
    None = None
INVARIANTS
    TypeOK
    ReadyHasItsFile
    
    WithinSlots
PROPERTIES
    ReadyIsKept
SYMMETRY Symmetry
