SPECIFICATION Spec
CONSTANTS
    Jobs = {1, 2}
    Magnets = {2}
    Gids = {1, 2, 3}
    MaxActive = 1
    Ops = {"pause", "delete"}
    MaxOps = 2
    Faults = {"forget"}
    MaxFault = 1
    None = None
INVARIANTS
    TypeOK
    WrittenOnce
