SPECIFICATION Spec
CONSTANTS
    Jobs = {1}
    Magnets = {}
    Gids = {1, 2}
    MaxActive = 1
    Ops = {}
    MaxOps = 0
    Faults = {"rpc"}
    MaxFault = 1
    None = None
INVARIANTS
    OneWriter
