SPECIFICATION Spec
CONSTANTS
    Loads = {d1}
    Sources = {s1, s2}
    TTL = 2
    LastTick = 4
    MaxSweeps = 3
INVARIANTS
    EmptyIsReachable
CHECK_DEADLOCK FALSE
