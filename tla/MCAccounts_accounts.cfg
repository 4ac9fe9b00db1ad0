SPECIFICATION AllSpec
CONSTANTS
    None = None
    PublicKeys = {k1, k2}
    Emails = {e1}
    Invites = {i1}
    StaticCode = static
    Challenges = {c1}
    Requests = {r1, r2, r3}
    Tokens = {t1}
    Keys = {key}
    Visits = {v1, v2}
    WallTTL = 1
    MaxEntries = 1
    MaxClock = 3
    Owners = {o1}
    Words = {w1, w2}
    OldWord = w1
    Links = {l1, l2}
    People = {p1, p2, p3}
    Bootstrap = {p1, p2}
    Acts = {a1, a2}
    MaxStart = 1
    Items = {n1}
    Lists = {h1, h2}
    Episodes = {d1}
    Saves = {s1, s2}
    Cap = 1
    MaxFile = 2
    Spots = {1, 2}
    Retention = 0
    MaxDay = 2
SYMMETRY Symmetry
INVARIANTS
    Typed
    ServesOne
    StaysOut
    FlagFalls
PROPERTIES
    LibraryHolds
CHECK_DEADLOCK FALSE
