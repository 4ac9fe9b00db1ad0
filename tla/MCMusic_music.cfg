SPECIFICATION AllSpec
CONSTANTS
    Tracks = {1, 2}
    Urls = {u1, u2}
    NoUrl = NoUrl
    Names = {1, 2}
    NameOf <- SameName
    Slots = 1
    MaxAttempts = 2
    MirrorBatch = 1
    PickStatuses <- SettledStatuses
    MaxEdit = 2
    MaxFault = 1
    Runs = {r1, r2}
    Content <- Editions
    MaxToken = 2
    MaxPlaylist = 1
SYMMETRY Symmetry
INVARIANTS
    Typed
    
    PlaylistsHold
