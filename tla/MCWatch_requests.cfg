SPECIFICATION FairSpec
CONSTANTS
    e1 = e1
    e2 = e2
    u1 = u1
    u2 = u2
    Scrapers = {s1, s2, s3}
    MovieScrapers = {s1}
    Embeds = {e1, e2}
    Urls = {u1, u2}
    EmbedLists <- SomeLists
    UrlLists <- SomeUrls
    NoMore = NoMore
INVARIANTS
    TypeOK
    NothingLost
    EmbedResolvedOnce
    RecordedOnce
PROPERTIES
    KeepsContract
    ClosedIsQuiet
    RequestEnds
CHECK_DEADLOCK FALSE
