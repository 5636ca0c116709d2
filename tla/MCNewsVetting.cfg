SPECIFICATION Spec
CONSTANTS
    r1 = r1
    r2 = r2
    a1 = a1
    wRss = wRss
    wApi = wApi
    wBody = wBody
    wBodyNow = wBodyNow
    wDedup = wDedup
    wEnrich = wEnrich
    wAll = wAll
    wFacts = wFacts
    wStories = wStories
    NoItem = NoItem
    RssItems = {r1}
    ApiItems = {a1}
    Linked = {r1}
    Evergreen = {}
    Similar <- MCSimilar
    FeedLens = {3}
    PageLens = {0}
    LongLen = 2
    MaxAttempts = 1
    Workers = {wRss, wApi, wAll, wFacts, wStories}
    KindOf <- MCAllKinds
    MaxFaults = 1
INVARIANTS
    TypeOK
    NeverHiddenTogether
    TextIsVetted
PROPERTIES
    DuplicatesStayHidden
    ImplementsItemLife
