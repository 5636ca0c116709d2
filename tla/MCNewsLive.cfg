SPECIFICATION Spec
CONSTANTS
    r1 = r1
    r2 = r2
    a1 = a1
    wRss = wRss
    wApi = wApi
    wBody = wBody
    wBodyNow = wBodyNow
    wDedup = wDedup
    wEnrich = wEnrich
    wAll = wAll
    wFacts = wFacts
    wStories = wStories
    NoItem = NoItem
    RssItems = {r1}
    ApiItems = {}
    Linked = {r1}
    Evergreen = {r1}
    Similar <- MCSimilar
    FeedLens = {1}
    PageLens = {0, 4}
    LongLen = 2
    MaxAttempts = 2
    Workers = {wRss, wBody, wBodyNow, wDedup, wEnrich}
    KindOf <- MCAllKinds
    MaxFaults = 1
INVARIANT
    AttemptsAreBounded
PROPERTIES
    BodiesResolve
    EveryItemIsJudged
