SPECIFICATION Spec
CONSTANTS
    markis = markis
    ann = ann
    bob = bob
    m1 = m1
    m2 = m2
    o = o
    far = far
    p1 = p1
    p2 = p2
    pick = pick
    t1 = t1
    t2 = t2
    s1 = s1
    s2 = s2
    w1 = w1
    w2 = w2
    Leagues = {m1, m2, o, far}
    Users = {markis, ann, bob}
    Players = {p1, p2}
    Markis = markis
    UserLeagues <- MCUserLeagues
    OwnersOf <- MCOwnersOf
    Rosters <- MCRosters
    MaxLeagues = 15
    PerManager = 3
    Syncers = {s1}
    NoLeague = NoLeague
    MaxFaults = 1
    MaxMoves = 0
    Trades = {t2}
    LeagueOf <- MCLeagueOf
    WeekOf <- MCWeekOf
    AssetsOf <- MCAssetsOf
    Drafting = {}
    TradeSyncers = {w1}
    Batch = 1
    MaxWeeks = 1
    MaxWeek = 2
    NoTrade = NoTrade
INVARIANTS
    TypeOK
    OneHopOnly
    AssetsAreNotDoubled
    OnlyLeaguematesAreAssessed
PROPERTIES
    FlagsAreKept
