SPECIFICATION Spec
CONSTANTS
    wFc = wFc
    wFp = wFp
    wDd = wDd
    k1 = k1
    p1 = p1
    p2 = p2
    Players = {p1, p2}
    FlushSize = 1
    MaxChanges = 1
    MaxFaults = 1
    Keys = {k1, k2}
    k2 = k2
    Rankers = {wDd, wFc, wFp}
    Style <- MCStyle
    KeysOf <- MCKeysOf
    Schedules <- MCSchedules
    NoKey = NoKey
INVARIANTS
    TypeOK
PROPERTIES
    OnlyUnrankedGo
    PlayersConverge
    RankingsConverge
