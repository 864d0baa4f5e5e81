SPECIFICATION AlgorithmsSpec
CONSTANTS
    Topics = {"money", "evidence", "book", "cache", "candles", "ladder", "revalue"}
    Idle = Idle
    Nothing = Nothing
    Garbled = Garbled
    Unknown = Unknown
    Meta = Meta
    Scenarios <- MCScenarios
    Frames = 2
    MoneyFills = 1
    MaxSize = 2
    Kinds = {"market", "gll", "limit"}
    Markets = {"m1", "m2"}
    Plans <- MCPlans
    Starts = {0, 1, 2}
    StartPrice <- MCStartPrice
    Readers = {c1, c2}
    CacheKeys = {k1, k2, k3}
    MaxEntries = 2
    TTL = 1
    MaxTime = 2
    MaxCalls = 4
    MonthStarts <- MCMonthStarts
    MaxDay = 9
    MaxDaily = 3
    Weekday = 4
    Spans <- MCSpans
    Budgets = {1, 50, 333, 1000, 5000}
    Froms = {0, 1, 59, 1439}
    Books <- MCBooks
    Prices = {2, 5}
    Cash = 10
    Spot = 4
    Extra = 1
    MaxTicks = 3
CHECK_DEADLOCK FALSE
INVARIANTS
    MoneySound
    EvidenceSound
    BookSound
    CacheSound
    ChartSound
    RevaluedSound
