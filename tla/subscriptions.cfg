SPECIFICATION Spec
CONSTANTS
    Parts = {"events", "mids", "candles", "delivery", "paths", "base"}
    Off = Off
    None = None
    Reader = Reader
    All = All
    Owners = {o1, o2}
    Coins = {k1, k2}
    Intervals = {i1, i2}
    Types = {t1}
    EventConns = 3
    EventRotations = 2
    MarketConns = 2
    CandleConns = 1
    MaxHeld = 3
    MaxEvents = 4
    DeliveryConns = 3
    DeliveryRotations = 1
    MaxLosses = 2
    PathConns = 2
    Buffer = 2
    MaxUpdates = 4
SYMMETRY Symmetry
CHECK_DEADLOCK FALSE
INVARIANTS
    EventsCovered
    MarketSound
    DeliverySound
    PathsSound
    BaseSound
