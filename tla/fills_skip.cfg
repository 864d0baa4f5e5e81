SPECIFICATION Spec
CONSTANTS
    Off = Off
    MaxFills = 2
    FillFaults = 1
    PageLimit = 1
    Window = 1
    MaxBook = 2
    MaxPushes = 1
    ExchangeFaults = 2
    Scopes = {1, 2}
    First = 1
    MaxConns = 2
    MaxWatches = 4
    MaxScopes = 1
    ProjectionFaults = 1
CHECK_DEADLOCK FALSE
INVARIANTS
    NeverSkips
