SPECIFICATION InOrderSpec
CONSTANTS
    Loops = {1, 2}
    Conns = {1, 2, 3}
    None = None
    AutoRotate = FALSE
    MaxAttempts = 1
    MaxPending = 1
    MaxFaults = 2
    FaultKinds = {"dial", "write", "drop", "error"}
    MaxGen = 3
CHECK_DEADLOCK FALSE
PROPERTIES
    Recovers
    HandoffEnds
