SPECIFICATION MCSpec
CONSTANTS
    c1 = c1
    c2 = c2
    Callers = {c1, c2}
    Cached = {c1}
    MaxFaults = 2
INVARIANTS
    WaitSound
PROPERTIES
    Settled
    WaitEnds
CHECK_DEADLOCK FALSE
