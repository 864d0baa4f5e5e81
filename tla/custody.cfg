SPECIFICATION Spec
CONSTANTS
    Off = Off
    Wallets = {w1, w2}
    Own = w1
    MaxChanges = 3
    FeedFaults = 2
    Keys = {1, 2}
    MaxSends = 2
    MaxBad = 2
    NoReply = NoReply
    Callers = {c1, c2}
    Deadlines = {0, 5}
    MaxNonces = 2
    MaxLost = 2
    Nil = Nil
CHECK_DEADLOCK FALSE
INVARIANTS
    FeedSound
    MoveSound
    HopSound
PROPERTIES
    FeedServes
    KeySettles
