SPECIFICATION Spec
CONSTANTS
    Barriers = {b1}
    Others = {o1}
    None = None
    MaxConns = 2
    MaxReplaced = 1
CHECK_DEADLOCK FALSE
INVARIANTS
    RequestsSound
    BarrierAsked
    OkIsAnswered
