SPECIFICATION Spec
CONSTANTS
    Loops = {l1, l2, l3}
    Conns = {c1, c2, c3}
    None = None
    AutoRotate = TRUE
    MaxAttempts = 1
    MaxPending = 1
    MaxFaults = 2
    FaultKinds = {"dial", "write", "drop", "error"}
    MaxGen = 2
SYMMETRY Symmetry
CHECK_DEADLOCK FALSE
INVARIANTS
    LifecycleSound
    RotationArmed
PROPERTIES
    SupersededInert
    SeamlessSwap
