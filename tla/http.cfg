SPECIFICATION MCSpec
CONSTANTS
    Reads = {r1}
    Mutations = {m1}
    StepUps = {r1, m1}
    Timer = Timer
    None = None
    MaxRetries = 1
    MaxTokens = 2
    MaxExpiries = 1
    MaxFaults = 1
    MaxUpdates = 1
CHECK_DEADLOCK FALSE
INVARIANTS
    MutationOnce
    AuthErrorHonest
    ClientSound
PROPERTIES
    Answered
