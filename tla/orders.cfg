SPECIFICATION Spec
CONSTANTS
    Off = Off
    MaxNoise = 1
    ExecutionFaults = 1
    MaxReads = 3
    Cap = 1
    EarlyCap = 2
    MaxFills = 2
    AccountingFaults = 1
CHECK_DEADLOCK FALSE
INVARIANTS
    ReceiptSound
    AccountingSound
PROPERTIES
    OrderEnds
