CONSTANTS
    LineSize = 2
    MaxAddress = 15
    MaxLen = 4
    LastByte = 3
    Inputs <- NoFlushInputs
SPECIFICATION Spec
INVARIANT CoveredRepaired
CHECK_DEADLOCK FALSE
