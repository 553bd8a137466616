CONSTANTS
    LineSize = 3
    LastByte = 8
    Address <- Bytes
    Nul = 0
    Fill = 100
    Memories <- Contents
    Calls <- AllCalls
SPECIFICATION Spec
INVARIANT Persists
CHECK_DEADLOCK FALSE
