CONSTANTS
    LineSize = 2
    MaxAddress = 15
    MaxLen = 4
    LastByte = 3
    Inputs <- AllInputs
SPECIFICATION FairSpec
INVARIANTS
    TypeOK
    AccumulatedIsStored
    LatestWritersFound
    EpochRepaired
PROPERTY Terminates
CHECK_DEADLOCK FALSE
