CONSTANTS
    LineSize = 2
    MaxAddress = 15
    here = here  there = there
    Stack = {here, there}
    MaxLen = 5
    Inputs <- AllTraces
SPECIFICATION Spec
INVARIANTS
    TypeOK
    ScanUnchanged
    RedundantWhenAlike
CHECK_DEADLOCK FALSE
