CONSTANTS
    t1 = t1  t2 = t2  t3 = t3
    Test = {t1, t2, t3}
    Worker = {w1, w2}
    Parent = Parent
    Free = Free
    Chunks <- TwoChunks
SPECIFICATION Spec
INVARIANTS
    TypeOK
    BarCounts
    LosersOfRace
    NoneSkipped
PROPERTY RunEnds
