CONSTANTS
    Isolates = {i1, i2, i3}
    MaxPairs = 3
    MaxStrays = 2
SPECIFICATION FairSpec
INVARIANT
    TypeOK
PROPERTIES
    PairSettles
    VerifyUnlessRaced
    LoadsEnd
CHECK_DEADLOCK FALSE
