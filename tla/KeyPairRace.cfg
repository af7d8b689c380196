CONSTANTS
    Isolates = {i1, i2, i3}
    MaxPairs = 3
    MaxStrays = 2
SPECIFICATION Spec
INVARIANT
    TokensVerifyEverywhere
SYMMETRY Symmetry
CHECK_DEADLOCK FALSE
