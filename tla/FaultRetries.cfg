CONSTANTS
    Clients = {c1, c2}
    Nonces = {n1, n2}
    Times = {1, 3}
    TTL = 1
    Horizon = 3
    MaxRetries = 2
    Budget = 1
    MaxStrays = 1
SPECIFICATION Spec
INVARIANTS
    TypeOK
    CountsBounded
    RetriesAsAsked
    NoMoreThanAsked
SYMMETRY Symmetry
CHECK_DEADLOCK FALSE
