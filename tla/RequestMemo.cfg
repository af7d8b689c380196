CONSTANTS
    Requests = {r1, r2}
    Keys = {product}
    Write = write
    Fallible = TRUE
    MaxTrips = 3
SPECIFICATION FairSpec
INVARIANTS
    TypeOK
    AnswersAreFresh
    OneLoadPerKey
    CurrentIsKept
    FailureNotKept
    ReadsFollowWrites
PROPERTY
    EveryCallEnds
CHECK_DEADLOCK FALSE
