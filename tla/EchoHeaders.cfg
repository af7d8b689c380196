CONSTANTS
    c1 = c1
    c2 = c2
    n1 = n1
    Calls = {c1, c2}
    Nonces = {n1}
    Times = {1, 2}
    TimesMax = 2
    TTL = 2
    Horizon = 1
    DelayMax = 1
    Skew = 2
    Budget = 1
    ClockError = 1
    MaxRetries = 1
    MaxRestarts = 1
    Requests <- MCRequests
    Deployments <- MCDeployments
SPECIFICATION Spec
INVARIANTS
    HeadersArePrintable
CHECK_DEADLOCK FALSE
