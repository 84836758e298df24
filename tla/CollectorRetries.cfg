CONSTANTS
    r1 = r1
    r2 = r2
    v = v
    w = w
    Requests = {r1, r2}
    Events = {v, w}
    Valid <- RetriedValid
    Invalid <- RetriedInvalid
    MaxConcurrent = 1
    Burst = 2
    RetryLimits = {3}
    MaxFaults = 1
    MaxAborts = 0
    MaxRebalances = 0
    MaxCrashes = 0
    MaxStops = 0
SPECIFICATION FairSpec
PROPERTY RecordsAreRetriedOrExhausted
CHECK_DEADLOCK FALSE
