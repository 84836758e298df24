CONSTANTS
    r1 = r1
    r2 = r2
    v = v
    w = w
    Requests = {r1, r2}
    Events = {v, w}
    Valid <- CorrectedValid
    Invalid <- CorrectedInvalid
    MaxConcurrent = 1
    Burst = 2
    RetryLimits = {1, 3}
    MaxFaults = 2
    MaxAborts = 1
    MaxRebalances = 1
    MaxCrashes = 2
    MaxStops = 1
SPECIFICATION Spec
INVARIANT SlotsMatchRequests
INVARIANT AcceptedIsInRaw
INVARIANT CopiesInRaw
CHECK_DEADLOCK FALSE
