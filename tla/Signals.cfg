CONSTANTS
    r1 = r1
    r2 = r2
    Requests = {r1, r2}
    Fetches <- DeviceVelocityGraph
    Offered <- WithAndWithoutDevice
SPECIFICATION FairSpec
INVARIANT LoadIsBounded
INVARIANT OpenOnlyDuringOutage
PROPERTY BreakerNeverLocksOut
