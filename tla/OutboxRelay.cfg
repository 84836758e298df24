CONSTANTS
    e1 = e1
    e2 = e2
    e3 = e3
    Events = {e1, e3}
    AggregateType <- MCAggregate
    EventType <- MCEventType
    Relays = {r1, r2}
    BatchSize = 2
    MaxCreated = 2
    MaxErrors = 1
    MaxCrashes = 1
    MaxStops = 1
SPECIFICATION FairSpec
INVARIANT CopiesPerRelay
INVARIANT GracefulStopLeavesNothing
PROPERTY ImplementsOutbox
PROPERTY EveryRowIsPublished
