CONSTANTS
    u1 = u1
    a1 = a1
    NoConfig = NoConfig
    Messages <- BlockReview
    Alerts = {a1}
    Urls = {u1}
    MaxChanges = 1
    MaxFaults = 1
    MaxCrashes = 1
SPECIFICATION FairSpec
INVARIANT ReceiptsPerLife
INVARIANT ReceiptsInOrder
PROPERTY RiskyDecisionsAreNotified
CHECK_DEADLOCK FALSE
