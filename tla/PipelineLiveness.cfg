CONSTANTS
    h1 = h1
    h2 = h2
    k1 = k1
    k2 = k2
    r1 = r1
    r2 = r2
    e1 = e1
    e2 = e2
    NoResult = NoResult
    Calls = {h1, k1, k2}
    Http = {h1}
    Requests = {r1, r2}
    Entities = {e1, e2}
    ReqOf <- RedeliveryAndCall
    EntityOf <- TwoEntities
    IsTest <- FirstIsTest
    BaseScores = {30}
    Rules = {"none"}
    Labels <- LabelsOfTheEvent
    MaxFaults = 0
    MaxCrashes = 1
    MaxExpiries = 0
SPECIFICATION FairSpec
PROPERTY FirstVerdictIsFinal
PROPERTY UndisturbedVerdictReachesAll
CHECK_DEADLOCK FALSE
