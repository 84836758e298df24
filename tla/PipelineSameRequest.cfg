CONSTANTS
    h1 = h1
    h2 = h2
    k1 = k1
    k2 = k2
    r1 = r1
    r2 = r2
    e1 = e1
    e2 = e2
    NoResult = NoResult
    Calls = {h1, h2}
    Http = {h1, h2}
    Requests = {r1, r2}
    Entities = {e1}
    ReqOf <- SameRequest
    EntityOf <- OneEntity
    IsTest <- NoTest
    BaseScores = {30, 80}
    Rules = {"none"}
    Labels <- NoLabels
    MaxFaults = 0
    MaxCrashes = 0
    MaxExpiries = 0
SPECIFICATION Spec
INVARIANT IdenticalRequestsSameVerdict
CHECK_DEADLOCK FALSE
