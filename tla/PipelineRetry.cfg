CONSTANTS
    h1 = h1
    h2 = h2
    k1 = k1
    k2 = k2
    r1 = r1
    r2 = r2
    e1 = e1
    e2 = e2
    NoResult = NoResult
    Calls = {h1, h2, k1}
    Http = {h1, h2}
    Requests = {r1, r2}
    Entities = {e1}
    ReqOf <- RetryAndEvent
    EntityOf <- OneEntity
    IsTest <- NoTest
    BaseScores = {30}
    Rules = {"none"}
    Labels <- FraudLabels
    MaxFaults = 1
    MaxCrashes = 0
    MaxExpiries = 1
SPECIFICATION Spec
INVARIANT RetryGetsRecordedVerdict
INVARIANT NoInventedVerdict
INVARIANT DeniedIsBlocked
CONSTRAINT OneDisturbance
CHECK_DEADLOCK FALSE
