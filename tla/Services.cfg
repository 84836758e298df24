SPECIFICATION Spec
CONSTANTS
    NoId = NoId
    NoEntity = NoEntity
    Topic <- TheTopic
    EventOf <- TheEvents
    Window10m = 0
    Window1h = 1
    Window24h = 2
    BaselineWindow = 2
    KeyTtl = 3
    BaselineTtl = 3
    MaxTime = 2
    MaxFaults = 1
    MaxCrashes = 1
    None = None
    NoSignal = NoSignal
    NaN = NaN
    Missing = Missing
    Callers = {"h1"}
    Kafka = "kafka"
    Attrs = {"phone", "phoneRooted", "near"}
    Fingerprint <- TheFingerprints
    Similar <- TheSimilar
    Emulated <- TheAnalysis
    Platform <- ThePlatforms
    DeviceTopic <- TheDeviceEvents
    Calendar = {0, 400}
    RetentionDays = 365
    MaxDevices = 2
    MaxCalls = 1
    MaxDeviceFaults = 1
    Analyses <- TheAnalyses
    Messages <- TheMessages
    Fraudsters = {"u", "v"}
    MaxGraphFaults = 1
    VelocityCounts = {30}
    DeviceCounts = {9}
    Blocks = {2}
    Reviews = {4}
    Rules <- TheRules
    ThrottleLimit = 1
    TimingBuffer = 100
    MaxDecisions = 2
    Enrichments <- TheEnrichments
    MaxSendFaults = 1
    MaxTelcoCrashes = 1
    Shoppers <- TheShoppers
    MIN_SAMPLES_FOR_ML = 2
    TenTo <- ThePowers
    MaxSessions = 4
    MaxRestarts = 1
INVARIANTS
    TypesOK
    ReadsAreExact
    DevicesAreRecognised
    EarlierSharersAreCounted
    VerdictsFollowSignals
PROPERTIES
    EveryEventIsCounted
    EveryEnrichmentIsAnswered
CHECK_DEADLOCK FALSE
