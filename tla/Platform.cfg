SPECIFICATION Spec
CONSTANTS
    NoFile = NoFile
    NoDevice = NoDevice
    r1 = r1
    r2 = r2
    m1 = m1
    m2 = m2
    h1 = h1
    MerchantIds = {m1, m2}
    SeedMerchants = {m1}
    Emails = {"e"}
    Production = FALSE
    EnvKeys = FALSE
    AccessTtl = 1
    RefreshTtl = 1
    Requests = {1, 2, 3}
    Secrets = {0, 1}
    Asks <- TheAsks
    MaxNow = 1
    MaxAuthFaults = 1
    maxBatchSize = 2
    maxRetries = 2
    DeviceIds = {"d"}
    MaxEvents = 3
    MaxLives = 2
    CaseIds = {"c1", "c2"}
    MaxConsoleCalls = 3
    Scenarios <- FirstScenario
    maxPollAttempts = 1
    MaxEntries = 1
    MaxBattles = 2
    MaxTesterErrors = 0
    MaxRuns = 2
    MaxFeed = 2
    MaxHistory = 2
    MAX_EVENTS = 2
    MaxDecisions = 4
    MaxViewCalls = 3
    RuleIds = {r1, r2}
    Chargebacks <- TheChargebacks
    Consumer = "consumer"
    Clients = {h1}
    TopicLength = 1
    MaxPosts = 1
    MaxFaults = 1
    CAPACITY = 2
    REFILL_RATE = 1
    BucketExpiry = 3
    Limit = 1
    burstMultiplier = 2
    windowSeconds = 2
    MaxTicks = 6
    MaxConsumed = 6
    LagValues = {0, 60, 120}
    lagWarningThreshold = 50
    lagCriticalThreshold = 100
    minRateMultiplier = 850
    SustainedTicks = 2
    MaxPolls = 2
    maxQueueDepth = 3
    windowTicks = 2
    defaultRate = 1
    defaultBurst = 2
    staleBucketTicks = 2
    MaxBatch = 2
    MaxClock = 6
    MaxEntered = 4
    SeedFlags <- TheSeed
    FlagDtos <- TheFlags
    HashOf <- SomeHash
    MaxFlagOps = 3
    Versions = {"v1", "v2"}
    VersionFlag = "version"
    DslFlag <- DslFlagOf
    Slots = {1, 2}
    MaxManual = 1
    MaxReloadFaults = 1
    Files <- TheFiles
    Contexts <- TheContexts
INVARIANTS
    TypesOK
    ParserKeepsTheText
    AuditExplainsWeight
    EventsSurviveFailures
    ChargedShareIsBounded
    RemovedMeansClosed
    StoppedIsOver
    ArenaShowsItsBattle
    ViewsShowTheirData
PROPERTIES
    CredentialsEnd
    RulesFollowTheFlag
    EdgeRateRecovers
CHECK_DEADLOCK FALSE
