SPECIFICATION LiveSpec
CONSTANTS
    None = None
    m1 = m1
    m2 = m2
    r1 = r1
    r2 = r2
    w1 = w1
    Models = {m1, m2}
    Requests = {r1, r2}
    Required <- Sizes
    Physical <- Unmeasured
    MaxConcurrency <- TwoSlots
    Pinned = {}
    Evictable = {m1, m2}
    Ttl <- Ttls
    Budget = 4
    FreeFloor = 1
    MemTotal = 6
    MaxSampleAge = 1
    Readings = {6}
    Sum <- MCSum
    Registered <- Order
    Confirmations <- Known
    SessionIds = {}
    SessionOf <- NoSession
    Target <- SameModel
    Warmers = {w1}
    SessionWorker = None
    WarmTarget <- WarmFirst
    QueueCapacity = 1
    MaxEvictions = 2
    LoadRetryLimit = 1
    Generations = 2
    LoadOutcomes = {"RUNNING"}
    StopOutcomes = {"STOPPED"}
    Elapsed = {FALSE}
    Verdicts = {"alive"}
    GuardAnswers = {TRUE}
    RecoveryPorts = {FALSE}
    RecoveryResults = {TRUE}
    Admin = {}
PROPERTIES
    WarmReturns
