SPECIFICATION ScopedSpec
CONSTANTS
    None = None
    m1 = m1
    m2 = m2
    r1 = r1
    r2 = r2
    w1 = w1
    Models = {m1, m2}
    Requests = {r1}
    Required <- Sizes
    Physical <- Unmeasured
    MaxConcurrency <- OneSlot
    Pinned = {}
    Evictable = {m1, m2}
    Ttl <- Ttls
    Budget = 4
    FreeFloor = 1
    MemTotal = 6
    MaxSampleAge = 1
    Readings = {6}
    Sum <- MCSum
    Registered <- Order
    Confirmations <- Maybe
    SessionIds = {}
    SessionOf <- NoSession
    Target <- OneOnly
    Warmers = {w1}
    SessionWorker = None
    WarmTarget <- WarmEither
    QueueCapacity = 2
    MaxEvictions = 2
    LoadRetryLimit = 0
    Generations = 2
    LoadOutcomes = {"RUNNING", "UNVERIFIED"}
    StopOutcomes = {"STOPPED", "UNVERIFIED"}
    Elapsed = {TRUE, FALSE}
    Verdicts = {"alive", "gone", "failed"}
    GuardAnswers = {TRUE, FALSE}
    RecoveryPorts = {TRUE, FALSE}
    RecoveryResults = {TRUE, FALSE}
    Admin = {"shutdown"}
ACTION_CONSTRAINT
    InScope
INVARIANTS
    BusyRowOwned
    
PROPERTIES
    ClosedGrantsNothing
    SchedulerResidency
