SPECIFICATION Spec
CONSTANTS
    None = None
    m1 = m1
    m2 = m2
    r1 = r1
    r2 = r2
    w1 = w1
    Models = {m1, m2}
    Requests = {r1, r2}
    Required <- Equal
    Physical <- Unmeasured
    MaxConcurrency <- OneSlot
    Pinned = {}
    Evictable = {m1, m2}
    Ttl <- BothTtl
    Budget = 4
    FreeFloor = 1
    MemTotal = 6
    MaxSampleAge = 1
    Readings = {6}
    Sum <- MCSum
    Registered <- Order
    Confirmations <- Known
    SessionIds = {}
    SessionOf <- NoSession
    Target <- OneEach
    Warmers = {}
    SessionWorker = None
    WarmTarget <- NoWarm
    QueueCapacity = 1
    MaxEvictions = 2
    LoadRetryLimit = 1
    Generations = 2
    LoadOutcomes = {"RUNNING", "UNVERIFIED"}
    StopOutcomes = {"STOPPED", "UNVERIFIED"}
    Elapsed = {FALSE}
    Verdicts = {}
    GuardAnswers = {TRUE}
    RecoveryPorts = {FALSE}
    RecoveryResults = {TRUE}
    Admin = {"ttl"}
INVARIANTS
    BusyRowOwned
