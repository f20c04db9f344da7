SPECIFICATION SessionLiveSpec
CONSTANTS
    None = None
    m1 = m1
    m2 = m2
    r1 = r1
    w1 = w1
    s1 = s1
    s2 = s2
    Models = {m1, m2}
    Requests = {r1}
    Required <- Sizes
    Physical <- Unmeasured
    MaxConcurrency <- OneSlot
    Pinned = {}
    Evictable = {m1, m2}
    Ttl <- Ttls
    Budget = 4
    FreeFloor = 1
    MemTotal = 6
    MaxSampleAge = 1
    Readings = {6}
    Sum <- MCSum
    Registered <- Order
    Confirmations <- Known
    SessionIds = {s1}
    SessionOf <- Outsider
    Target <- OneSession
    Warmers = {w1}
    SessionWorker = w1
    WarmTarget <- NoWarm
    QueueCapacity = 2
    MaxEvictions = 2
    LoadRetryLimit = 1
    Generations = 2
    LoadOutcomes = {"RUNNING"}
    StopOutcomes = {"STOPPED"}
    Elapsed = {FALSE}
    Verdicts = {"alive"}
    GuardAnswers = {TRUE}
    RecoveryPorts = {FALSE}
    RecoveryResults = {TRUE}
    Admin = {}
PROPERTIES
    DrainEnds
