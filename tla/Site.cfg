SPECIFICATION SiteSpec
CONSTANTS
    Blobs = {b, o}
    Outputs = {o}
    Holders = {h}
    Limit = 2
    Quota = 3
    MaxCrashes = 1
    Procs = {p1, p2}
    Ours = {m1, m2}
    Foreign = {f}
    Helpers = {h1, h2}
    RunDirs = {d1, d2}
    Candidates = {c1, c2}
    Rounds = 2
    Validity = 1
    MaxRunId = 2
    MaxEvClock = 1
    Releases = {1, 2, 3}
    GoodReleases = {1, 2}
    MaxOps = 3
    CalRuns = 2
    Total = 9
    Peaks = {3, 5}
    ForeignSize = 2
    ShiftLimit = 1
    OpsNames <- AllCases
    Figures = {0, 1, 2}
    DefaultMaxTokens = 2
    DefaultMaxBatch = 2
    Waiters = {w1, w2, w3}
    Kinds = {"interactive", "session"}
    Priorities = {0, 1}
    Waits = {3}
    Capacity = 2
    Aging = 1
    MaxQueueClock = 3
INVARIANTS
    QuotaRespected
    
    GateIsEarned
    
    
    EnvelopeExact
PROPERTIES
    LeaseProtects
    AckedSurvives
    RecoveryResolves
    
    
    
CHECK_DEADLOCK FALSE
