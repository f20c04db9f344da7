SPECIFICATION Spec
CONSTANTS
    None = None
    m1 = m1
    m2 = m2
    r1 = r1
    r2 = r2
    Models = {m1, m2}
    Requests = {r1, r2}
    Required <- Sizes
    Physical <- Measured
    MaxConcurrency <- Slots
    Pinned = {}
    Evictable = {m1}
    Ttl <- Ttls
    Budget = 4
    FreeFloor = 1
    MemTotal = 4
    MaxSampleAge = 1
    Readings = {3, 4, 5}
    Sum <- MCSum
    MaxUuid = 6
    MaxEpoch = 2
    MaxTime = 1
INVARIANTS
    TypeOK
    BookInv
PROPERTIES
    RefundOnlyOnProof
    FailedLeavesByStop
    ResidencySpec
