SPECIFICATION SurfacesSpec
CONSTANTS
    Conns = {c1, c2}
    Peers = {p1, p2, p3}
    Allowed = {p1, p2}
    Keys = {k}
    Payloads = {x, y}
    MaxSessions = 2
    MaxBoots = 2
    Calls = {r1, r2}
    Lanes = 1
    Instances = {i1, i2, i3}
    Assets = {a1, a2}
    MaxChanges = 1
    Matrix <- Plan
INVARIANTS
    KeysHold
    
    
    LoadedBeforeUse
PROPERTIES
    
    ReadyMeansGood
    FaultClosesAdmission
CHECK_DEADLOCK FALSE
