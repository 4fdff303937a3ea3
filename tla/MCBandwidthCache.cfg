CONSTANTS
    a1 = a1
    a2 = a2
    b1 = b1
    o1 = o1
    o2 = o2
    NoOut = NoOut
    NbInputs = 2
    Outputs = {o1, o2}
    Reqs = {a1, a2, b1}
    PortOf <- MCPortOf
    Duration <- MCDuration
    MaxAhead = 2
    r0 = r0
    r1 = r1
    NbSets = 1
    Ways = {0, 1}
    MaxTag = 2
    CacheReqs = {r0, r1}
    TagOf <- MCTagOf
    NoData = {r1}
    Prefetch = TRUE
    EnabledAtReset = TRUE
    NoReq = NoReq
SYMMETRY MCSymmetry
SPECIFICATION MCSpec
INVARIANTS
    TypeOK
    OnePlace
    FrontWaitsForRetry
    BandwidthKept
    CacheTypeOK
    CacheOnePlace
    TagArraySound
    RefillOwnsHead
    NoLostWakeup
