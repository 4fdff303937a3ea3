CONSTANTS
    r0 = r0
    r1 = r1
    NbSets = 1
    Ways = {0, 1}
    MaxTag = 2
    CacheReqs = {r0, r1}
    TagOf <- MCTagOf
    NoData = {}
    Prefetch = TRUE
    EnabledAtReset = TRUE
    NoReq = NoReq
SPECIFICATION CacheSpec
PROPERTY PostFlushMisses
