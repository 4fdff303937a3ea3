CONSTANTS
    Reqs = {r1, r2, r3}
    Sizes = {3}
    Bandwidth = 2
    None = None
    r1 = r1
    r2 = r2
    r3 = r3
    IcoReqs = {r1, r2, r3}
    PortOf <- MCPortOf
    nb_masters = 3
    nb_slaves = 2
    Granule = 2
    Addrs <- MCAddrs
    MaxHits = 2
SPECIFICATION MCSpec
INVARIANTS
    TypeOK
    EveryByteAccounted
    NoLostWakeup
    IcoTypeOK
    RefusalsAreElected
    BoundedWait
    NoAliasing
PROPERTIES
    ImplementsPort
    DeniedIsServed
