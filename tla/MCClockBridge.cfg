CONSTANTS
    r1 = r1
    r2 = r2
    w1 = w1
    Configs <- MCConfigs
    Reqs = {r1, r2, w1}
    RoundTrip = {r1, r2}
SPECIFICATION FairSpec
INVARIANTS
    TypeOK
    OnePlace
    EventTracksHead
    DepthGate
PROPERTY
    ImplementsPort
