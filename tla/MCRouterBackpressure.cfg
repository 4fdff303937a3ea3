CONSTANTS
    r1 = r1
    r2 = r2
    r3 = r3
    o1 = o1
    o2 = o2
    oe = oe
    NbInput = 2
    Outputs = {o1, o2, oe}
    Reqs = {r1, r2, r3}
    NoReq = NoReq
    NoOut = NoOut
    PortOf <- MCPortOf
    Mappings <- MCMappings
    Accesses <- MCAccesses
SPECIFICATION FairSpec
INVARIANTS
    TypeOK
    OnePlace
    ParkedHasMover
PROPERTY
    GrantedIsAnswered
