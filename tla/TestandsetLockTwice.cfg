CONSTANTS
    r1 = r1
    r2 = r2
    p1 = p1
    Kinds = {"testandset"}
    Reqs = {r1, r2}
    ViewOf <- MCViewOf
    Accesses <- MCAccesses
    Offset = 1
    Width = 1
    Base = 6
    Size = 2
    Target = 7
    Mappings <- MCMappings
    Length = 2
    Serial = FALSE
    InOrderMemory = TRUE
SPECIFICATION FairSpec
INVARIANT LockExclusive
