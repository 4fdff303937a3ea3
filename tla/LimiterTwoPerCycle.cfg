CONSTANTS
    Reqs = {r1, r2, r3}
    Sizes = {3}
    Bandwidth = 2
    None = None
SPECIFICATION Spec
INVARIANT OneChunkPerCycle
