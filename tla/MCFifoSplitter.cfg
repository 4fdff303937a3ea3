CONSTANTS
    Reqs = {r1, r2, r3, r4}
    Depth = 2
    input_width = 4
    output_width = 2
    None = None
    Parents = {r1, r2}
    Accesses <- MCAccesses
    Answers <- MCAnswers
SPECIFICATION MCSpec
INVARIANTS
    TypeOK
    QueueIsOutstanding
    NoLostWakeup
    SplitterTypeOK
    ChunksTileRequest
    NoLostChunk
PROPERTIES
    ImplementsPort
    SplitterImplementsPort
