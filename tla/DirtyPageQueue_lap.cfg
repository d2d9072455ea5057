SPECIFICATION ApartSpec
CONSTANTS
    Backends = {b1}
    Pages = {1, 2}
    Size = 4
    SoftFull = 3
    PruneAt = 2
    MaxRecords = 1
    MaxHints = 4
    MaxCkpts = 1
    Kinds = {"timed"}
    None = None
CHECK_DEADLOCK FALSE
INVARIANT RedoCovers
