SPECIFICATION ApartSpec
CONSTANTS
    Backends = {b1}
    Pages = {1, 2}
    Size = 15
    SoftFull = 12
    PruneAt = 9
    MaxRecords = 0
    MaxHints = 14
    MaxCkpts = 0
    Kinds = {}
    None = None
CHECK_DEADLOCK FALSE
INVARIANT RepushFindsRoom
