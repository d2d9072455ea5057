SPECIFICATION Spec
CONSTANTS
    Backends = {b1, b2}
    Pages = {1, 2}
    Size = 7
    SoftFull = 3
    PruneAt = 2
    MaxRecords = 2
    MaxHints = 1
    MaxCkpts = 1
    Kinds = {"full"}
    None = None
CHECK_DEADLOCK FALSE
INVARIANT RedoCovers
