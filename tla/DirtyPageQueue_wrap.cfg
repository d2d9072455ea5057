SPECIFICATION Spec
CONSTANTS
    Backends = {b1}
    Pages = {1, 2}
    Size = 5
    SoftFull = 3
    PruneAt = 2
    MaxRecords = 2
    MaxHints = 6
    MaxCkpts = 0
    Kinds = {}
    None = None
CHECK_DEADLOCK FALSE
INVARIANTS QueueOrdered DirtyQueued
