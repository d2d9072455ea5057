SPECIFICATION ApartSpec
CONSTANTS
    Backends = {b1, b2}
    Pages = {1, 2}
    Size = 7
    SoftFull = 3
    PruneAt = 2
    MaxRecords = 2
    MaxHints = 1
    MaxCkpts = 2
    Kinds = {"full", "asked"}
    None = None
SYMMETRY Symmetry
CHECK_DEADLOCK FALSE
INVARIANTS
    TypeOK
    RedoCovers
    QueueOrdered
    DirtyQueued
    NoRedoPanic
    NobodyStuck
