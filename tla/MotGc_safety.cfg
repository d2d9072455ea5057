SPECIFICATION Spec
CONSTANTS
    Sessions = {s1, s2}
    Sentinels = {x1, x2}
    Nobody = Nobody
    MaxCsn = 4
    SkipEvery = 2
    Delays = {}
SYMMETRY Symmetry
INVARIANTS
    TypeOK
    EpochBarrier
    VisibleRowKept
    GcCountExact
    LimboRowLive
    RollbackFindsDirty
    CountCovers
