SPECIFICATION Spec
CONSTANTS
    Sessions = {s1, s2}
    Sentinels = {x1, x2}
    Nobody = Nobody
    MaxCsn = 5
    SkipEvery = 2
    Delays = {}
SYMMETRY Symmetry
INVARIANT TombstoneHasOwner
