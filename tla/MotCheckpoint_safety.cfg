SPECIFICATION PromptSpec
CONSTANTS
    Txn = {t1, t2}
    Key = {k1, k2}
    NoTxn = NoTxn
    MaxCommits = 2
    MaxCheckpoints = 2
    MaxAborts = 0
    MaxFailures = 1
SYMMETRY Symmetry
INVARIANTS
    TypeOK
    CountersMatch
    CutOff
    CheckpointIsSnapshot
    Recoverable
    RowsReset
CHECK_DEADLOCK FALSE
