SPECIFICATION PromptSpec
CONSTANTS
    Txn = {t1, t2}
    Key = {k1}
    NoTxn = NoTxn
    MaxCommits = 3
    MaxCheckpoints = 2
    MaxAborts = 1
    MaxFailures = 0
SYMMETRY Symmetry
INVARIANTS
    Recoverable
CHECK_DEADLOCK FALSE
