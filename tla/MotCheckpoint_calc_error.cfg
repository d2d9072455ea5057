SPECIFICATION PromptSpec
CONSTANTS
    Txn = {t1, t2}
    Key = {k1}
    NoTxn = NoTxn
    MaxCommits = 2
    MaxCheckpoints = 1
    MaxAborts = 0
    MaxFailures = 1
INVARIANT NoCalcError
CHECK_DEADLOCK FALSE
