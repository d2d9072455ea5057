SPECIFICATION Spec
CONSTANTS
    Txn = {t1, t2}
    Key = {k1}
    NoTxn = NoTxn
    MaxCommits = 3
    MaxCheckpoints = 1
    MaxAborts = 0
    MaxFailures = 0
INVARIANT RestBetweenCheckpoints
CHECK_DEADLOCK FALSE
