SPECIFICATION FairSpec
CONSTANTS
    Txn = {t1, t2}
    Key = {k1}
    NoTxn = NoTxn
    MaxCommits = 2
    MaxCheckpoints = 2
    MaxAborts = 1
    MaxFailures = 0
INVARIANT PhaseSafety
PROPERTIES
    CheckpointEnds
    CommitEnds
CHECK_DEADLOCK FALSE
