SPECIFICATION FairSpec
CONSTANTS
    t1 = t1
    t2 = t2
    Txn = {t1, t2}
    Key = {1, 2}
    InitKey = {1}
    Levels = {"RR"}
    Statements = {"RD", "WR", "DEL", "INS"}
    MaxOps = 2
    MaxRetry = 1
    SoftLimit = 3
    NoTxn = NoTxn
PROPERTIES ImplementsSI VersionsNeverLost NoStall
