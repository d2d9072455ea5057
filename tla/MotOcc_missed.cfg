SPECIFICATION Spec
CONSTANTS
    t1 = t1
    t2 = t2
    t3 = t3
    Txn = {t1, t2, t3}
    Key = {1}
    InitKey = {1}
    Levels = {"RR"}
    Statements = {"RD", "WR", "DEL", "INS"}
    MaxOps = 2
    MaxRetry = 1
    SoftLimit = 2
    NoTxn = NoTxn
SYMMETRY Sym
INVARIANT UpdateMissesNoRow
