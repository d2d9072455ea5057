SPECIFICATION FairSpec
CONSTANTS
    p1 = p1
    p2 = p2
    p3 = p3
    Procs = {p1, p2, p3}
    Bytes = {0, 1}
    ByteOf <- TwoBytes
    ByteCap = 1
    Calls = {"acquire", "cond", "orwait"}
    MaxForeign <- OnePost
    NoProc = NoProc
INVARIANTS TypeOK MutualExclusion CountsExact WaitListSound SemaphoreBalanced
PROPERTY WokenIfFree
