CONSTANTS
    CPU = {c1, c2}
    Lock = {1, 2}
    None = None
    MaxCli = 1
    Proc = {p1, p2}
    Block = {1, 2, 3, 4}
    Nobody = Nobody
    NBUF = 3
    LOGSIZE = 1
    MAXHELD = 1
SPECIFICATION LocksSpec
INVARIANTS
    MutualExclusion NoPanic InterruptsMatch
    OneBuffer ReadsLatest NoLostWakeup
PROPERTY IoReturns
