SPECIFICATION FilesSpec
CONSTANTS
    None = None
    Proc = {p1, p2}
    initproc = p1
    Inum = {1, 2, 3}
    Name = {"a", "b"}
    OldPath <- Old
    NewPath <- New
    NFILE = 2
    NOFILE = 2
    MaxCalls = 4
    Writer = {1, 2}
    Ino = {1, 2}
    NBLOCK = 13
    BPB = 1
    NDIRECT = 2
    NINDIRECT = 3
    BSIZE = 2
    MAXOPBLOCKS = 10
    Counts = {1, 7}
    MaxIoCalls = 3
    FSSIZE = 14
    NMETA = 3
    MBSIZE = 2
    MDIRECT = 2
    MINDIRECT = 2
    Sizes = {0, 1, 3, 5, 8, 9}
    MaxFiles = 3
    VProc = {q1, q2}
    vinit = q1
    NFRAME = 14
    PGSIZE = 2
    NPTE = 2
    NTAB = 3
    KTAB = 1
    Programs <- ThreePrograms
    MaxOps = 4
    HEAP = 13
    CHUNK = 4
    Units = {2, 3, 5}
INVARIANTS FsNoDeadlock
CHECK_DEADLOCK FALSE
