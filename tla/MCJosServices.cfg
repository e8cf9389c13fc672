SPECIFICATION ServicesSpec
SYMMETRY Sym
CONSTANTS
    NENV = 3
    CPU = {c1, c2}
    None = None
    FirstEnvs = 2
    Calls = {"exofork", "set_status", "destroy", "ipc"}
    Careful = {"set_status", "destroy"}
    MaxGen = 3
    MaxBirths = 4
    Phys <- Pages
    NFREE = 13
    MEnv = {e1, e2, e3}
    Dirs = {e1, e2, e3}
    mfirst = e1
    NPD = 2
    NPT = 3
    MVal = {0, 1}
    MaxForks = 2
    USTACK = 4
    UPAGE = 2
    XSTACK = 26
    HWORDS = 1
    Word = {1, 2}
    NBLOCKS = 13
    BLKSIZE = 2
    BLKFILES = 2
    NDIRECT = 1
    NINDIRECT = 2
    Image <- FirstImage
    NewName = {"x"}
    Mode <- OpenModes
    Val = {5}
    Lengths = {0, 3, 7}
    Span <- Spans
    MaxReqs = 5
    MaxBoots = 2
    Client = {k1, k2}
    first = k1
    Path = {"f", "g"}
    Fds = {0, 1}
    MAXOPEN = 2
    GENS = 4
    MaxCalls = 6
    JBLOCKS = 16
    JRESERVED = 3
    JBLKSIZE = 2
    JDIRECT = 2
    JINDIRECT = 2
    JSizes = {0, 1, 3, 4, 5, 7, 8}
    JMaxFiles = 3
INVARIANTS EnvSound MemSound FileSound ServeSound
PROPERTIES StepsRight
CHECK_DEADLOCK FALSE
