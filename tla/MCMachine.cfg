SPECIFICATION MachineSpec
CONSTANTS
    Writers = {w1, w2}
    Readers = {r1}
    Byte = {0, 1}
    PIPESIZE = 2
    WRAP = 4
    MaxCount = 3
    ConsReaders = {c1, c2}
    INPUT_BUF = 2
    UINT = 4
    MaxRead = 2
    PEnv = {e1, e2, e3}
    Rd = e1
    Wr = e2
    NRUN = 1
    ForkEnv = {e1, e2}
    KeepBoth = FALSE
    Slots = 2
    PIPEBUFSIZ = 2
    MaxBytes = 3
    CONSBUFSIZE = 4
    MaxTyped = 14
    ROWS = 4
    COLS = 3
    Glyph = {"blank", "text"}
    Starts <- Times
    MaxTick = 3
    SECTSIZE = 2
    FILE = 5
    MEM = 8
    MAXSEG = 2
    Tables <- XvTables
    NCPU = 3
    LOW = 4
    HIGH = 2
    MaxAllocs = 6
    Machines <- JosMachines
    JNCPU = 3
    Phys <- MemPages
    Dirs = {0}
    NPD = 14
    NPT = 4
    MAPPED = 24
    NKSTACK = 2
    Layouts <- MemLayouts
INVARIANTS PipeNoLostWakeup StreamsSound DevicesSound StartSound
PROPERTIES PipeIsFifo InputKept
CHECK_DEADLOCK FALSE
