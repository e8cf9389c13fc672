SPECIFICATION ProgramsSpec
CONSTANTS
    NPROC = 6
    NFILE = 8
    NOFILE = 6
    NINO = 30
    MAXFILE = 8
    PIPESIZE = 2
    PGSIZE = 2
    NFRAME = 40
    SIZE0 = 4
    NCPU = 4
    DIRSIZ <- Cut
    Token = {"a", "|", "&", ";", "<", "(", ")"}
    MAXARGS = 3
    MaxTokens = 6
    Lines <- Typed
    MaxLines = 2
INVARIANTS AllTestsPass ShellRight
PROPERTIES CommandsEnd
CHECK_DEADLOCK FALSE
