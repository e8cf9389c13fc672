CONSTANTS
    NPROC = 2
    CPU = {c0, c1}
    Cpu0 = c0
    None = None
    Priority = {}
    Pid = {0}
    Calls = {"fork", "exit", "wait", "kill"}
    AllocFail = FALSE
    NAP = 1
    MaxTicks = 0
    MaxPid = 3
SPECIFICATION Spec
INVARIANT BornAlive
