CONSTANTS
    NPROC = 3
    CPU = {c0, c1}
    Cpu0 = c0
    None = None
    Priority = {1}
    Pid = {2, 3, 4}
    Calls = {"fork", "exit", "wait", "kill", "sleep", "setpriority", "fault"}
    AllocFail = TRUE
    NAP = 1
    MaxTicks = 1
    MaxPid = 4
SPECIFICATION Spec
INVARIANTS OnOneCPU StackInUse ParentAlive NoLostWakeup
