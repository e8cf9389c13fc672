CONSTANTS
    NPROC = 3
    CPU = {c0, c1}
    Cpu0 = c0
    None = None
    Priority = {}
    Pid = {2}
    Calls = {"fork", "exit", "waitsch", "sleep", "kill"}
    AllocFail = FALSE
    NAP = 1
    MaxTicks = 1
    MaxPid = 3
SPECIFICATION ProgressSpec
INVARIANTS Charged
PROPERTIES SleepersRun ZombiesReaped EnvProgress
