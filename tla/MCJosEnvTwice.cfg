CONSTANTS
    NENV = 2
    CPU = {c1, c2}
    None = None
    FirstEnvs = 1
    Calls = {"exofork", "set_status", "destroy"}
    Careful = {"set_status"}
    MaxGen = 2
    MaxBirths = 2
SPECIFICATION Spec
INVARIANT PgdirInUse
