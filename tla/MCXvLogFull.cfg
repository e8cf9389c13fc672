CONSTANTS
    Proc = {p1, p2}
    Block = {b1, b2, b3, b4}
    Val = {v0}
    None = None
    MAXOPBLOCKS = 2
    LOGSIZE = 4
    NLOG = 4
    OPBLOCKS = 2
SPECIFICATION Spec
INVARIANT LogNeverFull
