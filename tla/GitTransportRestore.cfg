SPECIFICATION Spec
CONSTANTS
    Device = {da, db}
    File = {f1, f2}
    None = None
    MaxRoots = 1
    MaxTurns = 2
    RestoreMayFail = TRUE
INVARIANT
    PushedIsKept
CHECK_DEADLOCK FALSE
