SPECIFICATION MCSpec
CONSTANTS
    Window = {w1, w2}
    Finalizer = {f1, f2}
    None = None
    MaxActs = 2
PROPERTIES
    SessionIsCovered
    OffIsHonoured
CONSTRAINT OneAtATime
CHECK_DEADLOCK FALSE
