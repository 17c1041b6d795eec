SPECIFICATION Spec
CONSTANTS
    N = 2
    MaxEvents = 4
    MaxCheckpoints = 2
INVARIANT AncestorsDoNotConflict
CHECK_DEADLOCK FALSE
