SPECIFICATION Spec
CONSTANTS
    None = None
    Files = 2
    Kinds = {"good", "bad", "large"}
    MaxPending = 1
    MaxLarge = 1
    Work = 2
    MaxChanges = 2
    MaxFaults = 0
PROPERTY OversizedIsProtected
CHECK_DEADLOCK FALSE
