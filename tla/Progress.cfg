SPECIFICATION MCSpec
CONSTANTS
    Host = {h1, h2}
    None = None
    MaxCalls = 3
    MaxFailures = 2
    MaxEvents = 2
    MaxLosses = 2
    Files = 2
    Kinds = {"good", "bad", "large"}
    MaxPending = 1
    MaxLarge = 1
    Work = 2
    MaxChanges = 2
    MaxFaults = 1
INVARIANTS
    TypeOK
    NoRuntimeWithoutRole
    OneRuntime
    StopHasReleased
PROPERTIES
    RoleIsTaken
    NoFork
    RecoversInTheEnd
    NothingUnseenIsReplaced
    ReadableIsPublished
CHECK_DEADLOCK FALSE
