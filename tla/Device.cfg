SPECIFICATION MCSpec
CONSTANTS
    Process = {p1, p2}
    Before = p0
    Attempts = 4
    MaxCrashes = 1
    CanAge = TRUE
    None = None
    Repo = {ra, rb}
    MaxCommands = 2
    MaxClaims = 4
    Value = {va, vb}
    MaxWrites = 4
    MaxIds = 4
    MaxRowWrites = 2
    Chats = 2
    Limit = 1
    MaxChanges = 1
INVARIANTS
    ExclusiveWithinTTL
    
    
    FileIsWhatWasSaved
    SettledIsKnown
PROPERTIES
    StaleIsRecovered
    WriteIsUndoable
    
CONSTRAINT FewWrites
CHECK_DEADLOCK FALSE
