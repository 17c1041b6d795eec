SPECIFICATION MCSpec
CONSTANTS
    Chat = {c1}
    Setting = {s1}
    Content = {a, b, c}
    Initial = a
    Absent = Absent
    None = None
    PageSize = 1
    MaxActs = 2
    MaxMerges = 2
    MaxFaults = 1
    EditsDuringCycle = FALSE
    Clone = {da, db}
    File = {f1, f2}
    MaxRoots = 1
    MaxTurns = 2
    Key = {k1, k2}
    Kind = {"rows", "notes", "state", "json", "text", "targets"}
    MaxEdits = 3
    MaxVersions = 4
    MaxChatEdits = 2
    MaxChatVersions = 4
INVARIANTS
    PushedIsKept
    
    LatestIsShown

    
    
CHECK_DEADLOCK FALSE
SYMMETRY Symmetry
