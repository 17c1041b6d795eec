SPECIFICATION MCSpec
CONSTANTS
    Chat = {c1}
    Setting = {s1}
    Content = {a, b}
    Initial = a
    Absent = Absent
    None = None
    PageSize = 1
    MaxActs = 2
    MaxMerges = 1
    MaxFaults = 1
    EditsDuringCycle = FALSE
    N = 2
    MaxEvents = 2
    MaxCheckpoints = 2
PROPERTIES
    
    Convergence
CONSTRAINT FewActs
CHECK_DEADLOCK FALSE
