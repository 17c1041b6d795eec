SPECIFICATION MCSpec
CONSTANTS
    Devices = {d1, d2}
    None = None
    Keys = {1, 2}
    Blobs = {1, 2}
    MaxChanges = 1
    MaxFaults = 2
    MaxVersions = 3
    N = 3
    MaxRetained = 1
    MaxChats = 2
    MaxProbes = 2
    MaxEntries = 2
    MaxFiles = 2
    MaxCost = 3
    MaxLosses = 1

    
    
PROPERTIES
    RepairHidesNothing
    CompleteMissesNothing
    
CHECK_DEADLOCK FALSE
SYMMETRY Symmetry
