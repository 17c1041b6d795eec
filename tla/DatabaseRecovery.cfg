SPECIFICATION Spec
CONSTANTS
    Page = {p1, p2}
    Use = {u1}
    MaxFiles = 2
    MaxBytes = 2
    Sizes = {1, 3}
    MaxUses = 1
    MaxBackups = 3
    MaxFaults = 2
INVARIANTS
    MarkedIsWritten
PROPERTIES
    Recoverable
CONSTRAINT FewFaults
CHECK_DEADLOCK FALSE
SYMMETRY Pages
