SPECIFICATION Spec
CONSTANTS
    N = 2
    MaxEvents = 3
    MaxCheckpoints = 2
INVARIANTS
    LamportRespectsCausality
    PruneStrandsNobody
    NoEditDropped
CONSTRAINT FewFiles
CHECK_DEADLOCK FALSE
