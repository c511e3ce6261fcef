SPECIFICATION FairSpec
CONSTANTS
    Message = {m}
    PageSize = 1
    MaxLog = 3
    MaxSends = 2
    MaxFaults = 1
INVARIANTS
    TypeOK
    SameWhenQuiet
    PendingIsTrue
PROPERTIES
    ReplicaSpec
    CatchesUp
CHECK_DEADLOCK FALSE
