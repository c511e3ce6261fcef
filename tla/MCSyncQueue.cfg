SPECIFICATION FairSpec
CONSTANTS
    l1 = l1
    l2 = l2
    m1 = m1
    h1 = h1
    Op = {l1, l2, m1, h1}
    Concurrency = 2
    Medium = 5
    Abortable = {l1, h1}
    MaxNow = 1
    Priority <- MCPriority
INVARIANTS
    TypeOK
    SlotsAreThreads
PROPERTIES
    StartsAreDue
    EveryAddSettles
CHECK_DEADLOCK FALSE
