SPECIFICATION Spec
CONSTANTS
    Poke = {}
    Sub = {s1, s2}
    Resub = {s1}
    Hi = Hi
    AckEvery = 1
    Torn = FALSE
    LatePuts = FALSE
    EarlyKicks = FALSE
    StaleUnsubs = FALSE
    MaxUid = 1
    MaxId = 2
    Facts = 1
    Kicks = 1
    Fails = 1
    Breaks = 0
    Budget <- MCBudget
INVARIANTS
    TypeOK
    FactsReachTheirHandler
    RegistryAsTold
    ShipAgrees
CHECK_DEADLOCK FALSE
