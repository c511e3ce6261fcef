SPECIFICATION Spec
CONSTANTS
    Poke = {}
    Sub = {s1, s2}
    Resub = {s1, s2}
    Hi = Hi
    AckEvery = 1
    Torn = TRUE
    LatePuts = FALSE
    EarlyKicks = FALSE
    StaleUnsubs = FALSE
    MaxUid = 1
    MaxId = 2
    Facts = 1
    Kicks = 0
    Fails = 1
    Breaks = 1
    Budget <- MCBudget
INVARIANT
    NothingLostUnheard
CHECK_DEADLOCK FALSE
