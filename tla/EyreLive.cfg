SPECIFICATION FairSpec
CONSTANTS
    Poke = {}
    Sub = {s1}
    Resub = {s1}
    Hi = Hi
    AckEvery = 0
    Torn = FALSE
    LatePuts = FALSE
    EarlyKicks = FALSE
    StaleUnsubs = FALSE
    MaxUid = 2
    MaxId = 1
    Facts = 1
    Kicks = 0
    Fails = 1
    Breaks = 1
    Budget <- MCBudget
INVARIANTS
    NothingLostUnheard
PROPERTIES
    FeedSpec
    NeverStuck
CHECK_DEADLOCK FALSE
