SPECIFICATION Spec
CONSTANTS
    Poke = {p1, p2}
    Sub = {}
    Resub = {}
    Hi = Hi
    AckEvery = 0
    Torn = TRUE
    LatePuts = TRUE
    EarlyKicks = TRUE
    StaleUnsubs = FALSE
    MaxUid = 2
    MaxId = 2
    Facts = 0
    Kicks = 0
    Fails = 0
    Breaks = 1
    Budget <- MCBudget
INVARIANTS
    AnswersAreMine
    StatusIsTrue
SYMMETRY Symmetry
CHECK_DEADLOCK FALSE
