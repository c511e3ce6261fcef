SPECIFICATION FairSpec
CONSTANTS
    Post = {p}
    Dm = {}
    MaxSends = 2
    PollTries = 1
    Drops = 1
    Restarts = 1
    Syncs = 1
    Budget <- MCBudget
PROPERTIES
    EverySendSettles
CHECK_DEADLOCK FALSE
