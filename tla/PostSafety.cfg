SPECIFICATION Spec
CONSTANTS
    Post = {p, d}
    Dm = {d}
    MaxSends = 3
    PollTries = 1
    Drops = 1
    Restarts = 1
    Syncs = 0
    Budget <- MCBudget
INVARIANTS
    TypeOK
    NothingVanishes
    FailedIsRetryable
    EnqueuedHasSender
    AckedInOrder
CONSTRAINT LastForOnePost
CHECK_DEADLOCK FALSE
