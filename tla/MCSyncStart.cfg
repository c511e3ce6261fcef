SPECIFICATION Spec
CONSTANTS
    MaxStarts = 3
    MaxGaps = 1
    MaxLogins = 2
    MaxFetches = 1
INVARIANTS TypeOK LockIsOwned DeskIsOwn SubscribedOnce CursorIsSound GapsAreFetched
CHECK_DEADLOCK FALSE
