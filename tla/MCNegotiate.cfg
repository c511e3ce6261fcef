SPECIFICATION FairSpec
CONSTANTS
    Protocol = {p, q}
    Version = {v1, v2}
    Wire = {w}
    MaxUpgrades = 1
    MaxLoads = 2
    MaxKicks = 1
INVARIANTS TypeOK OpenExactlyWhileMatched NeverStopsListening
PROPERTIES HearsInTheEnd
CHECK_DEADLOCK FALSE
