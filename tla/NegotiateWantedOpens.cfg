SPECIFICATION FairSpec
CONSTANTS
    Protocol = {p, q}
    Version = {v1}
    Wire = {w}
    MaxUpgrades = 0
    MaxLoads = 1
    MaxKicks = 0
PROPERTIES WantedOpens
CHECK_DEADLOCK FALSE
