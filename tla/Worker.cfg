SPECIFICATION FairSpec
CONSTANTS
    QueueLimit = 3
    MaxCalls = 4
INVARIANTS
    OwnerLimits
    CloseDrains
PROPERTIES
    EveryCallSettles
    Serves
CHECK_DEADLOCK FALSE
