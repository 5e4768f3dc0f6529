SPECIFICATION Spec
CONSTANTS
    NoFile = noFile
    OldVersions = {1, 3, 5, 6}
    MaxFaults = 2
INVARIANTS OpenedWhole SchemaExact NothingLost
PROPERTY ComesUp
