SPECIFICATION FairSpec
CONSTANTS
    Signals = {traces, logs}
    HistoryLimit = 2
    NoId = none
    MaxChanges = 4
    MaxDrops = 2
    MaxRestarts = 1
INVARIANTS
    NothingMissed
PROPERTIES
    HintsArrive
CHECK_DEADLOCK FALSE
