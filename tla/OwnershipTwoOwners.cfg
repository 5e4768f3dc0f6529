SPECIFICATION Spec
CONSTANTS
    Processes = {p1, p2, p3}
    None = None
    NoLock = NoLock
    MaxAttempts = 2
INVARIANTS
    AtMostOneOwner
CHECK_DEADLOCK FALSE
