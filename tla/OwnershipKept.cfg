SPECIFICATION Spec
CONSTANTS
    Processes = {p1, p2, p3}
    None = None
    NoLock = NoLock
    MaxAttempts = 2
SYMMETRY Symmetry
INVARIANTS
    Discoverable
PROPERTIES
    AloneOwns
    FilesKept
CHECK_DEADLOCK FALSE
