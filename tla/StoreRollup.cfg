SPECIFICATION Spec
CONSTANTS
    t1 = t1
    t2 = t2
    a = a
    b = b
    rA = rA
    rB = rB
    svcA = svcA
    svcB = svcB
    Traces = {t1, t2}
    SpanIds = {a, b}
    NoParent = none
    Resources = {rA, rB}
    ServiceOf <- MCServiceOf
    Unnamed = unnamed
    Exports <- MixedExports
    MaxBatch = 2
    Retentions <- AgeOrSize
    PruneFloor = 1
    PruneDivisor = 2
    MaxRounds = 2
    MaxClock = 2
    MaxCrashes = 1
INVARIANTS
    RollupExact
PROPERTIES
    FreshSpansKept
