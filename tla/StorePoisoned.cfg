SPECIFICATION Spec
CONSTANTS
    t1 = t1
    t2 = t2
    a = a
    b = b
    rA = rA
    rB = rB
    svcA = svcA
    svcB = svcB
    Traces = {t1, t2}
    SpanIds = {a, b}
    NoParent = none
    Resources = {rA, rB}
    ServiceOf <- MCServiceOf
    Unnamed = unnamed
    Exports <- PoisonedExports
    MaxBatch = 1
    Retentions <- AgeOnly
    PruneFloor = 1
    PruneDivisor = 2
    MaxRounds = 1
    MaxClock = 1
    MaxCrashes = 0
INVARIANTS
    SpanAttribution
