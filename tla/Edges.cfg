SPECIFICATION Spec
CONSTANTS
    d1 = d1  d2 = d2  h1 = h1  h2 = h2  v1 = v1  v2 = v2  r1 = r1  r2 = r2
    Daemons = {d1, d2}
    Hosts = {h1, h2}
    Nobody = Nobody
    Versions = {v1, v2}
    MaxFaults = 1
    Requests = {r1, r2}
    MaxRpc = 1
    MaxStreams = 1
    MaxExports = 1
    MaxServed = 2
    NoState = NoState
    MaxChanges = 3
    NoAnswer = NoAnswer
    Asked = Asked
    Background = {0, 2}
    MaxSettings = 2
    MaxReloads = 1
    Unasked = Unasked
    MaxSends = 2
INVARIANTS
    NeverHopeless
    ExitTells
    SlotsExact
    Drained
    PublishedCurrent
    WindowCurrent
    Arrives
    EncodingsAgree
    PagesWhole
PROPERTIES
    EndsInTime
CHECK_DEADLOCK FALSE
