SPECIFICATION Spec
CONSTANTS
    p1 = p1
    p2 = p2
    p3 = p3
    keep = keep
    Keep = keep
    Ports <- MCPorts
    Defaults <- MCDefaults
    Files <- MCOddFiles
    NoFile = nofile
    Junk = junk
    Calls = {c1, c2}
    Patches <- MCPatches
    NoPort = noport
    Overrides = {}
    Occupied = {p1}
    MaxCloses = 1
    MaxTaken = 1
    MaxReboots = 1
INVARIANTS
    OneWinner
    PortsAccounted
    QueueMoves
PROPERTIES
    AllOrNothing
CHECK_DEADLOCK FALSE
