SPECIFICATION Spec
CONSTANTS
    p1 = p1
    p2 = p2
    p3 = p3
    keep = keep
    Keep = keep
    Ports <- MCPorts
    Defaults <- MCDefaults
    Files <- MCFiles
    NoFile = nofile
    Junk = junk
    Calls = {c1}
    Patches <- MCPatches
    NoPort = noport
    Overrides = {}
    Occupied = {p1, p3}
    MaxCloses = 0
    MaxTaken = 0
    MaxReboots = 0
PROPERTIES
    RefusalAtomic
CHECK_DEADLOCK FALSE
