SPECIFICATION Spec
CONSTANTS
    r1 = r1
    r2 = r2
    s1 = s1
    a = a
    b = b
    Pods = {0, 1, 2}
    Role <- TwoPrefillOneDecode
    Capabilities <- AllRoles
    Serving = {0, 1, 2}
    MaxConns <- ConnsTwoOne
    HealthyThreshold = 1
    UnhealthyThreshold = 1
    U8Max = 1
    MaxFaults = 0
    RunCap = 1
    Hashes = {a, b}
    Requests = {r1, r2}
    Sessions = {s1}
    Prompts <- MCPrompts
    Modes = {"disaggregated"}
    EventKinds = {"shutdown"}
    MaxEvents = 1
SYMMETRY MCSymmetry
INVARIANTS
    TypeOK
    InflightExact
    PrefixClosed
PROPERTIES
    StickyAfterBlocks
