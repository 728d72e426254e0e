SPECIFICATION Spec
CONSTANTS
    r1 = r1
    r2 = r2
    s1 = s1
    a = a
    b = b
    Pods = {0, 1}
    Role <- PrefillDecode
    Capabilities <- AllRoles
    Serving = {0, 1}
    MaxConns <- ConnsTwoOne
    HealthyThreshold = 1
    UnhealthyThreshold = 1
    U8Max = 1
    MaxFaults = 0
    RunCap = 1
    Hashes = {a}
    Requests = {r1, r2}
    Sessions = {s1}
    Prompts <- ShortPrompts
    Modes = {"disaggregated"}
    EventKinds = {}
    MaxEvents = 0
INVARIANTS
    DecodePickInformed
