SPECIFICATION FairSpec
CONSTANTS
    r1 = r1
    r2 = r2
    s1 = s1
    a = a
    b = b
    Pods = {0, 1}
    Role <- PrefillDecode
    Capabilities <- AllRoles
    Serving = {0, 1}
    MaxConns <- OneConn
    HealthyThreshold = 1
    UnhealthyThreshold = 1
    U8Max = 1
    MaxFaults = 1
    RunCap = 1
    Hashes = {a}
    Requests = {r1}
    Sessions = {s1}
    Prompts <- ShortPrompts
    Modes = {"disaggregated"}
    EventKinds = {"register", "evict"}
    MaxEvents = 1
PROPERTIES
    RequestsEnd
    RunningPodsRouted
