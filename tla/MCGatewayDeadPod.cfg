SPECIFICATION FairSpec
CONSTANTS
    r1 = r1
    r2 = r2
    s1 = s1
    a = a
    b = b
    Pods = {0}
    Role <- OneSingle
    Capabilities <- OwnRole
    Serving = {0}
    MaxConns <- OneConn
    HealthyThreshold = 1
    UnhealthyThreshold = 1
    U8Max = 1
    MaxFaults = 1
    RunCap = 1
    Hashes = {a}
    Requests = {r1}
    Sessions = {s1}
    Prompts <- ShortPrompts
    Modes = {"single"}
    EventKinds = {}
    MaxEvents = 0
PROPERTIES
    DeadPodsLeave
