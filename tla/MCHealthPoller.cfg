SPECIFICATION FairSpec
CONSTANTS
    Pods = {0, 1}
    HealthyThreshold = 2
    UnhealthyThreshold = 3
    U8Max = 3
    MaxFaults = 3
    RunCap = 4
INVARIANTS
    TypeOK
    ThresholdNotMissed
    FlagIsBitUnlessOverwritten
PROPERTIES
    FlipNeedsFullRun
    PollerConverges
