SPECIFICATION FairSpec
CONSTANTS
    t1 = t1
    t2 = t2
    h1 = h1
    h2 = h2
    Threads = {t1, t2}
    Hashes = {h1, h2}
    NumShards = 2
    ShardFor <- MCShardFor
    MaxPods = 3
    PodIds = {1, 2, 3}
    InitPodCount = 1
    Chains <- MCChains
    MaxCalls = 3
INVARIANTS
    TypeOK
    PodCountCovers
    SweepComplete
    ScanRegular
    OwnersAliveRegular
PROPERTIES
    CallsReturn
    EmptyByMisfitOnly
    ImplementsOwnership
CHECK_DEADLOCK FALSE
