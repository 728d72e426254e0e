SPECIFICATION Spec
CONSTANTS
    r1 = r1
    r2 = r2
    Configs <- MCConfigs
    MaxPods = 6
    U16Max = 6
    Requests = {r1, r2}
    Inputs <- MCInputs
    Answers <- MCAnswers
    EventRefs <- MCEventRefs
    Tokens = {"a", "b", "c"}
    Values <- MCValues
    BlockSize = 2
    HttpUrls = {"s", "p", "d"}
    MaxNanos = 1
    MaxEvents = 1
SYMMETRY MCSymmetry
CHECK_DEADLOCK FALSE
INVARIANTS
    TypeOK
    CatalogSound
    RoutedInCatalog
    RoutingHeadersTrue
    RequestIdsDistinct
    HitIsLearned
    ChainIsBatch
