SPECIFICATION FairSpec
CONSTANTS
    a = a
    b = b
    c = c
    Pods = {0, 1}
    Hashes = {a, b, c}
    Chains <- MCChains
    Start <- ClosedRelations
    Changes = {"register", "evict", "alive", "shutdown"}
    Holes = FALSE
INVARIANTS
    TypeOK
    FramesApart
    DepthNotShort
    WholePrefix
    BestRegular
    QuietExact
    StackShallow
PROPERTIES
    QueryReturns
