SPECIFICATION Spec
CONSTANTS
    a = a
    b = b
    c = c
    Pods = {0, 1}
    Hashes = {a, b, c}
    Chains <- ThreeBlocks
    Start <- ClosedRelations
    Changes = {"evict"}
    Holes = TRUE
INVARIANTS
    WholePrefix
