SPECIFICATION Spec
CONSTANTS
    Frames = {f1, f2, f3}
    Uninit = Uninit
    Inline = 2
    MaxHeight = 4
INVARIANTS
    ReadsInitialized
PROPERTIES
    LastInFirstOut
