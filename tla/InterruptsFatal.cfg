SPECIFICATION Spec
CONSTANTS
    Vectors = {3, 14, 32, 33, 255}
    EnableIrqs = {}
    DisableIrqs = {}
    NullVectors = {}
    MaxDepth = 3
CHECK_DEADLOCK FALSE
INVARIANTS
    FatalHangs
