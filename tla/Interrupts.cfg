SPECIFICATION FairSpec
CONSTANTS
    Vectors = {3, 14, 32, 33, 255}
    EnableIrqs = {0, 1, 2}
    DisableIrqs = {0, 1}
    NullVectors = {3}
    MaxDepth = 5
CHECK_DEADLOCK FALSE
INVARIANTS
    PicMatchesStack
PROPERTIES
    AnnouncedUnlessBoot
    KeyboardServed
    HaltEnds
