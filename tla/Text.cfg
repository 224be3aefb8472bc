SPECIFICATION Spec
CONSTANTS
    Null = Null
    Sizes = {0, 1, 4, 40}
    Formats <- AllFormats
    DumpSizes = {0, 1, 2, 5, 11, 12, 20, 21, 22, 40, 60, 75, 76, 140, 151, 160}
CHECK_DEADLOCK FALSE
INVARIANTS
    RendersAsC
    StoresBeginning
    CopiesExactly
