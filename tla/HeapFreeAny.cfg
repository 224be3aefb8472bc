SPECIFICATION HeapSpec
CONSTANTS
    PAGE_SIZE = 192
    ALLOC_PAGES = 1
    MaxPages = 2
    Requests = {24, 72}
    TinyBlocks = FALSE
    FreeAny = TRUE
INVARIANTS
    PrevAdjIsFree
