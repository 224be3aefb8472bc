SPECIFICATION HeapSpec
CONSTANTS
    PAGE_SIZE = 192
    ALLOC_PAGES = 1
    MaxPages = 3
    Requests = {24, 40, 150}
    TinyBlocks = FALSE
    FreeAny = FALSE
INVARIANTS
    
    
    LiveDataIntact
