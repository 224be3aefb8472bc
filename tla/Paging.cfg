SPECIFICATION Spec
CONSTANTS
    Frames = {1, 2, 3, 4, 5, 6, 7, 8, 9, 10, 11, 12, 13, 14, 15, 16, 17, 18, 19}
    E = 4
    Vroot = 64
    Vterm = 84
    ClientPages = {84, 87, 88, 96}
    Inlined = FALSE
CHECK_DEADLOCK FALSE
INVARIANTS
    TreeSound
    NoStaleTranslation
PROPERTIES
    DestroyReturnsPages
