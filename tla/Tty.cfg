SPECIFICATION Spec
CONSTANTS
    MAX_TTYS = 2
    SCREEN_ROWS = 2
    SCREEN_COLS = 2
    STRIDE = 10
    Chars = {"a"}
    Codes = {1, 2}
    BLANK = " "
    Users = {0}
INVARIANTS
    DisplayFollows
PROPERTIES
    ShowsTerminals
