SPECIFICATION FairSpec
CONSTANTS
    MAX_BUFSIZ = 1
    PhysKeys <- Modifiers
    Layouts = {"ps2"}
    DefaultLayout = "ps2"
    Shifted <- MCShifted
    Unshifted <- MCUnshifted
    NoKey = NoKey
INVARIANTS
    TypeOK
    
    FlagsTrackWire
    CharMatchesFlags
PROPERTIES
    
    GetCharReturns
