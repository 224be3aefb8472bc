SPECIFICATION FairSpec
CONSTANTS
    Bytes = 5
    AddTypes = {1, 2, 6}
    FixedRegions <- MCFixed
    MaxReported = 3
    MaxAdds = 1
    EmptyAt = {0}
CHECK_DEADLOCK FALSE
INVARIANTS
    SweepInOrder
    StrongestTypeWins
    MapExact
    ScansStop
PROPERTIES
    NormalizeEnds
