SPECIFICATION Spec
CONSTANTS
    Menu <- NoActions
    Rom = FALSE
    Files <- KnownMappers
    Tests = 3
    Limit = 2
    InputFrames <- BothFrames
    ResetFrames <- FirstFrame
    MaxQueue = 2
    MaxFrames = 4
INVARIANTS
    TestsIsolated
PROPERTIES
    RegressionEnds
CHECK_DEADLOCK FALSE
