SPECIFICATION Spec
CONSTANTS
    Menu <- PauseAndReset
    Rom = TRUE
    Files <- AnyFile
    Tests = 0
    Limit = 0
    InputFrames <- NoFrames
    ResetFrames <- NoFrames
    MaxQueue = 2
    MaxFrames = 2
INVARIANTS
    ResetBetweenFrames
CHECK_DEADLOCK FALSE
