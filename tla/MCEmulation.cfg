SPECIFICATION Spec
CONSTANTS
    Menu <- AllActions
    Rom = TRUE
    Files <- AnyFile
    Tests = 0
    Limit = 0
    InputFrames <- NoFrames
    ResetFrames <- NoFrames
    MaxQueue = 3
    MaxFrames = 3
INVARIANTS
    ThreadInStep
PROPERTIES
    NobodyWaits
CHECK_DEADLOCK FALSE
