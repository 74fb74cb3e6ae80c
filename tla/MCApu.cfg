SPECIFICATION MCSpec
CONSTANTS
    Loads = {1, 2}
    ResetWritesHalt = FALSE
    MaxCycles = 4
    MaxVolume = 3
    Byte = 8
    Low = 2
    Limit = 8
    Word = 32
    Shifts = {0, 1, 2}
    MaxPeriod = 1
    Channel = 0
    MaxLinear = 3
    RegisterBits = 15
    Tap = 6
    Size = 8
    FrameSamples = {2, 3}
    Take = 2
    View = 3
    MaxSamples = 10
    Pads = {1, 2}
    Buttons = 2
    IndexRange = 5
    Lengths = {1, 2}
    Bits = 4
    FirstDelay = 2
    Periods4 <- MCPeriods4
    Periods5 <- MCPeriods5
INVARIANTS
    FlagsAndLine
    SequenceAligned
    UnitsSafe
PROPERTIES
    OneFetchAtATime
    SequenceRuns
    LazyIsEager
    NotesEnd
    FrameHandedOver
    ReadsOneInstant
CHECK_DEADLOCK FALSE
