SPECIFICATION TimingSpec
CONSTANTS
    Bytes = 4
    MinGap = 7
INVARIANTS
    SafeCopy
    TransferTimes
PROPERTIES
    CopiesThePage
    CpuRuns
