SPECIFICATION ProgSpec
CONSTANTS
    Jobs <- MCJobs
    Base <- MCBase
    IrqRoutine <- MCIrqRoutine
    NmiRoutine <- MCNmiRoutine
    IrqBase <- MCIrqBase
    NmiBase <- MCNmiBase
    BrkCell = 32
    IrqCell = 33
    NmiCell = 34
INVARIANTS
    ProgramsUndisturbed
    
PROPERTIES
    HandlersLeaveNoTrace
CHECK_DEADLOCK FALSE
