SPECIFICATION LatencySpec
CONSTANTS
    Sources = {"apu", "mapper"}
    Opcodes = {"Ordinary", "Flag", "Rti", "Brk", "BranchNotTaken",
               "BranchTaken", "BranchCross", "Jam"}
    MaxCredit = 3
INVARIANTS
    SequencerSafe
    IrqDiscipline
    NmiTimely
PROPERTIES
    RequestsKept
    EverythingServed
