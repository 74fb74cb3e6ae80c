SPECIFICATION CpuSpec
CONSTANTS
    Sources = {"apu"}
    Opcodes = {"Ordinary", "Jam"}
    Bytes = 2
    MinGap = 5
PROPERTIES
    SequencerKeepsItsSpec
    
