SPECIFICATION Spec
CONSTANTS
    Parts = {"mmc3", "mmc5", "boards", "serial", "timers", "saves"}
    RenderedLines = 2
    LatchValues = {0, 1}
    TileRows <- MCTileRows
    TableBits <- MCTableBits
    WriteAt = {20}
    MaxWrites = 1
    Tiles5 = 2
    Sprites5 = 2
    Lines5 = 3
    VblankLines5 = 1
    EventAt5 = {5, 26}
    Targets5 = {0, 2}
    MaxEvents5 = 2
    RomByte <- MCRomByte
    Carts <- MCCarts
    Accesses <- MCAccesses
    MaxBoardAccesses = 3
    SerialCarts <- MCSerialCarts
    PortAddresses = {32768, 40960, 49152, 57344}
    Gaps = {1, 2}
    MaxWords = 2
    Chips = {"counter12", "bandai", "ss88006", "n163", "fme7", "vrc4", "vrc6", "rambo"}
    Byte = 8
    Nibble = 2
    Long = 8
    LineThirds = 11
    Emulators = {1, 2}
    Games <- MCGames
    SaveSize = 2
    SaveBytes = {2}
    Files <- MCFiles

    
    
    
PROPERTIES
    LineInterrupts
    LinesAndSprites
    TimerOnTime
    SavesKept
CHECK_DEADLOCK FALSE
