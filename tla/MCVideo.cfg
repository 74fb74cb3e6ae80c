SPECIFICATION Spec
CONSTANTS
    Dots = 8
    RenderLines = 3
    VblankLines = 2
    WriteBlock = 30
    MaxCycle = 112
    ScrollLines = 10
    AccessAt = {16}
    Scrolls = {239, 255}
    Highs = {35}
    Lows = {175}
    ScrollStarts = {0, 1055, 29599, 31647}
    MaxAccesses = 2
    PortHighs = {46, 62, 127}
    PortLows = {16, 255}
    PortBytes = {234, 21}
    Mirrorings = {68, 80}
    MaxMoves = 4
    MaxStores = 2
    MaxLoads = 2
    MaxOthers = 1
    Sprites = 5
    Slots = 2
    EvalDots = 22
    Ranges <- MCRanges
    Taller = {8, 13}
    OamAddresses = {0, 9}
    MaxDisturbs = 2
    Tiles = 3
    Solid = {1, 3}
    Fines = {0, 3, 7}
    Slot = 2
    Oams <- MCOams
    Masks <- MCMasks
    DrawnLines = 2
    MaxMaskWrites = 1
INVARIANTS
    NmiPerRise
    RasterPosition
    SpritesChosen
PROPERTIES
    FlagSuppressedByRead
    PortShowsMemory
    PictureInPlace
CHECK_DEADLOCK FALSE
