-------------------------------- MODULE Mmc3 --------------------------------
(***************************************************************************)
(* The scanline counter of the MMC3 (src/src/mappers/MMC3.cpp) behind the  *)
(* fetches of the PPU (clock_ppu in src/src/Ppu.cpp).  Eight dots of a     *)
(* rendered line open two addresses of the name tables and then, in dots 5 *)
(* and 7, two of the patterns; the mapper clocks its counter when bit 12   *)
(* of the address rises after 16 dots without a rise.  Of an address only  *)
(* that bit is kept, and of a line its 42 fetches: 32 tiles, eight sprites *)
(* and the first two tiles of the next line.  The game writes registers of *)
(* the PPU and of the mapper behind a fetch or in vertical blank.          *)
(***************************************************************************)
EXTENDS Integers, FiniteSetsExt

CONSTANTS
    RenderedLines,      \* 240
    LatchValues,        \* bytes written to $C000
    TileRows,           \* what the eight sprites of a line may be: the bit 12
                        \* of each one's address when sprites are large
    TableBits,          \* what the game writes to three bits of $2000
    WriteAt,            \* fetches behind which it writes a register
    MaxWrites           \* bound on the writes within the lines of a frame

ASSUME Mmc3Assumption ==
    /\ RenderedLines \in Nat /\ LatchValues \subseteq 0..255 /\ MaxWrites \in Nat
    /\ TileRows \subseteq [0..7 -> BOOLEAN]
    /\ TableBits \subseteq [background : BOOLEAN, sprites : BOOLEAN, large : BOOLEAN]
    /\ WriteAt \subseteq 0..42

VARIABLES
    scan, fetch,                \* the line, and its fetches so far
    tables,                     \* background, sprites and large of $2000
    show,                       \* ppu_mask_.screen_enabled
    tiles,                      \* sprite_patterns_ of this line
    writes,                     \* history: the writes within this frame's lines
    high, gap,                  \* prev_vram_address_; dots since prev_ppu_cycle_
    mode_a,                     \* mode_ = ModeA
    irq_latch, irq_counter, irq_enabled, irq_reload,
    mapper_irq,                 \* MAPPER_IRQ of the CPU's sources
    calm,                       \* history: the PPU was left alone since a line
    clocks,                     \* history: clocks of the counter in this line;
                                \* it changes with each of them
    quiet, steady               \* history: clocks since the counter was zero,
                                \* and that $C000 has not been written since

beamVars == <<scan, fetch, tiles, writes>>
ppuVars  == <<tables, show>>
irqVars  == <<irq_latch, irq_counter, irq_enabled, irq_reload, mapper_irq, quiet, steady>>
mmc3Vars == <<beamVars, ppuVars, high, gap, mode_a, irqVars, calm, clocks>>

VblankScan == RenderedLines + 1
MinGap     == 16
Later(n)   == Min({gap + n, MinGap})

\* Bit 12 of the patterns that a fetch opens.
PatternBit(f) ==
    CASE f \notin 32..39                 -> tables.background
      [] f \in 32..39 /\ tables.large    -> tiles[f - 32]
      [] OTHER                           -> tables.sprites

-----------------------------------------------------------------------------
\* A mutant: variant A asks with every clock that finds a zero, as B does.
FiresLikeB(value) == irq_enabled /\ value = 0

\* The condition of nes::cpu::irq() in clock_irqA() and clock_irqB().
Fires(value) ==
    irq_enabled /\ value = 0 /\ (mode_a => irq_counter # 0 \/ irq_reload)

ClockIrq ==
    /\ irq_counter' = IF irq_counter = 0 THEN irq_latch ELSE irq_counter - 1
    /\ mapper_irq' = (mapper_irq \/ Fires(irq_counter'))
    /\ irq_reload' = FALSE
    /\ quiet' = IF irq_counter' = 0 THEN 0 ELSE quiet + 1
    /\ steady' = (irq_counter' = 0 \/ steady)
    /\ UNCHANGED <<irq_latch, irq_enabled>>

\* prev_ppu_cycle_ is set by every rise, clocked or not.
Stamp(rises, age) == IF rises THEN 0 ELSE age

\* vram_change_hook(), so many dots after the last call.
Hook(rises, dots) ==
    IF rises /\ Later(dots) = MinGap
    THEN /\ ClockIrq
         /\ clocks' = IF scan = VblankScan THEN 1 - Min({clocks, 1}) ELSE clocks + 1
    ELSE UNCHANGED <<irqVars, clocks>>

-----------------------------------------------------------------------------
(* Fetches.  The name tables are below bit 12, so that a fetch of the      *)
(* upper pattern table rises in its dot 5; its dot 7 is the last one.      *)
Fetch ==
    /\ scan < VblankScan /\ fetch < 42 /\ show
    /\ Hook(PatternBit(fetch), 6)
    /\ high' = PatternBit(fetch)
    /\ gap' = Min({Stamp(PatternBit(fetch), Later(6)) + 2, MinGap})
    /\ fetch' = fetch + 1
    /\ UNCHANGED <<scan, tiles, writes, ppuVars, mode_a, calm>>

\* A line that is not rendered opens no address.
IdleFetch ==
    /\ scan < VblankScan /\ fetch < 42 /\ ~show
    /\ gap' = Later(8) /\ fetch' = fetch + 1
    /\ UNCHANGED <<scan, tiles, writes, ppuVars, high, mode_a, irqVars, calm, clocks>>

\* Dots 337 to 340, whose fetches are of the name table, and dot 0; the
\* pre-render line of an odd frame is one dot shorter.
NextScan ==
    /\ scan < RenderedLines /\ fetch = 42
    /\ scan' = scan + 1 /\ fetch' = 0
    /\ high' = (high /\ ~show)
    /\ gap' \in IF scan = 0 /\ show THEN {Later(5), Later(4)} ELSE {Later(5)}
    /\ tiles' \in TileRows
    /\ calm' = IF show THEN Min({calm + 1, 1}) ELSE -1
    /\ clocks' = 0
    /\ UNCHANGED <<writes, ppuVars, mode_a, irqVars>>

EnterVblankScan ==
    /\ scan = RenderedLines /\ fetch = 42
    /\ scan' = VblankScan /\ gap' = MinGap
    /\ high' = (high /\ ~show)
    /\ UNCHANGED <<fetch, tiles, writes, ppuVars, mode_a, irqVars, calm, clocks>>

StartOfFrame ==
    /\ scan = VblankScan
    /\ scan' = 0 /\ fetch' = 0 /\ gap' = MinGap
    /\ tiles' \in TileRows
    /\ calm' = 0 /\ clocks' = 0 /\ writes' = 0
    /\ UNCHANGED <<ppuVars, high, mode_a, irqVars>>

-----------------------------------------------------------------------------
(* Registers.                                                              *)
Write ==
    \/ scan = VblankScan /\ UNCHANGED beamVars
    \/ /\ scan < VblankScan /\ fetch \in WriteAt /\ writes < MaxWrites
       /\ writes' = writes + 1 /\ UNCHANGED <<scan, fetch, tiles>>

WriteTables ==
    /\ Write
    /\ tables' \in TableBits
    /\ calm' = -1
    /\ UNCHANGED <<show, high, gap, mode_a, irqVars, clocks>>

WriteMask ==
    /\ Write
    /\ show' = ~show
    /\ calm' = -1
    /\ UNCHANGED <<tables, high, gap, mode_a, irqVars, clocks>>

\* The second write of $2006; $2007 opens no address of its own.
WriteAddress ==
    /\ Write
    /\ high' \in BOOLEAN
    /\ Hook(high' /\ ~high, 0)
    /\ gap' = Stamp(high' /\ ~high, gap)
    /\ calm' = -1
    /\ UNCHANGED <<ppuVars, mode_a>>

WriteC000 ==
    /\ Write
    /\ irq_latch' \in LatchValues
    /\ steady' = FALSE
    /\ UNCHANGED <<ppuVars, high, gap, mode_a, irq_counter, irq_enabled, irq_reload,
                   mapper_irq, calm, clocks, quiet>>

WriteC001 ==
    /\ Write
    /\ irq_counter' = 0 /\ irq_reload' = TRUE
    /\ quiet' = 0 /\ steady' = TRUE
    /\ UNCHANGED <<ppuVars, high, gap, mode_a, irq_latch, irq_enabled, mapper_irq,
                   calm, clocks>>

\* $E000 and $E001.
WriteE000 ==
    /\ Write
    /\ irq_enabled' \in BOOLEAN
    /\ mapper_irq' = (mapper_irq /\ irq_enabled')
    /\ UNCHANGED <<ppuVars, high, gap, mode_a, irq_latch, irq_counter, irq_reload,
                   calm, clocks, quiet, steady>>

\* ppu::reset(): the count of dots starts again, and its difference to the
\* mapper's older one wraps to a large number.
ResetPpu ==
    /\ scan = VblankScan
    /\ tables' = [background |-> FALSE, sprites |-> FALSE, large |-> FALSE]
    /\ show' = FALSE
    /\ gap' = MinGap
    /\ UNCHANGED <<beamVars, high, mode_a, irqVars, calm, clocks>>

Mmc3Init ==
    /\ scan = VblankScan /\ fetch = 42 /\ tiles \in TileRows /\ writes = 0
    /\ tables = [background |-> FALSE, sprites |-> FALSE, large |-> FALSE]
    /\ show = FALSE
    /\ high = TRUE /\ gap = 0 /\ mode_a \in BOOLEAN
    /\ irq_latch = 0 /\ irq_counter = 0 /\ irq_enabled = FALSE /\ irq_reload = FALSE
    /\ mapper_irq = FALSE /\ calm = 0 /\ clocks = 0 /\ quiet = 0 /\ steady = TRUE

Mmc3Next ==
    \/ Fetch \/ IdleFetch \/ NextScan \/ EnterVblankScan \/ StartOfFrame
    \/ WriteTables \/ WriteMask \/ WriteAddress
    \/ WriteC000 \/ WriteC001 \/ WriteE000 \/ ResetPpu

Mmc3Spec == Mmc3Init /\ [][Mmc3Next]_mmc3Vars

-----------------------------------------------------------------------------
(* No sprite that uses the lower table stands between two that use the     *)
(* upper one.                                                              *)
Unbroken == \A i, j, k \in 0..7 : i < j /\ j < k /\ tiles[i] /\ tiles[k] => tiles[j]

(* The filter lets exactly one edge of a line through when one of the      *)
(* background and the sprites uses the upper pattern table, and none when  *)
(* both use the same: not one for each of the tiles, not a second one at   *)
(* the end of the line, and not one less in the line that follows the      *)
(* pre-render line of an odd frame, which is a dot shorter.                *)
OneClockPerLine ==
    scan < VblankScan /\ fetch = 42 /\ calm >= 1 =>
        /\ ~tables.large =>
              clocks = IF tables.background # tables.sprites THEN 1 ELSE 0
        /\ tables.large /\ ~tables.background /\ Unbroken =>
              clocks = IF \E i \in 0..7 : tiles[i] THEN 1 ELSE 0

(* The interrupt comes with the clock irq_latch + 1 after $C001 or after   *)
(* the last zero, neither earlier nor later, whatever was acknowledged or  *)
(* enabled in between and however often $2006 has clocked the counter; a   *)
(* latch of zero asks with every clock in the B variant and once in A.     *)
IrqOnTheLine ==
    [][clocks' # clocks /\ steady /\ ~StartOfFrame /\ ~NextScan =>
          (mapper_irq' <=> \/ mapper_irq
                           \/ /\ irq_enabled /\ quiet = irq_latch
                              /\ mode_a /\ irq_latch = 0 => irq_reload)]_mmc3Vars

(* Raster splits come on the line they were asked for: both of these.      *)
LineInterrupts == []OneClockPerLine /\ IrqOnTheLine
=============================================================================
