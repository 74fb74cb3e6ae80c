-------------------------------- MODULE Mmc5 --------------------------------
(***************************************************************************)
(* How an MMC5 follows the picture (src/src/mappers/Mapper005.cpp).  The   *)
(* chip sees the reads of the PPU only: the same nametable address three   *)
(* times in a row is the end of one line and the start of the next, and    *)
(* three CPU cycles without a read are the end of the picture.  From these *)
(* it counts lines for its interrupt and fetches for the banks of large    *)
(* sprites.                                                                *)
(*                                                                         *)
(* A line here is dot 0, where the PPU idles, and two dots for each read:  *)
(* Tiles5 tiles, Sprites5 sprites, the next line's first two tiles and two *)
(* reads more.  In the code these are 32 and 8, and Lines5 is 240.         *)
(***************************************************************************)
EXTENDS Naturals

CONSTANTS
    Tiles5, Sprites5, Lines5,
    VblankLines5,           \* lines without reads
    EventAt5,               \* dots before which the CPU may use a register
    Targets5,               \* what it writes to $5203
    MaxEvents5              \* bound on these accesses

ASSUME Mmc5Assumption ==
    /\ {Tiles5, Sprites5, Lines5, VblankLines5} \subseteq Nat \ {0} /\ Lines5 <= 256
    /\ Targets5 \subseteq 0..255 /\ EventAt5 \subseteq Nat /\ MaxEvents5 \in Nat

VARIABLES
    vpos5, hpos5,           \* vpos_, hpos_
    odd5,                   \* odd_frame_
    row5,                   \* the nametable's row the frame starts in
    enabled5,               \* ppu_mask_.screen_enabled
    cycle,                  \* dots since the last CPU cycle
    in_frame, pending,      \* irq_status_
    irq_counter5, irq_target, irq_enabled5,
    asserted,               \* the mapper's bit of the CPU's interrupt line
    frame_seeded, saw_ppu_read, ppu_read_idle_cycles,
    prev, scanline_pending, fetch_count,
    large_sprites, last_chr_write,
    bank,                   \* the set of banks the last pattern came from
    moved5,                 \* history: this frame starts where the last ended
    clean,                  \* history: rendering from the picture's first dot
                            \* on, and nothing that ends a frame
    events                  \* accesses so far

beamVars5 == <<vpos5, hpos5, odd5, row5, enabled5, cycle>>
countVars5 == <<in_frame, pending, irq_counter5, asserted>>
detectVars5 == <<frame_seeded, saw_ppu_read, ppu_read_idle_cycles, prev, scanline_pending, fetch_count>>
setVars5 == <<irq_target, irq_enabled5, large_sprites, last_chr_write>>
mmc5Vars == <<beamVars5, countVars5, detectVars5, setVars5, bank, moved5, clean, events>>

BgReads == 4 * Tiles5
SpriteReads == 4 * Sprites5
Reads == BgReads + SpriteReads + 8 + 2
LastDot == 2 * Reads
LastLine == Lines5 + VblankLines5

-----------------------------------------------------------------------------
(* What the PPU reads: the address of the n-th read of a line.             *)
\* A frame shows one row of tiles and ends in the row below it.
Nothing5 == [kind |-> "none", column |-> 0, row |-> 0]
RowBelow == 1 - row5
Address5(kind, column) ==
    [kind |-> kind, column |-> column,
     row |-> IF vpos5 = Lines5 /\ hpos5 > 2 * BgReads THEN RowBelow ELSE row5]
Part(n) == IF n % 4 = 1 THEN "name" ELSE IF n % 4 = 2 THEN "attribute" ELSE "pattern"
Fetch5(n) ==
    CASE n <= BgReads               -> Address5(Part(n), 2 + (n - 1) \div 4)
      [] n \in (BgReads + 1)..(BgReads + SpriteReads) -> Address5(Part(n), 0)
      [] n = Reads                  -> Address5("name", 2)
      [] OTHER                      -> Address5(Part(n), (n - BgReads - SpriteReads - 1) \div 4)

\* After an odd frame's short pre-render line the first dot reads once more.
ReadNow ==
    LET shown == enabled5 /\ vpos5 <= Lines5
    IN  CASE shown /\ hpos5 = 0 /\ vpos5 = 1 /\ odd5  -> Fetch5(Reads)
          [] shown /\ hpos5 > 0 /\ hpos5 % 2 = 0      -> Fetch5(hpos5 \div 2)
          [] OTHER                                    -> Nothing5

-----------------------------------------------------------------------------
(* The chip, as the record of what it counts.                              *)
Chip5 == [in_frame |-> in_frame, pending |-> pending, counter |-> irq_counter5, line |-> asserted,
         seeded |-> frame_seeded, saw |-> saw_ppu_read, idle |-> ppu_read_idle_cycles,
         prev |-> prev, scan |-> scanline_pending, count |-> fetch_count]

Becomes(c) ==
    /\ in_frame' = c.in_frame /\ pending' = c.pending
    /\ irq_counter5' = c.counter /\ asserted' = c.line
    /\ frame_seeded' = c.seeded /\ saw_ppu_read' = c.saw /\ ppu_read_idle_cycles' = c.idle
    /\ prev' = c.prev /\ scanline_pending' = c.scan /\ fetch_count' = c.count

ResetScanlineDetector(c) ==
    [c EXCEPT !.prev = <<Nothing5, Nothing5>>, !.scan = FALSE, !.count = 0, !.saw = FALSE]

ClearInFrame(c) ==
    ResetScanlineDetector([c EXCEPT !.in_frame = FALSE, !.pending = FALSE, !.counter = 0,
                                    !.seeded = FALSE, !.line = FALSE, !.idle = 0])

Entered(c) == [c EXCEPT !.in_frame = TRUE, !.pending = FALSE, !.counter = 0]

ClockIrq5(c) ==
    IF ~c.in_frame THEN Entered(c)
    ELSE LET n == (c.counter + 1) % 256 IN
         IF n = irq_target
         THEN [c EXCEPT !.counter = n, !.pending = TRUE, !.line = @ \/ irq_enabled5]
         ELSE [c EXCEPT !.counter = n]

Seeded(c) ==
    IF ~c.in_frame /\ ~c.seeded /\ vpos5 = 1 THEN [Entered(c) EXCEPT !.seeded = TRUE] ELSE c

\* A mutant: the fetches are counted from the start of the picture.
CountedOn(c, a) ==
    LET d == IF c.scan THEN [ClockIrq5(c) EXCEPT !.scan = FALSE] ELSE [c EXCEPT !.count = @ + 1]
    IN  IF a.kind # "pattern" /\ c.prev = <<a, a>> THEN [d EXCEPT !.scan = TRUE] ELSE d

Counted(c, a) ==
    LET d == IF c.scan THEN [ClockIrq5(c) EXCEPT !.count = 0, !.scan = FALSE]
             ELSE [c EXCEPT !.count = @ + 1]
    IN  IF a.kind # "pattern" /\ c.prev = <<a, a>> THEN [d EXCEPT !.scan = TRUE] ELSE d

\* read_vram() up to the choice of the bank; in the pre-render line nothing
\* but the read itself is noticed.
SeenRead(c, a) ==
    LET s == [c EXCEPT !.saw = TRUE] IN
    CASE vpos5 > Lines5 -> ResetScanlineDetector(s)
      [] vpos5 = 0      -> s
      [] OTHER          -> [Counted(Seeded(s), a) EXCEPT !.prev = <<a, c.prev[1]>>]

\* The set of banks a pattern is read from.
Selector(count) ==
    CASE ~large_sprites -> last_chr_write
      [] large_sprites /\ count > BgReads /\ count < BgReads + SpriteReads -> "A"
      [] OTHER -> "B"

(* cpu_sync().                                                             *)
Synced5(c) ==
    LET idle == IF c.saw THEN 0 ELSE IF c.idle < 3 THEN c.idle + 1 ELSE c.idle
        d == [c EXCEPT !.idle = idle]
    IN  [(IF idle >= 3 /\ c.in_frame THEN ClearInFrame(d) ELSE d) EXCEPT !.saw = FALSE]

-----------------------------------------------------------------------------
(* One dot of the PPU, and a CPU cycle with every third.                   *)
Dot5 ==
    /\ LET a == ReadNow
           r == IF a = Nothing5 THEN Chip5 ELSE SeenRead(Chip5, a)
       IN  /\ Becomes(IF cycle = 2 THEN Synced5(r) ELSE r)
           /\ bank' = IF a.kind = "pattern" THEN Selector(r.count) ELSE bank
    /\ cycle' = (cycle + 1) % 3
    /\ hpos5' = IF hpos5 = LastDot THEN 0 ELSE hpos5 + 1
    /\ vpos5' = IF hpos5 < LastDot THEN vpos5 ELSE IF vpos5 = LastLine THEN 0 ELSE vpos5 + 1
    /\ odd5' = IF vpos5 = LastLine /\ hpos5 = LastDot THEN ~odd5 ELSE odd5
    /\ moved5' = IF vpos5 = Lines5 THEN FALSE ELSE moved5
    /\ clean' = IF vpos5 = 1 /\ hpos5 = 0 THEN enabled5 /\ ~moved5 ELSE clean /\ vpos5 # 0
    /\ UNCHANGED <<row5, enabled5, setVars5, events>>

Event ==
    /\ hpos5 \in EventAt5
    /\ events < MaxEvents5 /\ events' = events + 1
    /\ UNCHANGED <<vpos5, hpos5, odd5, cycle, bank>>

\* Every other register leaves the place in the nametables alone.
Stays5 == UNCHANGED <<row5, moved5>>

\* The game scrolls by one picture, before the next one is loaded.
Scroll5 ==
    /\ Event
    /\ vpos5 > Lines5
    /\ row5' = 1 - row5 /\ moved5' = ~moved5
    /\ UNCHANGED <<enabled5, countVars5, detectVars5, setVars5, clean>>

\* write_2, $2001: the PPU and the board both see the mask.
WriteMask5 ==
    /\ Event /\ Stays5
    /\ enabled5' = ~enabled5
    /\ Becomes(IF enabled5 THEN ClearInFrame(Chip5) ELSE Chip5)
    /\ clean' = FALSE
    /\ UNCHANGED setVars5

\* Sprite DMA through $4014, and the CPU fetching the NMI vector.
EndFrame5 ==
    /\ Event /\ Stays5
    /\ Becomes(ClearInFrame(Chip5))
    /\ clean' = FALSE
    /\ UNCHANGED <<enabled5, setVars5>>

Write5203 ==
    /\ Event /\ Stays5
    /\ irq_target' \in Targets5
    /\ UNCHANGED <<enabled5, countVars5, detectVars5, irq_enabled5, large_sprites,
                   last_chr_write, clean>>

Write5204 ==
    /\ Event /\ Stays5
    /\ irq_enabled5' \in BOOLEAN
    /\ asserted' = (irq_enabled5' /\ (asserted \/ pending))
    /\ UNCHANGED <<enabled5, in_frame, pending, irq_counter5, detectVars5, irq_target,
                   large_sprites, last_chr_write, clean>>

Read5204 ==
    /\ Event /\ Stays5
    /\ asserted' = FALSE /\ pending' = FALSE
    /\ UNCHANGED <<enabled5, in_frame, irq_counter5, detectVars5, setVars5, clean>>

\* $2007 between pictures: a read the chip takes for one of the PPU's.
Read2007Blank ==
    /\ Event /\ Stays5
    /\ vpos5 > Lines5
    /\ Becomes(SeenRead(Chip5, Address5("name", 2)))
    /\ UNCHANGED <<enabled5, setVars5, clean>>

\* $5120 to $512f, and the size of the sprites that write_2 overhears.
WriteBank5 ==
    /\ Event /\ Stays5
    /\ \/ last_chr_write' \in {"A", "B"} /\ UNCHANGED large_sprites
       \/ large_sprites' \in BOOLEAN /\ UNCHANGED last_chr_write
    /\ UNCHANGED <<enabled5, countVars5, detectVars5, irq_target, irq_enabled5, clean>>

Mmc5Init ==
    /\ vpos5 = 0 /\ hpos5 = 0 /\ odd5 = FALSE /\ row5 = 0 /\ enabled5 = TRUE /\ cycle \in 0..2
    /\ in_frame = FALSE /\ pending = FALSE /\ irq_counter5 = 0 /\ asserted = FALSE
    /\ irq_target \in Targets5 /\ irq_enabled5 = TRUE
    /\ frame_seeded = FALSE /\ saw_ppu_read = FALSE /\ ppu_read_idle_cycles = 0
    /\ prev = <<Nothing5, Nothing5>> /\ scanline_pending = FALSE /\ fetch_count = 0
    /\ large_sprites = TRUE /\ last_chr_write = "A"
    /\ bank = "B" /\ moved5 = FALSE /\ clean = FALSE /\ events = 0

Mmc5Next ==
    \/ Dot5
    \/ WriteMask5 \/ EndFrame5 \/ Write5203 \/ Write5204 \/ Read5204 \/ Read2007Blank
    \/ WriteBank5 \/ Scroll5

Mmc5Spec == Mmc5Init /\ [][Mmc5Next]_mmc5Vars

-----------------------------------------------------------------------------
(* The chip counts the lines of the picture without being told: in an      *)
(* undisturbed frame, unless it starts where the one before ended, its     *)
(* counter is the line's number from its second read on, and the interrupt *)
(* line is up exactly while a target line it was asked for is pending in a *)
(* frame.                                                                  *)
CountsLines ==
    /\ clean /\ vpos5 \in 1..Lines5 /\ hpos5 > 4 => in_frame /\ irq_counter5 = vpos5 - 1
    /\ asserted = (pending /\ irq_enabled5)
    /\ pending => in_frame

(* With large sprites the patterns of the background come from one set of  *)
(* banks and those of the sprites from the other, told apart by counting   *)
(* reads.  The first line, where the count starts two reads early, is left *)
(* out: there the last sprite's second byte comes from the other set.      *)
SpritesFromTheirBanks ==
    [][LET n == hpos5 \div 2 IN
       clean /\ vpos5 \in 2..Lines5 /\ large_sprites /\ hpos5' # hpos5 /\ ReadNow.kind = "pattern"
         => bank' = IF n \in (BgReads + 1)..(BgReads + SpriteReads) THEN "A" ELSE "B"]_mmc5Vars

(* The chip follows the PPU by its reads alone: both of these.             *)
LinesAndSprites == []CountsLines /\ SpritesFromTheirBanks
=============================================================================
