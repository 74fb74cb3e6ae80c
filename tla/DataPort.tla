------------------------------ MODULE DataPort ------------------------------
(***************************************************************************)
(* The way of the CPU into the PPU's memory (src/src/Ppu.cpp): an address  *)
(* written in two halves through $2006, and $2007, which writes there or   *)
(* reads through a buffer and then moves on.  Behind it are the pattern    *)
(* tables, two or four nametables the cartridge mirrors, and the palette.  *)
(* The addresses rendering steps through are PpuScroll's.                  *)
(*                                                                         *)
(* A byte of memory is kept only once it was written; before that it is 0, *)
(* and pattern ROM is 1 everywhere.  The colours of powerup_palette[] are  *)
(* taken for 0 too: they only have to be the same in `palette' and in what *)
(* the game was told.                                                      *)
(***************************************************************************)
EXTENDS PpuScroll, Paging

CONSTANTS
    PortHighs, PortLows,    \* bytes the game writes to $2006
    PortBytes,              \* and to $2007
    Mirrorings,             \* set_mirroring's control bytes
    MaxMoves,               \* bounds: bytes written to $2006,
    MaxStores, MaxLoads,    \* to $2007 and read from it,
    MaxOthers               \* and every other access

ASSUME PortAssumption ==
    /\ PortHighs \subseteq 0..255 /\ PortLows \subseteq 0..255 /\ PortBytes \subseteq 0..255
    /\ Mirrorings \subseteq {Vertical, Horizontal, SingleLow, SingleHigh, FourScreen}
    /\ {MaxMoves, MaxStores, MaxLoads, MaxOthers} \subseteq Nat

VARIABLES
    address, scroll,        \* vram_address_ and nametable_ as numbers
    second,                 \* write_latch_
    by32, enabled, grey,    \* of ppu_control_ and ppu_mask_
    in_lines,               \* rendering(): vpos_ <= 240
    blocked,                \* block_writes()
    latch, buffer,          \* latch_, register_2007_buffer_
    palette, vram,          \* palette_; the banks of the mapper, sparse
    mirroring, writeable,   \* of the cartridge: its mirroring, CHR RAM
    pair,                   \* history: the half of an address written, if the
                            \* game follows the protocol
    aim,                    \* history: where the game thinks it is
    store, due,            \* history: what was written where, what is next
    used                    \* the bounds

portVars == <<address, scroll, second, by32, enabled, grey, in_lines, blocked, latch, buffer,
              palette, vram, mirroring, writeable, pair, aim, store, due, used>>

Counts(kind, max) == used[kind] < max /\ used' = [used EXCEPT ![kind] = @ + 1]
Other == Counts("others", MaxOthers)

Unknown == -1
FirstHalf == <<>>           \* the next half is the high one

-----------------------------------------------------------------------------
(* Memory.                                                                 *)
IsPalette(a) == a % \h4000 >= \h3f00

\* set_mirroring and read_vram: sixteen banks, the last four like those before.
Cell(m, a) ==
    LET bank == (a \div 1024) % 16 IN
    IF bank < 8 THEN <<"pattern", a % \h2000>>
    ELSE <<"table", Bits(m, 2 * (bank % 4), 2), a % 1024>>

At(memory, cell, default) == IF cell \in DOMAIN memory THEN memory[cell] ELSE default
Fresh(cell) == IF cell[1] = "pattern" /\ ~writeable THEN 1 ELSE 0
ReadVram(a) == LET c == Cell(mirroring, a) IN At(vram, c, Fresh(c))

Put(memory, cell, v) ==
    [c \in DOMAIN memory \cup {cell} |-> IF c = cell THEN v ELSE memory[c]]

\* A mutant: the first entry of each sprite palette is one of its own.
PaletteWithUnshared(i, v) == [palette EXCEPT ![i] = v % 64]

PaletteWith(i, v) ==
    [j \in 0..31 |-> IF j = i \/ (i % 4 = 0 /\ j % 16 = i % 16) THEN v % 64 ELSE palette[j]]

(* increment_vram_address(), in a type of sixteen bits. *)
Moved ==
    IF in_lines /\ enabled THEN Number(ClockY(ClockX(Address(address))))
    ELSE (address + (IF by32 THEN 32 ELSE 1)) % \h10000

-----------------------------------------------------------------------------
(* What the game means: a place in the memory of the console, whose        *)
(* nametables stand side by side, on top of each other, or one for all.    *)
Screen(i) ==
    CASE mirroring = Vertical   -> i % 2
      [] mirroring = Horizontal -> i \div 2
      [] mirroring = SingleLow  -> 0
      [] mirroring = SingleHigh -> 1
      [] OTHER                  -> i
Backdrop(i) == IF i % 4 = 0 THEN i % 16 ELSE i
Place(a) ==
    CASE a < \h2000 -> <<"pattern", a>>
      [] a >= \h2000 /\ ~IsPalette(a) -> <<"table", Screen((a \div 1024) % 4), a % 1024>>
      [] IsPalette(a) -> <<"colour", Backdrop(a % 32)>>
Under(a) == IF IsPalette(a) THEN <<"table", Screen((a \div 1024) % 4), a % 1024>> ELSE Place(a)
Stored(p) == At(store, p, Fresh(p))

\* Where the access at hand goes: where the game thinks, if it knows.
Meant == IF aim = Unknown THEN address % \h4000 ELSE aim
AimMoved ==
    IF aim = Unknown \/ (in_lines /\ enabled) THEN Unknown
    ELSE (aim + (IF by32 THEN 32 ELSE 1)) % \h4000

-----------------------------------------------------------------------------
(* The registers.  A write that is blocked changes the latch only, and the *)
(* game does not know.                                                     *)
Half == IF pair = FirstHalf THEN <<Unknown>> ELSE FirstHalf

PortWrite2000 ==
    /\ Other
    /\ \E d \in {0, 4 + 1} :
          /\ latch' = d
          /\ by32' = IF blocked THEN by32 ELSE d = 5
          /\ scroll' = IF blocked THEN scroll
                       ELSE scroll - 1024 * Bits(scroll, 10, 2) + 1024 * (d % 4)
    /\ pair' = IF pair = FirstHalf THEN pair ELSE <<Unknown>>
    /\ UNCHANGED <<address, second, enabled, grey, in_lines, blocked, buffer,
                   palette, vram, mirroring, writeable, aim, store, due>>

PortWrite2001 ==
    /\ Other
    /\ \E on, g \in BOOLEAN :
          /\ latch' = (IF g THEN 1 ELSE 0) + (IF on THEN 24 ELSE 0)
          /\ enabled' = IF blocked THEN enabled ELSE on
          /\ grey' = IF blocked THEN grey ELSE g
    /\ UNCHANGED <<address, scroll, second, by32, in_lines, blocked, buffer,
                   palette, vram, mirroring, writeable, pair, aim, store, due>>

\* Also an interrupt's handler may do this, between the two halves.
PortRead2002 ==
    /\ Other
    /\ second' = FALSE /\ pair' = FirstHalf
    /\ latch' \in {Bits(latch, 0, 5), Bits(latch, 0, 5) + 128}
    /\ UNCHANGED <<address, scroll, by32, enabled, grey, in_lines, blocked, buffer,
                   palette, vram, mirroring, writeable, aim, store, due>>

PortWrite2006(d) ==
    /\ latch' = d
    /\ IF blocked
       THEN /\ pair' = <<Unknown>>
            /\ UNCHANGED <<address, scroll, second, aim>>
       ELSE /\ second' = ~second
            /\ scroll' = IF second' THEN Bits(scroll, 0, 8) + 256 * (d % 64)
                         ELSE scroll - Bits(scroll, 0, 8) + d
            /\ address' = IF second THEN scroll' ELSE address
            /\ aim' = IF ~second THEN aim ELSE IF pair # FirstHalf /\ pair[1] # Unknown
                      THEN 256 * (pair[1] % 64) + d ELSE Unknown
            /\ pair' = IF pair = FirstHalf THEN <<d>> ELSE IF pair[1] = Unknown THEN pair ELSE FirstHalf

Point ==
    /\ Counts("moves", MaxMoves)
    /\ \E d \in PortHighs \cup PortLows :
          /\ (second => d \in PortLows) /\ (~second => d \in PortHighs)
          /\ PortWrite2006(d)
    /\ UNCHANGED <<by32, enabled, grey, in_lines, blocked, buffer, palette, vram, mirroring,
                   writeable, store, due>>

\* Half of a scroll is half of an address: both registers share write_latch_.
PortWrite2005 ==
    /\ Other
    /\ latch' = 0 /\ pair' = IF blocked THEN <<Unknown>> ELSE Half
    /\ second' = IF blocked THEN second ELSE ~second
    /\ scroll' = CASE blocked -> scroll
                   [] ~blocked /\ ~second -> scroll - Bits(scroll, 0, 5)
                   [] OTHER -> Bits(scroll, 0, 5) + 1024 * Bits(scroll, 10, 2)
    /\ UNCHANGED <<address, by32, enabled, grey, in_lines, blocked, buffer, palette, vram,
                   mirroring, writeable, aim, store, due>>

PortWrite2007 ==
    /\ Counts("stores", MaxStores)
    /\ \E v \in PortBytes :
          /\ latch' = v
          /\ IF IsPalette(address)
             THEN /\ palette' = PaletteWith(address % 32, v)
                  /\ UNCHANGED vram
             ELSE LET c == Cell(mirroring, address % \h4000) IN
                  /\ vram' = IF c[1] = "pattern" /\ ~writeable THEN vram ELSE Put(vram, c, v)
                  /\ UNCHANGED palette
          /\ store' = LET p == Place(Meant) IN
                      CASE p[1] = "colour" -> Put(store, p, v % 64)
                        [] p[1] = "pattern" /\ ~writeable -> store
                        [] OTHER -> Put(store, p, v)
    /\ address' = Moved /\ aim' = AimMoved
    /\ UNCHANGED <<scroll, second, by32, enabled, grey, in_lines, blocked, buffer,
                   mirroring, writeable, pair, due>>

\* Behind the palette the last nametable goes on.
BufferAddress(a) == IF IsPalette(a) THEN a - \h1000 ELSE a

PortRead2007 ==
    /\ Counts("loads", MaxLoads)
    /\ buffer' = ReadVram(BufferAddress(address % \h4000))
    /\ latch' = LET colour == palette[address % 32] + 64 * (latch \div 64) IN
                CASE ~IsPalette(address)          -> buffer
                  [] IsPalette(address) /\ grey  -> colour - (colour % 16)
                  [] IsPalette(address) /\ ~grey -> colour
    /\ due' = Stored(Under(Meant))
    /\ address' = Moved /\ aim' = AimMoved
    /\ UNCHANGED <<scroll, second, by32, enabled, grey, in_lines, blocked,
                   palette, vram, mirroring, writeable, pair, store>>

\* Lines are drawn or over: start of pre-render reloads the address from the
\* scroll and rendering steps it, so that the game has lost its place.
Beam ==
    /\ Other
    /\ in_lines' = ~in_lines
    /\ latch' \in {latch, 0}          \* end_frame lets it decay
    /\ IF enabled
       THEN address' \in {scroll, Number(ClockY(Address(scroll)))} /\ aim' = Unknown
       ELSE UNCHANGED <<address, aim>>
    /\ UNCHANGED <<scroll, second, by32, enabled, grey, blocked, buffer, palette, vram,
                   mirroring, writeable, pair, store, due>>

Unblock ==
    /\ blocked /\ blocked' = FALSE
    /\ UNCHANGED <<address, scroll, second, by32, enabled, grey, in_lines, latch, buffer,
                   palette, vram, mirroring, writeable, pair, aim, store, due, used>>

PortInit ==
    /\ address = 0 /\ scroll = 0 /\ second = FALSE
    /\ by32 = FALSE /\ enabled = FALSE /\ grey = FALSE
    /\ in_lines = FALSE /\ blocked \in BOOLEAN
    /\ latch = 0 /\ buffer = 0
    /\ palette = [i \in 0..31 |-> 0] /\ vram = <<>>
    /\ mirroring \in Mirrorings /\ writeable \in BOOLEAN
    /\ pair = FirstHalf /\ aim = 0 /\ store = <<>> /\ due = 0
    /\ used = [moves |-> 0, stores |-> 0, loads |-> 0, others |-> 0]

PortNext ==
    \/ PortWrite2000 \/ PortWrite2001 \/ PortRead2002 \/ PortWrite2005 \/ Point
    \/ PortWrite2007 \/ PortRead2007 \/ Beam \/ Unblock

PortSpec == PortInit /\ [][PortNext]_portVars

-----------------------------------------------------------------------------
(* $2007 answers with what the game last wrote to the place it means: at   *)
(* once from the palette, under the top bits of the open bus, and one read *)
(* later from everywhere else; through the mirrors of the nametables and   *)
(* of the palette, over the ends of memory, across half addresses that     *)
(* another register or the start of the console has eaten.                 *)
PortShowsMemory ==
    [][PortRead2007 =>
         latch' = IF IsPalette(Meant)
                  THEN LET colour == Stored(Place(Meant)) + (latch - (latch % 64))
                       IN  IF grey THEN colour - (colour % 16) ELSE colour
                  ELSE due]_portVars
=============================================================================
