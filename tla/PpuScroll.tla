----------------------------- MODULE PpuScroll -----------------------------
(***************************************************************************)
(* The PPU's address registers (src/src/Ppu.cpp): nametable_, which the    *)
(* game writes through $2000, $2005 and $2006, and vram_address_, which    *)
(* rendering steps through the tiles of a line and the lines of a frame,   *)
(* reloading it from the other one.  An address is a record of its fields. *)
(* The time of a line is the step its rendering has reached:               *)
(*    0..31  the fetches of a tile, which end with clock_x()               *)
(*    32     dots 256 and 257, clock_y() and update_x_scroll()             *)
(*    33     dots 281 to 304, update_vram_address() if it is pre-render    *)
(*    34..35 the fetches of the next line's first two tiles                *)
(***************************************************************************)
EXTENDS Naturals

CONSTANTS
    ScrollLines,        \* 240
    AccessAt,           \* steps of a line at which the game uses a register
    Scrolls,            \* bytes it writes to $2005
    Highs, Lows,        \* and to $2006, first and second
    ScrollStarts,             \* what earlier accesses have left in nametable_
    MaxAccesses         \* bound on the accesses of a behaviour

ASSUME ScrollAssumption ==
    /\ ScrollLines \in 0..240 /\ AccessAt \subseteq 0..35
    /\ Scrolls \subseteq 0..255 /\ Highs \subseteq 0..63 /\ Lows \subseteq 0..255
    /\ ScrollStarts \subseteq Nat /\ MaxAccesses \in Nat

VARIABLES
    vram_address, nametable,        \* loopy's v and t
    write_latch,                    \* write_latch_
    rendering_on,                   \* ppu_mask_.screen_enabled
    line, step,                     \* the beam; line ScrollLines + 1 is vblank
    accesses,                       \* history: accesses so far
    left, top                       \* history: the fields v was last loaded
                                    \* with, or none once v was moved otherwise

scrollVars ==
    <<vram_address, nametable, write_latch, rendering_on, line, step, accesses,
      left, top>>

Lost == {}
Vblank == ScrollLines + 1

-----------------------------------------------------------------------------
(* clock_x(), clock_y() and the reloads, as functions of the address.      *)
ClockX(a) ==
    IF a.cx = 31 THEN [a EXCEPT !.cx = 0, !.nx = 1 - @] ELSE [a EXCEPT !.cx = @ + 1]

\* A mutant: the vertical scroll wraps behind the attributes.
ClockYLate(a) ==
    IF a.fine < 7 THEN [a EXCEPT !.fine = @ + 1]
    ELSE IF a.cy = 31 THEN [a EXCEPT !.fine = 0, !.cy = 0, !.ny = 1 - @]
    ELSE [a EXCEPT !.fine = 0, !.cy = @ + 1]

ClockY(a) ==
    CASE a.fine < 7              -> [a EXCEPT !.fine = @ + 1]
      [] a.fine = 7 /\ a.cy = 29 -> [a EXCEPT !.fine = 0, !.cy = 0, !.ny = 1 - @]
      [] a.fine = 7 /\ a.cy = 31 -> [a EXCEPT !.fine = 0, !.cy = 0]
      [] OTHER                   -> [a EXCEPT !.fine = 0, !.cy = @ + 1]

UpdateX(a, from) == [a EXCEPT !.cx = from.cx, !.nx = from.nx]
UpdateY(a, from) == [a EXCEPT !.cy = from.cy, !.ny = from.ny, !.fine = from.fine]

\* The fields as the 15 bits of vram_address_, for the increments of $2007.
Number(a) == a.cx + 32 * (a.cy + 32 * (a.nx + 2 * (a.ny + 2 * a.fine)))
Address(n) ==
    [cx |-> n % 32, cy |-> (n \div 32) % 32, nx |-> (n \div 1024) % 2,
     ny |-> (n \div 2048) % 2, fine |-> (n \div 4096) % 8]

-----------------------------------------------------------------------------
(* Registers.                                                              *)
Access ==
    /\ line = Vblank \/ step \in AccessAt
    /\ accesses < MaxAccesses /\ accesses' = accesses + 1
    /\ UNCHANGED <<line, step>>

Scroll2000 ==
    /\ Access
    /\ \E ny, nx \in 0..1 : nametable' = [nametable EXCEPT !.ny = ny, !.nx = nx]
    /\ UNCHANGED <<vram_address, write_latch, rendering_on, left, top>>

\* Switching rendering off and on moves no address by itself.
Scroll2001 ==
    /\ Access
    /\ rendering_on' = ~rendering_on
    /\ UNCHANGED <<vram_address, nametable, write_latch, left, top>>

Scroll2002 ==
    /\ Access
    /\ write_latch' = FALSE
    /\ UNCHANGED <<vram_address, nametable, rendering_on, left, top>>

Write2005 ==
    /\ Access
    /\ write_latch' = ~write_latch
    /\ \E d \in Scrolls :
          nametable' = IF write_latch
                       THEN [nametable EXCEPT !.cy = d \div 8, !.fine = d % 8]
                       ELSE [nametable EXCEPT !.cx = d \div 8]
    /\ UNCHANGED <<vram_address, rendering_on, left, top>>

HighByte(h) ==
    [nametable EXCEPT !.fine = h \div 16, !.ny = (h \div 8) % 2,
                      !.nx = (h \div 4) % 2, !.cy = 8 * (h % 4) + (@ % 8)]
LowByte(l) ==
    [nametable EXCEPT !.cy = 8 * (@ \div 8) + (l \div 32), !.cx = l % 32]

Write2006 ==
    /\ Access
    /\ write_latch' = ~write_latch
    /\ IF write_latch
       THEN /\ \E l \in Lows : nametable' = LowByte(l)
            /\ vram_address' = nametable'
            /\ left' = Lost /\ top' = Lost
       ELSE /\ \E h \in Highs : nametable' = HighByte(h)
            /\ UNCHANGED <<vram_address, left, top>>
    /\ UNCHANGED rendering_on

\* A read or a write of $2007: increment_vram_address().
Access2007 ==
    /\ Access
    /\ vram_address' \in
          IF line < Vblank /\ rendering_on
          THEN {ClockY(ClockX(vram_address))}
          ELSE {Address(Number(vram_address) + 1), Address(Number(vram_address) + 32)}
    /\ left' = Lost /\ top' = Lost
    /\ UNCHANGED <<nametable, write_latch, rendering_on>>

-----------------------------------------------------------------------------
(* Rendering.                                                              *)
NextStep ==
    /\ UNCHANGED <<nametable, write_latch, rendering_on, accesses>>
    /\ IF step = 35 THEN step' = 0 /\ line' = line + 1
                    ELSE step' = step + 1 /\ UNCHANGED line

\* Dots 1 to 256 and 321 to 336, eight of which fetch one tile.
FetchTile ==
    /\ line < Vblank /\ step \in (0..31) \cup {34, 35}
    /\ rendering_on
    /\ vram_address' = ClockX(vram_address)
    /\ NextStep
    /\ UNCHANGED <<left, top>>

EndOfTiles ==
    /\ line < Vblank /\ step = 32
    /\ rendering_on
    /\ vram_address' = UpdateX(ClockY(vram_address), nametable)
    /\ left' = {[cx |-> nametable.cx, nx |-> nametable.nx]}
    /\ NextStep
    /\ UNCHANGED top

LoadVertical ==
    /\ line < Vblank /\ step = 33
    /\ rendering_on
    /\ IF line = 0
       THEN /\ vram_address' = UpdateY(vram_address, nametable)
            /\ top' = {[cy |-> nametable.cy, ny |-> nametable.ny, fine |-> nametable.fine]}
       ELSE UNCHANGED <<vram_address, top>>
    /\ NextStep
    /\ UNCHANGED left

\* While rendering is off no step of a line moves the address.
Idle ==
    /\ line < Vblank /\ ~rendering_on
    /\ NextStep
    /\ left' = Lost /\ top' = Lost
    /\ UNCHANGED vram_address

PreRender ==
    /\ line = Vblank
    /\ line' = 0 /\ step' = 0
    /\ left' = Lost /\ top' = Lost
    /\ UNCHANGED <<vram_address, nametable, write_latch, rendering_on, accesses>>

ScrollInit ==
    /\ vram_address = Address(0)
    /\ nametable \in {Address(n) : n \in ScrollStarts}
    /\ write_latch = FALSE /\ rendering_on \in BOOLEAN
    /\ line = Vblank /\ step = 0 /\ accesses = 0
    /\ left = Lost /\ top = Lost

ScrollNext ==
    \/ Scroll2000 \/ Scroll2001 \/ Scroll2002 \/ Write2005 \/ Write2006 \/ Access2007
    \/ FetchTile \/ EndOfTiles \/ LoadVertical \/ Idle \/ PreRender

ScrollSpec == ScrollInit /\ [][ScrollNext]_scrollVars

-----------------------------------------------------------------------------
(* Where the picture is: a column of the 64 tiles of two nametables side   *)
(* by side, and a row of the 480 of two on top of each other.  A scroll    *)
(* into the attributes, rows 240 to 255, ends in its own nametable.        *)
Column(a) == a.cx + 32 * a.nx
Row(a)    == 8 * a.cy + a.fine

TilesDone == IF step <= 32 THEN 2 + step ELSE IF step = 35 THEN 1 ELSE 0
LinesDone == IF step <= 32 THEN line - 1 ELSE line

RowAfter(a, n) ==
    IF Row(a) < 240
    THEN [row |-> (Row(a) + n) % 240, ny |-> (a.ny + (Row(a) + n) \div 240) % 2]
    ELSE [row |-> (Row(a) + n) % 256, ny |-> a.ny]

(* Every tile of the picture is fetched from where the scroll registers    *)
(* say: its column counts from the horizontal scroll loaded behind the     *)
(* line before, two tiles ahead of the picture, its row from the vertical  *)
(* scroll loaded before the first line, whatever the game has written to   *)
(* them since, through the wraps at columns 31 and 63 and rows 239 and     *)
(* 255.                                                                    *)
RasterPosition ==
    /\ \A a \in left : Column(vram_address) = (Column(a) + TilesDone) % 64
    /\ \A a \in top : [row |-> Row(vram_address), ny |-> vram_address.ny]
                        = RowAfter(a, LinesDone)
=============================================================================
