------------------------------- MODULE Pixels -------------------------------
(***************************************************************************)
(* How the PPU draws a line (render_pixel, select_pixel and the shift      *)
(* registers in src/src/Ppu.cpp), dot by dot, while it fetches the tiles   *)
(* two ahead.  A bit of a shift register is the set of the pattern bits    *)
(* that have been ORed into it, each <<plane, tile, column>>; the tile is  *)
(* the coarse X the tile was fetched with.  The game may write $2001 and   *)
(* the fine X scroll behind any dot.                                       *)
(***************************************************************************)
EXTENDS Integers, Sequences, FiniteSetsExt

CONSTANTS
    Tiles,          \* 32, the tiles of a line
    Solid,          \* the tiles whose pixels are opaque
    Fines,          \* fine X scrolls
    Slot,           \* 8, the sprites of a line
    Oams,           \* what secondary OAM may hold: sequences of
                    \* [x, row, hflip, front, zero], row the opaque columns
    Masks,          \* $2001: [bg, sprites, bgleft, spleft]
    DrawnLines,     \* 240
    MaxMaskWrites   \* bound on the writes to $2001 and $2005

Width == 8 * Tiles

ASSUME PixelAssumption ==
    /\ Tiles \in Nat \ {0, 1} /\ Solid \subseteq 0..Tiles + 1 /\ Fines \subseteq 0..7
    /\ Slot \in Nat
    /\ Oams \subseteq Seq([x : 0..255, row : SUBSET (0..7),
                         hflip : BOOLEAN, front : BOOLEAN, zero : BOOLEAN])
    /\ \A o \in Oams : Len(o) <= Slot /\ \A s \in DOMAIN o : o[s].zero => s = 1
    /\ Masks \subseteq [bg : BOOLEAN, sprites : BOOLEAN, bgleft : BOOLEAN, spleft : BOOLEAN]
    /\ DrawnLines \in Nat /\ MaxMaskWrites \in Nat

VARIABLES
    vline,                \* vpos_; 0 is the pre-render line
    phase, pdot,         \* "draw", dots 1 to 256; "sprites", 257 to 320; "tiles",
                        \* 321 to 336; and how many of the phase are done
    coarse,             \* coarse X of vram_address_, from where update_x_scroll() sets it
    mask, fine,         \* ppu_mask_, tile_offset_
    next_attribute, next_pattern,       \* by the tile they were fetched for
    pattern_queue, attribute_queue,     \* 32 bits, the highest first
    secondary,          \* sprite_data_, as far as the line's evaluation has come
    patterns, count,    \* sprite_patterns_, visible_sprite_count_
    left_most,          \* left_most_sprite_x_
    sprite0,            \* status_.sprite0
    shown,              \* what the last dot chose: the background's bits, and
                        \* the slot of a sprite or 0
    wanted,             \* history: secondary OAM when the line's sprites were fetched
    lit,                \* history: "yes" if rendering has been on since dot 256 of
                        \* the line before, "counted" if it was on in that dot
    maskWrites

raster      == <<vline, phase, pdot>>
queues    == <<next_attribute, next_pattern, pattern_queue, attribute_queue>>
objects   == <<secondary, patterns, count, left_most, wanted>>
pixelVars == <<raster, coarse, mask, fine, queues, objects, sprite0, shown, lit, maskWrites>>

On == mask.bg \/ mask.sprites       \* screen_enabled

-----------------------------------------------------------------------------
(* The shift registers: plane 1 in bits 31 to 16, plane 0 in 15 to 0.      *)
LowBytes      == (9..16) \cup (25..32)
PlaneOf(i)    == IF i <= 16 THEN 1 ELSE 0
ColumnOf(i)   == (i - 1) % 8
Cleared(q, S) == [i \in 1..32 |-> IF i \in S THEN {} ELSE q[i]]

\* (q << 1) & 0xfffefffe, and (q << 8) & 0xff00ff00
Shifted(q)  == Cleared([i \in 1..32 |-> IF i = 32 THEN {} ELSE q[i + 1]], {16, 32})
Shifted8(q) == Cleared([i \in 1..32 |-> IF i > 24 THEN {} ELSE q[i + 8]], LowBytes)

\* update_shift_registers_render(): the tile's bits are ORed into both planes.
WithPattern(q, n) ==
    [i \in 1..32 |-> IF i \in LowBytes
                     THEN q[i] \cup {<<PlaneOf(i), n[PlaneOf(i)], ColumnOf(i)>>} ELSE q[i]]
WithAttribute(q, tile) ==
    [i \in 1..32 |-> IF i \in LowBytes THEN q[i] \cup {<<PlaneOf(i), tile>>} ELSE q[i]]

\* With dot 8 the tile is loaded into registers that have been shifted.
LoadInto(p, a) ==
    /\ pattern_queue' = WithPattern(p, next_pattern')
    /\ attribute_queue' = WithAttribute(a, next_attribute)
LoadShifted == LoadInto(Shifted(pattern_queue), Shifted(attribute_queue))

\* A mutant: before the line begins the registers shift by a pixel, as in it.
LoadIdleByPixel == LoadShifted

\* update_shift_registers_idle()
LoadIdle == LoadInto(Shifted8(pattern_queue), Shifted8(attribute_queue))

ShiftOnly ==
    /\ pattern_queue' = Shifted(pattern_queue)
    /\ attribute_queue' = Shifted(attribute_queue)

-----------------------------------------------------------------------------
(* The pixel.                                                              *)
NoPixel == [p0 |-> {}, p1 |-> {}, a0 |-> {}, a1 |-> {}]

\* select_bg_pixel() with the masks of update_bg_extract_constants()
BgPixel(x) ==
    IF mask.bg /\ (x >= 8 \/ mask.bgleft)
    THEN [p0 |-> pattern_queue[17 + fine], p1 |-> pattern_queue[1 + fine],
          a0 |-> attribute_queue[17 + fine], a1 |-> attribute_queue[1 + fine]]
    ELSE NoPixel

Opaque(pixel) == \E bit \in pixel.p0 \cup pixel.p1 : bit[2] \in Solid

HitWindow(x) == x < Width - 1

\* The sprites that select_pixel() does not pass over.
Covering(x) ==
    IF mask.sprites /\ (x >= 8 \/ mask.spleft) /\ x >= left_most
    THEN {s \in 1..count : x - patterns[s].x \in patterns[s].row}
    ELSE {}

SelectPixel(x) ==
    LET bg    == BgPixel(x)
        cover == Covering(x)
        first == Min(cover)
    IN IF cover = {}
       THEN shown' = [bg |-> bg, sprite |-> 0] /\ UNCHANGED sprite0
       ELSE /\ sprite0' = (sprite0 \/ (patterns[first].zero /\ HitWindow(x) /\ Opaque(bg)))
            /\ shown' = [bg |-> bg,
                         sprite |-> IF patterns[first].front \/ ~Opaque(bg) THEN first ELSE 0]

-----------------------------------------------------------------------------
(* Dots 4, 6 and 8 of a tile read what the dots before have opened, and    *)
(* dot 8 moves on to the next tile.                                        *)
FetchDot(h) ==
    /\ next_attribute' = IF h % 8 = 4 THEN coarse ELSE next_attribute
    /\ next_pattern' = CASE h % 8 = 6 -> [next_pattern EXCEPT ![0] = coarse]
                         [] h % 8 = 0 -> [next_pattern EXCEPT ![1] = coarse]
                         [] OTHER     -> next_pattern
    /\ coarse' = IF h % 8 = 0 THEN coarse + 1 ELSE coarse

\* The next dot of a phase; the last one, dot 256, counts the sprites.
NextDotOf(p, dots) ==
    /\ phase = p /\ pdot < dots
    /\ pdot' = pdot + 1 /\ UNCHANGED <<vline, phase>>
CountAt256 ==
    IF pdot' = Width
    THEN /\ count' = Len(secondary)
         /\ lit' = IF lit = "yes" THEN "yes" ELSE "counted"
    ELSE UNCHANGED <<count, lit>>

DrawDot ==
    /\ vline > 0 /\ On
    /\ NextDotOf("draw", Width)
    /\ SelectPixel(pdot)
    /\ FetchDot(pdot')
    /\ IF pdot' % 8 = 0 THEN LoadShifted ELSE ShiftOnly
    /\ CountAt256
    /\ UNCHANGED <<mask, fine, secondary, patterns, left_most, wanted, maskWrites>>

PreRenderDot ==
    /\ vline = 0 /\ On
    /\ NextDotOf("draw", Width)
    /\ FetchDot(pdot')
    /\ IF pdot' % 8 = 0 THEN LoadIdle ELSE UNCHANGED <<pattern_queue, attribute_queue>>
    /\ CountAt256
    /\ UNCHANGED <<mask, fine, secondary, patterns, left_most, sprite0, shown, wanted, maskWrites>>

\* The first two tiles of the next line.
TileDot ==
    /\ On
    /\ NextDotOf("tiles", 16)
    /\ FetchDot(pdot')
    /\ IF pdot' % 8 = 0 THEN LoadIdle ELSE UNCHANGED <<pattern_queue, attribute_queue>>
    /\ UNCHANGED <<mask, fine, objects, sprite0, shown, lit, maskWrites>>

\* A dot with rendering off.
BlankPixel ==
    /\ ~On
    /\ NextDotOf("draw", Width) \/ NextDotOf("tiles", 16)
    /\ lit' = "no"
    /\ UNCHANGED <<coarse, mask, fine, queues, objects, sprite0, shown, maskWrites>>

-----------------------------------------------------------------------------
(* Sprites.                                                                *)

\* left_most_sprite_x_ is only ever lowered: the dot that would reset it does
\* not evaluate.
Lowest(found) == Min({left_most} \cup {found[s].x : s \in DOMAIN found})

\* The evaluation for the next line, while this line is drawn.
EvaluateSprites ==
    /\ phase = "draw" /\ pdot \in 8..Width - 1 /\ pdot % 8 = 0 /\ On
    /\ secondary = <<>>
    /\ secondary' \in Oams \ {<<>>}
    /\ left_most' = Lowest(secondary')
    /\ UNCHANGED <<raster, coarse, mask, fine, queues, patterns, count, wanted, sprite0, shown,
                   lit, maskWrites>>

\* read_sprite_pattern()
Reversed(s) ==
    [x |-> s.x, row |-> IF s.hflip THEN {7 - c : c \in s.row} ELSE s.row,
     front |-> s.front, zero |-> s.zero]

\* Dots 257 to 320: a slot that holds no sprite keeps all but its pattern,
\* which is that of a tile nobody asked for.
SpritePhase ==
    /\ phase = "draw" /\ pdot = Width
    /\ phase' = "tiles" /\ pdot' = 0
    /\ IF On
       THEN /\ coarse' = 0
            /\ \E dummy \in {{}, 0..7} :
                 patterns' = [s \in DOMAIN patterns |->
                                IF s \in DOMAIN secondary THEN Reversed(secondary[s])
                                ELSE [patterns[s] EXCEPT !.row = dummy]]
            /\ wanted' = secondary
            /\ lit' = IF lit = "no" THEN "no" ELSE "yes"
       ELSE lit' = "no" /\ UNCHANGED <<coarse, patterns, wanted>>
    /\ UNCHANGED <<vline, mask, fine, queues, secondary, count, left_most, sprite0, shown, maskWrites>>

\* The first 64 dots of a line clear secondary OAM, and the pre-render line
\* clears the hit.
NextRow ==
    /\ phase = "tiles" /\ pdot = 16
    /\ phase' = "draw" /\ pdot' = 0
    /\ vline' = (vline + 1) % (DrawnLines + 1)
    /\ secondary' = IF On THEN <<>> ELSE secondary
    /\ sprite0' = (sprite0 /\ vline' # 0)
    /\ UNCHANGED <<coarse, mask, fine, queues, patterns, count, left_most, wanted, shown,
                   lit, maskWrites>>

-----------------------------------------------------------------------------
(* $2001, and the first write of $2005.                                    *)
WriteMaskBits ==
    /\ maskWrites < MaxMaskWrites /\ maskWrites' = maskWrites + 1
    /\ mask' \in Masks
    /\ UNCHANGED <<raster, coarse, fine, queues, objects, sprite0, shown, lit>>

WriteFine ==
    /\ maskWrites < MaxMaskWrites /\ maskWrites' = maskWrites + 1
    /\ fine' \in Fines
    /\ UNCHANGED <<raster, coarse, mask, queues, objects, sprite0, shown, lit>>

Empty == [i \in 1..32 |-> {}]

PixelInit ==
    /\ vline = 0 /\ phase = "draw" /\ pdot = 0 /\ coarse = 0
    /\ mask \in Masks /\ fine \in Fines
    /\ next_attribute = 0 /\ next_pattern = [p \in 0..1 |-> 0]
    /\ pattern_queue = Empty /\ attribute_queue = Empty
    /\ secondary = <<>> /\ wanted = <<>> /\ count = 0 /\ left_most = 255
    /\ patterns = [s \in 1..Slot |-> [x |-> 0, row |-> {}, front |-> TRUE, zero |-> FALSE]]
    /\ sprite0 = FALSE /\ shown = [bg |-> NoPixel, sprite |-> 0]
    /\ lit = "no" /\ maskWrites = 0

PixelNext ==
    \/ DrawDot \/ PreRenderDot \/ TileDot \/ BlankPixel
    \/ EvaluateSprites \/ SpritePhase \/ NextRow
    \/ WriteMaskBits \/ WriteFine

PixelSpec == PixelInit /\ [][PixelNext]_pixelVars

-----------------------------------------------------------------------------
(* What a line should show, of its tiles and of its sprites as OAM names   *)
(* them.                                                                   *)
TileAt(x) ==
    LET tile == (x + fine) \div 8
        column == (x + fine) % 8
    IN IF mask.bg /\ (x >= 8 \/ mask.bgleft)
       THEN [p0 |-> {<<0, tile, column>>}, p1 |-> {<<1, tile, column>>},
             a0 |-> {<<0, tile>>}, a1 |-> {<<1, tile>>}]
       ELSE NoPixel

InPicture(s, x) ==
    /\ mask.sprites /\ (x >= 8 \/ mask.spleft)
    /\ x >= s.x
    /\ (IF s.hflip THEN 7 - (x - s.x) ELSE x - s.x) \in s.row

FrontMost(x) ==
    LET here == {s \in DOMAIN wanted : InPicture(wanted[s], x)}
    IN IF here # {} /\ (wanted[Min(here)].front \/ ~Opaque(TileAt(x))) THEN Min(here) ELSE 0

(* Every dot shows the pixel of the tile that the fine scroll puts there,  *)
(* with that tile's attribute, or the first of the line's sprites that has *)
(* a pixel there, and sprite zero hits where its own pixel meets one of    *)
(* the background: whatever was in the shift registers before the line,    *)
(* however the game moves the scroll and hides parts of the picture within *)
(* it, and while the next line's sprites are already evaluated.            *)
PictureInPlace ==
    [][DrawDot /\ lit = "yes" =>
          /\ shown' = [bg |-> TileAt(pdot), sprite |-> FrontMost(pdot)]
          /\ sprite0' <=> \/ sprite0
                          \/ /\ pdot < Width - 1 /\ Opaque(TileAt(pdot))
                             /\ \E s \in DOMAIN wanted :
                                   wanted[s].zero /\ InPicture(wanted[s], pdot)]_pixelVars
=============================================================================
