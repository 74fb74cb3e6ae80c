------------------------------ MODULE MCVideo ------------------------------
(***************************************************************************)
(* The PPU for TLC, as views that share no state: the frame and its        *)
(* vertical blank, the scroll registers, the data port, the evaluation of  *)
(* sprites and the pixels of a line.  A behaviour runs one of them.        *)
(***************************************************************************)
EXTENDS PpuFrame, PpuScroll, DataPort, SpriteEvaluation, Pixels

VARIABLE view

allVars == <<view, frameVars, scrollVars, portVars, spriteVars, pixelVars>>

(* ---------------------------------------------------------------- sprites *)

\* The sets of bytes in range: any set of Y coordinates, and some with others.
Ys       == {4 * s : s \in 0..Sprites - 1}
MCRanges == (SUBSET Ys) \cup {Ys \cup {6}, {0, 4, 17}, {0, 5, 8, 13}, {1, 5, 9, 13, 17}}

Sprite(x, columns, hflip, front, is_zero) ==
    [x |-> x, row |-> columns, hflip |-> hflip, front |-> front, zero |-> is_zero]
MCOams ==
    {<<>>,
     <<Sprite(3, {0, 1, 6}, TRUE, TRUE, TRUE), Sprite(5, 0..7, FALSE, TRUE, FALSE)>>,
     <<Sprite(17, {2, 6}, FALSE, FALSE, TRUE), Sprite(16, {1, 3, 7}, TRUE, TRUE, FALSE)>>,
     <<Sprite(12, {0, 5}, FALSE, FALSE, FALSE), Sprite(8, 0..7, TRUE, FALSE, FALSE)>>}
MaskOf(b, s, bl, sl) == [bg |-> b, sprites |-> s, bgleft |-> bl, spleft |-> sl]
MCMasks == {MaskOf(TRUE, TRUE, TRUE, TRUE), MaskOf(TRUE, TRUE, FALSE, TRUE), MaskOf(TRUE, TRUE, TRUE, FALSE),
            MaskOf(FALSE, TRUE, TRUE, TRUE), MaskOf(FALSE, FALSE, TRUE, TRUE)}

(* ------------------------------------------------------------------- spec *)

\* The other views stand still in one of their initial states.
Init ==
    /\ view \in {"frame", "scroll", "port", "sprites", "pixels"}
    /\ FrameInit
    /\ ScrollInit /\ (view # "scroll"  => nametable = Address(0) /\ rendering_on)
    /\ PortInit   /\ (view # "port"    => mirroring = Vertical /\ ~blocked)
                  /\ writeable = (mirroring = Vertical)
    /\ SpriteInit /\ (view # "sprites" => inrange = {} /\ sprite_address = 0)
    /\ PixelInit  /\ mask = MaskOf(TRUE, TRUE, TRUE, TRUE) /\ (view # "pixels" => fine = 0)

Shows(v) ==
    /\ view = v /\ UNCHANGED view
    /\ v # "frame"   => UNCHANGED frameVars
    /\ v # "scroll"  => UNCHANGED scrollVars
    /\ v # "port"    => UNCHANGED portVars
    /\ v # "sprites" => UNCHANGED spriteVars
    /\ v # "pixels"  => UNCHANGED pixelVars

Next ==
    \/ view = "frame"   /\ FrameNext  /\ Shows("frame")
    \/ view = "scroll"  /\ ScrollNext /\ Shows("scroll")
    \/ view = "port"    /\ PortNext   /\ Shows("port")
    \/ view = "sprites" /\ SpriteNext /\ Shows("sprites")
    \/ view = "pixels"  /\ PixelNext  /\ Shows("pixels")

Spec == Init /\ [][Next]_allVars
=============================================================================
