------------------------------ MODULE PpuFrame ------------------------------
(***************************************************************************)
(* The frame loop (src/src/Nes.h, execute_scanline in src/src/Ppu.cpp):    *)
(* every dot clocks the PPU and every third one the CPU behind it.  The    *)
(* module follows the vertical blank flag, the NMI and the shorter odd     *)
(* frame while the CPU reads $2002 and writes $2000 and $2001 in any of    *)
(* its cycles and the user resets between two frames.  Lines are numbered  *)
(* as in the code, the pre-render line being 0.                            *)
(***************************************************************************)
EXTENDS Integers

CONSTANTS
    Dots,           \* 341 dots of a line
    RenderLines,    \* 240
    VblankLines,    \* 20
    WriteBlock,     \* 82000, the dots for which $2000 and $2001 are ignored
    MaxCycle        \* bound on the dots between two resets

ASSUME FrameAssumption ==
    /\ Dots \in Nat /\ Dots > 6 /\ VblankLines \in Nat \ {0}
    /\ {RenderLines, WriteBlock, MaxCycle} \subseteq Nat

PostLine   == RenderLines + 1
VblankLine == RenderLines + 2
Lines      == RenderLines + 2 + VblankLines

VARIABLES
    vpos, hpos,         \* vpos_, hpos_
    half,               \* what this dot does next: "ppu" or "cpu"
    ppu_cycle,          \* ppu_cycle_
    read_cycle,         \* ppu_read_2002_cycle_, which no reset changes
    vblank,             \* status_.vblank
    nmi_on,             \* ppu_control_.nmi_on_vblank
    screen,             \* ppu_mask_.screen_enabled
    odd_frame,          \* odd_frame_
    nmi_asserted,       \* the CPU's line, until it takes the NMI
    just_read,          \* history: $2002 was read in the dot before
    old_read,           \* history: read_cycle is from before the last reset
    owed,               \* history: a rise of the level below is unanswered
    credit              \* history: rises not taken by the CPU yet

beam    == <<vpos, hpos, half, ppu_cycle>>
control == <<nmi_on, screen>>
reading == <<read_cycle, old_read>>
frameVars ==
    <<beam, reading, vblank, control, odd_frame, nmi_asserted, just_read, owed, credit>>

\* What the 2C02 drives its NMI pin with; the code calls nmi() instead.
Level == vblank /\ nmi_on
Rises == ~Level /\ Level'

\* More rises than can be waiting.
MaxCredit == 3

\* The histories of a step that does or does not call nmi().
Answers(called, excused, taken) ==
    /\ owed' = (Level' /\ ~called /\ (owed \/ (Rises /\ ~excused)))
    /\ credit' = LET left == credit - (IF taken THEN 1 ELSE 0)
                 IN IF Rises /\ left < MaxCredit THEN left + 1 ELSE left

-----------------------------------------------------------------------------
NextLine(l) == IF l + 1 = Lines THEN 0 ELSE l + 1

\* The end of a dot whose position is h, and the start of the next: end_frame()
\* comes with the post-render line.
Advance(h) ==
    /\ ppu_cycle' = ppu_cycle + 1
    /\ half' = "ppu"
    /\ IF h + 1 < Dots
       THEN hpos' = h + 1 /\ UNCHANGED <<vpos, odd_frame>>
       ELSE /\ hpos' = 0 /\ vpos' = NextLine(vpos)
            /\ odd_frame' = IF vpos' = PostLine THEN ~odd_frame ELSE odd_frame

\* The dot goes on with the CPU if it is the third one.
GoOn(h) ==
    IF ppu_cycle % 3 = 0
    THEN hpos' = h /\ half' = "cpu" /\ UNCHANGED <<vpos, ppu_cycle, odd_frame>>
    ELSE Advance(h)

\* A mutant: a read in the very dot counts as the one before it.
EnterVblankSameDot == vblank' = (ppu_cycle # read_cycle)

\* enter_vblank()
EnterVblank == vblank' = (ppu_cycle # read_cycle + 1)

\* The third dot of the vertical blank.
CallsNmi == vpos = VblankLine /\ hpos = 3 /\ Level

\* Dot 338 of the pre-render line is followed by dot 340 in an odd frame.
Skip == vpos = 0 /\ hpos = Dots - 3 /\ screen /\ odd_frame

\* clock_ppu()
ClockPpu ==
    /\ half = "ppu" /\ ppu_cycle < MaxCycle
    /\ CASE vpos = 0 /\ hpos = 1          -> vblank' = FALSE
         [] vpos = VblankLine /\ hpos = 1 -> EnterVblank
         [] OTHER                         -> UNCHANGED vblank
    /\ nmi_asserted' = (nmi_asserted \/ CallsNmi)
    /\ GoOn(IF Skip THEN hpos + 1 ELSE hpos)
    /\ just_read' = FALSE
    /\ UNCHANGED <<reading, control>>
    /\ Answers(CallsNmi, FALSE, FALSE)

-----------------------------------------------------------------------------
(* A CPU cycle, which may take the NMI that was asserted before it.        *)
Cpu(taken) ==
    /\ half = "cpu"
    /\ taken => nmi_asserted
    /\ Advance(hpos)

NoAccess(taken) ==
    /\ Cpu(taken)
    /\ nmi_asserted' = (nmi_asserted /\ ~taken)
    /\ UNCHANGED <<reading, vblank, control, just_read>>
    /\ Answers(FALSE, FALSE, taken)

Read2002(taken) ==
    /\ Cpu(taken)
    /\ vblank' = FALSE
    /\ read_cycle' = ppu_cycle
    /\ just_read' = TRUE /\ old_read' = FALSE
    /\ nmi_asserted' = (nmi_asserted /\ ~taken)
    /\ UNCHANGED control
    /\ Answers(FALSE, FALSE, taken)

\* A mutant: enabling raises the NMI whether or not it was enabled before.
EnablesAlways(on) == on /\ vblank /\ hpos # 0

\* The condition under which write2000() calls nmi().
Enables(on) == ~nmi_on /\ on /\ vblank /\ hpos # 0

Write2000(taken, on) ==
    /\ Cpu(taken)
    /\ ppu_cycle >= WriteBlock
    /\ nmi_on' = on
    /\ nmi_asserted' = CASE nmi_on /\ ~on -> FALSE
                         [] Enables(on)   -> TRUE
                         [] OTHER         -> nmi_asserted /\ ~taken
    /\ UNCHANGED <<reading, vblank, screen, just_read>>
    /\ Answers(Enables(on), hpos = 0, taken)

Write2001(taken) ==
    /\ Cpu(taken)
    /\ ppu_cycle >= WriteBlock
    /\ screen' \in BOOLEAN
    /\ nmi_asserted' = (nmi_asserted /\ ~taken)
    /\ UNCHANGED <<reading, vblank, nmi_on, just_read>>
    /\ Answers(FALSE, FALSE, taken)

\* ppu::reset() and cpu::reset(), between two frames.
FrameReset ==
    /\ vpos = 0 /\ hpos = 0 /\ half = "ppu"
    /\ vblank' = FALSE /\ nmi_on' = FALSE /\ screen' = FALSE
    /\ odd_frame' = FALSE /\ ppu_cycle' = 0
    /\ nmi_asserted' = FALSE
    /\ just_read' = FALSE /\ old_read' = TRUE
    /\ owed' = FALSE /\ credit' = 0
    /\ UNCHANGED <<vpos, hpos, half, read_cycle>>

FrameInit ==
    /\ vpos = 0 /\ hpos = 0 /\ half = "ppu" /\ ppu_cycle = 0
    /\ read_cycle = 0 /\ old_read = TRUE /\ just_read = FALSE
    /\ vblank = FALSE /\ nmi_on = FALSE /\ screen = FALSE /\ odd_frame = FALSE
    /\ nmi_asserted = FALSE /\ owed = FALSE /\ credit = 0

FrameNext ==
    \/ ClockPpu
    \/ \E taken \in BOOLEAN :
          \/ NoAccess(taken) \/ Read2002(taken) \/ Write2001(taken)
          \/ \E on \in BOOLEAN : Write2000(taken, on)
    \/ FrameReset

FrameSpec == FrameInit /\ [][FrameNext]_frameVars

-----------------------------------------------------------------------------
(* The flag of a frame is missing exactly when the game read $2002 one dot *)
(* before it; the one other case is a read from before the last reset      *)
(* whose stamp, which ppu::reset() leaves alone, is that dot's number.     *)
FlagSuppressedByRead ==
    [][ClockPpu /\ vpos = VblankLine /\ hpos = 1
          => (vblank' <=> ~(just_read \/ (old_read /\ ppu_cycle = read_cycle + 1)))]_frameVars

(* Each rise of the level gives the game one NMI: the CPU takes no more of *)
(* them than there were rises, although the same rise may be answered by   *)
(* $2000 and again in dot 3, and a rise that lasts is answered by dot 3 of *)
(* the vertical blank or by the write that made it.  A write in dot 0 of a *)
(* line is the exception.                                                  *)
NmiPerRise == credit >= 0 /\ (owed => vpos = VblankLine /\ hpos <= 3)
=============================================================================
