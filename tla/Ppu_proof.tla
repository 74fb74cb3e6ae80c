------------------------------ MODULE Ppu_proof ------------------------------
(***************************************************************************)
(* The PPU for frames of any size: what the game is told of the vertical   *)
(* blank, where the picture is fetched from, what it gets of the memory it *)
(* stores to and reads, which sprites are kept, and which pixel is shown.  *)
(***************************************************************************)
EXTENDS PpuFrame, PpuScroll, DataPort, SpriteEvaluation, Pixels, FiniteSetTheorems,
        WellFoundedInduction, TLAPS

(***************************************************************************)
(* The vertical blank.  NmiPerRise is not inductive: FrameInv adds where   *)
(* in a frame the flag can be up, and what is waiting in the three dots    *)
(* between the flag and the call of nmi().                                 *)
(***************************************************************************)
FrameType ==
    /\ vpos \in 0..Lines - 1 /\ hpos \in 0..Dots - 1
    /\ half \in {"ppu", "cpu"}
    /\ ppu_cycle \in Nat /\ read_cycle \in Nat
    /\ vblank \in BOOLEAN /\ nmi_on \in BOOLEAN /\ screen \in BOOLEAN
    /\ odd_frame \in BOOLEAN /\ nmi_asserted \in BOOLEAN /\ owed \in BOOLEAN
    /\ just_read \in BOOLEAN /\ old_read \in BOOLEAN
    /\ credit \in Int /\ credit <= MaxCredit

\* The CPU runs behind every third dot.
CpuDot == half = "cpu" => ppu_cycle % 3 = 0

\* The flag rises behind dot 1 of the first line and falls with that of
\* pre-render.
FlagInPlace ==
    vblank => \/ vpos > VblankLine
              \/ vpos = VblankLine /\ (hpos >= 2 \/ (hpos = 1 /\ half = "cpu"))
              \/ vpos = 0 /\ (hpos = 0 \/ (hpos = 1 /\ half = "ppu"))

\* Between the rise of the flag and the dot that calls nmi(), and the part of
\* it that comes before the CPU cycle that falls in there.
Waiting ==
    /\ vpos = VblankLine
    /\ (hpos = 1 /\ half = "cpu") \/ hpos = 2 \/ (hpos = 3 /\ half = "ppu")
AtDot1  == vpos = VblankLine /\ hpos = 1 /\ half = "ppu"
BeforeCpu == Waiting /\ hpos < 3 /\ (half = "cpu" \/ (hpos = 2 /\ ppu_cycle % 3 = 0))

\* An NMI that can be taken stands for a rise that was not taken; one that is
\* still waiting for dot 3 has one of its own, and one more than the NMI that
\* may be taken meanwhile.
CreditCovers ==
    /\ credit >= 0
    /\ nmi_asserted => credit >= 1
    /\ Waiting /\ Level => credit >= 1
    /\ BeforeCpu /\ Level /\ nmi_asserted => credit >= 2

OwedWaits == owed => Waiting

FrameInv == FrameType /\ CpuDot /\ FlagInPlace /\ CreditCovers /\ OwedWaits

-----------------------------------------------------------------------------
\* Where the end of a dot leads.
LEMMA AdvanceMoves ==
    ASSUME FrameType, NEW h \in 0..Dots - 1, Advance(h)
    PROVE  /\ half' = "ppu" /\ ppu_cycle' = ppu_cycle + 1
           /\ vpos' \in 0..Lines - 1 /\ hpos' \in 0..Dots - 1
           /\ odd_frame' \in BOOLEAN
           /\ \/ hpos' = h + 1 /\ vpos' = vpos
              \/ /\ h + 1 = Dots /\ hpos' = 0
                 /\ vpos' = IF vpos + 1 = Lines THEN 0 ELSE vpos + 1
<1>1. Dots \in Nat /\ Lines \in Nat /\ Lines > 0 /\ vpos \in 0..Lines - 1
      /\ ppu_cycle \in Nat
  BY FrameAssumption DEF FrameType, Lines
<1>2. NextLine(vpos) \in 0..Lines - 1
  BY <1>1 DEF NextLine
<1>3. odd_frame' \in BOOLEAN
  BY DEF Advance, FrameType
<1>4. CASE h + 1 < Dots
  BY <1>1, <1>3, <1>4 DEF Advance
<1>5. CASE ~(h + 1 < Dots)
  BY <1>1, <1>2, <1>3, <1>5 DEF Advance, NextLine
<1>. QED  BY <1>4, <1>5

\* The vertical blank lies behind the picture and before the pre-render line.
LEMMA LinesFit ==
    /\ Lines \in Nat /\ VblankLine \in Nat /\ VblankLine > 0 /\ VblankLine < Lines
    /\ Dots \in Nat /\ Dots > 6
  BY FrameAssumption DEF Lines, VblankLine

\* The PPU's half of a dot.
LEMMA ClockPpuKeepsInv ==
    ASSUME FrameInv, ClockPpu
    PROVE  FrameInv'
<1>. DEFINE h == IF Skip THEN hpos + 1 ELSE hpos
<1>0. FrameType /\ CpuDot /\ FlagInPlace /\ CreditCovers /\ OwedWaits
  BY DEF FrameInv
<1>1. h \in 0..Dots - 1 /\ (h # hpos => vpos = 0 /\ hpos > 1)
  BY <1>0, LinesFit DEF FrameType, Skip
<1>2. /\ vblank' \in BOOLEAN /\ half = "ppu"
      /\ nmi_asserted' = (nmi_asserted \/ CallsNmi) /\ just_read' = FALSE
      /\ read_cycle' = read_cycle /\ old_read' = old_read
      /\ nmi_on' = nmi_on /\ screen' = screen
      /\ GoOn(h) /\ Answers(CallsNmi, FALSE, FALSE)
  BY <1>0 DEF ClockPpu, EnterVblank, FrameType, reading, control
<1>3. /\ vpos = 0 /\ hpos = 1 => ~vblank'
      /\ ~(vpos = 0 /\ hpos = 1) /\ ~(vpos = VblankLine /\ hpos = 1) => vblank' = vblank
  BY LinesFit DEF ClockPpu
<1>4. \/ /\ hpos' = h /\ half' = "cpu" /\ ppu_cycle % 3 = 0
         /\ vpos' = vpos /\ ppu_cycle' = ppu_cycle /\ odd_frame' = odd_frame
      \/ /\ ppu_cycle % 3 # 0 /\ Advance(h)
  BY <1>2 DEF GoOn
<1>5. \/ /\ hpos' = h /\ half' = "cpu" /\ ppu_cycle % 3 = 0
         /\ vpos' = vpos /\ ppu_cycle' = ppu_cycle
      \/ /\ half' = "ppu" /\ ppu_cycle' = ppu_cycle + 1 /\ ppu_cycle % 3 # 0
         /\ \/ hpos' = h + 1 /\ vpos' = vpos
            \/ /\ h + 1 = Dots /\ hpos' = 0
               /\ vpos' = IF vpos + 1 = Lines THEN 0 ELSE vpos + 1
  BY <1>0, <1>1, <1>4, AdvanceMoves
<1>6. vpos' \in 0..Lines - 1 /\ hpos' \in 0..Dots - 1 /\ odd_frame' \in BOOLEAN
  BY <1>0, <1>1, <1>4, AdvanceMoves DEF FrameType
<1>. HIDE DEF h
<1>7. credit' \in Int /\ credit' <= MaxCredit /\ owed' \in BOOLEAN
  BY <1>0, <1>2 DEF Answers, FrameType, MaxCredit
<1>8. FrameType'
  <2>1. nmi_asserted' \in BOOLEAN /\ ppu_cycle' \in Nat
    BY <1>2, <1>5, <1>0 DEF FrameType
  <2>2. half' \in {"ppu", "cpu"} /\ read_cycle' \in Nat /\ nmi_on' \in BOOLEAN
        /\ screen' \in BOOLEAN /\ just_read' \in BOOLEAN /\ old_read' \in BOOLEAN
    BY <1>2, <1>5, <1>0 DEF FrameType
  <2>. QED  BY <2>1, <2>2, <1>2, <1>6, <1>7 DEF FrameType, MaxCredit
<1>9. CpuDot'
  BY <1>5 DEF CpuDot
<1>10. FlagInPlace'
  <2>. SUFFICES ASSUME vblank'
                PROVE  FlagInPlace'
    BY DEF FlagInPlace
  <2>1. CASE vpos = VblankLine /\ hpos = 1
    BY <2>1, <1>0, <1>1, <1>2, <1>5, LinesFit DEF FlagInPlace, FrameType, VblankLine, Lines
  <2>2. CASE vblank /\ ~(vpos = 0 /\ hpos = 1)
    BY <2>2, <1>0, <1>1, <1>2, <1>5, LinesFit DEF FlagInPlace, FrameType, VblankLine, Lines
  <2>. QED  BY <2>1, <2>2, <1>3
<1>11. AtDot1 => Waiting'
  BY <1>1, <1>2, <1>5, LinesFit DEF AtDot1, Waiting, VblankLine
<1>12. Waiting /\ hpos = 2 => Waiting'
  BY <1>1, <1>2, <1>5, LinesFit DEF Waiting, VblankLine
<1>13. Waiting' /\ ~AtDot1 => Waiting /\ hpos = 2
  <2>1. CASE vpos' = vpos /\ vpos # 0 /\ h = hpos
    BY <2>1, <1>0, <1>1, <1>2, <1>5 DEF AtDot1, Waiting, VblankLine, FrameType
  <2>2. CASE hpos' = 0
    BY <2>2 DEF Waiting
  <2>. QED  BY <2>1, <2>2, <1>1, <1>5, LinesFit DEF Waiting, VblankLine
<1>14. BeforeCpu' /\ ~AtDot1 => BeforeCpu
  <2>1. Waiting' /\ ~AtDot1 => Waiting /\ h = 2 /\ hpos = 2
    BY <1>1, <1>13, LinesFit DEF Waiting
  <2>. QED  BY <2>1, <1>2, <1>5, LinesFit DEF BeforeCpu, Waiting
<1>15. AtDot1 => ~vblank
  BY <1>0, LinesFit DEF AtDot1, FlagInPlace
<1>16. ~AtDot1 /\ Waiting => vblank' = vblank
  BY <1>2, <1>3, LinesFit DEF AtDot1, Waiting
<1>17. OwedWaits'
  <2>. SUFFICES ASSUME owed', ~Waiting'
                PROVE  FALSE
    BY DEF OwedWaits
  <2>1. Level' /\ ~CallsNmi /\ (owed \/ Rises)
    BY <1>2 DEF Answers
  <2>2. ~AtDot1 /\ (Waiting => hpos = 3)
    BY <1>2, <1>11, <1>12 DEF Waiting
  <2>3. CASE owed
    <3>1. Waiting /\ vblank' = vblank
      BY <2>2, <2>3, <1>0, <1>16 DEF OwedWaits
    <3>. QED  BY <3>1, <2>1, <2>2, <1>2 DEF CallsNmi, Waiting, Level
  <2>4. CASE Rises
    BY <2>1, <2>2, <2>4, <1>2, <1>3, LinesFit DEF Rises, Level, AtDot1
  <2>. QED BY <2>1, <2>3, <2>4
<1>18. CreditCovers'
  <2>1. Waiting' /\ Level' => (Waiting /\ Level) \/ Rises
    BY <1>2, <1>13, <1>15, <1>16 DEF Level, Rises
  <2>2. BeforeCpu' /\ Level' => (BeforeCpu /\ Level) \/ Rises
    BY <1>2, <1>14, <1>15, <1>16 DEF Level, Rises, BeforeCpu
  <2>3. credit' = IF Rises /\ credit < 3 THEN credit + 1 ELSE credit
    BY <1>0, <1>2 DEF Answers, FrameType, MaxCredit
  <2>4. CallsNmi => Waiting /\ Level /\ ~BeforeCpu'
    BY <1>2, <1>13 DEF CallsNmi, Waiting, BeforeCpu, AtDot1
  <2>5. credit \in Int /\ credit >= 0 /\ (nmi_asserted => credit >= 1)
        /\ (Waiting /\ Level => credit >= 1) /\ (BeforeCpu /\ Level /\ nmi_asserted => credit >= 2)
    BY <1>0 DEF CreditCovers, FrameType
  <2>6. nmi_asserted' => nmi_asserted \/ CallsNmi
    BY <1>2
  <2>7. credit' >= 0 /\ (nmi_asserted' => credit' >= 1)
    BY <2>3, <2>4, <2>5, <2>6
  <2>8. Waiting' /\ Level' => credit' >= 1
    BY <2>1, <2>3, <2>5
  <2>9. BeforeCpu' /\ Level' /\ nmi_asserted' => credit' >= 2
    BY <2>2, <2>3, <2>4, <2>5, <2>6
  <2>. QED  BY <2>7, <2>8, <2>9 DEF CreditCovers
<1>. QED  BY <1>8, <1>9, <1>10, <1>17, <1>18 DEF FrameInv

\* A cycle of the CPU, whatever it does to the registers: the flag is not
\* raised by it, the line only with the level, and a rise is answered.
LEMMA CpuCycleKeepsInv ==
    ASSUME FrameInv, NEW taken \in BOOLEAN, Cpu(taken),
           NEW called \in BOOLEAN, NEW excused \in BOOLEAN,
           Answers(called, excused, taken),
           vblank' \in BOOLEAN, vblank' => vblank,
           nmi_asserted' \in BOOLEAN, nmi_asserted' => (nmi_asserted /\ ~taken) \/ Rises,
           Rises => called \/ excused
    PROVE  /\ vpos' \in 0..Lines - 1 /\ hpos' \in 0..Dots - 1 /\ half' = "ppu"
           /\ ppu_cycle' = ppu_cycle + 1 /\ ppu_cycle' \in Nat
           /\ odd_frame' \in BOOLEAN /\ owed' \in BOOLEAN
           /\ credit' \in Int /\ credit' <= MaxCredit
           /\ CpuDot' /\ FlagInPlace' /\ CreditCovers' /\ OwedWaits'
<1>0. FrameType /\ CpuDot /\ FlagInPlace /\ CreditCovers /\ OwedWaits
  BY DEF FrameInv
<1>1. half = "cpu" /\ (taken => nmi_asserted) /\ Advance(hpos)
  BY DEF Cpu
<1>2. /\ half' = "ppu" /\ ppu_cycle' = ppu_cycle + 1
      /\ vpos' \in 0..Lines - 1 /\ hpos' \in 0..Dots - 1
      /\ odd_frame' \in BOOLEAN
      /\ \/ hpos' = hpos + 1 /\ vpos' = vpos
         \/ /\ hpos + 1 = Dots /\ hpos' = 0
            /\ vpos' = IF vpos + 1 = Lines THEN 0 ELSE vpos + 1
  BY <1>0, <1>1, AdvanceMoves DEF FrameType
<1>3. CpuDot'
  BY <1>2 DEF CpuDot
<1>4. ppu_cycle' \in Nat /\ ppu_cycle' % 3 # 0
  BY <1>0, <1>1, <1>2 DEF CpuDot, FrameType
<1>5. FlagInPlace'
  <2>. SUFFICES ASSUME vblank'
                PROVE  FlagInPlace'
    BY DEF FlagInPlace
  <2>. QED  BY <1>0, <1>1, <1>2, LinesFit DEF FlagInPlace, FrameType, VblankLine, Lines
<1>6. Waiting <=> Waiting'
  BY <1>0, <1>1, <1>2, LinesFit DEF Waiting, VblankLine, FrameType
<1>7. ~BeforeCpu'
  BY <1>2, <1>4 DEF BeforeCpu
<1>8. Waiting => BeforeCpu
  BY <1>1 DEF Waiting, BeforeCpu
<1>9. OwedWaits'
  BY <1>0, <1>6 DEF Answers, OwedWaits
<1>10. owed' \in BOOLEAN
  BY DEF Answers
<1>11. credit \in Int /\ credit <= 3 /\ credit >= 0 /\ (nmi_asserted => credit >= 1)
       /\ (Waiting /\ Level => credit >= 1) /\ (BeforeCpu /\ Level /\ nmi_asserted => credit >= 2)
  BY <1>0 DEF CreditCovers, FrameType, MaxCredit
<1>12. credit' = IF Rises /\ credit - (IF taken THEN 1 ELSE 0) < 3
                 THEN credit - (IF taken THEN 1 ELSE 0) + 1
                 ELSE credit - (IF taken THEN 1 ELSE 0)
  BY DEF Answers, MaxCredit
<1>13. credit' \in 0..3 /\ (Rises => credit' >= 1) /\ (~taken => credit' >= credit)
       /\ (~Rises => credit' = credit - (IF taken THEN 1 ELSE 0))
  BY <1>1, <1>11, <1>12
<1>14. nmi_asserted' => credit' >= 1
  BY <1>11, <1>13
<1>15. Waiting' /\ Level' => credit' >= 1
  <2>1. CASE Rises
    BY <2>1, <1>13
  <2>2. CASE Level /\ Waiting
    BY <2>2, <1>1, <1>8, <1>11, <1>13
  <2>. QED  BY <2>1, <2>2, <1>6 DEF Rises
<1>16. CreditCovers'
  BY <1>7, <1>13, <1>14, <1>15 DEF CreditCovers
<1>. QED  BY <1>2, <1>3, <1>4, <1>5, <1>9, <1>10, <1>13, <1>16 DEF MaxCredit

\* What the CPU can do in its cycle.
LEMMA AccessKeepsInv ==
    ASSUME FrameInv, NEW taken \in BOOLEAN,
           \/ NoAccess(taken) \/ Read2002(taken) \/ Write2001(taken)
           \/ \E on \in BOOLEAN : Write2000(taken, on)
    PROVE  FrameInv'
<1>0. FrameType
  BY DEF FrameInv
<1>1. CASE NoAccess(taken)
  <2>1. /\ Cpu(taken) /\ Answers(FALSE, FALSE, taken)
        /\ vblank' = vblank /\ nmi_on' = nmi_on /\ screen' = screen
        /\ read_cycle' = read_cycle /\ old_read' = old_read /\ just_read' = just_read
        /\ nmi_asserted' = (nmi_asserted /\ ~taken)
    BY <1>1 DEF NoAccess, control, reading
  <2>2. ~Rises /\ nmi_asserted' \in BOOLEAN /\ (nmi_asserted' => nmi_asserted /\ ~taken)
    BY <2>1 DEF Rises, Level
  <2>. QED  BY <1>0, <2>1, <2>2, CpuCycleKeepsInv DEF FrameInv, FrameType
<1>2. CASE Read2002(taken)
  <2>1. /\ Cpu(taken) /\ Answers(FALSE, FALSE, taken)
        /\ vblank' = FALSE /\ nmi_on' = nmi_on /\ screen' = screen
        /\ read_cycle' = ppu_cycle /\ old_read' = FALSE /\ just_read' = TRUE
        /\ nmi_asserted' = (nmi_asserted /\ ~taken)
    BY <1>2 DEF Read2002, control
  <2>2. ~Rises /\ nmi_asserted' \in BOOLEAN /\ (nmi_asserted' => nmi_asserted /\ ~taken)
    BY <2>1 DEF Rises, Level
  <2>. QED  BY <1>0, <2>1, <2>2, CpuCycleKeepsInv DEF FrameInv, FrameType
<1>3. CASE Write2001(taken)
  <2>1. /\ Cpu(taken) /\ Answers(FALSE, FALSE, taken)
        /\ vblank' = vblank /\ nmi_on' = nmi_on /\ screen' \in BOOLEAN
        /\ read_cycle' = read_cycle /\ old_read' = old_read /\ just_read' = just_read
        /\ nmi_asserted' = (nmi_asserted /\ ~taken)
    BY <1>3 DEF Write2001, reading
  <2>2. ~Rises /\ nmi_asserted' \in BOOLEAN /\ (nmi_asserted' => nmi_asserted /\ ~taken)
    BY <2>1 DEF Rises, Level
  <2>. QED  BY <1>0, <2>1, <2>2, CpuCycleKeepsInv DEF FrameInv, FrameType
<1>4. CASE \E on \in BOOLEAN : Write2000(taken, on)
  <2>. PICK on \in BOOLEAN : Write2000(taken, on)
    BY <1>4
  <2>1. /\ Cpu(taken) /\ Answers(Enables(on), hpos = 0, taken)
        /\ vblank' = vblank /\ nmi_on' = on /\ screen' = screen
        /\ read_cycle' = read_cycle /\ old_read' = old_read /\ just_read' = just_read
        /\ nmi_asserted' = CASE nmi_on /\ ~on -> FALSE
                             [] Enables(on)   -> TRUE
                             [] OTHER         -> nmi_asserted /\ ~taken
    BY DEF Write2000, reading
  <2>2. Rises => Enables(on) \/ hpos = 0
    BY <2>1 DEF Rises, Level, Enables
  <2>3. nmi_asserted' \in BOOLEAN /\ (nmi_asserted' => Enables(on) \/ (nmi_asserted /\ ~taken))
    BY <2>1 DEF Enables
  <2>4. Enables(on) => Rises
    BY <2>1 DEF Rises, Level, Enables
  <2>5. Enables(on) \in BOOLEAN /\ (hpos = 0) \in BOOLEAN
    BY DEF Enables
  <2>6. nmi_asserted' => (nmi_asserted /\ ~taken) \/ Rises
    BY <2>3, <2>4
  <2>. QED  BY <1>0, <2>1, <2>2, <2>3, <2>5, <2>6, CpuCycleKeepsInv DEF FrameInv, FrameType
<1>. QED  BY <1>1, <1>2, <1>3, <1>4

\* Reset starts over in a state of the invariant.
LEMMA FrameResetKeepsInv ==
    ASSUME FrameInv, FrameReset
    PROVE  FrameInv'
<1>1. FrameType'
  <2>1. /\ vblank' \in BOOLEAN /\ nmi_on' \in BOOLEAN /\ screen' \in BOOLEAN
        /\ odd_frame' \in BOOLEAN /\ nmi_asserted' \in BOOLEAN /\ owed' \in BOOLEAN
        /\ just_read' \in BOOLEAN /\ old_read' \in BOOLEAN
    BY Zenon DEF FrameReset
  <2>2. vpos' = vpos /\ hpos' = hpos /\ half' = half /\ ppu_cycle' = 0
        /\ read_cycle' = read_cycle /\ credit' = 0
    BY DEF FrameReset
  <2>. QED  BY <2>1, <2>2 DEF FrameInv, FrameType, MaxCredit, Lines
<1>2. ~vblank' /\ ~owed' /\ ~nmi_asserted' /\ credit' = 0 /\ half' = "ppu" /\ vpos' = 0 /\ hpos' = 0
  BY DEF FrameInv, FrameType, FrameReset
<1>3. CpuDot' /\ FlagInPlace' /\ OwedWaits' /\ CreditCovers'
  BY <1>2 DEF CpuDot, FlagInPlace, OwedWaits, CreditCovers, BeforeCpu, Waiting, Level
<1>. QED  BY <1>1, <1>3 DEF FrameInv

LEMMA FrameInvInit == FrameInit => FrameInv
<1>. SUFFICES ASSUME FrameInit PROVE FrameInv  OBVIOUS
<1>1. FrameType
  <2>1. 0 \in 0..Lines - 1 /\ 0 \in 0..Dots - 1 /\ 0 <= MaxCredit
    BY LinesFit DEF MaxCredit
  <2>2. /\ vblank \in BOOLEAN /\ nmi_on \in BOOLEAN /\ screen \in BOOLEAN
        /\ odd_frame \in BOOLEAN /\ nmi_asserted \in BOOLEAN /\ owed \in BOOLEAN
        /\ just_read \in BOOLEAN /\ old_read \in BOOLEAN
    BY Zenon DEF FrameInit
  <2>3. vpos = 0 /\ hpos = 0 /\ half = "ppu" /\ ppu_cycle = 0 /\ read_cycle = 0 /\ credit = 0
    BY DEF FrameInit
  <2>. QED  BY <2>1, <2>2, <2>3 DEF FrameType
<1>2. CpuDot /\ FlagInPlace /\ OwedWaits /\ CreditCovers
  BY DEF FrameInit, CpuDot, FlagInPlace, OwedWaits, CreditCovers, BeforeCpu, Waiting, Level
<1>. QED  BY <1>1, <1>2 DEF FrameInv

LEMMA FrameInvNext == FrameInv /\ [FrameNext]_frameVars => FrameInv'
<1>. SUFFICES ASSUME FrameInv, [FrameNext]_frameVars
              PROVE  FrameInv'
  OBVIOUS
<1>1. CASE FrameNext
  BY <1>1, ClockPpuKeepsInv, AccessKeepsInv, FrameResetKeepsInv DEF FrameNext
<1>2. CASE UNCHANGED frameVars
  BY <1>2 DEF frameVars, beam, reading, control, FrameInv, FrameType, CpuDot,
     FlagInPlace, OwedWaits, CreditCovers, BeforeCpu, Waiting, Level, MaxCredit,
     VblankLine, Lines
<1>. QED  BY <1>1, <1>2

\* The inductive invariant of the frame, for lines and frames of any length.
THEOREM FrameInvariant == FrameSpec => []FrameInv
<1>. QED  BY FrameInvInit, FrameInvNext, PTL DEF FrameSpec

\* NmiPerRise, for lines and frames of any length: the CPU takes no more NMIs
\* than the level has risen, and a rise waits for three dots at most.
THEOREM NmiPerRiseHolds == FrameSpec => []NmiPerRise
<1>1. FrameInv => NmiPerRise
  BY DEF FrameInv, CreditCovers, OwedWaits, Waiting, NmiPerRise
<1>. QED  BY <1>1, FrameInvariant, PTL

-----------------------------------------------------------------------------
(***************************************************************************)
(* FlagSuppressedByRead: ppu_read_2002_cycle_ is a number that a reset     *)
(* leaves alone while the count of dots starts again.  As long as it is of *)
(* this count it lies behind it, by one dot exactly when $2002 was read in *)
(* the dot before.                                                         *)
(***************************************************************************)
ReadStamp ==
    /\ ~old_read => read_cycle < ppu_cycle
    /\ half = "cpu" => ~just_read
    /\ just_read => ~old_read /\ ppu_cycle = read_cycle + 1
    /\ half = "ppu" /\ ~old_read /\ ppu_cycle = read_cycle + 1 => just_read

LEMMA ReadStampNext ==
    ASSUME FrameInv, ReadStamp, [FrameNext]_frameVars
    PROVE  ReadStamp'
<1>0. FrameType
  BY DEF FrameInv
<1>1. CASE ClockPpu
  <2>1. read_cycle' = read_cycle /\ old_read' = old_read /\ ~just_read'
    BY <1>1 DEF ClockPpu, reading
  <2>2. (half' = "cpu" /\ ppu_cycle' = ppu_cycle) \/ (half' = "ppu" /\ ppu_cycle' = ppu_cycle + 1)
    BY <1>1 DEF ClockPpu, GoOn, Advance
  <2>. QED  BY <1>0, <2>1, <2>2 DEF ReadStamp, FrameType
<1>2. ASSUME NEW taken \in BOOLEAN,
             \/ NoAccess(taken) \/ Write2001(taken)
             \/ \E on \in BOOLEAN : Write2000(taken, on)
      PROVE  ReadStamp'
  <2>1. /\ half = "cpu" /\ half' = "ppu" /\ ppu_cycle' = ppu_cycle + 1
        /\ read_cycle' = read_cycle /\ old_read' = old_read /\ just_read' = just_read
    BY <1>2 DEF NoAccess, Write2000, Write2001, Cpu, Advance, reading
  <2>. QED  BY <1>0, <2>1 DEF ReadStamp, FrameType
<1>3. ASSUME NEW taken \in BOOLEAN, Read2002(taken)
      PROVE  ReadStamp'
  BY <1>0, <1>3 DEF Read2002, Cpu, Advance, ReadStamp, FrameType
<1>4. CASE FrameReset
  BY <1>4 DEF FrameReset, ReadStamp
<1>5. CASE UNCHANGED frameVars
  BY <1>5 DEF frameVars, beam, reading, ReadStamp
<1>. QED  BY <1>1, <1>2, <1>3, <1>4, <1>5 DEF FrameNext

\* FlagSuppressedByRead, for lines and frames of any length.
THEOREM FlagSuppressedByReadHolds == FrameSpec => FlagSuppressedByRead
<1>1. FrameInit => ReadStamp
  BY DEF FrameInit, ReadStamp
<1>2. FrameInv /\ ReadStamp /\ [FrameNext]_frameVars
        => [ClockPpu /\ vpos = VblankLine /\ hpos = 1
              => (vblank' <=> ~(just_read \/ (old_read /\ ppu_cycle = read_cycle + 1)))]_frameVars
  <2>. SUFFICES ASSUME FrameInv, ReadStamp, ClockPpu, vpos = VblankLine, hpos = 1
                PROVE  vblank' <=> ~(just_read \/ (old_read /\ ppu_cycle = read_cycle + 1))
    OBVIOUS
  <2>1. vblank' = (ppu_cycle # read_cycle + 1) /\ half = "ppu"
    BY LinesFit DEF ClockPpu, EnterVblank
  <2>2. ppu_cycle = read_cycle + 1 <=> just_read \/ (old_read /\ ppu_cycle = read_cycle + 1)
    BY <2>1 DEF ReadStamp, FrameInv, FrameType
  <2>. QED  BY <2>1, <2>2
<1>. QED
  BY <1>1, <1>2, ReadStampNext, FrameInvariant, PTL DEF FrameSpec, FlagSuppressedByRead

-----------------------------------------------------------------------------
(***************************************************************************)
(* The scroll.  RasterPosition needs that the addresses keep to the widths *)
(* of their fields, and that a vertical scroll counts from the first line. *)
(***************************************************************************)
Addresses == [cx : 0..31, cy : 0..31, nx : 0..1, ny : 0..1, fine : 0..7]

ScrollType ==
    /\ vram_address \in Addresses /\ nametable \in Addresses
    /\ line \in 0..Vblank /\ step \in 0..35
    /\ left \subseteq [cx : 0..31, nx : 0..1]
    /\ top \subseteq [cy : 0..31, ny : 0..1, fine : 0..7]

TopIsLoaded == top # {} => line >= 1 \/ step >= 34

ScrollInv == ScrollType /\ TopIsLoaded /\ RasterPosition

\* What the bits of a number are.
LEMMA AddressFields ==
    ASSUME NEW n \in Nat
    PROVE  Address(n) \in Addresses
<1>1. /\ n % 32 \in 0..31 /\ (n \div 32) % 32 \in 0..31 /\ (n \div 1024) % 2 \in 0..1
      /\ (n \div 2048) % 2 \in 0..1 /\ (n \div 4096) % 8 \in 0..7
  OBVIOUS
<1>. QED  BY <1>1 DEF Address, Addresses


\* Fields that fit make an address, whichever of them a write replaces.
LEMMA FieldsFit ==
    ASSUME NEW a \in Addresses
    PROVE  /\ \A cx \in 0..31 : [a EXCEPT !.cx = cx] \in Addresses
           /\ \A cx \in 0..31, nx \in 0..1 : [a EXCEPT !.cx = cx, !.nx = nx] \in Addresses
           /\ \A nx, ny \in 0..1 : [a EXCEPT !.ny = ny, !.nx = nx] \in Addresses
           /\ \A cx, cy \in 0..31 : [a EXCEPT !.cy = cy, !.cx = cx] \in Addresses
           /\ \A cy \in 0..31, fy \in 0..7 : [a EXCEPT !.cy = cy, !.fine = fy] \in Addresses
           /\ \A cy \in 0..31, fy \in 0..7 : [a EXCEPT !.fine = fy, !.cy = cy] \in Addresses
           /\ \A cy \in 0..31, fy \in 0..7, ny \in 0..1 :
                 /\ [a EXCEPT !.fine = fy, !.cy = cy, !.ny = ny] \in Addresses
                 /\ [a EXCEPT !.cy = cy, !.ny = ny, !.fine = fy] \in Addresses
           /\ \A cy \in 0..31, fy \in 0..7, nx, ny \in 0..1 :
                 [a EXCEPT !.fine = fy, !.ny = ny, !.nx = nx, !.cy = cy] \in Addresses
  BY DEF Addresses

\* Once round the rows of two nametables, and of one with its attributes.
LEMMA Around240 ==
    ASSUME NEW k \in Nat, k < 480
    PROVE  /\ k < 240 => k % 240 = k /\ k \div 240 = 0
           /\ k >= 240 => k % 240 = k - 240 /\ k \div 240 = 1
  OBVIOUS
\* Scroll positions are below twice 256.
LEMMA Around256 ==
    ASSUME NEW k \in Nat, k < 512
    PROVE  /\ k < 256 => k % 256 = k
           /\ k >= 256 => k % 256 = k - 256
  OBVIOUS

\* The fields as a number.
LEMMA NumberIsNat ==
    ASSUME NEW a \in Addresses
    PROVE  Number(a) \in Nat
<1>1. a.cx \in Nat /\ a.cy \in Nat /\ a.nx \in Nat /\ a.ny \in Nat /\ a.fine \in Nat
  BY DEF Addresses
<1>. QED  BY <1>1 DEF Number

\* clock_x() moves one tile to the right, through both nametables.
LEMMA ClockXMoves ==
    ASSUME NEW a \in Addresses
    PROVE  /\ ClockX(a) \in Addresses
           /\ Column(ClockX(a)) = (Column(a) + 1) % 64
           /\ Row(ClockX(a)) = Row(a) /\ ClockX(a).ny = a.ny
<1>1. a.cx \in 0..31 /\ a.nx \in 0..1 /\ a.ny \in 0..1
  BY DEF Addresses
<1>2. CASE a.cx = 31
  <2>1. ClockX(a) = [a EXCEPT !.cx = 0, !.nx = 1 - a.nx]
    BY <1>2 DEF ClockX
  <2>2. /\ ClockX(a).cx = 0 /\ ClockX(a).nx = 1 - a.nx /\ ClockX(a).cy = a.cy
        /\ ClockX(a).ny = a.ny /\ ClockX(a).fine = a.fine
    BY <2>1, <1>1 DEF Addresses
  <2>3. ClockX(a) \in Addresses
    <3>1. 0 \in 0..31 /\ 0 \in 0..7 /\ 1 - a.nx \in 0..1 /\ 1 - a.ny \in 0..1
      BY <1>1
    <3>2. [a EXCEPT !.cx = 0, !.nx = 1 - a.nx] \in Addresses
      BY <3>1, FieldsFit
    <3>. QED  BY <2>1, <3>2
  <2>. QED  BY <1>1, <1>2, <2>2, <2>3 DEF Column, Row
<1>3. CASE a.cx # 31
  <2>1. ClockX(a) = [a EXCEPT !.cx = a.cx + 1]
    BY <1>3 DEF ClockX
  <2>2. /\ ClockX(a).cx = a.cx + 1 /\ ClockX(a).nx = a.nx /\ ClockX(a).cy = a.cy
        /\ ClockX(a).ny = a.ny /\ ClockX(a).fine = a.fine /\ ClockX(a) \in Addresses
    BY <2>1, <1>1, <1>3 DEF Addresses
  <2>. QED  BY <1>1, <1>3, <2>2 DEF Column, Row
<1>. QED  BY <1>2, <1>3

\* clock_y() moves one line down, from row 239 into the other nametable, from
\* row 255 back into the same.
LEMMA ClockYMoves ==
    ASSUME NEW a \in Addresses
    PROVE  /\ ClockY(a) \in Addresses
           /\ Column(ClockY(a)) = Column(a)
           /\ Row(ClockY(a)) = IF Row(a) \in {239, 255} THEN 0 ELSE Row(a) + 1
           /\ ClockY(a).ny = IF Row(a) = 239 THEN 1 - a.ny ELSE a.ny
<1>1. a.cy \in 0..31 /\ a.ny \in 0..1 /\ a.fine \in 0..7 /\ a.nx \in 0..1
  BY DEF Addresses
<1>2. ClockY(a).cx = a.cx /\ ClockY(a).nx = a.nx
  BY DEF ClockY, Addresses
<1>3. CASE a.fine < 7
  <2>1. ClockY(a) = [a EXCEPT !.fine = a.fine + 1]
    BY <1>3, <1>1 DEF ClockY
  <2>2. ClockY(a) \in Addresses /\ ClockY(a).cy = a.cy /\ ClockY(a).ny = a.ny /\ ClockY(a).fine = a.fine + 1
    BY <2>1, <1>1, <1>3 DEF Addresses
  <2>. QED  BY <1>1, <1>2, <1>3, <2>2 DEF Column, Row
<1>4. CASE a.fine = 7 /\ a.cy = 29
  <2>1. ClockY(a) = [a EXCEPT !.fine = 0, !.cy = 0, !.ny = 1 - a.ny]
    BY <1>4 DEF ClockY
  <2>2. ClockY(a).cy = 0 /\ ClockY(a).ny = 1 - a.ny /\ ClockY(a).fine = 0
    BY <2>1, <1>1 DEF Addresses
  <2>3. ClockY(a) \in Addresses
    <3>1. 0 \in 0..31 /\ 0 \in 0..7 /\ 1 - a.nx \in 0..1 /\ 1 - a.ny \in 0..1
      BY <1>1
    <3>2. [a EXCEPT !.fine = 0, !.cy = 0, !.ny = 1 - a.ny] \in Addresses
      BY <3>1, FieldsFit
    <3>. QED  BY <2>1, <3>2
  <2>. QED  BY <1>1, <1>2, <1>4, <2>2, <2>3 DEF Column, Row
<1>5. CASE a.fine = 7 /\ a.cy = 31
  <2>1. ClockY(a) = [a EXCEPT !.fine = 0, !.cy = 0]
    BY <1>5 DEF ClockY
  <2>2. ClockY(a).cy = 0 /\ ClockY(a).ny = a.ny /\ ClockY(a).fine = 0
    BY <2>1, <1>1 DEF Addresses
  <2>3. ClockY(a) \in Addresses
    <3>1. 0 \in 0..31 /\ 0 \in 0..7 /\ 1 - a.nx \in 0..1 /\ 1 - a.ny \in 0..1
      BY <1>1
    <3>2. [a EXCEPT !.fine = 0, !.cy = 0] \in Addresses
      BY <3>1, FieldsFit
    <3>. QED  BY <2>1, <3>2
  <2>. QED  BY <1>1, <1>2, <1>5, <2>2, <2>3 DEF Column, Row
<1>6. CASE a.fine = 7 /\ a.cy # 29 /\ a.cy # 31
  <2>1. ClockY(a) = [a EXCEPT !.fine = 0, !.cy = a.cy + 1]
    BY <1>6 DEF ClockY
  <2>2. ClockY(a).cy = a.cy + 1 /\ ClockY(a).ny = a.ny /\ ClockY(a).fine = 0
    BY <2>1, <1>1, <1>6 DEF Addresses
  <2>3. ClockY(a) \in Addresses
    <3>1. a.cy + 1 \in 0..31 /\ 0 \in 0..7
      BY <1>1, <1>6
    <3>2. [a EXCEPT !.fine = 0, !.cy = a.cy + 1] \in Addresses
      BY <3>1, FieldsFit
    <3>. QED  BY <2>1, <3>2
  <2>. QED  BY <1>1, <1>2, <1>6, <2>2, <2>3 DEF Column, Row
<1>. QED  BY <1>1, <1>3, <1>4, <1>5, <1>6

\* What RowAfter says of the next line.
LEMMA RowAfterSteps ==
    ASSUME NEW a \in [cy : 0..31, ny : 0..1, fine : 0..7], NEW n \in 0..239
    PROVE  LET r == RowAfter(a, n).row
               y == RowAfter(a, n).ny
           IN  RowAfter(a, n + 1) =
                 [row |-> IF r \in {239, 255} THEN 0 ELSE r + 1,
                  ny |-> IF r = 239 THEN 1 - y ELSE y]
<1>. DEFINE k == Row(a) + n
            r == RowAfter(a, n).row
            y == RowAfter(a, n).ny
<1>. SUFFICES RowAfter(a, n + 1) =
                 [row |-> IF r \in {239, 255} THEN 0 ELSE r + 1,
                  ny |-> IF r = 239 THEN 1 - y ELSE y]
  OBVIOUS
<1>0. a.cy \in 0..31 /\ a.ny \in 0..1 /\ a.fine \in 0..7
  OBVIOUS
<1>1. Row(a) \in 0..255 /\ k \in Nat /\ k < 495 /\ Row(a) + (n + 1) = k + 1
  BY <1>0 DEF Row
<1>2. CASE Row(a) < 240
  <2>1. r = k % 240 /\ y = (a.ny + k \div 240) % 2
    BY <1>2 DEF RowAfter
  <2>2. RowAfter(a, n + 1) = [row |-> (k + 1) % 240, ny |-> (a.ny + (k + 1) \div 240) % 2]
    BY <1>2, <1>1 DEF RowAfter
  <2>. HIDE DEF k
  <2>3. k < 479
    BY <1>1, <1>2 DEF k
  <2>4. CASE k < 239
    BY <2>1, <2>2, <2>4, <1>0, <1>1, Around240
  <2>5. CASE k = 239
    BY <2>1, <2>2, <2>5, <1>0, <1>1, Around240
  <2>6. CASE k > 239
    BY <2>1, <2>2, <2>3, <2>6, <1>0, <1>1, Around240
  <2>. QED  BY <2>4, <2>5, <2>6, <1>1
<1>3. CASE Row(a) >= 240
  <2>1. r = k % 256 /\ y = a.ny
    BY <1>3, <1>1 DEF RowAfter
  <2>2. RowAfter(a, n + 1) = [row |-> (k + 1) % 256, ny |-> a.ny]
    BY <1>3, <1>1 DEF RowAfter
  <2>3. k >= 240
    BY <1>1, <1>3
  <2>. HIDE DEF k
  <2>4. (k < 256 => r = k) /\ (k >= 256 => r = k - 256)
        /\ (k < 255 => (k + 1) % 256 = k + 1) /\ (k >= 255 => (k + 1) % 256 = k + 1 - 256)
    BY <2>1, <1>1, Around256
  <2>. QED  BY <2>1, <2>2, <2>3, <2>4, <1>1
<1>. QED  BY <1>1, <1>2, <1>3
\* The registers of the game make addresses of every byte.
LEMMA RegistersType ==
    ASSUME ScrollInv,
           Scroll2000 \/ Scroll2001 \/ Scroll2002 \/ Write2005 \/ Write2006
    PROVE  nametable' \in Addresses
<1>0. nametable \in Addresses /\ nametable.cy \in 0..31
  BY DEF ScrollInv, ScrollType, Addresses
<1>1. CASE Scroll2000
  <2>. PICK ny \in 0..1, nx \in 0..1 : nametable' = [nametable EXCEPT !.ny = ny, !.nx = nx]
    BY <1>1 DEF Scroll2000
  <2>. QED  BY <1>0, FieldsFit
<1>2. CASE Scroll2001 \/ Scroll2002
  BY <1>0, <1>2 DEF Scroll2001, Scroll2002
<1>3. CASE Write2005
  <2>. PICK d \in Scrolls : nametable' = IF write_latch
                       THEN [nametable EXCEPT !.cy = d \div 8, !.fine = d % 8]
                       ELSE [nametable EXCEPT !.cx = d \div 8]
    BY <1>3 DEF Write2005
  <2>1. d \div 8 \in 0..31 /\ d % 8 \in 0..7
    BY ScrollAssumption
  <2>2. /\ [nametable EXCEPT !.cy = d \div 8, !.fine = d % 8] \in Addresses
        /\ [nametable EXCEPT !.cx = d \div 8] \in Addresses
    BY <1>0, <2>1, FieldsFit
  <2>. QED  BY <2>2
<1>4. CASE Write2006
  <2>1. ASSUME NEW h \in Highs
        PROVE  HighByte(h) \in Addresses
    <3>1. h \div 16 \in 0..7 /\ (h \div 8) % 2 \in 0..1 /\ (h \div 4) % 2 \in 0..1
          /\ 8 * (h % 4) + (nametable.cy % 8) \in 0..31
      <4>1. h \in 0..63 /\ h % 4 \in 0..3 /\ nametable.cy % 8 \in 0..7
        <5>1. h \in 0..63
          BY ScrollAssumption
        <5>. QED  BY <1>0, <5>1
      <4>2. h \div 16 \in 0..7 /\ (h \div 8) % 2 \in 0..1 /\ (h \div 4) % 2 \in 0..1
        BY <4>1
      <4>. QED  BY <4>1, <4>2
    <3>2. [nametable EXCEPT !.fine = h \div 16, !.ny = (h \div 8) % 2,
             !.nx = (h \div 4) % 2, !.cy = 8 * (h % 4) + (nametable.cy % 8)] \in Addresses
      BY <1>0, <3>1, FieldsFit
    <3>. QED  BY <3>2 DEF HighByte
  <2>2. ASSUME NEW l \in Lows
        PROVE  LowByte(l) \in Addresses
    <3>1. 8 * (nametable.cy \div 8) + (l \div 32) \in 0..31 /\ l % 32 \in 0..31
      <4>1. l \in 0..255 /\ l % 32 \in 0..31 /\ nametable.cy \div 8 \in 0..3 /\ l \div 32 \in 0..7
        BY <1>0, ScrollAssumption
      <4>. QED  BY <4>1
    <3>2. [nametable EXCEPT !.cy = 8 * (nametable.cy \div 8) + (l \div 32), !.cx = l % 32]
             \in Addresses
      BY <1>0, <3>1, FieldsFit
    <3>. QED  BY <3>2 DEF LowByte
  <2>. QED  BY <1>4, <2>1, <2>2 DEF Write2006
<1>. QED  BY <1>1, <1>2, <1>3, <1>4

\* Between the steps of a line only a second byte of $2006 moves the address.
LEMMA RegistersKeepInv ==
    ASSUME ScrollInv,
           Scroll2000 \/ Scroll2001 \/ Scroll2002 \/ Write2005 \/ Write2006
    PROVE  ScrollInv'
<1>1. nametable' \in Addresses
  BY RegistersType
<1>2. /\ line' = line /\ step' = step
      /\ \/ vram_address' = vram_address /\ left' = left /\ top' = top
         \/ vram_address' = nametable' /\ left' = {} /\ top' = {}
  BY DEF Scroll2000, Scroll2001, Scroll2002, Write2005, Write2006, Access, Lost
<1>3. ScrollType' /\ TopIsLoaded'
  BY <1>1, <1>2 DEF ScrollInv, ScrollType, TopIsLoaded, Vblank
<1>4. RasterPosition'
  BY <1>1, <1>2 DEF ScrollInv, RasterPosition, TilesDone, LinesDone, Column, Row, RowAfter
<1>. QED  BY <1>3, <1>4 DEF ScrollInv

\* Steps behind which nothing is known of the address.
LEMMA LosingKeepsInv ==
    ASSUME ScrollInv, Access2007 \/ Idle \/ PreRender
    PROVE  ScrollInv'
<1>1. left' = {} /\ top' = {} /\ nametable' = nametable
  BY DEF Access2007, Idle, PreRender, NextStep, Lost
<1>2. line' \in 0..Vblank /\ step' \in 0..35
  <2>1. line \in 0..Vblank /\ step \in 0..35 /\ Vblank \in Nat
    BY ScrollAssumption DEF ScrollInv, ScrollType, Vblank
  <2>2. CASE Access2007
    BY <2>1, <2>2 DEF Access2007, Access
  <2>3. CASE Idle
    BY <2>1, <2>3 DEF Idle, NextStep
  <2>4. CASE PreRender
    BY <2>1, <2>4 DEF PreRender
  <2>. QED  BY <2>2, <2>3, <2>4
<1>3. vram_address' \in Addresses
  <2>1. CASE Access2007
    <3>1. ClockY(ClockX(vram_address)) \in Addresses
      BY ClockXMoves, ClockYMoves DEF ScrollInv, ScrollType
    <3>2. Number(vram_address) + 1 \in Nat /\ Number(vram_address) + 32 \in Nat
      BY NumberIsNat DEF ScrollInv, ScrollType
    <3>. QED  BY <2>1, <3>1, <3>2, AddressFields DEF Access2007
  <2>2. CASE Idle \/ PreRender
    BY <2>2 DEF Idle, PreRender, ScrollInv, ScrollType
  <2>. QED  BY <2>1, <2>2
<1>. QED
  BY <1>1, <1>2, <1>3 DEF ScrollInv, ScrollType, TopIsLoaded, RasterPosition, Vblank

\* clock_x() behind every tile.
LEMMA FetchTileKeepsInv ==
    ASSUME ScrollInv, FetchTile
    PROVE  ScrollInv'
<1>. DEFINE v == vram_address
<1>0. /\ v \in Addresses /\ vram_address' = ClockX(v) /\ nametable' = nametable
      /\ left' = left /\ top' = top
      /\ line \in 0..ScrollLines /\ step \in (0..31) \cup {34, 35}
      /\ IF step = 35 THEN step' = 0 /\ line' = line + 1 ELSE step' = step + 1 /\ line' = line
  BY ScrollAssumption DEF ScrollInv, ScrollType, FetchTile, NextStep, Vblank
<1>1. /\ vram_address' \in Addresses /\ Column(vram_address') = (Column(v) + 1) % 64
      /\ Row(vram_address') = Row(v) /\ vram_address'.ny = v.ny
  BY <1>0, ClockXMoves
<1>2. line' \in 0..Vblank /\ step' \in 0..35
  <2>1. ScrollLines \in Nat /\ Vblank = ScrollLines + 1
    BY ScrollAssumption DEF Vblank
  <2>2. CASE step = 35
    BY <1>0, <2>1, <2>2
  <2>3. CASE step # 35
    BY <1>0, <2>1, <2>3
  <2>. QED  BY <2>2, <2>3
<1>3. ScrollType' /\ TopIsLoaded'
  BY <1>0, <1>1, <1>2 DEF ScrollInv, ScrollType, TopIsLoaded, Vblank
<1>4. TilesDone \in 0..34 /\ TilesDone' = TilesDone + 1 /\ LinesDone' = LinesDone
  BY <1>0 DEF TilesDone, LinesDone
<1>5. ASSUME NEW a \in left
      PROVE  Column(vram_address') = (Column(a) + TilesDone') % 64
  <2>1. Column(a) \in Nat
    BY DEF ScrollInv, ScrollType, Column
  <2>2. Column(v) = (Column(a) + TilesDone) % 64
    BY DEF ScrollInv, RasterPosition
  <2>. QED  BY <2>1, <2>2, <1>1, <1>4
<1>6. ASSUME NEW a \in top
      PROVE  [row |-> Row(vram_address'), ny |-> vram_address'.ny] = RowAfter(a, LinesDone')
  BY <1>1, <1>4 DEF ScrollInv, RasterPosition
<1>7. RasterPosition'
  BY <1>0, <1>5, <1>6 DEF RasterPosition, Column, Row, RowAfter
<1>. QED  BY <1>3, <1>7 DEF ScrollInv

\* clock_y() and the reload of the columns.
LEMMA EndOfTilesKeepsInv ==
    ASSUME ScrollInv, EndOfTiles
    PROVE  ScrollInv'
<1>. DEFINE v == vram_address
            w == ClockY(v)
<1>0. /\ v \in Addresses /\ nametable \in Addresses /\ nametable' = nametable
      /\ vram_address' = UpdateX(w, nametable)
      /\ left' = {[cx |-> nametable.cx, nx |-> nametable.nx]} /\ top' = top
      /\ line \in 0..ScrollLines /\ step = 32 /\ step' = 33 /\ line' = line
  BY ScrollAssumption DEF ScrollInv, ScrollType, EndOfTiles, NextStep, Vblank
<1>1. /\ w \in Addresses
      /\ Row(w) = IF Row(v) \in {239, 255} THEN 0 ELSE Row(v) + 1
      /\ w.ny = IF Row(v) = 239 THEN 1 - v.ny ELSE v.ny
  BY <1>0, ClockYMoves
<1>. HIDE DEF w
<1>2. nametable.cx \in 0..31 /\ nametable.nx \in 0..1
  BY <1>0 DEF Addresses
<1>3. /\ UpdateX(w, nametable) \in Addresses
      /\ UpdateX(w, nametable).cx = nametable.cx /\ UpdateX(w, nametable).nx = nametable.nx
      /\ Row(UpdateX(w, nametable)) = Row(w) /\ UpdateX(w, nametable).ny = w.ny
  <2>1. [w EXCEPT !.cx = nametable.cx, !.nx = nametable.nx] \in Addresses
    BY <1>1, <1>2, FieldsFit
  <2>. QED  BY <2>1, <1>1, <1>2 DEF UpdateX, Addresses, Row
<1>4. ScrollType' /\ TopIsLoaded'
  BY <1>0, <1>2, <1>3 DEF ScrollInv, ScrollType, TopIsLoaded, Vblank
<1>5. TilesDone' = 0 /\ LinesDone = line - 1 /\ LinesDone' = line
  BY <1>0 DEF TilesDone, LinesDone
<1>6. ASSUME NEW a \in left'
      PROVE  Column(vram_address') = (Column(a) + TilesDone') % 64
  <2>1. a.cx = nametable.cx /\ a.nx = nametable.nx
    BY <1>0
  <2>2. Column(a) \in 0..63 /\ Column(vram_address') = Column(a)
    BY <1>0, <1>2, <1>3, <2>1 DEF Column
  <2>. QED  BY <2>2, <1>5
<1>7. ASSUME NEW a \in top
      PROVE  [row |-> Row(vram_address'), ny |-> vram_address'.ny] = RowAfter(a, LinesDone')
  <2>1. a \in [cy : 0..31, ny : 0..1, fine : 0..7] /\ LinesDone \in 0..239 /\ LinesDone' = LinesDone + 1
    <3>1. a \in [cy : 0..31, ny : 0..1, fine : 0..7] /\ line >= 1
      BY <1>0 DEF ScrollInv, ScrollType, TopIsLoaded
    <3>2. ScrollLines \in 0..240
      BY ScrollAssumption
    <3>. QED  BY <1>0, <1>5, <3>1, <3>2
  <2>2. [row |-> Row(v), ny |-> v.ny] = RowAfter(a, LinesDone)
    BY DEF ScrollInv, RasterPosition
  <2>3. RowAfter(a, LinesDone + 1) =
             [row |-> IF Row(v) \in {239, 255} THEN 0 ELSE Row(v) + 1,
              ny |-> IF Row(v) = 239 THEN 1 - v.ny ELSE v.ny]
    <3>1. RowAfter(a, LinesDone).row = Row(v) /\ RowAfter(a, LinesDone).ny = v.ny
      BY <2>2
    <3>2. RowAfter(a, LinesDone + 1) =
             [row |-> IF RowAfter(a, LinesDone).row \in {239, 255} THEN 0
                      ELSE RowAfter(a, LinesDone).row + 1,
              ny |-> IF RowAfter(a, LinesDone).row = 239 THEN 1 - RowAfter(a, LinesDone).ny
                     ELSE RowAfter(a, LinesDone).ny]
      BY <2>1, RowAfterSteps
    <3>. QED  BY <3>1, <3>2
  <2>. QED  BY <2>1, <2>3, <1>0, <1>1, <1>3
<1>8. RasterPosition'
  BY <1>0, <1>6, <1>7 DEF RasterPosition, Column, Row, RowAfter
<1>. QED  BY <1>4, <1>8 DEF ScrollInv

\* The reload of the rows, once a frame.
LEMMA LoadVerticalKeepsInv ==
    ASSUME ScrollInv, LoadVertical
    PROVE  ScrollInv'
<1>. DEFINE v == vram_address
            w == UpdateY(v, nametable)
<1>0. /\ v \in Addresses /\ nametable \in Addresses /\ nametable' = nametable
      /\ line \in 0..ScrollLines /\ step = 33 /\ step' = 34 /\ line' = line
      /\ left' = left
  <2>1. line \in 0..Vblank /\ line < Vblank /\ Vblank = ScrollLines + 1 /\ ScrollLines \in Nat
    BY ScrollAssumption DEF ScrollInv, ScrollType, LoadVertical, Vblank
  <2>2. step = 33 /\ left' = left /\ NextStep
    BY DEF LoadVertical
  <2>3. step' = 34 /\ line' = line /\ nametable' = nametable
    BY <2>2 DEF NextStep
  <2>. QED  BY <2>1, <2>2, <2>3 DEF ScrollInv, ScrollType
<1>1. TilesDone' = TilesDone /\ LinesDone' = line /\ LinesDone = line
  BY <1>0 DEF TilesDone, LinesDone
<1>2. /\ w \in Addresses /\ Column(w) = Column(v)
      /\ w.cy = nametable.cy /\ w.ny = nametable.ny /\ w.fine = nametable.fine
      /\ nametable.cy \in 0..31 /\ nametable.ny \in 0..1 /\ nametable.fine \in 0..7
  <2>1. nametable.cy \in 0..31 /\ nametable.ny \in 0..1 /\ nametable.fine \in 0..7
    BY <1>0 DEF Addresses
  <2>2. [v EXCEPT !.cy = nametable.cy, !.ny = nametable.ny, !.fine = nametable.fine] \in Addresses
    BY <1>0, <2>1, FieldsFit
  <2>. QED  BY <1>0, <2>1, <2>2 DEF UpdateY, Addresses, Column
<1>. HIDE DEF w
<1>3. CASE line = 0
  <2>1. vram_address' = w
        /\ top' = {[cy |-> nametable.cy, ny |-> nametable.ny, fine |-> nametable.fine]}
    BY <1>3 DEF LoadVertical, w
  <2>2. ScrollType' /\ TopIsLoaded'
    BY <1>0, <1>2, <2>1 DEF ScrollInv, ScrollType, TopIsLoaded, Vblank
  <2>3. ASSUME NEW a \in top'
        PROVE  [row |-> Row(vram_address'), ny |-> vram_address'.ny] = RowAfter(a, LinesDone')
    <3>1. a.cy = nametable.cy /\ a.ny = nametable.ny /\ a.fine = nametable.fine
      BY <2>1
    <3>2. Row(w) = Row(a) /\ Row(a) \in 0..255 /\ a.ny \in 0..1 /\ w.ny = a.ny
      BY <1>2, <3>1 DEF Row
    <3>3. RowAfter(a, 0) = [row |-> Row(a), ny |-> a.ny]
      BY <3>2, Around240, Around256 DEF RowAfter
    <3>. QED  BY <3>2, <3>3, <2>1, <1>1, <1>3
  <2>4. ASSUME NEW a \in left
        PROVE  Column(vram_address') = (Column(a) + TilesDone') % 64
    BY <2>1, <1>1, <1>2 DEF ScrollInv, RasterPosition
  <2>5. RasterPosition'
    BY <1>0, <2>3, <2>4 DEF RasterPosition, Column, Row, RowAfter
  <2>. QED  BY <2>2, <2>5 DEF ScrollInv
<1>4. CASE line # 0
  <2>1. vram_address' = v /\ top' = top
    BY <1>4 DEF LoadVertical
  <2>2. ScrollType' /\ TopIsLoaded'
    BY <1>0, <2>1 DEF ScrollInv, ScrollType, TopIsLoaded, Vblank
  <2>3. RasterPosition'
    BY <1>0, <1>1, <2>1 DEF ScrollInv, RasterPosition, Column, Row, RowAfter
  <2>. QED  BY <2>2, <2>3 DEF ScrollInv
<1>. QED  BY <1>3, <1>4

LEMMA ScrollInvInit == ScrollInit => ScrollInv
<1>. SUFFICES ASSUME ScrollInit PROVE ScrollInv  OBVIOUS
<1>1. vram_address \in Addresses /\ nametable \in Addresses
  <2>1. ASSUME NEW n \in ScrollStarts
        PROVE  Address(n) \in Addresses
    <3>1. n \in Nat
      BY ScrollAssumption
    <3>. QED  BY <3>1, AddressFields
  <2>. QED  BY <2>1, AddressFields DEF ScrollInit
<1>2. line \in 0..Vblank /\ step \in 0..35 /\ left = {} /\ top = {}
  BY ScrollAssumption DEF ScrollInit, Vblank, Lost
<1>. QED  BY <1>1, <1>2 DEF ScrollInv, ScrollType, TopIsLoaded, RasterPosition

LEMMA ScrollInvNext == ScrollInv /\ [ScrollNext]_scrollVars => ScrollInv'
<1>. SUFFICES ASSUME ScrollInv, [ScrollNext]_scrollVars
              PROVE  ScrollInv'
  OBVIOUS
<1>1. CASE ScrollNext
  BY <1>1, RegistersKeepInv, LosingKeepsInv, FetchTileKeepsInv, EndOfTilesKeepsInv,
     LoadVerticalKeepsInv DEF ScrollNext
<1>2. CASE UNCHANGED scrollVars
  BY <1>2 DEF scrollVars, ScrollInv, ScrollType, TopIsLoaded, RasterPosition, Vblank,
     TilesDone, LinesDone, Column, Row, RowAfter
<1>. QED  BY <1>1, <1>2

\* RasterPosition, for every use the game makes of the registers while up to
\* 240 lines are drawn, and every scroll it starts from.
THEOREM RasterPositionHolds == ScrollSpec => []RasterPosition
<1>1. ScrollInv => RasterPosition
  BY DEF ScrollInv
<1>. QED  BY <1>1, ScrollInvInit, ScrollInvNext, PTL DEF ScrollSpec

-----------------------------------------------------------------------------
(***************************************************************************)
(* The sprites of a line.  SpritesChosen speaks of the last dot; LineInv   *)
(* says at every dot which sprites have been passed (those below p, q of   *)
(* them), what the machine has of the next one, and how many steps that    *)
(* took, from which it follows that the last dot finds the machine done.   *)
(***************************************************************************)
\* The four bytes of the sprite at b, and the first n of them.
Start4(b, n) == [i \in 1..n |-> Wrap(b + i - 1)]

States == {"Y", "I", "A", "X", "Full", "Done"}
SpriteType ==
    /\ dot \in 0..EvalDots
    /\ sprite_address \in Bytes /\ read_index \in Bytes /\ read_buffer \in Bytes
    /\ eval_state \in States
    /\ data_index \in 0..Slots /\ visible_count \in 0..Slots
    /\ eval_state \in {"Y", "I", "A", "X"} => data_index < Slots
    /\ data \in [0..Slots - 1 -> Seq(Bytes)]
    /\ start \in Bytes

SpriteFlags ==
    /\ overflow \in BOOLEAN /\ before \in BOOLEAN
    /\ whole \in BOOLEAN /\ current_is_0 \in BOOLEAN

\* The sprites below p have been passed, and those in range of them copied.
Passed(p) ==
    /\ data_index = Before(p)
    /\ \A b \in Found : b < p => data[Before(b)] = Start4(b, 4)
    /\ data_index = Slots => p - 4 \in Found

\* The sprite at p is being copied, n bytes of it already.
Copying(p, n) ==
    /\ p \in Found /\ read_index = Wrap(p + n) /\ data[data_index] = Start4(p, n)

\* Overflow is looked for along the diagonal from p; none below sprite n.
OnDiagonalFrom(p, b) ==
    LET k == (b \div 4) - (p \div 4) IN k >= 0 /\ b % 4 = (p + k) % 4
NoneBelow(p, n) == \A b \in Bytes : OnDiagonalFrom(p, b) /\ b \div 4 < n => ~InRange(b)
Spilled(p) == overflow /\ \E b \in Bytes : OnDiagonalFrom(p, b) /\ InRange(b)
Looking(p, n) ==
    /\ read_index = 4 * n + ((p + n - (p \div 4)) % 4)
    /\ overflow = before /\ NoneBelow(p, n)

\* Where the machine is after every step since dot 65, q sprites passed.
Taken == dot \div 2
InState(p, q) ==
    \/ /\ eval_state = "Y" /\ p \in Bytes /\ read_index = p
       /\ overflow = before /\ Taken = q + 3 * data_index
    \/ \E n \in 1..3 : /\ eval_state = <<"I", "A", "X">>[n] /\ Copying(p, n)
                       /\ overflow = before /\ Taken = q + 3 * data_index + n
    \/ /\ eval_state = "Full" /\ data_index = Slots /\ p \in Bytes
       /\ \/ Spilled(p)
          \/ \E n \in (p \div 4)..Sprites - 1 :
                Looking(p, n) /\ Taken = n - (start \div 4) + 3 * Slots
    \/ /\ eval_state = "Done"
       /\ \/ p \notin Bytes /\ overflow = before
          \/ /\ data_index = Slots /\ p \in Bytes
             /\ Spilled(p) \/ (overflow = before /\ NoneBelow(p, Sprites))

Marked(q) ==
    /\ zero = IF start \in Found /\ (q > 0 \/ eval_state = "X") THEN {0} ELSE {}
    /\ eval_state \in {"Y", "I", "A", "X"} => (current_is_0 <=> q = 0)

LineAt(p, q) ==
    /\ p = start + 4 * q /\ p < 4 * Sprites + 4
    /\ Passed(p) /\ InState(p, q) /\ Marked(q)
    /\ eval_state = "Done" => q > 0

\* A line that is drawn without a disturbance.
LineInv ==
    whole => IF dot = 0 THEN zero = {} /\ overflow = before
             ELSE /\ \E q \in 0..Sprites, p \in Nat : LineAt(p, q)
                  /\ dot % 2 = 1 => read_buffer = read_index
                  /\ dot = EvalDots => visible_count = data_index

SpriteInv == SpriteType /\ SpriteFlags /\ LineInv

LEMMA SpriteSizes ==
    /\ Sprites \in Nat /\ Slots \in Nat /\ Slots >= 1 /\ Slots <= Sprites
    /\ EvalDots \in Nat /\ EvalDots % 2 = 0 /\ EvalDots >= 8 * Slots + 2 * (Sprites - Slots)
    /\ Bytes = 0..4 * Sprites - 1 /\ MaxDisturbs \in Nat
  BY SpriteAssumption DEF Bytes

\* The candidates are four bytes apart.
LEMMA CandidateIs ==
  ASSUME start \in Bytes
  PROVE  /\ \A c \in Candidates : c \in Bytes /\ c >= start /\ \E j \in Nat : c = start + 4 * j
         /\ \A j \in Nat : start + 4 * j \in Bytes => start + 4 * j \in Candidates
<1>1. start \in Nat /\ Bytes \subseteq Nat
  BY DEF Bytes
<1>2. ASSUME NEW c \in Nat, c >= start, (c - start) % 4 = 0 PROVE \E j \in Nat : c = start + 4 * j
  <2>1. PICK d \in Nat : d = c - start
    BY <1>1, <1>2
  <2>2. d \div 4 \in Nat /\ d = 4 * (d \div 4)
    BY <1>2, <2>1
  <2> QED
    BY <1>1, <2>1, <2>2
<1>3. ASSUME NEW j \in Nat PROVE start + 4 * j >= start /\ (start + 4 * j - start) % 4 = 0
  BY <1>1
<1> QED
  BY <1>1, <1>2, <1>3 DEF Candidates

Below(p) == {c \in Found : c < p}

\* The sprites before one in OAM are finitely many.
LEMMA BelowFinite ==
  ASSUME NEW p
  PROVE  IsFiniteSet(Below(p)) /\ Before(p) = Cardinality(Below(p)) /\ Before(p) \in Nat
<1>1. IsFiniteSet(Bytes)
  BY SpriteSizes, FS_Interval DEF Bytes
<1>2. Below(p) \in SUBSET Bytes
  BY DEF Below, Found, Candidates
<1>3. IsFiniteSet(Below(p))
  BY <1>1, <1>2, FS_Subset
<1> QED
  BY <1>3, FS_CardinalityType DEF Before, Below

\* What passing a sprite adds to the number of those before it.
LEMMA BeforeNext ==
  ASSUME start \in Bytes, NEW q \in Nat, NEW p, p = start + 4 * q
  PROVE  Before(p + 4) = Before(p) + (IF p \in Found THEN 1 ELSE 0)
<1>1. start \in Nat /\ p \in Nat
  BY DEF Bytes
<1>2. \A c \in Found : c \in Nat /\ \E j \in Nat : c = start + 4 * j
  BY <1>1, CandidateIs DEF Found, Bytes
<1>3. \A c \in Found : c < p + 4 <=> c < p \/ c = p
  <2>1. TAKE c \in Found
  <2>2. PICK j \in Nat : c = start + 4 * j
    BY <1>2
  <2> QED
    BY <1>1, <2>2
<1>4. ~(p < p)
  BY <1>1
<1>5. CASE p \in Found
  <2>1. Below(p + 4) = Below(p) \cup {p}
    BY <1>3, <1>5 DEF Below
  <2>2. p \notin Below(p)
    BY <1>4 DEF Below
  <2> QED
    BY <1>5, <2>1, <2>2, BelowFinite, FS_AddElement
<1>6. CASE p \notin Found
  <2>1. Below(p + 4) = Below(p)
    BY <1>3, <1>6 DEF Below
  <2> QED
    BY <1>6, <2>1, BelowFinite
<1> QED
  BY <1>5, <1>6

LEMMA BeforeFirst == ASSUME start \in Bytes PROVE Before(start) = 0
<1>1. Below(start) = {}
  BY DEF Below, Found, Candidates, Bytes
<1> QED
  BY <1>1, BelowFinite, FS_EmptySet

\* The count of sprites on the line grows with each of them.
LEMMA BeforeGrows ==
  ASSUME start \in Bytes, NEW p \in Nat, NEW r \in Nat
  PROVE  /\ p <= r => Before(p) <= Before(r)
         /\ p \in Found /\ p < r => Before(p) < Before(r)
<1>1. \A c \in Found : c \in Nat
  BY DEF Found, Candidates, Bytes
<1>2. ASSUME p <= r PROVE Below(p) \in SUBSET Below(r)
  BY <1>1, <1>2 DEF Below
<1>3. ASSUME p \in Found, p < r PROVE Below(p) \in SUBSET Below(r) /\ p \in Below(r) /\ p \notin Below(p)
  <2>1. ~(p < p) /\ p <= r
    BY <1>3
  <2> QED
    BY <1>2, <1>3, <2>1 DEF Below
<1>4. ASSUME p <= r PROVE Before(p) <= Before(r)
  BY <1>2, <1>4, BelowFinite, FS_Subset
<1>5. ASSUME p \in Found, p < r PROVE Before(p) < Before(r)
  <2>1. Cardinality(Below(p)) <= Cardinality(Below(r)) /\ Cardinality(Below(p)) # Cardinality(Below(r))
    BY <1>3, <1>5, BelowFinite, FS_Subset
  <2> QED
    BY <2>1, BelowFinite
<1> QED
  BY <1>4, <1>5

\* Once every slot is taken, or no sprite is left, those passed are chosen.
LEMMA ChosenIs ==
  ASSUME start \in Bytes, NEW p \in Nat, Before(p) <= Slots,
         Before(p) = Slots \/ p >= 4 * Sprites
  PROVE  Chosen = Below(p) /\ Cardinality(Chosen) = Before(p)
<1>1. \A c \in Found : c \in Nat /\ c < 4 * Sprites /\ Before(c) \in Nat
  BY SpriteSizes, BelowFinite DEF Found, Candidates
<1>2. ASSUME NEW c \in Found PROVE Before(c) < Slots <=> c < p
  <2>1. CASE c < p
    <3>1. Before(c) < Before(p)
      BY <1>1, <2>1, BeforeGrows
    <3> QED
      BY <1>1, <2>1, <3>1, BelowFinite, SpriteSizes
  <2>2. CASE ~(c < p)
    <3>1. p <= c
      BY <1>1, <2>2
    <3>2. Before(p) <= Before(c)
      BY <1>1, <3>1, BeforeGrows
    <3>3. Before(p) = Slots
      BY <1>1, <3>1, SpriteSizes
    <3> QED
      BY <1>1, <2>2, <3>2, <3>3, SpriteSizes
  <2> QED
    BY <2>1, <2>2
<1> QED
  BY <1>2, BelowFinite DEF Chosen, Below

(* ------------------------------------------------------- addresses, types *)

LEMMA WrapIs ==
  /\ \A b \in Nat : Wrap(b) \in Bytes
  /\ \A b \in Bytes : Wrap(b) = b
  /\ \A b \in Nat : b < 4 * Sprites => Wrap(b) = b
  /\ \A b \in Nat : b >= 4 * Sprites /\ b < 4 * Sprites + 4 => Wrap(b) = b - 4 * Sprites
<1>1. PICK size \in Nat : size = 4 * Sprites /\ size >= 4
  BY SpriteSizes
<1>2. Bytes = 0..size - 1 /\ \A b : Wrap(b) = b % size
  BY <1>1, SpriteSizes DEF Wrap
<1>3. \A b \in Nat : b % size \in 0..size - 1
  BY <1>1
<1>4. \A b \in Nat : b < size => b % size = b
  BY <1>1
<1>5. \A b \in Nat : b >= size /\ b < size + 4 => b % size = b - size
  <2> TAKE b \in Nat
  <2> HAVE b >= size /\ b < size + 4
  <2>1. PICK r \in 0..size - 1 : b = size + r /\ r = b - size
    BY <1>1
  <2>2. (size + r) % size = r
    BY <1>1
  <2> QED
    BY <2>1, <2>2
<1>6. /\ \A b \in Nat : Wrap(b) \in Bytes
      /\ \A b \in Bytes : b \in Nat /\ b < size
      /\ \A b \in Nat : b < size => Wrap(b) = b
      /\ \A b \in Nat : b >= size /\ b < size + 4 => Wrap(b) = b - size
  <2>1. \A b \in 0..size - 1 : b \in Nat /\ b < size
    BY <1>1
  <2> QED
    BY <1>2, <1>3, <1>4, <1>5, <2>1, Zenon
<1> QED
  BY <1>1, <1>6, Zenon

\* The walk through OAM after eight sprites are found.
LEMMA DiagonalIs == \A b \in Bytes : Diagonal(b) \in Bytes
<1> TAKE b \in Bytes
<1>1. b \in Nat
  BY DEF Bytes
<1>2. PICK n \in 0..Sprites - 1 : n = ((b \div 4) + 1) % Sprites
  BY <1>1, SpriteSizes
<1>3. PICK m \in 0..3 : m = (b + 1) % 4
  BY <1>1
<1>4. Diagonal(b) = 4 * n + m
  BY <1>2, <1>3 DEF Diagonal
<1> QED
  BY <1>2, <1>3, <1>4, SpriteSizes

\* The machine's registers stay in their ranges at every step it takes.
LEMMA MachineTyped ==
  ASSUME SpriteType, SpriteFlags, TakeY \/ TakeIndex \/ TakeX \/ LookForMore \/ Finished
  PROVE  /\ read_index' \in Bytes /\ eval_state' \in States /\ data_index' \in 0..Slots
         /\ eval_state' \in {"Y", "I", "A", "X"} => data_index' < Slots
         /\ data' \in [0..Slots - 1 -> Seq(Bytes)]
         /\ overflow' \in BOOLEAN /\ current_is_0' \in BOOLEAN
<1>1. read_index \in Nat /\ read_index + 1 \in Nat /\ read_index + 4 \in Nat
  BY DEF SpriteType, Bytes
<1>2. /\ Wrap(read_index + 1) \in Bytes /\ Wrap(read_index + 4) \in Bytes
      /\ Diagonal(read_index) \in Bytes
  BY <1>1, WrapIs, DiagonalIs DEF SpriteType
<1>3. \A i \in 0..Slots - 1 : Append(data[i], read_buffer) \in Seq(Bytes)
  BY DEF SpriteType
<1>4. <<read_buffer>> \in Seq(Bytes)
  BY DEF SpriteType
<1>10. \A i \in 0..Slots - 1 :
         [data EXCEPT ![i] = Append(@, read_buffer)] \in [0..Slots - 1 -> Seq(Bytes)]
  BY <1>3 DEF SpriteType
<1>11. data_index < Slots => data_index \in 0..Slots - 1
  BY SpriteSizes DEF SpriteType
<1>5. CASE TakeY
  <2>1. CASE data_index < Slots /\ InRange(read_buffer)
    <3>1. data' = [data EXCEPT ![data_index] = <<read_buffer>>] /\ eval_state' = "I"
          /\ read_index' = Wrap(read_index + 1) /\ current_is_0' = current_is_0
          /\ data_index' = data_index /\ overflow' = overflow
      BY <1>5, <2>1 DEF TakeY
    <3>2. data' \in [0..Slots - 1 -> Seq(Bytes)]
      BY <1>4, <3>1 DEF SpriteType
    <3> QED
      BY <1>2, <2>1, <3>1, <3>2 DEF SpriteType, SpriteFlags, States
  <2>2. CASE data_index < Slots /\ ~InRange(read_buffer)
    <3>1. data' = data /\ read_index' = Wrap(read_index + 4) /\ current_is_0' = FALSE
          /\ data_index' = data_index /\ overflow' = overflow
          /\ eval_state' \in {"Done", "Y", "Full"}
      BY <1>5, <2>2 DEF TakeY, AfterSprite
    <3> QED
      BY <1>2, <2>2, <3>1 DEF SpriteType, SpriteFlags, States
  <2>3. CASE ~(data_index < Slots)
    BY <1>5, <2>3 DEF TakeY, SpriteType, SpriteFlags
  <2> QED
    BY <2>1, <2>2, <2>3
<1>6. CASE TakeIndex
  <2>1. data' = [data EXCEPT ![data_index] = Append(@, read_buffer)]
        /\ eval_state' \in {"A", "X"} /\ read_index' = Wrap(read_index + 1)
        /\ data_index' = data_index /\ overflow' = overflow /\ current_is_0' = current_is_0
    BY <1>6 DEF TakeIndex
  <2>2. data_index < Slots
    BY <1>6 DEF TakeIndex, SpriteType
  <2>3. data' \in [0..Slots - 1 -> Seq(Bytes)]
    BY <1>10, <1>11, <2>1, <2>2, Zenon
  <2> QED
    BY <1>2, <2>1, <2>2, <2>3 DEF SpriteType, SpriteFlags, States
<1>7. CASE TakeX
  <2>1. /\ data' = [data EXCEPT ![data_index] = Append(@, read_buffer)]
        /\ read_index' = Wrap(read_index + 1)
        /\ data_index' = data_index + 1 /\ overflow' = overflow /\ current_is_0' = FALSE
        /\ eval_state' \in {"Done", "Y", "Full"}
        /\ eval_state' = "Y" => data_index' < Slots
    BY <1>7 DEF TakeX, AfterSprite
  <2>2. data_index < Slots
    BY <1>7 DEF TakeX, SpriteType
  <2>3. data' \in [0..Slots - 1 -> Seq(Bytes)]
    BY <1>10, <1>11, <2>1, <2>2, Zenon
  <2>4. data_index' \in 0..Slots
    BY <2>1, <2>2, SpriteSizes DEF SpriteType
  <2>5. overflow' \in BOOLEAN /\ current_is_0' \in BOOLEAN
    BY <2>1, Zenon DEF SpriteFlags
  <2>6. eval_state' \in States /\ (eval_state' \in {"Y", "I", "A", "X"} => eval_state' = "Y")
    BY <2>1 DEF States
  <2> QED
    BY <1>2, <2>1, <2>3, <2>4, <2>5, <2>6, Zenon
<1>8. CASE LookForMore
  <2>1. data' = data /\ data_index' = data_index /\ current_is_0' = current_is_0
        /\ eval_state' \in {"Done", "Full"} /\ read_index' \in Bytes
    BY <1>2, <1>8 DEF LookForMore
  <2>2. overflow' \in BOOLEAN
    BY <1>8, Zenon DEF LookForMore
  <2> QED
    BY <2>1, <2>2 DEF SpriteType, SpriteFlags, States
<1>9. CASE Finished
  BY <1>9 DEF Finished, machine, SpriteType, SpriteFlags
<1> QED
  BY <1>5, <1>6, <1>7, <1>8, <1>9

LEMMA SpriteTypeInit == SpriteInit => SpriteType /\ SpriteFlags
<1> SUFFICES ASSUME SpriteInit PROVE SpriteType /\ SpriteFlags
  OBVIOUS
<1>1. 0 \in Bytes /\ 0 \in 0..EvalDots /\ 0 \in 0..Slots /\ 0 < Slots /\ OamAddresses \subseteq Bytes
  BY SpriteSizes, SpriteAssumption DEF Bytes
<1>2. [s \in 0..Slots - 1 |-> <<>>] \in [0..Slots - 1 -> Seq(Bytes)]
  OBVIOUS
<1> QED
  BY <1>1, <1>2 DEF SpriteInit, SpriteType, SpriteFlags, States

LEMMA SpriteTypeNext == SpriteType /\ SpriteFlags /\ [SpriteNext]_spriteVars => SpriteType' /\ SpriteFlags'
<1> SUFFICES ASSUME SpriteType, SpriteFlags, [SpriteNext]_spriteVars PROVE SpriteType' /\ SpriteFlags'
  OBVIOUS
<1>0. dot \in Nat /\ EvalDots \in Nat /\ sprite_address \in Nat
  BY SpriteSizes DEF SpriteType, Bytes
<1>1. CASE StartEvaluation
  <2>1. dot' \in 0..EvalDots /\ 0 \in 0..Slots /\ 0 < Slots
    BY <1>1, SpriteSizes DEF StartEvaluation, NextDot
  <2> QED
    BY <1>1, <2>1 DEF StartEvaluation, NextDot, SpriteType, SpriteFlags, States
<1>2. CASE ReadByte
  <2>1. dot' \in 0..EvalDots
    BY <1>0, <1>2 DEF ReadByte, GoesOn, NextDot
  <2> QED
    BY <1>2, <2>1 DEF ReadByte, GoesOn, NextDot, SpriteType, SpriteFlags, machine
<1>3. CASE Evaluate
  <2>1. dot' \in 0..EvalDots
    BY <1>0, <1>3 DEF Evaluate, GoesOn, NextDot
  <2>2. visible_count' \in 0..Slots /\ read_buffer' = read_buffer /\ start' = start
        /\ sprite_address' = sprite_address /\ before' = before /\ whole' = whole
    BY <1>3, MachineTyped DEF Evaluate, GoesOn, NextDot, SpriteType
  <2> QED
    BY <1>3, <2>1, <2>2, MachineTyped DEF Evaluate, SpriteType, SpriteFlags
<1>4. CASE BlankDot
  <2>1. dot' \in 0..EvalDots
    BY <1>0, <1>4 DEF BlankDot, SpriteType
  <2> QED
    BY <1>4, <2>1 DEF BlankDot, Disturb, machine, SpriteType, SpriteFlags
<1>5. CASE ChangeHeight
  BY <1>5 DEF ChangeHeight, Disturb, machine, SpriteType, SpriteFlags
<1>6. CASE OamPort
  <2>1. Wrap(4 * (sprite_address \div 4) + 4) \in Bytes
    BY <1>0, WrapIs
  <2>2. sprite_address' \in Bytes
    BY <1>6, <2>1, SpriteAssumption DEF OamPort, Write2004
  <2> QED
    BY <1>6, <2>2 DEF OamPort, machine, SpriteType, SpriteFlags
<1>7. CASE OamStore
  <2>1. Wrap(sprite_address + 1) \in Bytes
    BY <1>0, WrapIs
  <2> QED
    BY <1>7, <2>1 DEF OamStore, Disturb, machine, SpriteType, SpriteFlags
<1>8. CASE NextSpriteLine
  <2>1. 0 \in Bytes /\ OamAddresses \subseteq Bytes /\ dot' \in 0..EvalDots
    BY <1>8, SpriteSizes, SpriteAssumption DEF Bytes, NextSpriteLine
  <2>2. [s \in 0..Slots - 1 |-> <<>>] \in [0..Slots - 1 -> Seq(Bytes)]
    OBVIOUS
  <2>3. data' \in [0..Slots - 1 -> Seq(Bytes)] /\ sprite_address' \in Bytes
        /\ overflow' \in BOOLEAN /\ before' \in BOOLEAN /\ whole' \in BOOLEAN
    BY <1>8, <2>1, <2>2 DEF NextSpriteLine, Disturb, SpriteType, SpriteFlags
  <2> QED
    BY <1>8, <2>1, <2>3 DEF NextSpriteLine, SpriteType, SpriteFlags
<1>9. CASE UNCHANGED spriteVars
  BY <1>9 DEF spriteVars, machine, SpriteType, SpriteFlags
<1> QED
  BY <1>1, <1>2, <1>3, <1>4, <1>5, <1>6, <1>7, <1>8, <1>9 DEF SpriteNext

(* ------------------------------------------------------- a line, in steps *)

\* An even dot of a line nobody disturbs.
EvalStep ==
    /\ SpriteType /\ SpriteFlags
    /\ dot \in 1..EvalDots - 1 /\ dot % 2 = 1 /\ read_buffer = read_index
    /\ dot' = dot + 1 /\ UNCHANGED <<inrange, large, start, before>>

\* What is in range does not change under it.
LEMMA Steady ==
  ASSUME UNCHANGED <<inrange, large, start>>
  PROVE  /\ Found' = Found /\ start' = start
         /\ \A p : Before(p)' = Before(p)
         /\ \A b : InRange(b)' <=> InRange(b)
<1>1. \A b : InRange(b)' <=> InRange(b)
  BY DEF InRange
<1>2. Candidates' = Candidates
  BY DEF Candidates
<1>3. Found' = Found
  BY <1>1, <1>2 DEF Found
<1>4. \A p : Before(p)' = Before(p)
  BY <1>3 DEF Before
<1> QED
  BY <1>1, <1>3, <1>4

\* A step of the evaluation is one byte taken.
LEMMA EvalTakes == ASSUME EvalStep PROVE Taken' = Taken + 1 /\ Taken \in Nat
<1>1. dot \in Nat /\ dot % 2 = 1 /\ dot' = dot + 1
  BY SpriteSizes DEF EvalStep
<1> QED
  BY <1>1 DEF Taken

\* Facts about the sprite at p: its place among those in range.
LEMMA SpriteAt ==
  ASSUME SpriteType, NEW q \in Nat, NEW p \in Nat, p = start + 4 * q
  PROVE  /\ p \in Bytes => (InRange(p) <=> p \in Found)
         /\ p \notin Bytes => p \notin Found
         /\ \A c \in Found : c \in Nat /\ c \in Bytes /\ (c < p + 4 <=> c < p \/ c = p)
         /\ \A c \in Found : Before(c) \in Nat /\ (c < p => Before(c) < Before(p))
         /\ q > 0 /\ start \in Found => Before(p) > 0
         /\ q = 0 => Before(p) = 0
         /\ Before(p) \in Nat
<1>1. start \in Bytes /\ start \in Nat
  BY DEF SpriteType, Bytes
<1>2. p \in Bytes => (InRange(p) <=> p \in Found)
  BY <1>1, CandidateIs DEF Found
<1>3. p \notin Bytes => p \notin Found
  BY DEF Found, Candidates
<1>4. ASSUME NEW c \in Found PROVE c \in Nat /\ c \in Bytes /\ (c < p + 4 <=> c < p \/ c = p)
  <2>1. PICK j \in Nat : c = start + 4 * j
    BY <1>1, CandidateIs DEF Found
  <2>2. c \in Bytes
    BY DEF Found, Candidates
  <2> QED
    BY <1>1, <2>1, <2>2
<1>5. ASSUME NEW c \in Found PROVE Before(c) \in Nat /\ (c < p => Before(c) < Before(p))
  <2>1. c \in Nat
    BY <1>4
  <2> QED
    BY <1>1, <2>1, BelowFinite, BeforeGrows
<1>6. Before(start) = 0 /\ Before(p) \in Nat
  BY <1>1, BeforeFirst, BelowFinite
<1>7. ASSUME q > 0, start \in Found PROVE Before(p) > 0
  <2>1. start < p
    BY <1>1, <1>7
  <2> QED
    BY <1>5, <1>6, <1>7, <2>1
<1>8. q = 0 => p = start
  BY <1>1
<1> QED
  BY <1>2, <1>3, <1>4, <1>5, <1>6, <1>7, <1>8

\* The bytes of a sprite, one after the other.
LEMMA StartGrows ==
  ASSUME NEW b \in Bytes, NEW n \in 1..3
  PROVE  /\ Append(Start4(b, n), Wrap(b + n)) = Start4(b, n + 1)
         /\ Wrap(Wrap(b + n) + 1) = Wrap(b + (n + 1))
         /\ Start4(b, 1) = <<b>> /\ Wrap(b + 1) \in Bytes
<1>1. b \in Nat /\ b < 4 * Sprites
  BY SpriteSizes
<1>2. Start4(b, n + 1) = [i \in 1..n + 1 |-> Wrap(b + i - 1)]
  BY DEF Start4
<1>3. Start4(b, n) = [i \in 1..n |-> Wrap(b + i - 1)]
  BY DEF Start4
<1>4. Wrap(b + (n + 1) - 1) = Wrap(b + n)
  <2>1. b + (n + 1) - 1 = b + n
    BY <1>1
  <2> QED
    BY <2>1
<1>5. Append(Start4(b, n), Wrap(b + n)) = Start4(b, n + 1)
  BY <1>2, <1>3, <1>4
<1>6. Wrap(Wrap(b + n) + 1) = Wrap(b + (n + 1))
  <2>1. CASE b + n < 4 * Sprites
    <3>1. Wrap(b + n) = b + n
      BY <1>1, <2>1, WrapIs
    <3>2. (b + n) + 1 = b + (n + 1)
      BY <1>1
    <3> QED
      BY <3>1, <3>2
  <2>2. CASE b + n >= 4 * Sprites
    <3>1. Wrap(b + n) = (b + n) - 4 * Sprites
      <4>1. b + n \in Nat /\ b + n < 4 * Sprites + 4
        BY <1>1, SpriteSizes
      <4> QED
        BY <2>2, <4>1, WrapIs, Zenon
    <3>2. Wrap(b + (n + 1)) = b + (n + 1) - 4 * Sprites
      BY <1>1, <2>2, WrapIs, SpriteSizes
    <3>3. b + n - 4 * Sprites + 1 \in Nat /\ b + n - 4 * Sprites + 1 < 4 * Sprites
      BY <1>1, <2>2, SpriteSizes
    <3>4. Wrap(b + n - 4 * Sprites + 1) = b + n - 4 * Sprites + 1
      BY <3>3, WrapIs
    <3> QED
      BY <1>1, <3>1, <3>2, <3>4, SpriteSizes
  <2> QED
    BY <1>1, <2>1, <2>2, SpriteSizes
<1>7. Start4(b, 1) = <<b>>
  <2>1. Wrap(b + 1 - 1) = b
    BY <1>1, WrapIs
  <2>2. \A i \in 1..1 : Wrap(b + i - 1) = b
    BY <2>1
  <2>3. Start4(b, 1) = [i \in 1..1 |-> b]
    BY <2>2 DEF Start4
  <2> QED
    BY <2>3
<1> QED
  BY <1>1, <1>5, <1>6, <1>7, WrapIs

\* The slots that are filled keep their sprites when another is written.
LEMMA SlotsKeep ==
  ASSUME EvalStep, NEW q \in Nat, NEW p \in Nat, LineAt(p, q), data_index < Slots,
         \A i \in 0..Slots - 1 : i < data_index => data'[i] = data[i]
  PROVE  \A b \in Found' : b < p => data'[Before(b)'] = Start4(b, 4)
<1>1. Found' = Found /\ \A b : Before(b)' = Before(b)
  BY Steady DEF EvalStep
<1> SUFFICES ASSUME NEW b \in Found, b < p PROVE data'[Before(b)] = Start4(b, 4)
  BY <1>1
<1>2. Before(b) \in Nat /\ Before(b) < Before(p)
  BY SpriteAt DEF LineAt, EvalStep
<1>3. Before(b) \in 0..Slots - 1 /\ Before(b) < data_index
  <2>1. data_index \in Nat /\ Before(b) < data_index /\ data_index < Slots
    BY <1>2, SpriteSizes DEF LineAt, Passed, EvalStep, SpriteType
  <2> QED
    BY <1>2, <2>1, SpriteSizes
<1> QED
  BY <1>3 DEF LineAt, Passed

\* A sprite in range is begun.
LEMMA TakeYFound ==
  ASSUME EvalStep, TakeY, eval_state = "Y", NEW q \in Nat, NEW p \in Nat, LineAt(p, q),
         InRange(read_buffer)
  PROVE  LineAt(p, q)'
<1>1. /\ p \in Bytes /\ read_index = p /\ read_buffer = p /\ overflow = before
      /\ Taken = q + 3 * data_index /\ data_index < Slots /\ data_index \in 0..Slots - 1
      /\ data_index = Before(p)
  BY SpriteSizes DEF LineAt, InState, EvalStep, SpriteType, Passed
<1>2. p \in Found
  BY <1>1, SpriteAt DEF LineAt, EvalStep
<1>3. /\ data' = [data EXCEPT ![data_index] = <<p>>] /\ zero' = zero \ {data_index}
      /\ eval_state' = "I" /\ read_index' = Wrap(p + 1)
      /\ current_is_0' = current_is_0 /\ data_index' = data_index /\ overflow' = overflow
  BY <1>1 DEF TakeY
<1>4. /\ Found' = Found /\ start' = start /\ before' = before
      /\ \A c : Before(c)' = Before(c)
  BY Steady DEF EvalStep
<1>5. data' \in [0..Slots - 1 -> Seq(Bytes)] /\ data'[data_index] = <<p>>
      /\ \A i \in 0..Slots - 1 : i < data_index => data'[i] = data[i]
  <2>1. data \in [0..Slots - 1 -> Seq(Bytes)]
    BY DEF EvalStep, SpriteType
  <2>2. <<p>> \in Seq(Bytes)
    BY <1>1
  <2> QED
    BY <1>1, <1>3, <2>1, <2>2
<1>6. Passed(p)'
  <2>1. \A b \in Found' : b < p => data'[Before(b)'] = Start4(b, 4)
    BY <1>1, <1>5, SlotsKeep
  <2>2. data_index' # Slots
    BY <1>1, <1>3, SpriteSizes
  <2>3. data_index' = Before(p)'
    BY <1>1, <1>3, <1>4
  <2> QED
    BY <2>1, <2>2, <2>3 DEF Passed, Start4, Wrap
<1>7. Copying(p, 1)'
  <2>1. data'[data_index'] = Start4(p, 1)
    BY <1>1, <1>3, <1>5, StartGrows
  <2> QED
    BY <1>2, <1>3, <1>4, <2>1 DEF Copying, Start4, Wrap
<1>8. InState(p, q)'
  <2>1. Taken' = q + 3 * data_index' + 1
    BY <1>1, <1>3, EvalTakes
  <2>2. eval_state' = <<"I", "A", "X">>[1] /\ overflow' = before'
    BY <1>1, <1>3, <1>4
  <2> QED
    BY <1>7, <2>1, <2>2 DEF InState
<1>9. Marked(q)'
  <2>1. zero = IF start \in Found /\ q > 0 THEN {0} ELSE {}
    BY <1>1, <1>3 DEF LineAt, Marked, EvalStep
  <2>2. start \in Found /\ q > 0 => data_index # 0
    BY <1>1, SpriteAt DEF LineAt, EvalStep
  <2>3. zero' = zero
    BY <1>3, <2>1, <2>2
  <2> QED
    BY <1>3, <1>4, <2>1, <2>3 DEF LineAt, Marked
<1> QED
  BY <1>3, <1>4, <1>6, <1>8, <1>9 DEF LineAt

\* Behind the sprite at p is another one, or the end of OAM.
LEMMA NextSprite ==
  ASSUME NEW p \in Bytes
  PROVE  /\ p + 4 \in Bytes => Wrap(p + 4) = p + 4 /\ ~Ended(p + 4)
         /\ p + 4 \notin Bytes => Ended(Wrap(p + 4))
         /\ p + 4 \in Nat /\ p + 4 < 4 * Sprites + 4
<1>1. p \in Nat /\ p < 4 * Sprites /\ p + 4 \in Nat /\ p + 4 < 4 * Sprites + 4
  BY SpriteSizes
<1>2. p + 4 \in Bytes => Wrap(p + 4) = p + 4
  BY WrapIs
<1>3. ~Ended(p + 4)
  BY <1>1 DEF Ended
<1>4. ASSUME p + 4 \notin Bytes PROVE Ended(Wrap(p + 4))
  <2>1. p + 4 >= 4 * Sprites
    BY <1>1, <1>4, SpriteSizes
  <2>2. Wrap(p + 4) = (p + 4) - 4 * Sprites
    BY <1>1, <2>1, WrapIs, Zenon
  <2>3. Wrap(p + 4) \in 0..3
    BY <1>1, <2>1, <2>2, SpriteSizes
  <2> QED
    BY <2>3 DEF Ended
<1> QED
  BY <1>1, <1>2, <1>3, <1>4

\* A sprite that is not in range is passed.
LEMMA TakeYPasses ==
  ASSUME EvalStep, TakeY, eval_state = "Y", NEW q \in Nat, NEW p \in Nat, LineAt(p, q),
         ~InRange(read_buffer)
  PROVE  p + 4 \in Nat /\ LineAt(p + 4, q + 1)'
<1>1. /\ p \in Bytes /\ read_index = p /\ read_buffer = p /\ overflow = before
      /\ Taken = q + 3 * data_index /\ data_index < Slots /\ data_index \in 0..Slots - 1
      /\ data_index = Before(p) /\ p = start + 4 * q /\ start \in Nat
  BY SpriteSizes DEF LineAt, InState, EvalStep, SpriteType, Passed
<1>2. p \notin Found
  BY <1>1, SpriteAt DEF LineAt, EvalStep
<1>3. /\ data' = data /\ zero' = zero /\ read_index' = Wrap(p + 4)
      /\ current_is_0' = FALSE /\ data_index' = data_index /\ overflow' = overflow
      /\ eval_state' = IF Ended(read_index') THEN "Done" ELSE "Y"
  BY <1>1 DEF TakeY, AfterSprite
<1>4. /\ Found' = Found /\ start' = start /\ before' = before
      /\ \A c : Before(c)' = Before(c)
  BY Steady DEF EvalStep
<1> PICK r \in Nat, s \in Nat : r = p + 4 /\ s = q + 1
  BY <1>1
<1>5. r = start + 4 * s /\ r < 4 * Sprites + 4 /\ s > 0
  BY <1>1, NextSprite
<1>6. Passed(r)'
  <2>1. data_index' = Before(r)'
    <3>1. Before(p + 4) = Before(p)
      <4>1. Before(p + 4) = Before(p) + 0
        BY <1>1, <1>2, BeforeNext DEF EvalStep, SpriteType
      <4>2. Before(p) \in Nat
        BY <1>1
      <4> QED
        BY <4>1, <4>2
    <3> QED
      BY <1>1, <1>3, <1>4, <3>1
  <2>2. \A b \in Found : b < r => data'[Before(b)] = Start4(b, 4)
    <3> TAKE b \in Found
    <3> HAVE b < r
    <3>1. b < p
      BY <1>1, <1>2, SpriteAt DEF EvalStep
    <3> QED
      BY <1>3, <3>1 DEF LineAt, Passed
  <2>3. \A b \in Found' : b < r => data'[Before(b)'] = Start4(b, 4)
    BY <1>4, <2>2
  <2>4. data_index' # Slots
    BY <1>1, <1>3, SpriteSizes
  <2> QED
    BY <2>1, <2>3, <2>4 DEF Passed, Start4, Wrap
<1>7. InState(r, s)'
  <2>1. Taken' = s + 3 * data_index' /\ overflow' = before'
    BY <1>1, <1>3, <1>4, EvalTakes
  <2>2. CASE r \in Bytes
    <3>1. read_index' = r /\ eval_state' = "Y"
      BY <1>1, <1>3, <2>2, NextSprite
    <3> QED
      BY <2>1, <2>2, <3>1 DEF InState, Bytes
  <2>3. CASE r \notin Bytes
    <3>1. eval_state' = "Done"
      BY <1>1, <1>3, <2>3, NextSprite
    <3> QED
      BY <2>1, <2>3, <3>1 DEF InState, Bytes
  <2> QED
    BY <2>2, <2>3
<1>8. Marked(s)'
  <2>1. zero = IF start \in Found /\ q > 0 THEN {0} ELSE {}
    BY <1>1 DEF LineAt, Marked, EvalStep
  <2>2. q = 0 => start \notin Found
    BY <1>1, <1>2
  <2>3. zero' = IF start \in Found /\ s > 0 THEN {0} ELSE {}
    BY <1>3, <1>5, <2>1, <2>2
  <2>4. s # 0 /\ ~current_is_0'
    BY <1>3, <1>5
  <2> QED
    BY <1>4, <1>5, <2>3, <2>4 DEF Marked
<1>9. LineAt(r, s)'
  BY <1>4, <1>5, <1>6, <1>7, <1>8 DEF LineAt
<1> QED
  BY <1>9

\* Its bytes are copied, its attributes with the mark of sprite zero.
LEMMA TakeIndexCopies ==
  ASSUME EvalStep, TakeIndex, NEW q \in Nat, NEW p \in Nat, LineAt(p, q)
  PROVE  LineAt(p, q)'
<1>1. PICK n \in 1..2 : /\ eval_state = <<"I", "A", "X">>[n] /\ Copying(p, n)
                        /\ overflow = before /\ Taken = q + 3 * data_index + n
  BY DEF TakeIndex, LineAt, InState
<1>2. /\ p \in Found /\ read_index = Wrap(p + n) /\ data[data_index] = Start4(p, n)
      /\ read_buffer = Wrap(p + n)
      /\ data_index < Slots /\ data_index \in 0..Slots - 1 /\ data_index = Before(p)
      /\ p = start + 4 * q /\ start \in Nat /\ p \in Bytes
  <2>1. /\ p \in Found /\ read_index = Wrap(p + n) /\ data[data_index] = Start4(p, n)
    BY <1>1 DEF Copying
  <2>2. p \in Bytes
    BY <2>1 DEF Found, Candidates
  <2>3. eval_state \in {"I", "A"} /\ read_buffer = read_index
    BY DEF TakeIndex, EvalStep
  <2>4. data_index < Slots /\ data_index \in 0..Slots - 1
    BY <2>3, SpriteSizes DEF EvalStep, SpriteType
  <2>5. data_index = Before(p) /\ p = start + 4 * q /\ start \in Nat
    BY SpriteSizes DEF LineAt, Passed, EvalStep, SpriteType
  <2> QED
    BY <2>1, <2>2, <2>3, <2>4, <2>5
<1>3. /\ data' = [data EXCEPT ![data_index] = Append(@, read_buffer)]
      /\ eval_state' = <<"I", "A", "X">>[n + 1]
      /\ zero' = IF n = 2 /\ current_is_0 THEN zero \cup {data_index} ELSE zero
      /\ read_index' = Wrap(read_index + 1)
      /\ data_index' = data_index /\ current_is_0' = current_is_0 /\ overflow' = overflow
  <2>1. n = 1 \/ n = 2
    OBVIOUS
  <2> QED
    BY <1>1, <2>1 DEF TakeIndex
<1>4. /\ Found' = Found /\ start' = start /\ before' = before
      /\ \A c : Before(c)' = Before(c)
  BY Steady DEF EvalStep
<1>5. /\ data'[data_index] = Append(Start4(p, n), Wrap(p + n))
      /\ \A i \in 0..Slots - 1 : i < data_index => data'[i] = data[i]
  <2>1. data \in [0..Slots - 1 -> Seq(Bytes)]
    BY DEF EvalStep, SpriteType
  <2>2. data'[data_index] = Append(data[data_index], read_buffer)
    BY <1>2, <1>3, <2>1
  <2>3. \A i \in 0..Slots - 1 : i # data_index => data'[i] = data[i]
    BY <1>3, <2>1
  <2> QED
    BY <1>2, <2>2, <2>3
<1> PICK m \in 2..3 : m = n + 1
  OBVIOUS
<1>6. Passed(p)'
  <2>1. \A b \in Found' : b < p => data'[Before(b)'] = Start4(b, 4)
    BY <1>2, <1>5, SlotsKeep
  <2>2. data_index' # Slots /\ data_index' = Before(p)'
    BY <1>2, <1>3, <1>4, SpriteSizes
  <2> QED
    BY <2>1, <2>2 DEF Passed, Start4, Wrap
<1>7. Copying(p, m)'
  <2>1. data'[data_index'] = Start4(p, m) /\ read_index' = Wrap(p + m)
    <3>1. /\ Append(Start4(p, n), Wrap(p + n)) = Start4(p, m)
          /\ Wrap(Wrap(p + n) + 1) = Wrap(p + m)
      <4>1. n \in 1..3 /\ n + 1 = m
        OBVIOUS
      <4>2. /\ Append(Start4(p, n), Wrap(p + n)) = Start4(p, n + 1)
            /\ Wrap(Wrap(p + n) + 1) = Wrap(p + (n + 1))
        BY <1>2, <4>1, StartGrows, Zenon
      <4> QED
        BY <4>1, <4>2, Zenon
    <3> QED
      BY <1>2, <1>3, <1>5, <3>1
  <2> QED
    BY <1>2, <1>4, <2>1 DEF Copying, Start4, Wrap
<1>8. InState(p, q)'
  <2>1. Taken' = q + 3 * data_index' + m
    BY <1>1, <1>2, <1>3, EvalTakes
  <2>2. eval_state' = <<"I", "A", "X">>[m] /\ overflow' = before' /\ m \in 1..3
    BY <1>1, <1>3, <1>4
  <2> QED
    BY <1>7, <2>1, <2>2 DEF InState
<1>9. Marked(q)'
  <2>1. /\ zero = IF start \in Found /\ q > 0 THEN {0} ELSE {}
        /\ current_is_0 <=> q = 0
        /\ eval_state' \in {"A", "X"} /\ (eval_state' = "X" <=> n = 2)
    BY <1>1, <1>3 DEF LineAt, Marked
  <2>2. q = 0 => data_index = 0 /\ start \in Found
    BY <1>2, SpriteAt DEF EvalStep
  <2>3. zero' = IF start \in Found /\ (q > 0 \/ eval_state' = "X") THEN {0} ELSE {}
    <3>1. CASE q = 0 /\ n = 2
      BY <1>3, <2>1, <2>2, <3>1
    <3>2. CASE q # 0
      <4>1. q > 0
        BY <3>2
      <4> QED
        BY <1>3, <2>1, <3>2, <4>1
    <3>3. CASE q = 0 /\ n # 2
      BY <1>3, <2>1, <3>3
    <3> QED
      BY <3>1, <3>2, <3>3
  <2> QED
    BY <1>3, <1>4, <2>1, <2>3 DEF Marked
<1> QED
  BY <1>3, <1>4, <1>6, <1>8, <1>9 DEF LineAt

\* The copy of a sprite ends, and perhaps with it the slots or OAM.
LEMMA TakeXEnds ==
  ASSUME EvalStep, TakeX, NEW q \in Nat, NEW p \in Nat, LineAt(p, q)
  PROVE  p + 4 \in Nat /\ LineAt(p + 4, q + 1)'
<1>1. /\ Copying(p, 3) /\ overflow = before /\ Taken = q + 3 * data_index + 3
      /\ data_index < Slots /\ data_index \in 0..Slots - 1 /\ data_index = Before(p)
      /\ p = start + 4 * q /\ start \in Nat /\ start \in Bytes /\ eval_state = "X"
  <2>1. eval_state = "X"
    BY DEF TakeX
  <2>2. PICK n \in 1..3 : /\ eval_state = <<"I", "A", "X">>[n] /\ Copying(p, n)
                          /\ overflow = before /\ Taken = q + 3 * data_index + n
    BY <2>1 DEF LineAt, InState
  <2>3. n = 3
    <3>1. n = 1 \/ n = 2 \/ n = 3
      OBVIOUS
    <3> QED
      BY <2>1, <2>2, <3>1
  <2> QED
    BY <2>1, <2>2, <2>3, SpriteSizes DEF LineAt, Passed, EvalStep, SpriteType
<1>2. /\ p \in Found /\ read_index = Wrap(p + 3) /\ data[data_index] = Start4(p, 3)
      /\ read_buffer = Wrap(p + 3) /\ p \in Bytes
  BY <1>1 DEF EvalStep, Copying, Found, Candidates
<1>3. /\ data' = [data EXCEPT ![data_index] = Append(@, read_buffer)]
      /\ zero' = zero /\ read_index' = Wrap(read_index + 1)
      /\ current_is_0' = FALSE /\ data_index' = data_index + 1 /\ overflow' = overflow
      /\ eval_state' = IF Ended(read_index') THEN "Done"
                       ELSE IF data_index' < Slots THEN "Y" ELSE "Full"
  BY DEF TakeX, AfterSprite
<1>4. /\ Found' = Found /\ start' = start /\ before' = before
      /\ \A c : Before(c)' = Before(c)
  BY Steady DEF EvalStep
<1>5. /\ data'[data_index] = Start4(p, 4) /\ read_index' = Wrap(p + 4)
      /\ \A i \in 0..Slots - 1 : i < data_index => data'[i] = data[i]
  <2>1. data \in [0..Slots - 1 -> Seq(Bytes)]
    BY DEF EvalStep, SpriteType
  <2>2. data'[data_index] = Append(data[data_index], read_buffer)
    BY <1>1, <1>3, <2>1
  <2>3. \A i \in 0..Slots - 1 : i # data_index => data'[i] = data[i]
    BY <1>3, <2>1
  <2>4. 3 \in 1..3 /\ 3 + 1 = 4
    OBVIOUS
  <2>5. /\ Append(Start4(p, 3), Wrap(p + 3)) = Start4(p, 3 + 1)
        /\ Wrap(Wrap(p + 3) + 1) = Wrap(p + (3 + 1))
    BY <1>2, <2>4, StartGrows, Zenon
  <2>6. data'[data_index] = Start4(p, 4) /\ read_index' = Wrap(p + 4)
    BY <1>2, <1>3, <2>2, <2>4, <2>5, Zenon
  <2>7. \A i \in 0..Slots - 1 : i < data_index => i # data_index
    BY <1>1
  <2> QED
    BY <2>3, <2>6, <2>7
<1> PICK r \in Nat, s \in Nat : r = p + 4 /\ s = q + 1
  BY <1>1
<1>6. r = start + 4 * s /\ r < 4 * Sprites + 4 /\ s > 0
  BY <1>1, <1>2, NextSprite
<1>7. Passed(r)'
  <2>1. data_index' = Before(r)'
    <3>1. Before(p + 4) = Before(p) + 1
      BY <1>1, <1>2, BeforeNext
    <3> QED
      BY <1>1, <1>3, <1>4, <3>1
  <2>2. \A b \in Found' : b < p => data'[Before(b)'] = Start4(b, 4)
    BY <1>1, <1>5, SlotsKeep
  <2>3. \A b \in Found : b < r => b < p \/ b = p
    BY <1>1, SpriteAt DEF EvalStep
  <2>4. data'[Before(p)'] = Start4(p, 4)
    BY <1>1, <1>4, <1>5
  <2>5. \A b \in Found' : b < r => data'[Before(b)'] = Start4(b, 4)
    BY <1>4, <2>2, <2>3, <2>4
  <2>6. r - 4 = p
    BY <1>1
  <2> QED
    BY <1>2, <1>4, <2>1, <2>5, <2>6 DEF Passed, Start4, Wrap
<1>8. InState(r, s)'
  <2>0. data_index' = data_index + 1 /\ overflow' = before'
    BY <1>1, <1>3, <1>4
  <2>1. Taken' = s + 3 * data_index' /\ overflow' = before'
    BY <1>1, <2>0, EvalTakes
  <2>2. CASE r \notin Bytes
    <3>1. eval_state' = "Done"
      BY <1>2, <1>3, <1>5, <2>2, NextSprite
    <3> QED
      BY <2>1, <2>2, <3>1 DEF InState, Bytes
  <2>3. CASE r \in Bytes /\ data_index' < Slots
    <3>1. read_index' = r /\ eval_state' = "Y"
      BY <1>2, <1>3, <1>5, <2>3, NextSprite
    <3> QED
      BY <2>1, <2>3, <3>1 DEF InState, Bytes
  <2>4. CASE r \in Bytes /\ ~(data_index' < Slots)
    <3>1. read_index' = r /\ eval_state' = "Full"
      BY <1>2, <1>3, <1>5, <2>4, NextSprite
    <3>2. data_index' = Slots
      BY <1>1, <1>3, <2>4, SpriteSizes
    <3> PICK n \in (r \div 4)..Sprites - 1 : n = r \div 4 /\ n = (start \div 4) + s
      BY <1>1, <1>6, <2>4, SpriteSizes
    <3>3. read_index' = 4 * n + ((r + n - (r \div 4)) % 4)
      BY <3>1
    <3>4. Taken' = n - (start \div 4) + 3 * Slots
      BY <1>1, <2>1, <3>2, SpriteSizes
    <3>5. \A b \in Bytes : ~(OnDiagonalFrom(r, b) /\ b \div 4 < n)
      BY SpriteSizes DEF OnDiagonalFrom
    <3>6. Looking(r, n)'
      BY <2>1, <3>3, <3>5 DEF Looking, NoneBelow, OnDiagonalFrom, Bytes
    <3> QED
      BY <1>4, <2>4, <3>1, <3>2, <3>4, <3>6 DEF InState, Bytes
  <2> QED
    BY <2>2, <2>3, <2>4
<1>9. Marked(s)'
  <2>1. zero = IF start \in Found THEN {0} ELSE {}
    BY <1>1 DEF LineAt, Marked
  <2>2. s # 0 /\ ~current_is_0' /\ zero' = zero
    BY <1>3, <1>6
  <2> QED
    BY <1>4, <1>6, <2>1, <2>2 DEF Marked
<1>10. LineAt(r, s)'
  BY <1>4, <1>6, <1>7, <1>8, <1>9 DEF LineAt
<1> QED
  BY <1>10

\* One more sprite is looked for, along the diagonal.
LEMMA LookGoesOn ==
  ASSUME EvalStep, LookForMore, NEW q \in Nat, NEW p \in Nat, LineAt(p, q)
  PROVE  LineAt(p, q)'
<1>1. /\ eval_state = "Full" /\ data_index = Slots /\ p \in Bytes
      /\ \/ Spilled(p)
         \/ \E n \in (p \div 4)..Sprites - 1 :
               Looking(p, n) /\ Taken = n - (start \div 4) + 3 * Slots
  BY DEF LookForMore, LineAt, InState
<1>2. /\ data' = data /\ zero' = zero /\ current_is_0' = current_is_0
      /\ data_index' = data_index /\ read_buffer = read_index
      /\ eval_state' = IF Ended(read_index') THEN "Done" ELSE "Full"
      /\ read_index' = IF InRange(read_index) THEN Wrap(read_index + 1) ELSE Diagonal(read_index)
  BY DEF LookForMore, EvalStep
<1>3. /\ Found' = Found /\ start' = start /\ before' = before
      /\ \A c : Before(c)' = Before(c)
      /\ \A b : InRange(b)' <=> InRange(b)
  BY Steady DEF EvalStep
<1>4. /\ p = start + 4 * q /\ start \in Nat /\ start \in Bytes /\ read_index \in Bytes
      /\ overflow \in BOOLEAN /\ before \in BOOLEAN
  BY SpriteSizes DEF LineAt, EvalStep, SpriteType, SpriteFlags
<1>5. Passed(p)'
  BY <1>2, <1>3 DEF LineAt, Passed, Start4, Wrap
<1>6. q > 0
  <2>1. q # 0
    BY <1>1, <1>4, SpriteAt, SpriteSizes DEF EvalStep, LineAt, Passed
  <2> QED
    BY <2>1
<1>7. eval_state' \in {"Full", "Done"}
  BY <1>2
<1>8. Marked(q)'
  BY <1>1, <1>2, <1>3, <1>6, <1>7 DEF LineAt, Marked
<1>9. InState(p, q)'
  <2>1. ASSUME Spilled(p)' PROVE InState(p, q)'
    BY <1>1, <1>2, <1>7, <2>1 DEF InState, Bytes
  <2>2. CASE Spilled(p)
    <3>1. overflow' = TRUE
      BY <2>2 DEF LookForMore, Spilled
    <3>2. Spilled(p)'
      BY <1>3, <2>2, <3>1 DEF Spilled, OnDiagonalFrom, Bytes
    <3> QED
      BY <2>1, <3>2
  <2>3. ASSUME NEW n \in (p \div 4)..Sprites - 1, Looking(p, n),
               Taken = n - (start \div 4) + 3 * Slots
        PROVE  InState(p, q)'
    <3> PICK k \in Nat : k = n - (p \div 4)
      BY <1>4, <2>3
    <3> PICK m \in 0..3 : m = (p + k) % 4
      BY <1>4
    <3>1. read_index = 4 * n + m /\ overflow = before /\ NoneBelow(p, n)
      BY <2>3 DEF Looking
    <3>2. read_index \div 4 = n /\ read_index % 4 = m /\ n \in Nat
      BY <1>4, <3>1
    <3>3. OnDiagonalFrom(p, read_index)
      BY <3>2 DEF OnDiagonalFrom
    <3>4. \A b \in Bytes : OnDiagonalFrom(p, b) /\ b \div 4 = n => b = read_index
      <4>1. TAKE b \in Bytes
      <4>2. b \in Nat
        BY SpriteSizes
      <4>3. HAVE OnDiagonalFrom(p, b) /\ b \div 4 = n
      <4>4. b % 4 = m
        BY <4>3 DEF OnDiagonalFrom
      <4> QED
        BY <3>1, <4>2, <4>3, <4>4
    <3>5. CASE InRange(read_index)
      <4>1. overflow' = TRUE
        BY <1>2, <3>5 DEF LookForMore
      <4>2. Spilled(p)'
        BY <1>3, <1>4, <3>3, <3>5, <4>1 DEF Spilled, OnDiagonalFrom, Bytes
      <4> QED
        BY <2>1, <4>2
    <3>6. CASE ~InRange(read_index)
      <4>1. overflow' = before' /\ read_index' = Diagonal(read_index)
        <5>1. overflow' = overflow
          BY <1>2, <1>4, <3>6 DEF LookForMore
        <5> QED
          BY <1>2, <1>3, <3>1, <3>6, <5>1
      <4>2. (read_index + 1) % 4 = (p + (k + 1)) % 4
        BY <1>4, <3>1
      <4>3. read_index' = 4 * ((n + 1) % Sprites) + ((p + (k + 1)) % 4)
        BY <3>2, <4>1, <4>2 DEF Diagonal
      <4>4. NoneBelow(p, n + 1)
        <5>1. \A b \in Bytes : b \div 4 < n + 1 => b \div 4 < n \/ b \div 4 = n
          <6>1. \A b \in Bytes : b \div 4 \in Int
            BY SpriteSizes
          <6> QED
            BY <3>2, <6>1
        <5> QED
          BY <3>1, <3>4, <3>6, <5>1 DEF NoneBelow
      <4>5. NoneBelow(p, n + 1)'
        BY <1>3, <4>4 DEF NoneBelow, OnDiagonalFrom, Bytes
      <4>6. CASE n + 1 < Sprites
        <5> PICK j \in (p \div 4)..Sprites - 1 : j = n + 1
          BY <3>2, <4>6, SpriteSizes
        <5>1. (n + 1) % Sprites = n + 1
          BY <3>2, <4>6, SpriteSizes
        <5>2. read_index' = 4 * j + ((p + (k + 1)) % 4)
          BY <4>3, <5>1
        <5>3. ~Ended(read_index')
          BY <1>4, <3>2, <5>2 DEF Ended
        <5>4. p + j - (p \div 4) = p + (k + 1)
          BY <1>4, <3>2
        <5>5. Looking(p, j)'
          BY <4>1, <4>5, <5>2, <5>4 DEF Looking
        <5>6. Taken' = j - (start \div 4) + 3 * Slots
          BY <1>4, <2>3, <3>2, EvalTakes, SpriteSizes
        <5>7. eval_state' = "Full"
          BY <1>2, <5>3
        <5> QED
          BY <1>1, <1>2, <1>3, <5>5, <5>6, <5>7 DEF InState, Bytes
      <4>7. CASE ~(n + 1 < Sprites)
        <5>1. n + 1 = Sprites
          BY <2>3, <3>2, <4>7, SpriteSizes
        <5>2. (n + 1) % Sprites = 0
          BY <5>1, SpriteSizes
        <5>3. read_index' \in 0..3
          BY <1>4, <4>3, <5>2
        <5>4. eval_state' = "Done"
          BY <1>2, <5>3 DEF Ended
        <5>5. NoneBelow(p, Sprites)'
          BY <4>5, <5>1
        <5> QED
          BY <1>1, <1>2, <4>1, <5>4, <5>5 DEF InState, Bytes
      <4> QED
        BY <4>6, <4>7
    <3> QED
      BY <3>5, <3>6
  <2> QED
    BY <1>1, <2>2, <2>3
<1> QED
  BY <1>3, <1>4, <1>5, <1>6, <1>8, <1>9 DEF LineAt

\* Nothing is done once the machine has finished.
LEMMA FinishedStays ==
  ASSUME EvalStep, Finished, NEW q \in Nat, NEW p \in Nat, LineAt(p, q)
  PROVE  LineAt(p, q)'
<1>1. /\ data' = data /\ zero' = zero /\ current_is_0' = current_is_0
      /\ data_index' = data_index /\ overflow' = overflow
      /\ eval_state = "Done" /\ eval_state' = "Done"
  BY DEF Finished, machine
<1>2. /\ Found' = Found /\ start' = start /\ before' = before
      /\ \A c : Before(c)' = Before(c)
      /\ \A b : InRange(b)' <=> InRange(b)
  BY Steady DEF EvalStep
<1>3. Passed(p)'
  BY <1>1, <1>2 DEF LineAt, Passed, Start4, Wrap
<1>4. Marked(q)'
  BY <1>1, <1>2 DEF LineAt, Marked
<1>5. NoneBelow(p, Sprites) => NoneBelow(p, Sprites)'
  BY <1>2 DEF NoneBelow, OnDiagonalFrom, Bytes
<1>6. Spilled(p) => Spilled(p)'
  BY <1>1, <1>2 DEF Spilled, OnDiagonalFrom, Bytes
<1>7. InState(p, q)'
  BY <1>1, <1>2, <1>5, <1>6 DEF LineAt, InState, Bytes
<1> QED
  BY <1>1, <1>2, <1>3, <1>4, <1>7 DEF LineAt

\* Every step of the machine, one sprite on or none.
LEMMA EvalKeepsLine ==
  ASSUME EvalStep, TakeY \/ TakeIndex \/ TakeX \/ LookForMore \/ Finished,
         NEW q \in 0..Sprites, NEW p \in Nat, LineAt(p, q)
  PROVE  \E s \in 0..Sprites, r \in Nat : LineAt(r, s)'
<1>0. q \in Nat
  BY SpriteSizes
<1>1. CASE TakeY
  <2>1. eval_state = "Y" /\ p \in Bytes
    BY <1>1 DEF TakeY, LineAt, InState
  <2>2. CASE InRange(read_buffer)
    BY <1>0, <1>1, <2>1, <2>2, TakeYFound
  <2>3. CASE ~InRange(read_buffer)
    <3>1. q + 1 \in 0..Sprites
      BY <1>0, <2>1, SpriteSizes DEF LineAt, EvalStep, SpriteType
    <3> QED
      BY <1>0, <1>1, <2>1, <2>3, <3>1, TakeYPasses
  <2> QED
    BY <2>2, <2>3
<1>2. CASE TakeIndex
  BY <1>0, <1>2, TakeIndexCopies
<1>3. CASE TakeX
  <2>1. p \in Bytes
    <3>1. eval_state = "X"
      BY <1>3 DEF TakeX
    <3>2. p \in Found
      BY <3>1 DEF LineAt, InState, Copying
    <3> QED
      BY <3>2 DEF Found, Candidates
  <2>2. q + 1 \in 0..Sprites
    BY <1>0, <2>1, SpriteSizes DEF LineAt, EvalStep, SpriteType
  <2> QED
    BY <1>0, <1>3, <2>2, TakeXEnds
<1>4. CASE LookForMore
  BY <1>0, <1>4, LookGoesOn
<1>5. CASE Finished
  BY <1>0, <1>5, FinishedStays
<1> QED
  BY <1>1, <1>2, <1>3, <1>4, <1>5

\* What the machine does not touch leaves the line as it is.
LEMMA LineStays ==
  ASSUME SpriteType, UNCHANGED <<inrange, large, start, before, machine>>, Taken' = Taken,
         NEW q, NEW p, LineAt(p, q)
  PROVE  LineAt(p, q)'
<1>1. /\ data' = data /\ zero' = zero /\ current_is_0' = current_is_0
      /\ data_index' = data_index /\ overflow' = overflow /\ read_index' = read_index
      /\ eval_state' = eval_state
  BY DEF machine
<1>2. /\ Found' = Found /\ start' = start /\ before' = before
      /\ \A c : Before(c)' = Before(c)
      /\ \A b : InRange(b)' <=> InRange(b)
  BY Steady
<1>3. Passed(p)'
  BY <1>1, <1>2 DEF LineAt, Passed, Start4, Wrap
<1>4. Marked(q)'
  BY <1>1, <1>2 DEF LineAt, Marked
<1>5. ASSUME NEW n PROVE NoneBelow(p, n) => NoneBelow(p, n)'
  BY <1>2 DEF NoneBelow, OnDiagonalFrom, Bytes
<1>6. Spilled(p) => Spilled(p)'
  BY <1>1, <1>2 DEF Spilled, OnDiagonalFrom, Bytes
<1>7. ASSUME NEW n PROVE Looking(p, n) => Looking(p, n)'
  BY <1>1, <1>2, <1>5 DEF Looking
<1>8. ASSUME NEW n PROVE Copying(p, n) => Copying(p, n)'
  BY <1>1, <1>2 DEF Copying, Start4, Wrap
<1>9. InState(p, q)'
  BY <1>1, <1>2, <1>5, <1>6, <1>7, <1>8 DEF LineAt, InState, Bytes
<1> QED
  BY <1>1, <1>2, <1>3, <1>4, <1>9 DEF LineAt

\* The line as the first dot leaves it: no sprite has been passed.
LEMMA BeforeFirstNext == (SpriteType => Before(start) = 0)'
<1>1. SpriteType => Before(start) = 0
  BY BeforeFirst DEF SpriteType
<1> QED
  BY <1>1, PTL

\* The evaluation starts with nothing taken.
LEMMA LineBegins ==
  ASSUME SpriteType, SpriteFlags, SpriteType', StartEvaluation, zero = {}, overflow = before
  PROVE  \E p \in Nat : LineAt(p, 0)' /\ read_buffer' = read_index'
<1> PICK p \in Bytes : p = start'
  BY DEF SpriteType
<1>1. /\ p \in Nat /\ p < 4 * Sprites /\ p = start' + 4 * 0 /\ p < 4 * Sprites + 4
  <2>1. p \in 0..4 * Sprites - 1
    BY DEF Bytes
  <2>2. PICK size \in Nat : size = 4 * Sprites
    BY SpriteSizes
  <2>3. p \in Nat /\ p < size /\ p < size + 4
    BY <2>1, <2>2
  <2>4. p = p + 4 * 0
    <3>1. 4 * 0 = 0
      OBVIOUS
    <3>2. \A x \in Nat : x + 0 = x
      OBVIOUS
    <3>3. p \in Nat
      BY <2>3
    <3>4. p + 0 = p
      BY <3>2, <3>3, Zenon
    <3> QED
      BY <3>1, <3>4, Zenon
  <2> QED
    BY <2>2, <2>3, <2>4, Zenon
<1>2. /\ read_index' = p /\ read_buffer' = p /\ eval_state' = "Y" /\ data_index' = 0
      /\ current_is_0' = TRUE /\ zero' = {} /\ overflow' = before' /\ dot' = 1
  BY DEF StartEvaluation, NextDot
<1>3. Before(p)' = 0
  <2>1. (Before(start) = 0)'
    BY BeforeFirstNext
  <2> QED
    BY <2>1 DEF Before
<1>4. \A b \in Found' : ~(b < p)
  <2>1. \A b \in Found' : b \in Nat /\ b >= p
    BY DEF Found, Candidates, Bytes
  <2> QED
    BY <1>1, <2>1
<1>5. Passed(p)'
  BY <1>2, <1>3, <1>4, SpriteSizes DEF Passed, Start4, Wrap
<1>6. Taken' = 0
  BY <1>2 DEF Taken
<1>7. InState(p, 0)'
  <2>1. 0 = 0 + 3 * 0
    OBVIOUS
  <2>2. (Taken = 0 + 3 * data_index)'
    BY <1>2, <1>6, <2>1
  <2>3. (eval_state = "Y" /\ p \in Bytes /\ read_index = p /\ overflow = before)'
    BY <1>2 DEF Bytes
  <2> QED
    BY <2>2, <2>3, Zenon DEF InState
<1>8. Marked(0)'
  BY <1>2 DEF Marked
<1>9. LineAt(p, 0)'
  BY <1>1, <1>2, <1>5, <1>7, <1>8 DEF LineAt
<1> QED
  BY <1>1, <1>2, <1>9

LEMMA LineInvInit == SpriteInit => LineInv
BY DEF SpriteInit, LineInv

LEMMA LineInvNext ==
  ASSUME SpriteType, SpriteFlags, LineInv, [SpriteNext]_spriteVars, SpriteType' PROVE LineInv'
<1>0. dot \in Nat /\ EvalDots \in Nat /\ EvalDots % 2 = 0 /\ EvalDots > 1 /\ 0 \in 0..Sprites
  BY SpriteSizes DEF SpriteType
<1> SUFFICES ASSUME whole' PROVE LineInv'
  BY DEF LineInv
<1>1. CASE StartEvaluation
  <2>1. whole /\ dot = 0 /\ dot' = 1
    BY <1>1 DEF StartEvaluation, NextDot
  <2>2. zero = {} /\ overflow = before
    BY <2>1 DEF LineInv
  <2> QED
    BY <1>0, <1>1, <2>1, <2>2, LineBegins DEF LineInv
<1>2. CASE ReadByte
  <2>1. /\ whole /\ dot # 0 /\ dot' = dot + 1 /\ dot' # 0 /\ dot % 2 = 0
        /\ UNCHANGED <<inrange, large, start, before, machine>> /\ read_buffer' = read_index
        /\ read_index' = read_index
    BY <1>0, <1>2 DEF ReadByte, GoesOn, NextDot, machine
  <2>2. PICK q \in 0..Sprites, p \in Nat : LineAt(p, q)
    BY <2>1 DEF LineInv
  <2>3. Taken' = Taken
    BY <1>0, <2>1 DEF Taken
  <2>4. LineAt(p, q)'
    BY <2>1, <2>2, <2>3, LineStays
  <2>5. dot' # EvalDots
    BY <1>0, <2>1
  <2> QED
    BY <2>1, <2>4, <2>5 DEF LineInv
<1>3. CASE Evaluate
  <2>1. /\ whole /\ dot # 0 /\ dot' = dot + 1 /\ dot' # 0 /\ dot % 2 = 1 /\ dot' % 2 # 1
        /\ dot \in 1..EvalDots - 1 /\ UNCHANGED <<inrange, large, start, before>>
        /\ TakeY \/ TakeIndex \/ TakeX \/ LookForMore \/ Finished
        /\ visible_count' = IF dot + 1 = EvalDots THEN data_index' ELSE visible_count
    BY <1>0, <1>3 DEF Evaluate, GoesOn, NextDot
  <2>2. EvalStep /\ \E q \in 0..Sprites, p \in Nat : LineAt(p, q)
    BY <2>1 DEF LineInv, EvalStep
  <2>3. \E s \in 0..Sprites, r \in Nat : LineAt(r, s)'
    BY <2>1, <2>2, EvalKeepsLine
  <2> QED
    BY <2>1, <2>3 DEF LineInv
<1>4. CASE BlankDot \/ ChangeHeight \/ OamStore
  BY <1>4 DEF BlankDot, ChangeHeight, OamStore, Disturb
<1>5. CASE OamPort \/ UNCHANGED spriteVars
  <2>1. /\ whole /\ dot' = dot /\ UNCHANGED <<inrange, large, start, before, machine>>
        /\ read_buffer' = read_buffer /\ read_index' = read_index
        /\ visible_count' = visible_count /\ data_index' = data_index
        /\ zero' = zero /\ overflow' = overflow /\ before' = before
    BY <1>5 DEF OamPort, Write2004, spriteVars, machine
  <2>2. CASE dot = 0
    BY <2>1, <2>2 DEF LineInv
  <2>3. CASE dot # 0
    <3>1. PICK q \in 0..Sprites, p \in Nat : LineAt(p, q)
      BY <2>1, <2>3 DEF LineInv
    <3>2. Taken' = Taken
      BY <2>1 DEF Taken
    <3>3. LineAt(p, q)'
      BY <2>1, <3>1, <3>2, LineStays
    <3> QED
      BY <2>1, <2>3, <3>3 DEF LineInv
  <2> QED
    BY <2>2, <2>3
<1>6. CASE NextSpriteLine
  <2>1. dot' = 0 /\ zero' = {} /\ overflow' = before'
    BY <1>6 DEF NextSpriteLine, Disturb
  <2> QED
    BY <2>1 DEF LineInv
<1> QED
  BY <1>1, <1>2, <1>3, <1>4, <1>5, <1>6 DEF SpriteNext

(* --------------------------------------------- what the last dot leaves *)

\* The last dot finds the machine done, or with its overflow found.
LineOver(p) ==
    \/ p \notin Bytes /\ overflow = before
    \/ /\ data_index = Slots /\ p \in Bytes
       /\ Spilled(p) \/ (overflow = before /\ NoneBelow(p, Sprites))

LEMMA LineEnds ==
  ASSUME SpriteType, LineInv, dot = EvalDots, whole
  PROVE  \E q \in 0..Sprites, p \in Nat :
            LineAt(p, q) /\ q > 0 /\ visible_count = data_index /\ LineOver(p)
                         /\ eval_state \in {"Full", "Done"}
<1>1. dot # 0
  BY SpriteSizes
<1>2. PICK q \in 0..Sprites, p \in Nat : LineAt(p, q)
  BY <1>1 DEF LineInv
<1>3. visible_count = data_index /\ p = start + 4 * q
  BY <1>1, <1>2 DEF LineInv, LineAt
<1>4. start \in Nat /\ start \div 4 \in Nat /\ data_index \in Nat /\ data_index <= Slots
  BY SpriteSizes DEF SpriteType, Bytes
<1>5. Taken \in Nat /\ Taken >= 3 * Slots + Sprites
  BY SpriteSizes DEF Taken
<1>6. p \in Bytes => q < Sprites
  BY <1>3, <1>4, SpriteSizes
<1>7. ASSUME data_index < Slots, p \in Bytes, NEW n \in 0..3 PROVE Taken # q + 3 * data_index + n
  BY <1>4, <1>5, <1>6, <1>7, SpriteSizes
<1>8. ASSUME NEW n \in (p \div 4)..Sprites - 1 PROVE Taken # n - (start \div 4) + 3 * Slots
  <2>1. n \in Int /\ n < Sprites
    BY <1>8, SpriteSizes
  <2> QED
    BY <1>4, <1>5, <2>1, SpriteSizes
<1>9. eval_state # "Y"
  <2> SUFFICES ASSUME eval_state = "Y" PROVE FALSE
    OBVIOUS
  <2>1. p \in Bytes /\ Taken = q + 3 * data_index
    BY <1>2 DEF LineAt, InState
  <2>2. data_index < Slots /\ q + 3 * data_index = q + 3 * data_index + 0
    BY <1>4 DEF SpriteType
  <2> QED
    BY <1>7, <2>1, <2>2
<1>10. eval_state \notin {"I", "A", "X"}
  <2> SUFFICES ASSUME eval_state \in {"I", "A", "X"} PROVE FALSE
    OBVIOUS
  <2>1. PICK n \in 1..3 : p \in Found /\ Taken = q + 3 * data_index + n
    BY <1>2 DEF LineAt, InState, Copying
  <2>2. data_index < Slots /\ p \in Bytes /\ n \in 0..3
    BY <2>1 DEF SpriteType, Found, Candidates
  <2> QED
    BY <1>7, <2>1, <2>2
<1>11. CASE eval_state = "Full"
  <2>1. data_index = Slots /\ p \in Bytes /\ Spilled(p)
    BY <1>2, <1>8, <1>11 DEF LineAt, InState
  <2>2. p - 4 \in Found
    BY <1>2, <2>1 DEF LineAt, Passed
  <2>3. q > 0
    BY <1>3, <1>4, <2>2 DEF Found, Candidates
  <2> QED
    BY <1>2, <1>3, <1>11, <2>1, <2>3 DEF LineOver
<1>12. CASE eval_state = "Done"
  <2>1. q > 0 /\ LineOver(p)
    BY <1>2, <1>12 DEF LineAt, InState, LineOver
  <2> QED
    BY <1>2, <1>3, <1>12, <2>1
<1>13. eval_state \in {"Full", "Done"}
  BY <1>9, <1>10 DEF SpriteType, States
<1> QED
  BY <1>11, <1>12, <1>13

\* The sprites passed are then the ones chosen.
LEMMA PassedAreChosen ==
  ASSUME SpriteType, NEW q \in 0..Sprites, NEW p \in Nat, LineAt(p, q), LineOver(p)
  PROVE  Chosen = Below(p) /\ Cardinality(Chosen) = data_index
<1>1. start \in Bytes /\ data_index = Before(p) /\ data_index <= Slots
  BY SpriteSizes DEF SpriteType, LineAt, Passed
<1>2. p \notin Bytes => p >= 4 * Sprites
  BY SpriteSizes DEF Bytes
<1>3. Before(p) = Slots \/ p >= 4 * Sprites
  BY <1>1, <1>2 DEF LineOver
<1> QED
  BY <1>1, <1>3, ChosenIs

\* The first sprites on the line are those in secondary OAM.
LEMMA FirstOnesChosen == ASSUME SpriteType, LineInv PROVE FirstSpritesChosen
<1> SUFFICES ASSUME dot = EvalDots, whole
             PROVE  /\ visible_count = Cardinality(Chosen)
                    /\ \A b \in Chosen : data[Before(b)] = [i \in 1..4 |-> Wrap(b + i - 1)]
                    /\ zero = {s \in {0} : start \in Chosen}
  BY DEF FirstSpritesChosen
<1>1. PICK q \in 0..Sprites, p \in Nat :
        LineAt(p, q) /\ q > 0 /\ visible_count = data_index /\ LineOver(p)
                     /\ eval_state \in {"Full", "Done"}
  BY LineEnds
<1>2. Chosen = Below(p) /\ Cardinality(Chosen) = data_index
  BY <1>1, PassedAreChosen
<1>3. \A b \in Chosen : data[Before(b)] = [i \in 1..4 |-> Wrap(b + i - 1)]
  BY <1>1, <1>2 DEF LineAt, Passed, Below, Start4
<1>4. start \in Chosen <=> start \in Found
  <2>1. start < p
    BY <1>1 DEF LineAt, SpriteType, Bytes
  <2> QED
    BY <1>2, <2>1 DEF Below
<1>5. zero = IF start \in Found THEN {0} ELSE {}
  BY <1>1 DEF LineAt, Marked
<1> QED
  BY <1>1, <1>2, <1>3, <1>4, <1>5

\* With the slots full the last sprite chosen is the one below p.
LEMMA LastChosen ==
  ASSUME start \in Bytes, NEW q \in Nat, NEW p \in Nat, p = start + 4 * q,
         p - 4 \in Found, Chosen = Below(p)
  PROVE  Max(Chosen) + 4 = p
<1>1. start \in Nat
  BY DEF Bytes
<1>2. \A c \in Chosen : c \in Nat /\ c <= p - 4
  <2>1. TAKE c \in Chosen
  <2>2. c \in Candidates /\ c < p
    BY DEF Below, Found
  <2>3. PICK j \in Nat : c = start + 4 * j
    BY <2>2, CandidateIs
  <2> QED
    BY <1>1, <2>2, <2>3
<1>3. p - 4 \in Chosen
  BY DEF Below
<1>4. \A m \in Chosen : (\A c \in Chosen : m >= c) => m = p - 4
  BY <1>2, <1>3
<1>5. \E m \in Chosen : \A c \in Chosen : m >= c
  BY <1>2, <1>3
<1>6. Max(Chosen) = p - 4
  BY <1>4, <1>5 DEF Max
<1> QED
  BY <1>6

\* The overflow flag is up exactly if the walk met a sprite on the line.
LEMMA OverflowFound == ASSUME SpriteType, SpriteFlags, LineInv PROVE OverflowOnDiagonal
<1> SUFFICES ASSUME dot = EvalDots, whole
             PROVE  overflow = \/ before
                               \/ /\ Cardinality(Chosen) = Slots
                                  /\ \E b \in Bytes : OnDiagonal(b) /\ InRange(b)
  BY DEF OverflowOnDiagonal
<1>0. overflow \in BOOLEAN /\ before \in BOOLEAN
  BY DEF SpriteFlags
<1>1. PICK q \in 0..Sprites, p \in Nat :
        LineAt(p, q) /\ q > 0 /\ visible_count = data_index /\ LineOver(p)
                     /\ eval_state \in {"Full", "Done"}
  BY LineEnds
<1>2. Chosen = Below(p) /\ Cardinality(Chosen) = data_index
  BY <1>1, PassedAreChosen
<1>3. p \notin Bytes => p >= 4 * Sprites
  BY SpriteSizes DEF Bytes
<1>4. CASE data_index # Slots
  <2>1. overflow = before
    BY <1>1, <1>4 DEF LineOver
  <2> QED
    BY <1>0, <1>2, <1>4, <2>1, Zenon
<1>5. CASE data_index = Slots
  <2>1. Max(Chosen) + 4 = p
    <3>1. p - 4 \in Found /\ p = start + 4 * q /\ q \in Nat /\ start \in Bytes
      BY <1>1, <1>5 DEF LineAt, Passed, SpriteType
    <3> QED
      BY <1>2, <3>1, LastChosen
  <2>2. \A b \in Bytes : OnDiagonal(b) <=> OnDiagonalFrom(p, b)
    BY <2>1 DEF OnDiagonal, OnDiagonalFrom
  <2>3. CASE p \notin Bytes
    <3>1. overflow = before
      BY <1>1, <2>3 DEF LineOver
    <3>2. \A b \in Bytes : ~OnDiagonalFrom(p, b)
      <4>1. p \div 4 >= Sprites
        BY <1>3, <2>3, SpriteSizes
      <4>2. \A b \in Bytes : b \div 4 < Sprites
        BY SpriteSizes
      <4>3. \A b \in Bytes : b \div 4 \in Int /\ p \div 4 \in Int
        BY DEF Bytes
      <4>4. \A b \in Bytes : ~((b \div 4) - (p \div 4) >= 0)
        BY <4>1, <4>2, <4>3, SpriteSizes
      <4> QED
        BY <4>4 DEF OnDiagonalFrom
    <3> QED
      BY <1>0, <2>2, <3>1, <3>2, Zenon
  <2>4. CASE p \in Bytes /\ Spilled(p)
    <3>1. overflow /\ \E b \in Bytes : OnDiagonal(b) /\ InRange(b)
      BY <2>2, <2>4 DEF Spilled
    <3>2. overflow = TRUE
      BY <1>0, <3>1
    <3> QED
      BY <1>0, <1>2, <1>5, <3>1, <3>2, Zenon
  <2>5. CASE p \in Bytes /\ overflow = before /\ NoneBelow(p, Sprites)
    <3>1. \A b \in Bytes : b \div 4 < Sprites
      BY SpriteSizes
    <3>2. \A b \in Bytes : ~(OnDiagonal(b) /\ InRange(b))
      BY <2>2, <2>5, <3>1 DEF NoneBelow
    <3> QED
      BY <1>0, <2>5, <3>2, Zenon
  <2> QED
    BY <1>1, <2>3, <2>4, <2>5 DEF LineOver
<1> QED
  BY <1>4, <1>5

\* What every dot of the evaluation keeps: the registers in their ranges, and in
\* a line no write disturbs, which sprites have been passed and how far the
\* machine has come with the next one.
THEOREM SpriteInvariant == SpriteSpec => []SpriteInv
<1>1. SpriteInit => SpriteInv
  BY SpriteTypeInit, LineInvInit DEF SpriteInv
<1>2. SpriteInv /\ [SpriteNext]_spriteVars => SpriteInv'
  BY SpriteTypeNext, LineInvNext DEF SpriteInv
<1> QED
  BY <1>1, <1>2, PTL DEF SpriteSpec

\* evaluate_sprites_odd/_even: no write leaves secondary OAM, which at dot 256
\* of an undisturbed line holds the first of its sprites whole, with the
\* overflow flag found along the diagonal, for any OAM and OAMADDR.
THEOREM SpritesChosenHolds == SpriteSpec => []SpritesChosen
<1>1. SpriteInv => SpritesChosen
  <2> SUFFICES ASSUME SpriteInv PROVE SpritesChosen
    OBVIOUS
  <2>1. SlotsInBounds
    BY DEF SpriteInv, SpriteType, SlotsInBounds
  <2> QED
    BY <2>1, FirstOnesChosen, OverflowFound DEF SpriteInv, SpritesChosen
<1> QED
  BY <1>1, SpriteInvariant, PTL
-----------------------------------------------------------------------------
(***************************************************************************)
(* The data port.  PortShowsMemory speaks of one read.  PortInv says why   *)
(* it holds: where the game knows its place, the chip is there too; half   *)
(* an address is already in the scroll; and the video memory and the       *)
(* palette are what the game has stored, behind all their mirrors.         *)
(***************************************************************************)

Cells == ({"pattern"} \X Nat) \cup ({"table"} \X Nat \X Nat)
Colour(i) == <<"colour", Backdrop(i)>>

PortType ==
    /\ address \in Nat /\ address < 65536 /\ scroll \in Nat /\ scroll < 16384
    /\ latch \in Nat /\ mirroring \in Mirrorings
    /\ pair = FirstHalf \/ pair = <<Unknown>> \/ \E d \in Nat : pair = <<d>>

\* Where the game thinks it is, the chip is, and the half it has written is in
\* the high bits of the scroll.
AimIsTrue ==
    /\ aim # Unknown => aim = address % 16384
    /\ second => \A d \in Nat : pair = <<d>> => scroll \div 256 = d % 64

\* The memory of the console is what the game has stored, place by place.
VramKept ==
    \A c \in Cells :
        /\ c \in DOMAIN vram <=> c \in DOMAIN store
        /\ c \in DOMAIN vram => vram[c] \in Nat /\ vram[c] = store[c]
PaletteKept ==
    /\ palette \in [0..31 -> Nat]
    /\ \A i \in 0..31 : palette[i] = At(store, Colour(i), 0)
MemoryKept ==
    /\ VramKept /\ PaletteKept
    /\ buffer \in Nat /\ buffer = due

PortInv == PortType /\ AimIsTrue /\ MemoryKept

-----------------------------------------------------------------------------
\* The control byte of each arrangement puts the tables where it says.
LEMMA Mirrored ==
    ASSUME mirroring \in Mirrorings, NEW q \in 0..3
    PROVE  Bits(mirroring, 2 * q, 2) = Screen(q) /\ Screen(q) \in Nat
<1>1. mirroring \in {68, 80, 0, 85, 228}
  BY PortAssumption DEF PortAssumption, Vertical, Horizontal, SingleLow, SingleHigh, FourScreen
<1>2. /\ Bits(mirroring, 2 * 0, 2) = mirroring % 4
      /\ Bits(mirroring, 2 * 1, 2) = (mirroring \div 4) % 4
      /\ Bits(mirroring, 2 * 2, 2) = (mirroring \div 16) % 4
      /\ Bits(mirroring, 2 * 3, 2) = (mirroring \div 64) % 4
  <2>1. 2 * 0 = 0 /\ 2 * 1 = 2 /\ 2 * 2 = 4 /\ 2 * 3 = 6
    OBVIOUS
  <2>2. 2^0 = 1 /\ 2^2 = 4 /\ 2^4 = 16 /\ 2^6 = 64
    OBVIOUS
  <2>. QED  BY <1>1, <2>1, <2>2 DEF Bits
<1>3. q \in {0, 1, 2, 3}
  OBVIOUS
<1>4. Bits(mirroring, 2 * q, 2) = Screen(q)
  <2>1. CASE q = 0
    BY <1>1, <1>2, <2>1 DEF Screen, Vertical, Horizontal, SingleLow, SingleHigh
  <2>2. CASE q = 1
    BY <1>1, <1>2, <2>2 DEF Screen, Vertical, Horizontal, SingleLow, SingleHigh
  <2>3. CASE q = 2
    BY <1>1, <1>2, <2>3 DEF Screen, Vertical, Horizontal, SingleLow, SingleHigh
  <2>4. CASE q = 3
    BY <1>1, <1>2, <2>4 DEF Screen, Vertical, Horizontal, SingleLow, SingleHigh
  <2>. QED  BY <1>3, <2>1, <2>2, <2>3, <2>4
<1>5. Screen(q) \in Nat
  BY <1>3 DEF Screen
<1>. QED  BY <1>4, <1>5

\* The cells of the banks behind the pattern tables and the nametables.
LEMMA CellsHave ==
    /\ \A n \in Nat : <<"pattern", n>> \in Cells
    /\ \A t, n \in Nat : <<"table", t, n>> \in Cells
  BY DEF Cells

\* set_mirroring() and read_vram() find the place the game means.
LEMMA CellIsPlace ==
    ASSUME mirroring \in Mirrorings, NEW a \in Nat, a < 16384
    PROVE  /\ Cell(mirroring, BufferAddress(a)) = Under(a) /\ Under(a) \in Cells
           /\ ~IsPalette(a) => Cell(mirroring, a) = Place(a) /\ Place(a) \in Cells
           /\ IsPalette(a) => Place(a) = Colour(a % 32)
<1>. DEFINE q == (a \div 1024) % 4
<1>1. q \in 0..3 /\ a % 1024 \in Nat /\ a % 16384 = a
  OBVIOUS
<1>2. Bits(mirroring, 2 * q, 2) = Screen(q) /\ Screen(q) \in Nat
  BY <1>1, Mirrored
<1>3. CASE a < 8192
  <2>1. (a \div 1024) % 16 < 8 /\ a % 8192 = a
    BY <1>3, <1>1
  <2>2. ~IsPalette(a) /\ BufferAddress(a) = a
    BY <1>3, <1>1 DEF IsPalette, BufferAddress
  <2>3. Cell(mirroring, a) = <<"pattern", a>>
    BY <2>1 DEF Cell
  <2>4. Place(a) = <<"pattern", a>>
    BY <1>3, <2>2 DEF Place
  <2>6. Under(a) = Place(a)
    BY <2>2 DEF Under
  <2>. QED  BY <2>2, <2>3, <2>4, <2>6, CellsHave
<1>4. CASE a >= 8192 /\ a < 16128
  <2>1. a \div 1024 \in 8..15 /\ (a \div 1024) % 16 = a \div 1024
    BY <1>4
  <2>2. ~IsPalette(a) /\ BufferAddress(a) = a
    BY <1>4, <1>1 DEF IsPalette, BufferAddress
  <2>3. Cell(mirroring, a) = <<"table", Screen(q), a % 1024>>
    BY <2>1, <1>2 DEF Cell
  <2>4. Place(a) = <<"table", Screen(q), a % 1024>>
    BY <1>4, <2>2 DEF Place
  <2>5. Under(a) = Place(a)
    BY <2>2 DEF Under
  <2>. QED  BY <1>1, <1>2, <2>2, <2>3, <2>4, <2>5, CellsHave
<1>5. CASE a >= 16128
  <2>1. IsPalette(a) /\ BufferAddress(a) = a - 4096
    BY <1>5, <1>1 DEF IsPalette, BufferAddress
  <2>2. /\ (a - 4096) \div 1024 \in 8..15 /\ (a - 4096) \div 1024 = (a \div 1024) - 4
        /\ (a - 4096) % 1024 = a % 1024
    BY <1>5
  <2>3. /\ ~(((a - 4096) \div 1024) % 16 < 8) /\ (((a - 4096) \div 1024) % 16) % 4 = q
    BY <2>2
  <2>4. Cell(mirroring, a - 4096) = <<"table", Screen(q), a % 1024>>
    BY <2>2, <2>3, <1>2 DEF Cell
  <2>5. Under(a) = <<"table", Screen(q), a % 1024>>
    BY <2>1 DEF Under
  <2>6. Place(a) = Colour(a % 32)
    BY <1>5, <2>1 DEF Place, Colour
  <2>. QED  BY <1>1, <1>2, <2>1, <2>4, <2>5, <2>6, CellsHave
<1>. QED  BY <1>3, <1>4, <1>5

\* Whatever line the beam is in, an address keeps to its fifteen bits.
LEMMA NumbersFit ==
    ASSUME NEW n \in Nat, n < 65536
    PROVE  /\ Number(ClockY(Address(n))) \in Nat /\ Number(ClockY(Address(n))) < 65536
           /\ Number(ClockY(ClockX(Address(n)))) \in Nat
           /\ Number(ClockY(ClockX(Address(n)))) < 65536
<1>1. Address(n) \in Addresses
  BY AddressFields
<1>2. ASSUME NEW a \in Addresses PROVE Number(a) \in Nat /\ Number(a) < 65536
  <2>1. /\ a.cx \in Nat /\ a.cy \in Nat /\ a.nx \in Nat /\ a.ny \in Nat /\ a.fine \in Nat
        /\ a.cx < 32 /\ a.cy < 32 /\ a.nx < 2 /\ a.ny < 2 /\ a.fine < 8
    BY DEF Addresses
  <2>. QED  BY <2>1 DEF Number
<1>. QED  BY <1>1, <1>2, ClockXMoves, ClockYMoves

\* What a write to a sparse memory changes.
LEMMA PutHere ==
    ASSUME NEW memory, NEW p, NEW v
    PROVE  /\ p \in DOMAIN Put(memory, p, v)
           /\ Put(memory, p, v)[p] = v /\ At(Put(memory, p, v), p, 0) = v
  BY DEF Put, At
LEMMA PutElsewhere ==
    ASSUME NEW memory, NEW p, NEW v, NEW c, c # p
    PROVE  /\ c \in DOMAIN Put(memory, p, v) <=> c \in DOMAIN memory
           /\ c \in DOMAIN memory => Put(memory, p, v)[c] = memory[c]
           /\ At(Put(memory, p, v), c, 0) = At(memory, c, 0)
  BY DEF Put, At

\* The palette is no cell of the video memory.
LEMMA ColoursApart ==
    ASSUME NEW c \in Cells, NEW i
    PROVE  c # Colour(i) /\ c[1] # "colour" /\ Colour(i)[1] = "colour"
  BY DEF Cells, Colour

\* The first colours of the palettes are shared by background and sprites.
LEMMA Shared ==
    ASSUME NEW i \in 0..31, NEW j \in 0..31
    PROVE  Colour(j) = Colour(i) <=> j = i \/ (i % 4 = 0 /\ j % 16 = i % 16)
<1>1. Colour(j) = Colour(i) <=> Backdrop(j) = Backdrop(i)
  BY DEF Colour
<1>. QED  BY <1>1 DEF Backdrop

\* Where an access goes is where the game means.
LEMMA MeantIsAddress ==
    ASSUME PortInv
    PROVE  /\ Meant = address % 16384 /\ Meant \in Nat /\ Meant < 16384
           /\ IsPalette(Meant) <=> IsPalette(address)
           /\ Meant % 32 = address % 32 /\ address % 32 \in 0..31
<1>1. address \in Nat /\ (aim # Unknown => aim = address % 16384)
  BY DEF PortInv, PortType, AimIsTrue
<1>2. Meant = address % 16384
  <2>1. CASE aim = Unknown
    BY <2>1 DEF Meant
  <2>2. CASE aim # Unknown
    BY <1>1, <2>2 DEF Meant
  <2>. QED  BY <2>1, <2>2
<1>. QED  BY <1>1, <1>2 DEF IsPalette

\* increment_vram_address() moves chip and game alike, unless it renders.
LEMMA MovedTogether ==
    ASSUME PortInv
    PROVE  /\ Moved \in Nat /\ Moved < 65536
           /\ AimMoved # Unknown => AimMoved = Moved % 16384
<1>1. address \in Nat /\ address < 65536 /\ (aim # Unknown => aim = address % 16384)
  BY DEF PortInv, PortType, AimIsTrue
<1>2. CASE in_lines /\ enabled
  <2>1. Moved = Number(ClockY(ClockX(Address(address)))) /\ AimMoved = Unknown
    BY <1>2 DEF Moved, AimMoved
  <2>. QED  BY <1>1, <2>1, NumbersFit
<1>3. CASE ~(in_lines /\ enabled) /\ by32
  <2>1. Moved = (address + 32) % 65536
    BY <1>3 DEF Moved
  <2>2. AimMoved # Unknown => aim # Unknown /\ AimMoved = (aim + 32) % 16384
    BY <1>3 DEF AimMoved
  <2>. QED  BY <1>1, <2>1, <2>2
<1>4. CASE ~(in_lines /\ enabled) /\ ~by32
  <2>1. Moved = (address + 1) % 65536
    BY <1>4 DEF Moved
  <2>2. AimMoved # Unknown => aim # Unknown /\ AimMoved = (aim + 1) % 16384
    BY <1>4 DEF AimMoved
  <2>. QED  BY <1>1, <2>1, <2>2
<1>. QED  BY <1>2, <1>3, <1>4

\* Addresses and halves of addresses, through every register they share.
LEMMA PointersNext ==
    ASSUME PortInv, [PortNext]_portVars
    PROVE  (PortType /\ AimIsTrue)'
<1>. DEFINE Ok == (PortType /\ AimIsTrue)'
<1>0. /\ address \in Nat /\ address < 65536 /\ scroll \in Nat /\ scroll < 16384
      /\ latch \in Nat /\ mirroring \in Mirrorings
      /\ pair = FirstHalf \/ pair = <<Unknown>> \/ \E d \in Nat : pair = <<d>>
      /\ aim # Unknown => aim = address % 16384
      /\ second => \A d \in Nat : pair = <<d>> => scroll \div 256 = d % 64
  BY DEF PortInv, PortType, AimIsTrue
<1>1. CASE PortWrite2000
  <2>1. /\ UNCHANGED <<address, second, mirroring, aim>> /\ latch' \in {0, 5}
        /\ pair' = IF pair = FirstHalf THEN pair ELSE <<Unknown>>
    BY <1>1 DEF PortWrite2000
  <2>2. PICK d \in {0, 5} :
           scroll' = IF blocked THEN scroll
                     ELSE scroll - 1024 * Bits(scroll, 10, 2) + 1024 * (d % 4)
    BY <1>1 DEF PortWrite2000
  <2>3. scroll' \in Nat /\ scroll' < 16384
    <3>1. Bits(scroll, 10, 2) = (scroll \div 1024) % 4
      BY <1>0 DEF Bits
    <3>. QED  BY <1>0, <2>2, <3>1
  <2>4. \A d1 \in Nat : pair' # <<d1>>
    BY <2>1 DEF FirstHalf, Unknown
  <2>5. PortType'
    BY <1>0, <2>1, <2>3 DEF PortType
  <2>6. AimIsTrue'
    BY <1>0, <2>1, <2>4 DEF AimIsTrue
  <2>. QED  BY <2>5, <2>6
<1>2. CASE PortWrite2001
  <2>1. /\ UNCHANGED <<address, scroll, second, mirroring, pair, aim>> /\ latch' \in Nat
    BY <1>2 DEF PortWrite2001
  <2>. QED  BY <1>0, <2>1 DEF PortType, AimIsTrue
<1>3. CASE PortRead2002
  <2>1. /\ UNCHANGED <<address, scroll, mirroring, aim>>
        /\ second' = FALSE /\ pair' = FirstHalf
        /\ latch' \in {Bits(latch, 0, 5), Bits(latch, 0, 5) + 128}
    BY <1>3 DEF PortRead2002
  <2>2. Bits(latch, 0, 5) = latch % 32
    BY <1>0 DEF Bits
  <2>3. latch' \in Nat
    BY <1>0, <2>1, <2>2
  <2>4. PortType'
    BY <1>0, <2>1, <2>3 DEF PortType
  <2>5. AimIsTrue'
    BY <1>0, <2>1 DEF AimIsTrue
  <2>. QED  BY <2>4, <2>5
<1>4. CASE PortWrite2005
  <2>1. /\ UNCHANGED <<address, mirroring, aim>> /\ latch' = 0
        /\ second' = IF blocked THEN second ELSE ~second
        /\ pair' = IF blocked THEN <<Unknown>> ELSE Half
    BY <1>4 DEF PortWrite2005
  <2>2. scroll' \in {scroll, scroll - Bits(scroll, 0, 5),
                     Bits(scroll, 0, 5) + 1024 * Bits(scroll, 10, 2)}
    BY <1>4 DEF PortWrite2005
  <2>3. /\ Bits(scroll, 0, 5) = scroll % 32
        /\ Bits(scroll, 10, 2) = (scroll \div 1024) % 4
    BY <1>0 DEF Bits
  <2>4. scroll' \in Nat /\ scroll' < 16384
    BY <1>0, <2>2, <2>3
  <2>5. pair' \in {<<Unknown>>, FirstHalf}
    BY <2>1 DEF Half
  <2>6. \A d1 \in Nat : pair' # <<d1>>
    BY <2>5 DEF FirstHalf, Unknown
  <2>7. PortType'
    BY <1>0, <2>1, <2>4, <2>5 DEF PortType
  <2>8. AimIsTrue'
    BY <1>0, <2>1, <2>6 DEF AimIsTrue
  <2>. QED  BY <2>7, <2>8
<1>5. CASE Point
  <2>1. PICK d \in PortHighs \cup PortLows : PortWrite2006(d) /\ UNCHANGED mirroring
    BY <1>5 DEF Point
  <2>2. d \in Nat /\ d < 256
    BY PortAssumption DEF PortAssumption
  <2>3. latch' = d /\ mirroring' = mirroring
    BY <2>1 DEF PortWrite2006
  <2>4. CASE blocked
    <3>1. pair' = <<Unknown>> /\ UNCHANGED <<address, scroll, second, aim>>
      BY <2>1, <2>4 DEF PortWrite2006
    <3>2. \A d1 \in Nat : pair' # <<d1>>
      BY <3>1 DEF Unknown
    <3>. QED  BY <1>0, <2>2, <2>3, <3>1, <3>2 DEF PortType, AimIsTrue
  <2>5. CASE ~blocked /\ ~second
    <3>1. /\ second' = TRUE /\ scroll' = Bits(scroll, 0, 8) + 256 * (d % 64)
          /\ address' = address /\ aim' = aim
          /\ pair' = IF pair = FirstHalf THEN <<d>>
                     ELSE IF pair[1] = Unknown THEN pair ELSE FirstHalf
      BY <2>1, <2>5 DEF PortWrite2006
    <3>2. Bits(scroll, 0, 8) = scroll % 256
      BY <1>0 DEF Bits
    <3>3. scroll' \in Nat /\ scroll' < 16384 /\ scroll' \div 256 = d % 64
      BY <1>0, <2>2, <3>1, <3>2
    <3>4. pair' \in {<<d>>, <<Unknown>>, FirstHalf}
      BY <1>0, <3>1 DEF Unknown, FirstHalf
    <3>5. \A d1 \in Nat : pair' = <<d1>> => d1 = d
      BY <3>4 DEF FirstHalf, Unknown
    <3>6. PortType'
      BY <1>0, <2>2, <2>3, <3>1, <3>3, <3>4 DEF PortType
    <3>7. AimIsTrue'
      BY <1>0, <3>1, <3>3, <3>5 DEF AimIsTrue
    <3>. QED  BY <3>6, <3>7
  <2>6. CASE ~blocked /\ second
    <3>1. /\ second' = FALSE /\ scroll' = scroll - Bits(scroll, 0, 8) + d
          /\ address' = scroll'
          /\ aim' = IF pair # FirstHalf /\ pair[1] # Unknown
                    THEN 256 * (pair[1] % 64) + d ELSE Unknown
          /\ pair' = IF pair = FirstHalf THEN <<d>>
                     ELSE IF pair[1] = Unknown THEN pair ELSE FirstHalf
      BY <2>1, <2>6 DEF PortWrite2006
    <3>2. Bits(scroll, 0, 8) = scroll % 256
      BY <1>0 DEF Bits
    <3>3. scroll' \in Nat /\ scroll' < 16384 /\ scroll' = 256 * (scroll \div 256) + d
      BY <1>0, <2>2, <3>1, <3>2
    <3>4. pair' \in {<<d>>, <<Unknown>>, FirstHalf}
      BY <1>0, <3>1 DEF Unknown, FirstHalf
    <3>5. ASSUME aim' # Unknown PROVE aim' = address' % 16384
      <4>1. PICK d1 \in Nat : pair = <<d1>>
        BY <1>0, <3>1, <3>5 DEF FirstHalf
      <4>2. aim' = 256 * (d1 % 64) + d /\ scroll \div 256 = d1 % 64
        BY <1>0, <2>6, <3>1, <3>5, <4>1
      <4>3. aim' = scroll'
        BY <3>3, <4>2
      <4>. QED  BY <3>1, <3>3, <4>3
    <3>6. PortType'
      BY <1>0, <2>2, <2>3, <3>1, <3>3, <3>4 DEF PortType
    <3>7. AimIsTrue'
      BY <3>1, <3>5 DEF AimIsTrue
    <3>. QED  BY <3>6, <3>7
  <2>. QED  BY <1>0, <2>4, <2>5, <2>6
<1>6. CASE PortWrite2007
  <2>1. /\ UNCHANGED <<scroll, second, mirroring, pair>> /\ latch' \in PortBytes
        /\ address' = Moved /\ aim' = AimMoved
    BY <1>6 DEF PortWrite2007
  <2>2. latch' \in Nat
    BY <2>1, PortAssumption DEF PortAssumption
  <2>. QED  BY <1>0, <2>1, <2>2, MovedTogether DEF PortType, AimIsTrue
<1>7. CASE PortRead2007
  <2>1. /\ UNCHANGED <<scroll, second, mirroring, pair>>
        /\ address' = Moved /\ aim' = AimMoved
        /\ latch' = LET colour == palette[address % 32] + 64 * (latch \div 64) IN
                    CASE ~IsPalette(address)          -> buffer
                      [] IsPalette(address) /\ grey  -> colour - (colour % 16)
                      [] IsPalette(address) /\ ~grey -> colour
    BY <1>7 DEF PortRead2007
  <2>. DEFINE colour == palette[address % 32] + 64 * (latch \div 64)
  <2>2. palette[address % 32] \in Nat /\ buffer \in Nat
    BY MeantIsAddress DEF PortInv, MemoryKept, PaletteKept
  <2>3. latch' \in {buffer, colour, colour - (colour % 16)}
    BY <2>1
  <2>4. colour \in Nat /\ colour - (colour % 16) \in Nat
    BY <1>0, <2>2
  <2>5. latch' \in Nat
    BY <2>2, <2>3, <2>4
  <2>. QED  BY <1>0, <2>1, <2>5, MovedTogether DEF PortType, AimIsTrue
<1>8. CASE Beam
  <2>1. /\ UNCHANGED <<scroll, second, mirroring, pair>> /\ latch' \in {latch, 0}
        /\ \/ address' \in {scroll, Number(ClockY(Address(scroll)))} /\ aim' = Unknown
           \/ UNCHANGED <<address, aim>>
    BY <1>8 DEF Beam
  <2>2. Number(ClockY(Address(scroll))) \in Nat /\ Number(ClockY(Address(scroll))) < 65536
    BY <1>0, NumbersFit
  <2>. QED  BY <1>0, <2>1, <2>2 DEF PortType, AimIsTrue
<1>9. CASE Unblock \/ UNCHANGED portVars
  <2>1. UNCHANGED <<address, scroll, second, latch, mirroring, pair, aim>>
    BY <1>9 DEF Unblock, portVars
  <2>. QED  BY <1>0, <2>1 DEF PortType, AimIsTrue
<1>. QED
  BY <1>1, <1>2, <1>3, <1>4, <1>5, <1>6, <1>7, <1>8, <1>9 DEF PortNext

\* Memory and what the game knows of it.
LEMMA MemoryNext ==
    ASSUME PortInv, [PortNext]_portVars
    PROVE  MemoryKept'
<1>. DEFINE M == address % 16384
<1>0. /\ VramKept /\ PaletteKept /\ buffer \in Nat /\ buffer = due
      /\ mirroring \in Mirrorings /\ address \in Nat
  BY DEF PortInv, PortType, MemoryKept
<1>1. /\ Meant = M /\ M \in Nat /\ M < 16384 /\ (IsPalette(M) <=> IsPalette(address))
      /\ M % 32 = address % 32 /\ address % 32 \in 0..31
  BY MeantIsAddress
<1>. HIDE DEF M
<1>2. CASE PortWrite2007
  <2>1. /\ UNCHANGED <<buffer, due>>
        /\ \E v \in PortBytes :
              /\ IF IsPalette(address)
                 THEN /\ palette' = PaletteWith(address % 32, v)
                      /\ UNCHANGED vram
                 ELSE /\ vram' = IF Cell(mirroring, M)[1] = "pattern" /\ ~writeable THEN vram
                                 ELSE Put(vram, Cell(mirroring, M), v)
                      /\ UNCHANGED palette
              /\ store' = CASE Place(M)[1] = "colour" -> Put(store, Place(M), v % 64)
                           [] Place(M)[1] = "pattern" /\ ~writeable -> store
                           [] OTHER -> Put(store, Place(M), v)
    BY <1>2, <1>1 DEF PortWrite2007, M
  <2>2. PICK v \in PortBytes :
              /\ IF IsPalette(address)
                 THEN /\ palette' = PaletteWith(address % 32, v)
                      /\ UNCHANGED vram
                 ELSE /\ vram' = IF Cell(mirroring, M)[1] = "pattern" /\ ~writeable THEN vram
                                 ELSE Put(vram, Cell(mirroring, M), v)
                      /\ UNCHANGED palette
              /\ store' = CASE Place(M)[1] = "colour" -> Put(store, Place(M), v % 64)
                           [] Place(M)[1] = "pattern" /\ ~writeable -> store
                           [] OTHER -> Put(store, Place(M), v)
    BY <2>1
  <2>3. v \in Nat /\ v % 64 \in Nat
    BY PortAssumption DEF PortAssumption
  <2>4. CASE IsPalette(address)
    <3>. DEFINE i == address % 32
    <3>1. Place(M) = Colour(i)
      BY <1>0, <1>1, <2>4, CellIsPlace
    <3>2. Colour(i)[1] = "colour"
      BY DEF Colour
    <3>3. /\ palette' = PaletteWith(i, v) /\ vram' = vram
          /\ store' = Put(store, Colour(i), v % 64)
      BY <2>2, <2>4, <3>1, <3>2
    <3>4. VramKept'
      <4>1. \A c \in Cells : c # Colour(i)
        BY ColoursApart
      <4>2. \A c \in Cells :
               /\ c \in DOMAIN store' <=> c \in DOMAIN store
               /\ c \in DOMAIN store => store'[c] = store[c]
        BY <3>3, <4>1, PutElsewhere
      <4>3. \A c \in Cells :
               /\ c \in DOMAIN vram <=> c \in DOMAIN store
               /\ c \in DOMAIN vram => vram[c] \in Nat /\ vram[c] = store[c]
        BY <1>0 DEF VramKept
      <4>4. \A c \in Cells :
               /\ c \in DOMAIN vram' <=> c \in DOMAIN store'
               /\ c \in DOMAIN vram' => vram'[c] \in Nat /\ vram'[c] = store'[c]
        <5>. SUFFICES ASSUME NEW c \in Cells
                      PROVE  /\ c \in DOMAIN vram' <=> c \in DOMAIN store'
                             /\ c \in DOMAIN vram' => vram'[c] \in Nat /\ vram'[c] = store'[c]
          OBVIOUS
        <5>1. vram' = vram
          BY <3>3
        <5>. QED  BY <4>2, <4>3, <5>1
      <4>. QED  BY <4>4 DEF VramKept
    <3>5. palette' = [j \in 0..31 |-> IF j = i \/ (i % 4 = 0 /\ j % 16 = i % 16)
                                     THEN v % 64 ELSE palette[j]]
      BY <3>3 DEF PaletteWith
    <3>6. ASSUME NEW j \in 0..31
          PROVE  palette'[j] = At(store', Colour(j), 0) /\ palette'[j] \in Nat
      <4>1. palette[j] = At(store, Colour(j), 0) /\ palette[j] \in Nat
        BY <1>0 DEF PaletteKept
      <4>2. CASE Colour(j) = Colour(i)
        <5>1. palette'[j] = v % 64
          BY <1>1, <3>5, <4>2, Shared
        <5>2. store' = Put(store, Colour(j), v % 64)
          BY Zenon, <3>3, <4>2
        <5>4. At(Put(store, Colour(j), v % 64), Colour(j), 0) = v % 64
          BY PutHere
        <5>3. At(store', Colour(j), 0) = v % 64
          BY Zenon, <5>2, <5>4
        <5>. QED  BY <2>3, <5>1, <5>3
      <4>3. CASE Colour(j) # Colour(i)
        <5>1. palette'[j] = palette[j]
          BY <1>1, <3>5, <4>3, Shared
        <5>2. At(store', Colour(j), 0) = At(store, Colour(j), 0)
          BY <3>3, <4>3, PutElsewhere
        <5>. QED  BY <4>1, <5>1, <5>2
      <4>. QED  BY <4>2, <4>3
    <3>7. palette' \in [0..31 -> Nat]
      BY <3>5, <3>6
    <3>. QED  BY <1>0, <2>1, <3>4, <3>6, <3>7 DEF MemoryKept, PaletteKept
  <2>5. CASE ~IsPalette(address)
    <3>1. Cell(mirroring, M) = Place(M) /\ Place(M) \in Cells
      BY <1>0, <1>1, <2>5, CellIsPlace
    <3>2. Place(M)[1] # "colour" /\ \A j : Place(M) # Colour(j)
      BY <3>1, ColoursApart
    <3>3. CASE Place(M)[1] = "pattern" /\ ~writeable
      <4>1. vram' = vram /\ palette' = palette /\ store' = store
        BY <2>2, <2>5, <3>1, <3>2, <3>3
      <4>. QED  BY <1>0, <2>1, <4>1 DEF MemoryKept, VramKept, PaletteKept
    <3>4. CASE ~(Place(M)[1] = "pattern" /\ ~writeable)
      <4>1. vram' = Put(vram, Place(M), v) /\ palette' = palette /\ store' = Put(store, Place(M), v)
        BY <2>2, <2>5, <3>1, <3>2, <3>4
      <4>2. VramKept'
        <5>. SUFFICES ASSUME NEW c \in Cells
                      PROVE  /\ c \in DOMAIN vram' <=> c \in DOMAIN store'
                             /\ c \in DOMAIN vram' => vram'[c] \in Nat /\ vram'[c] = store'[c]
          BY DEF VramKept
        <5>1. /\ c \in DOMAIN vram <=> c \in DOMAIN store
              /\ c \in DOMAIN vram => vram[c] \in Nat /\ vram[c] = store[c]
          BY <1>0 DEF VramKept
        <5>2. CASE c = Place(M)
          <6>1. vram' = Put(vram, c, v) /\ store' = Put(store, c, v)
            BY Zenon, <4>1, <5>2
          <6>3. /\ c \in DOMAIN Put(vram, c, v) /\ Put(vram, c, v)[c] = v
                /\ c \in DOMAIN Put(store, c, v) /\ Put(store, c, v)[c] = v
            BY PutHere
          <6>2. /\ c \in DOMAIN vram' /\ vram'[c] = v
                /\ c \in DOMAIN store' /\ store'[c] = v
            BY Zenon, <6>1, <6>3
          <6>. QED  BY <2>3, <6>2
        <5>3. CASE c # Place(M)
          <6>1. /\ c \in DOMAIN vram' <=> c \in DOMAIN vram
                /\ c \in DOMAIN vram => vram'[c] = vram[c]
            BY <4>1, <5>3, PutElsewhere
          <6>2. /\ c \in DOMAIN store' <=> c \in DOMAIN store
                /\ c \in DOMAIN store => store'[c] = store[c]
            BY <4>1, <5>3, PutElsewhere
          <6>. QED  BY <5>1, <6>1, <6>2
        <5>. QED  BY <5>2, <5>3
      <4>3. PaletteKept'
        <5>1. \A j \in 0..31 : At(store', Colour(j), 0) = At(store, Colour(j), 0)
          BY <3>2, <4>1, PutElsewhere
        <5>. QED  BY <1>0, <4>1, <5>1 DEF PaletteKept
      <4>. QED  BY <1>0, <2>1, <4>2, <4>3 DEF MemoryKept
    <3>. QED  BY <3>3, <3>4
  <2>. QED  BY <2>4, <2>5
<1>3. CASE PortRead2007
  <2>1. /\ UNCHANGED <<palette, vram, store>>
        /\ buffer' = ReadVram(BufferAddress(M)) /\ due' = Stored(Under(M))
    BY <1>1, <1>3 DEF PortRead2007, M
  <2>2. Cell(mirroring, BufferAddress(M)) = Under(M) /\ Under(M) \in Cells
    BY <1>0, <1>1, CellIsPlace
  <2>3. /\ buffer' = At(vram, Under(M), Fresh(Under(M)))
        /\ due' = At(store, Under(M), Fresh(Under(M)))
    BY <2>1, <2>2 DEF ReadVram, Stored
  <2>4. Fresh(Under(M)) \in Nat
    BY DEF Fresh
  <2>5. buffer' \in Nat /\ buffer' = due'
    BY <1>0, <2>2, <2>3, <2>4 DEF At, VramKept
  <2>. QED  BY <1>0, <2>1, <2>5 DEF MemoryKept, VramKept, PaletteKept
<1>4. CASE \/ PortWrite2000 \/ PortWrite2001 \/ PortRead2002 \/ PortWrite2005 \/ Point
           \/ Beam \/ Unblock \/ UNCHANGED portVars
  <2>1. UNCHANGED <<palette, vram, store, buffer, due>>
    BY <1>4 DEF PortWrite2000, PortWrite2001, PortRead2002, PortWrite2005, Point, Beam,
                Unblock, portVars
  <2>. QED  BY <1>0, <2>1 DEF MemoryKept, VramKept, PaletteKept
<1>. QED
  BY <1>2, <1>3, <1>4 DEF PortNext

\* What $2006, $2007 and everything that shares their registers keep true.
THEOREM PortInvariant == PortSpec => []PortInv
<1>1. PortInit => PortInv
  <2>. SUFFICES ASSUME PortInit PROVE PortInv
    OBVIOUS
  <2>1. PortType
    BY DEF PortInit, PortType
  <2>4. AimIsTrue
    <3>1. 0 % 16384 = 0 /\ second = FALSE /\ aim = 0 /\ address = 0
      BY DEF PortInit
    <3>. QED  BY <3>1 DEF AimIsTrue
  <2>2. \A i : At(store, Colour(i), 0) = 0
    BY DEF PortInit, At
  <2>3. MemoryKept
    <3>1. VramKept
      BY DEF PortInit, VramKept
    <3>2. PaletteKept
      BY <2>2 DEF PortInit, PaletteKept
    <3>. QED  BY <3>1, <3>2 DEF PortInit, MemoryKept
  <2>. QED  BY <2>1, <2>3, <2>4 DEF PortInv
<1>2. PortInv /\ [PortNext]_portVars => PortInv'
  BY PointersNext, MemoryNext DEF PortInv
<1>. QED
  BY <1>1, <1>2, PTL DEF PortSpec

\* read2007(): the answer is what the game last stored at the place it means.
THEOREM PortShowsMemoryHolds == PortSpec => PortShowsMemory
<1>. DEFINE Step == PortRead2007 =>
         latch' = IF IsPalette(Meant)
                  THEN LET colour == Stored(Place(Meant)) + (latch - (latch % 64))
                       IN  IF grey THEN colour - (colour % 16) ELSE colour
                  ELSE due
<1>1. PortInv => Step
  <2>. SUFFICES ASSUME PortInv, PortRead2007
                PROVE  latch' = IF IsPalette(Meant)
                         THEN LET colour == Stored(Place(Meant)) + (latch - (latch % 64))
                              IN  IF grey THEN colour - (colour % 16) ELSE colour
                         ELSE due
    OBVIOUS
  <2>1. latch' = LET colour == palette[address % 32] + 64 * (latch \div 64) IN
                CASE ~IsPalette(address)          -> buffer
                  [] IsPalette(address) /\ grey  -> colour - (colour % 16)
                  [] IsPalette(address) /\ ~grey -> colour
    BY DEF PortRead2007
  <2>2. CASE ~IsPalette(address)
    <3>1. latch' = buffer
      BY <2>1, <2>2
    <3>2. buffer = due /\ ~IsPalette(Meant)
      BY <2>2, MeantIsAddress DEF PortInv, MemoryKept
    <3>. QED  BY <3>1, <3>2
  <2>3. CASE IsPalette(address)
    <3>1. 64 * (latch \div 64) = latch - (latch % 64)
      BY DEF PortInv, PortType
    <3>2. Place(Meant) = Colour(address % 32)
      BY <2>3, MeantIsAddress, CellIsPlace DEF PortInv, PortType
    <3>3. Fresh(Colour(address % 32)) = 0
      BY DEF Fresh, Colour
    <3>4. Stored(Place(Meant)) = palette[address % 32]
      BY <3>2, <3>3, MeantIsAddress DEF PortInv, MemoryKept, PaletteKept, Stored
    <3>5. IsPalette(Meant)
      BY <2>3, MeantIsAddress
    <3>. QED  BY <2>1, <2>3, <3>1, <3>4, <3>5
  <2>. QED  BY <2>2, <2>3
<1>2. PortInv /\ [PortNext]_portVars => [Step]_portVars
  BY <1>1
<1>. QED
  BY <1>2, PortInvariant, PTL DEF PortSpec, PortShowsMemory

(***************************************************************************)
(* The pixels of a line, for lines of any width, any scroll and any        *)
(* sprites: what the shift registers hold at a dot is what was fetched for *)
(* the tile under it, and the pixel shown is the one that the registers,   *)
(* the sprites and the masks name.                                         *)
(*                                                                         *)
(* PictureInPlace speaks of one dot.  PixelInv adds what the sixteen dots  *)
(* before it left in the registers, how far the fetches are, and that the  *)
(* slots hold the sprites that evaluation chose for the line.              *)
(***************************************************************************)
\* What a register bit shows of pixel m of the picture's row of tiles.
PatternBits   == [p \in 0..1 |-> [m \in Nat |-> {<<p, m \div 8, m % 8>>}]]
AttributeBits == [p \in 0..1 |-> [m \in Nat |-> {<<p, m \div 8>>}]]

\* Both planes of a queue hold the pixels from n on, up to the end of the
\* second tile, and nothing behind it.
Base(p) == IF p = 1 THEN 1 ELSE 17
InRegisters(q, b, n) ==
    \A p \in 0..1, k \in 0..15 :
        q[Base(p) + k] = IF (n % 8) + k < 16 THEN b[p][n + k] ELSE {}

\* The first of the line's two tiles is in the low bytes.
FirstTile(q, b) == \A p \in 0..1, k \in 8..15 : q[Base(p) + k] = b[p][k - 8]

Secondaries == Oams \cup {<<>>}
PixelType ==
    /\ vline \in 0..DrawnLines /\ phase \in {"draw", "tiles"} /\ pdot \in Nat
    /\ phase = "draw" => pdot <= Width
    /\ phase = "tiles" => pdot <= 16
    /\ coarse \in Nat /\ fine \in 0..7 /\ next_attribute \in Nat /\ next_pattern \in [0..1 -> Nat]
    /\ secondary \in Secondaries /\ wanted \in Secondaries
    /\ DOMAIN patterns = 1..Slot /\ left_most \in Nat

PixelFlags ==
    /\ mask \in [bg : BOOLEAN, sprites : BOOLEAN, bgleft : BOOLEAN, spleft : BOOLEAN]
    /\ sprite0 \in BOOLEAN /\ lit \in {"no", "counted", "yes"}

\* left_most_sprite_x_ hides no sprite.
LeftMost ==
    /\ \A s \in DOMAIN secondary : left_most <= secondary[s].x
    /\ \A s \in DOMAIN wanted : left_most <= wanted[s].x

\* The slots of a line hold the sprites that were in secondary OAM.
SpritesLoaded ==
    /\ phase = "draw" /\ pdot = Width /\ lit # "no" => count = Len(secondary)
    /\ lit = "yes" /\ (phase = "draw" => pdot < Width) =>
          /\ count = Len(wanted)
          /\ \A s \in DOMAIN wanted : patterns[s] = Reversed(wanted[s])

\* A tile's bytes are read one by one, two tiles ahead of the picture.
TilesFetched ==
    lit = "yes" =>
        /\ pdot % 8 >= 4 => next_attribute = coarse
        /\ pdot % 8 >= 6 => next_pattern[0] = coarse
        /\ phase = "tiles" => coarse = pdot \div 8
        /\ phase = "draw" /\ vline > 0 => coarse = 2 + (pdot \div 8)

QueuesFilled ==
    lit = "yes" =>
        /\ phase = "tiles" /\ pdot \in 8..15 =>
              FirstTile(pattern_queue, PatternBits) /\ FirstTile(attribute_queue, AttributeBits)
        /\ phase = "tiles" /\ pdot = 16 =>
              InRegisters(pattern_queue, PatternBits, 0) /\ InRegisters(attribute_queue, AttributeBits, 0)
        /\ phase = "draw" /\ vline > 0 =>
              InRegisters(pattern_queue, PatternBits, pdot)
                /\ InRegisters(attribute_queue, AttributeBits, pdot)

PixelInv == PixelType /\ PixelFlags /\ LeftMost /\ SpritesLoaded /\ TilesFetched /\ QueuesFilled

(* ------------------------------------------------------------- arithmetic *)
LEMMA PixelSizes ==
    /\ Tiles \in Nat /\ Tiles >= 2 /\ DrawnLines \in Nat /\ Slot \in Nat
    /\ Width \in Nat /\ Width >= 16 /\ Width % 8 = 0 /\ Fines \subseteq 0..7
  BY PixelAssumption DEF Width

LEMMA EightNext ==
  ASSUME NEW n \in Nat
  PROVE  /\ n % 8 \in 0..7 /\ n \div 8 \in Nat /\ n = 8 * (n \div 8) + (n % 8)
         /\ (n + 1) % 8 = (IF n % 8 = 7 THEN 0 ELSE (n % 8) + 1)
         /\ (n + 1) \div 8 = (IF n % 8 = 7 THEN (n \div 8) + 1 ELSE n \div 8)
  OBVIOUS

LEMMA TileColumn ==
  ASSUME NEW T \in Nat, NEW k \in 0..7
  PROVE  (8 * T + k) \div 8 = T /\ (8 * T + k) % 8 = k /\ 8 * T + k \in Nat
  OBVIOUS

(* -------------------------------------------------------------- registers *)
\* Where the k-th place of a queue is among the 32 registers.
LEMMA PlaceIs ==
  ASSUME NEW p \in 0..1, NEW k \in 0..15
  PROVE  /\ Base(p) + k \in 1..32 /\ PlaneOf(Base(p) + k) = p
         /\ Base(p) + k \in LowBytes <=> k >= 8
         /\ ColumnOf(Base(p) + k) = IF k >= 8 THEN k - 8 ELSE k
         /\ Base(p) + k \in {16, 32} <=> k = 15
         /\ Base(p) + k = 32 => k = 15
         /\ k < 15 => (Base(p) + k) + 1 = Base(p) + (k + 1)
         /\ k < 8 => Base(p) + k <= 24 /\ (Base(p) + k) + 8 = Base(p) + (k + 8)
<1>1. CASE p = 0
  BY <1>1 DEF Base, PlaneOf, LowBytes, ColumnOf
<1>2. CASE p = 1
  BY <1>2 DEF Base, PlaneOf, LowBytes, ColumnOf
<1> QED
  BY <1>1, <1>2

\* One shift moves every place up by one, a reload of a byte by eight.
LEMMA ShiftedIs ==
  ASSUME NEW q, NEW p \in 0..1, NEW k \in 0..15
  PROVE  Shifted(q)[Base(p) + k] = IF k = 15 THEN {} ELSE q[Base(p) + (k + 1)]
<1> DEFINE i == Base(p) + k
<1>1. i \in 1..32 /\ (i \in {16, 32} <=> k = 15) /\ (k < 15 => i + 1 = Base(p) + (k + 1))
      /\ (i = 32 => k = 15)
  BY PlaceIs
<1> HIDE DEF i
<1>2. Shifted(q)[i] = IF i \in {16, 32} THEN {} ELSE IF i = 32 THEN {} ELSE q[i + 1]
  BY <1>1 DEF Shifted, Cleared
<1>3. Shifted(q)[i] = IF k = 15 THEN {} ELSE q[Base(p) + (k + 1)]
  BY <1>1, <1>2
<1> QED
  BY <1>3 DEF i

LEMMA Shifted8Is ==
  ASSUME NEW q, NEW p \in 0..1, NEW k \in 0..15
  PROVE  Shifted8(q)[Base(p) + k] = IF k >= 8 THEN {} ELSE q[Base(p) + (k + 8)]
<1> DEFINE i == Base(p) + k
<1>1. i \in 1..32 /\ (i \in LowBytes <=> k >= 8)
      /\ (k < 8 => i <= 24 /\ i + 8 = Base(p) + (k + 8))
  BY PlaceIs
<1> HIDE DEF i
<1>2. Shifted8(q)[i] = IF i \in LowBytes THEN {} ELSE IF i > 24 THEN {} ELSE q[i + 8]
  BY <1>1 DEF Shifted8, Cleared
<1>3. Shifted8(q)[i] = IF k >= 8 THEN {} ELSE q[Base(p) + (k + 8)]
  BY <1>1, <1>2
<1> QED
  BY <1>3 DEF i

\* r is q with the bits of tile T in its low bytes.
Merges(r, q, b, T) ==
    \A p \in 0..1, k \in 0..15 :
        r[Base(p) + k] = IF k >= 8 THEN q[Base(p) + k] \cup b[p][8 * T + (k - 8)]
                         ELSE q[Base(p) + k]

\* The loads put the bits of a tile into the low bytes and nothing elsewhere.
LEMMA WithPatternMerges ==
  ASSUME NEW q, NEW n, NEW T \in Nat, n[0] = T, n[1] = T
  PROVE  Merges(WithPattern(q, n), q, PatternBits, T)
<1> SUFFICES ASSUME NEW p \in 0..1, NEW k \in 0..15
             PROVE  WithPattern(q, n)[Base(p) + k]
                      = IF k >= 8 THEN q[Base(p) + k] \cup PatternBits[p][8 * T + (k - 8)]
                        ELSE q[Base(p) + k]
  BY DEF Merges
<1> DEFINE i == Base(p) + k
<1>1. /\ i \in 1..32 /\ PlaneOf(i) = p /\ (i \in LowBytes <=> k >= 8)
      /\ ColumnOf(i) = IF k >= 8 THEN k - 8 ELSE k
  BY PlaceIs
<1>2. n[p] = T
  OBVIOUS
<1> HIDE DEF i
<1>3. WithPattern(q, n)[i] = IF k >= 8 THEN q[i] \cup {<<p, T, k - 8>>} ELSE q[i]
  BY <1>1, <1>2 DEF WithPattern
<1>4. k >= 8 => PatternBits[p][8 * T + (k - 8)] = {<<p, T, k - 8>>}
  <2> HAVE k >= 8
  <2>1. k - 8 \in 0..7
    OBVIOUS
  <2> QED
    BY <2>1, TileColumn DEF PatternBits
<1>5. WithPattern(q, n)[i]
        = IF k >= 8 THEN q[i] \cup PatternBits[p][8 * T + (k - 8)] ELSE q[i]
  BY <1>3, <1>4, Zenon
<1> QED
  BY <1>5 DEF i

LEMMA WithAttributeMerges ==
  ASSUME NEW q, NEW T \in Nat
  PROVE  Merges(WithAttribute(q, T), q, AttributeBits, T)
<1> SUFFICES ASSUME NEW p \in 0..1, NEW k \in 0..15
             PROVE  WithAttribute(q, T)[Base(p) + k]
                      = IF k >= 8 THEN q[Base(p) + k] \cup AttributeBits[p][8 * T + (k - 8)]
                        ELSE q[Base(p) + k]
  BY DEF Merges
<1> DEFINE i == Base(p) + k
<1>1. i \in 1..32 /\ PlaneOf(i) = p /\ (i \in LowBytes <=> k >= 8)
  BY PlaceIs
<1> HIDE DEF i
<1>3. WithAttribute(q, T)[i] = IF k >= 8 THEN q[i] \cup {<<p, T>>} ELSE q[i]
  BY <1>1 DEF WithAttribute
<1>4. k >= 8 => AttributeBits[p][8 * T + (k - 8)] = {<<p, T>>}
  <2> HAVE k >= 8
  <2>1. k - 8 \in 0..7
    OBVIOUS
  <2> QED
    BY <2>1, TileColumn DEF AttributeBits
<1>5. WithAttribute(q, T)[i]
        = IF k >= 8 THEN q[i] \cup AttributeBits[p][8 * T + (k - 8)] ELSE q[i]
  BY <1>3, <1>4, Zenon
<1> QED
  BY <1>5 DEF i

\* A shift within a tile.
LEMMA ShiftKeepsPixels ==
  ASSUME NEW q, NEW b, NEW n \in Nat, InRegisters(q, b, n), (n + 1) % 8 # 0
  PROVE  InRegisters(Shifted(q), b, n + 1)
<1> SUFFICES ASSUME NEW p \in 0..1, NEW k \in 0..15
             PROVE  Shifted(q)[Base(p) + k]
                      = IF ((n + 1) % 8) + k < 16 THEN b[p][(n + 1) + k] ELSE {}
  BY DEF InRegisters
<1>1. (n + 1) % 8 = (n % 8) + 1 /\ n % 8 \in 0..7
  BY EightNext
<1>2. CASE k = 15
  <2>1. ~(((n + 1) % 8) + k < 16)
    BY <1>1, <1>2
  <2> QED
    BY <1>2, <2>1, ShiftedIs
<1>3. CASE k # 15
  <2>1. /\ k + 1 \in 0..15 /\ n + (k + 1) = (n + 1) + k
        /\ (n % 8) + (k + 1) < 16 <=> ((n + 1) % 8) + k < 16
    BY <1>1, <1>3
  <2>2. q[Base(p) + (k + 1)] = IF (n % 8) + (k + 1) < 16 THEN b[p][n + (k + 1)] ELSE {}
    BY <2>1, Zenon DEF InRegisters
  <2>3. Shifted(q)[Base(p) + k] = q[Base(p) + (k + 1)]
    BY <1>3, ShiftedIs
  <2> QED
    BY <2>1, <2>2, <2>3, Zenon
<1> QED
  BY <1>2, <1>3

\* The shift that ends a tile, and the load of the one after the next.
LEMMA LoadKeepsPixels ==
  ASSUME NEW q, NEW r, NEW b, NEW n \in Nat, NEW T \in Nat, InRegisters(q, b, n), (n + 1) % 8 = 0,
         8 * T = n + 9, Merges(r, Shifted(q), b, T)
  PROVE  InRegisters(r, b, n + 1)
<1> SUFFICES ASSUME NEW p \in 0..1, NEW k \in 0..15
             PROVE  r[Base(p) + k] = IF ((n + 1) % 8) + k < 16 THEN b[p][(n + 1) + k] ELSE {}
  BY DEF InRegisters
<1>1. n % 8 = 7 /\ ((n + 1) % 8) + k < 16
  BY EightNext
<1>2. r[Base(p) + k] = IF k >= 8 THEN Shifted(q)[Base(p) + k] \cup b[p][8 * T + (k - 8)]
                       ELSE Shifted(q)[Base(p) + k]
  BY Zenon DEF Merges
<1>3. CASE k >= 8
  <2>1. Shifted(q)[Base(p) + k] = {}
    <3>1. CASE k = 15
      BY <3>1, ShiftedIs
    <3>2. CASE k # 15
      <4>1. k + 1 \in 0..15 /\ ~((n % 8) + (k + 1) < 16)
        BY <1>1, <1>3, <3>2
      <4>2. q[Base(p) + (k + 1)] = {}
        BY <4>1, Zenon DEF InRegisters
      <4> QED
        BY <3>2, <4>2, ShiftedIs
    <3> QED
      BY <3>1, <3>2
  <2>2. 8 * T + (k - 8) = (n + 1) + k
    BY <1>3
  <2>3. r[Base(p) + k] = Shifted(q)[Base(p) + k] \cup b[p][8 * T + (k - 8)]
    BY <1>2, <1>3, Zenon
  <2>4. r[Base(p) + k] = {} \cup b[p][(n + 1) + k]
    BY <2>1, <2>2, <2>3, Zenon
  <2> QED
    BY <1>1, <2>4, Zenon
<1>4. CASE ~(k >= 8)
  <2>1. k + 1 \in 0..15 /\ (n % 8) + (k + 1) < 16 /\ n + (k + 1) = (n + 1) + k /\ k # 15
    BY <1>1, <1>4
  <2>2. q[Base(p) + (k + 1)] = b[p][n + (k + 1)]
    BY <2>1, Zenon DEF InRegisters
  <2>3. Shifted(q)[Base(p) + k] = q[Base(p) + (k + 1)]
    BY <2>1, ShiftedIs
  <2> QED
    BY <1>1, <1>2, <1>4, <2>1, <2>2, <2>3, Zenon
<1> QED
  BY <1>3, <1>4

\* Before the line the registers are loaded twice, whatever was in them.
LEMMA FirstTileLoaded ==
  ASSUME NEW q, NEW r, NEW b, Merges(r, Shifted8(q), b, 0)
  PROVE  FirstTile(r, b)
<1> SUFFICES ASSUME NEW p \in 0..1, NEW k \in 8..15 PROVE r[Base(p) + k] = b[p][k - 8]
  BY DEF FirstTile
<1>1. k \in 0..15 /\ k >= 8 /\ 8 * 0 + (k - 8) = k - 8
  OBVIOUS
<1>2. r[Base(p) + k] = Shifted8(q)[Base(p) + k] \cup b[p][8 * 0 + (k - 8)]
  BY <1>1, Zenon DEF Merges
<1>3. Shifted8(q)[Base(p) + k] = {}
  BY <1>1, Shifted8Is
<1>4. r[Base(p) + k] = {} \cup b[p][k - 8]
  BY <1>1, <1>2, <1>3, Zenon
<1> QED
  BY <1>4, Zenon

LEMMA SecondTileLoaded ==
  ASSUME NEW q, NEW r, NEW b, FirstTile(q, b), Merges(r, Shifted8(q), b, 1)
  PROVE  InRegisters(r, b, 0)
<1> SUFFICES ASSUME NEW p \in 0..1, NEW k \in 0..15
             PROVE  r[Base(p) + k] = IF (0 % 8) + k < 16 THEN b[p][0 + k] ELSE {}
  BY DEF InRegisters
<1>1. (0 % 8) + k < 16 /\ 0 + k = k
  OBVIOUS
<1>2. CASE k >= 8
  <2>1. 8 * 1 + (k - 8) = k
    OBVIOUS
  <2>2. r[Base(p) + k] = Shifted8(q)[Base(p) + k] \cup b[p][8 * 1 + (k - 8)]
    BY <1>2, Zenon DEF Merges
  <2>3. Shifted8(q)[Base(p) + k] = {}
    BY <1>2, Shifted8Is
  <2>4. r[Base(p) + k] = {} \cup b[p][k]
    BY <2>1, <2>2, <2>3, Zenon
  <2> QED
    BY <1>1, <2>4, Zenon
<1>3. CASE ~(k >= 8)
  <2>1. k + 8 \in 8..15 /\ (k + 8) - 8 = k
    BY <1>3
  <2>2. r[Base(p) + k] = Shifted8(q)[Base(p) + k]
    BY <1>3, Zenon DEF Merges
  <2>3. Shifted8(q)[Base(p) + k] = q[Base(p) + (k + 8)]
    BY <1>3, Shifted8Is
  <2>4. q[Base(p) + (k + 8)] = b[p][(k + 8) - 8]
    BY <2>1, Zenon DEF FirstTile
  <2> QED
    BY <1>1, <2>1, <2>2, <2>3, <2>4, Zenon
<1> QED
  BY <1>2, <1>3

(* ---------------------------------------------------------------- sprites *)
SpriteRecords ==
    [x : 0..255, row : SUBSET (0..7), hflip : BOOLEAN, front : BOOLEAN, zero : BOOLEAN]

\* The sprites of a line, as PixelAssumption types them.
LEMMA SecondaryIs ==
  ASSUME NEW o \in Secondaries
  PROVE  /\ o \in Seq(SpriteRecords) /\ Len(o) \in 0..Slot /\ DOMAIN o = 1..Len(o)
         /\ \A s \in DOMAIN o : s \in 1..Slot /\ o[s] \in SpriteRecords /\ (o[s].zero => s = 1)
<1>1. /\ o \in Seq(SpriteRecords) /\ Len(o) <= Slot
      /\ \A s \in DOMAIN o : o[s].zero => s = 1
  <2>1. CASE o \in Oams
    BY <2>1, PixelAssumption DEF SpriteRecords
  <2>2. CASE o = <<>>
    BY <2>2, PixelSizes
  <2> QED
    BY <2>1, <2>2 DEF Secondaries
<1>2. Len(o) \in 0..Slot /\ DOMAIN o = 1..Len(o)
  BY <1>1, PixelSizes
<1>3. \A s \in DOMAIN o : s \in 1..Slot /\ o[s] \in SpriteRecords
  BY <1>1, <1>2, PixelSizes
<1> QED
  BY <1>1, <1>2, <1>3

\* Every set of numbers that is not empty has a least one.
Less == {ss \in Nat \X Nat : ss[1] < ss[2]}

LEMMA MinIs ==
  ASSUME NEW S \in SUBSET Nat, S # {}
  PROVE  Min(S) \in S /\ \A n \in S : Min(S) <= n
<1>1. IsWellFoundedOn(Less, Nat)
  BY NatLessThanWellFounded DEF OpToRel, Less
<1>2. PICK m \in S : \A n \in S : ~(<<n, m>> \in Less)
  BY <1>1, WFMin
<1>3. \A n \in S : n \in Nat /\ m \in Nat
  OBVIOUS
<1>4. \A n \in S : ~(n < m)
  BY <1>2, <1>3 DEF Less
<1>5. \A n \in S : m <= n
  BY <1>3, <1>4
<1> QED
  BY <1>5 DEF Min

\* A flipped row is read from the other end.
LEMMA ReversedIs ==
  ASSUME NEW w
  PROVE  /\ Reversed(w).x = w.x /\ Reversed(w).front = w.front /\ Reversed(w).zero = w.zero
         /\ Reversed(w).row = IF w.hflip THEN {7 - c : c \in w.row} ELSE w.row
  BY DEF Reversed

(* -------------------------------------------------------------- the pixel *)
\* The background pixel, from the queues of the two planes.
LEMMA BackgroundIs ==
  ASSUME PixelType, QueuesFilled, lit = "yes", phase = "draw", vline > 0
  PROVE  BgPixel(pdot) = TileAt(pdot)
<1>1. InRegisters(pattern_queue, PatternBits, pdot) /\ InRegisters(attribute_queue, AttributeBits, pdot)
  BY DEF QueuesFilled
<1>2. fine \in 0..15 /\ (pdot % 8) + fine < 16 /\ pdot + fine \in Nat /\ pdot \in Nat
  BY DEF PixelType
<1>3. \A p \in 0..1 : /\ pattern_queue[Base(p) + fine] = PatternBits[p][pdot + fine]
                      /\ attribute_queue[Base(p) + fine] = AttributeBits[p][pdot + fine]
  BY <1>1, <1>2, Zenon DEF InRegisters
<1>4. Base(0) + fine = 17 + fine /\ Base(1) + fine = 1 + fine /\ 0 \in 0..1 /\ 1 \in 0..1
  BY DEF Base
<1>5. /\ pattern_queue[17 + fine] = PatternBits[0][pdot + fine]
      /\ pattern_queue[1 + fine] = PatternBits[1][pdot + fine]
      /\ attribute_queue[17 + fine] = AttributeBits[0][pdot + fine]
      /\ attribute_queue[1 + fine] = AttributeBits[1][pdot + fine]
  BY <1>3, <1>4, Zenon
<1>6. \A p \in 0..1 :
        /\ PatternBits[p][pdot + fine] = {<<p, (pdot + fine) \div 8, (pdot + fine) % 8>>}
        /\ AttributeBits[p][pdot + fine] = {<<p, (pdot + fine) \div 8>>}
  BY <1>2, Zenon DEF PatternBits, AttributeBits
<1> QED
  BY <1>4, <1>5, <1>6, Zenon DEF BgPixel, TileAt

\* The sprites the PPU chooses from are those that have a pixel here.
Here(x) == {s \in DOMAIN wanted : InPicture(wanted[s], x)}

\* The sprite that SelectPixel finds is the first that has a pixel here.
LEMMA CoveringIs ==
  ASSUME PixelType, PixelFlags, LeftMost, SpritesLoaded, lit = "yes", phase = "draw", pdot < Width
  PROVE  Covering(pdot) = Here(pdot)
<1>1. /\ count = Len(wanted) /\ wanted \in Secondaries /\ pdot \in Nat
      /\ \A s \in DOMAIN wanted : patterns[s] = Reversed(wanted[s])
      /\ \A s \in DOMAIN wanted : left_most <= wanted[s].x
      /\ left_most \in Nat
  BY DEF SpritesLoaded, LeftMost, PixelType
<1>2. DOMAIN wanted = 1..count
  BY <1>1, SecondaryIs
<1>3. ASSUME NEW s \in DOMAIN wanted
      PROVE  InPicture(wanted[s], pdot) <=>
               /\ mask.sprites /\ (pdot >= 8 \/ mask.spleft) /\ pdot >= left_most
               /\ pdot - patterns[s].x \in patterns[s].row
  <2>1. PICK w \in SpriteRecords : w = wanted[s]
    BY <1>1, SecondaryIs
  <2>2. w.x \in 0..255 /\ w.row \in SUBSET (0..7) /\ w.hflip \in BOOLEAN /\ left_most <= w.x
    BY <1>1, <2>1 DEF SpriteRecords
  <2>3. patterns[s].x = w.x /\ patterns[s].row = IF w.hflip THEN {7 - c : c \in w.row} ELSE w.row
    <3>1. patterns[s] = Reversed(w)
      BY <1>1, <2>1, Zenon
    <3> QED
      BY <3>1, ReversedIs
  <2>4. pdot - w.x \in patterns[s].row <=>
          pdot >= w.x /\ (IF w.hflip THEN 7 - (pdot - w.x) ELSE pdot - w.x) \in w.row
    <3>1. PICK x \in 0..255 : x = w.x
      BY <2>2
    <3>2. PICK row \in SUBSET (0..7) : row = w.row
      BY <2>2
    <3>3. CASE w.hflip
      <4>1. pdot - x \in {7 - c : c \in row} <=> pdot >= x /\ 7 - (pdot - x) \in row
        <5>1. ASSUME pdot - x \in {7 - c : c \in row} PROVE pdot >= x /\ 7 - (pdot - x) \in row
          <6>1. PICK c \in row : pdot - x = 7 - c
            BY <5>1
          <6>2. c \in 0..7
            OBVIOUS
          <6>3. c = 7 - (pdot - x) /\ pdot >= x
            BY <1>1, <6>1, <6>2
          <6> QED
            BY <6>3
        <5>2. ASSUME 7 - (pdot - x) \in row PROVE pdot - x \in {7 - c : c \in row}
          <6>1. pdot - x = 7 - (7 - (pdot - x))
            BY <1>1
          <6> QED
            BY <5>2, <6>1
        <5> QED
          BY <5>1, <5>2
      <4> QED
        BY <2>3, <3>1, <3>2, <3>3, <4>1
    <3>4. CASE ~w.hflip
      <4>1. pdot - x \in row => pdot >= x
        BY <1>1
      <4> QED
        BY <2>3, <3>1, <3>2, <3>4, <4>1
    <3> QED
      BY <3>3, <3>4
  <2>5. pdot >= w.x => pdot >= left_most
    <3>1. PICK x \in 0..255 : x = w.x /\ left_most <= x
      BY <2>2
    <3>2. pdot \in Nat /\ left_most \in Nat
      BY <1>1
    <3> QED
      BY <3>1, <3>2
  <2> QED
    BY <2>1, <2>3, <2>4, <2>5 DEF InPicture
<1> QED
  BY <1>2, <1>3 DEF Covering, Here

\* DrawDot, in a line that is drawn from its first tile on.
LEMMA DrawDotShows ==
  ASSUME PixelInv, DrawDot, lit = "yes"
  PROVE  /\ shown' = [bg |-> TileAt(pdot), sprite |-> FrontMost(pdot)]
         /\ sprite0' <=> \/ sprite0
                         \/ /\ pdot < Width - 1 /\ Opaque(TileAt(pdot))
                            /\ \E s \in DOMAIN wanted :
                                  wanted[s].zero /\ InPicture(wanted[s], pdot)
<1>1. vline > 0 /\ phase = "draw" /\ pdot < Width /\ SelectPixel(pdot)
  BY DEF DrawDot, NextDotOf
<1>2. BgPixel(pdot) = TileAt(pdot) /\ Covering(pdot) = Here(pdot)
  BY <1>1, BackgroundIs, CoveringIs DEF PixelInv
<1>3. /\ wanted \in Secondaries
      /\ \A s \in DOMAIN wanted : patterns[s] = Reversed(wanted[s])
      /\ sprite0 \in BOOLEAN
  BY <1>1 DEF PixelInv, PixelType, PixelFlags, SpritesLoaded
<1>4. \A s \in DOMAIN wanted : /\ patterns[s].zero = wanted[s].zero
                               /\ patterns[s].front = wanted[s].front
                               /\ s \in Nat /\ s >= 1 /\ (wanted[s].zero => s = 1)
  <2> TAKE s \in DOMAIN wanted
  <2>1. s \in 1..Slot /\ (wanted[s].zero => s = 1)
    BY <1>3, SecondaryIs
  <2>2. patterns[s].zero = wanted[s].zero /\ patterns[s].front = wanted[s].front
    BY <1>3, ReversedIs
  <2>3. s \in Nat /\ s >= 1
    BY <2>1, PixelSizes
  <2> QED
    BY <2>1, <2>2, <2>3
<1>5. FrontMost(pdot) = IF Here(pdot) # {} /\ (wanted[Min(Here(pdot))].front \/ ~Opaque(TileAt(pdot)))
                        THEN Min(Here(pdot)) ELSE 0
  BY DEF FrontMost, Here
<1>6. (\E s \in DOMAIN wanted : wanted[s].zero /\ InPicture(wanted[s], pdot))
        <=> \E s \in Here(pdot) : wanted[s].zero
  BY DEF Here
<1>7. CASE Here(pdot) = {}
  <2>1. shown' = [bg |-> TileAt(pdot), sprite |-> 0] /\ sprite0' = sprite0
    BY <1>1, <1>2, <1>7 DEF SelectPixel
  <2> QED
    BY <1>5, <1>6, <1>7, <2>1, Zenon
<1>8. CASE Here(pdot) # {}
  <2> DEFINE first == Min(Here(pdot))
  <2>1. first \in Here(pdot) /\ first \in DOMAIN wanted /\ \A s \in Here(pdot) : first <= s
    <3>1. Here(pdot) \in SUBSET Nat
      BY <1>4 DEF Here
    <3> QED
      BY <1>8, <3>1, MinIs DEF Here
  <2>2. /\ shown' = [bg |-> TileAt(pdot),
                     sprite |-> IF patterns[first].front \/ ~Opaque(TileAt(pdot)) THEN first ELSE 0]
        /\ sprite0' = (sprite0 \/ (patterns[first].zero /\ HitWindow(pdot) /\ Opaque(TileAt(pdot))))
    BY <1>1, <1>2, <1>8, Zenon DEF SelectPixel
  <2> HIDE DEF first
  <2>3. patterns[first].front = wanted[first].front /\ patterns[first].zero = wanted[first].zero
    BY <1>4, <2>1
  <2>4. wanted[first].zero <=> \E s \in Here(pdot) : wanted[s].zero
    <3>1. ASSUME NEW s \in Here(pdot), wanted[s].zero PROVE wanted[first].zero
      <4>1. s = 1 /\ first <= s /\ first \in Nat /\ first >= 1
        BY <1>4, <2>1, <3>1 DEF Here
      <4>2. first = s
        BY <4>1
      <4> QED
        BY <3>1, <4>2
    <3> QED
      BY <2>1, <3>1
  <2>5. shown' = [bg |-> TileAt(pdot), sprite |-> FrontMost(pdot)]
    BY <1>5, <1>8, <2>2, <2>3, Zenon DEF first
  <2>6. HitWindow(pdot) <=> pdot < Width - 1
    BY DEF HitWindow
  <2> QED
    BY <1>6, <2>2, <2>3, <2>4, <2>5, <2>6, Zenon
<1> QED
  BY <1>7, <1>8

(* ------------------------------------------------------------------ types *)

\* What is neither a number nor a function keeps its type.
LEMMA SelectPixelFlags ==
  ASSUME PixelFlags, NEW x, SelectPixel(x) PROVE sprite0' \in BOOLEAN
<1>1. sprite0 \in BOOLEAN
  BY DEF PixelFlags
<1>2. CASE Covering(x) = {}
  BY <1>1, <1>2 DEF SelectPixel
<1>3. CASE Covering(x) # {}
  <2>1. \E hit : sprite0' = (sprite0 \/ hit)
    BY <1>3, Zenon DEF SelectPixel
  <2>2. PICK hit : sprite0' = (sprite0 \/ hit)
    BY <2>1
  <2> QED
    BY <2>2, Zenon
<1> QED
  BY <1>2, <1>3

LEMMA FetchTypes ==
  ASSUME PixelType, NEW h, FetchDot(h)
  PROVE  coarse' \in Nat /\ next_attribute' \in Nat /\ next_pattern' \in [0..1 -> Nat]
<1>1. coarse \in Nat /\ next_attribute \in Nat /\ next_pattern \in [0..1 -> Nat]
  BY DEF PixelType
<1> QED
  BY <1>1 DEF FetchDot

LEMMA PixelTypeInit == PixelInit => PixelType /\ PixelFlags
<1> SUFFICES ASSUME PixelInit PROVE PixelType /\ PixelFlags
  OBVIOUS
<1>1. PixelFlags
  BY PixelAssumption DEF PixelInit, PixelFlags
<1>2. fine \in 0..7 /\ vline = 0 /\ 0 \in 0..DrawnLines /\ pdot <= Width
  BY PixelSizes DEF PixelInit
<1> QED
  BY <1>1, <1>2 DEF PixelInit, PixelType, Secondaries

LEMMA PixelTypeNext ==
  ASSUME PixelType, PixelFlags, [PixelNext]_pixelVars
  PROVE  PixelType' /\ PixelFlags'
<1>0. /\ vline \in 0..DrawnLines /\ pdot \in Nat /\ coarse \in Nat /\ fine \in 0..7
      /\ next_attribute \in Nat /\ next_pattern \in [0..1 -> Nat] /\ left_most \in Nat
      /\ secondary \in Secondaries /\ wanted \in Secondaries /\ DOMAIN patterns = 1..Slot
      /\ Width \in Nat /\ DrawnLines \in Nat
  BY PixelSizes DEF PixelType
<1>a. /\ mask \in [bg : BOOLEAN, sprites : BOOLEAN, bgleft : BOOLEAN, spleft : BOOLEAN]
      /\ sprite0 \in BOOLEAN /\ lit \in {"no", "counted", "yes"}
  BY DEF PixelFlags
<1>1. CASE DrawDot
  <2>1. /\ vline' = vline /\ phase' = "draw" /\ pdot' = pdot + 1 /\ pdot < Width
        /\ UNCHANGED <<mask, fine, secondary, patterns, left_most, wanted>>
        /\ FetchDot(pdot') /\ SelectPixel(pdot) /\ CountAt256
    BY <1>1 DEF DrawDot, NextDotOf
  <2>2. sprite0' \in BOOLEAN
    BY <2>1, SelectPixelFlags
  <2>3. lit' \in {"no", "counted", "yes"}
    BY <1>a, <2>1 DEF CountAt256
  <2>4. coarse' \in Nat /\ next_attribute' \in Nat /\ next_pattern' \in [0..1 -> Nat]
    BY <2>1, FetchTypes
  <2>5. pdot' \in Nat /\ pdot' <= Width
    BY <1>0, <2>1
  <2> QED
    BY <1>0, <1>a, <2>1, <2>2, <2>3, <2>4, <2>5 DEF PixelType, PixelFlags
<1>2. CASE PreRenderDot
  <2>1. /\ vline' = vline /\ phase' = "draw" /\ pdot' = pdot + 1 /\ pdot < Width
        /\ UNCHANGED <<mask, fine, secondary, patterns, left_most, wanted, sprite0>>
        /\ FetchDot(pdot') /\ CountAt256
    BY <1>2 DEF PreRenderDot, NextDotOf
  <2>3. lit' \in {"no", "counted", "yes"}
    BY <1>a, <2>1 DEF CountAt256
  <2>4. coarse' \in Nat /\ next_attribute' \in Nat /\ next_pattern' \in [0..1 -> Nat]
    BY <2>1, FetchTypes
  <2>5. pdot' \in Nat /\ pdot' <= Width
    BY <1>0, <2>1
  <2> QED
    BY <1>0, <1>a, <2>1, <2>3, <2>4, <2>5 DEF PixelType, PixelFlags
<1>3. CASE TileDot
  <2>1. /\ vline' = vline /\ phase' = "tiles" /\ pdot' = pdot + 1 /\ pdot < 16
        /\ UNCHANGED <<mask, fine, secondary, patterns, left_most, wanted, sprite0, lit>>
        /\ FetchDot(pdot')
    BY <1>3 DEF TileDot, NextDotOf, objects
  <2>4. coarse' \in Nat /\ next_attribute' \in Nat /\ next_pattern' \in [0..1 -> Nat]
    BY <2>1, FetchTypes
  <2>5. pdot' \in Nat /\ pdot' <= 16
    BY <1>0, <2>1
  <2> QED
    BY <1>0, <1>a, <2>1, <2>4, <2>5 DEF PixelType, PixelFlags
<1>4. CASE BlankPixel
  <2>1. /\ vline' = vline /\ phase' = phase /\ pdot' = pdot + 1 /\ lit' = "no"
        /\ (phase = "draw" /\ pdot < Width) \/ (phase = "tiles" /\ pdot < 16)
        /\ UNCHANGED <<coarse, mask, fine, next_attribute, next_pattern, secondary, patterns,
                       left_most, wanted, sprite0>>
    BY <1>4 DEF BlankPixel, NextDotOf, queues, objects
  <2>2. pdot' \in Nat /\ (phase = "draw" => pdot' <= Width) /\ (phase = "tiles" => pdot' <= 16)
    BY <1>0, <2>1
  <2> QED
    BY <1>0, <1>a, <2>1, <2>2 DEF PixelType, PixelFlags
<1>5. CASE EvaluateSprites
  <2>1. /\ UNCHANGED <<vline, phase, pdot, coarse, mask, fine, next_attribute, next_pattern,
                       patterns, wanted, sprite0, lit>>
        /\ secondary' \in Oams /\ left_most' = Lowest(secondary')
    BY <1>5 DEF EvaluateSprites, raster, queues
  <2>2. PICK o \in Oams : o = secondary'
    BY <2>1
  <2>3. Lowest(o) \in Nat
    <3> DEFINE S == {left_most} \cup {o[s].x : s \in DOMAIN o}
    <3>1. \A s \in DOMAIN o : o[s].x \in Nat
      <4>1. \A w \in SpriteRecords : w.x \in Nat
        BY DEF SpriteRecords
      <4> QED
        BY <4>1, SecondaryIs DEF Secondaries
    <3>2. S \in SUBSET Nat /\ S # {}
      BY <1>0, <3>1
    <3> HIDE DEF S
    <3>3. Min(S) \in Nat
      BY <3>2, MinIs
    <3> QED
      BY <3>3 DEF S, Lowest
  <2>4. PixelType'
    BY <1>0, <2>1, <2>2, <2>3 DEF PixelType, Secondaries
  <2>5. PixelFlags'
    BY <1>a, <2>1 DEF PixelFlags
  <2> QED
    BY <2>4, <2>5
<1>6. CASE SpritePhase
  <2>1. /\ UNCHANGED <<vline, mask, fine, next_attribute, next_pattern, secondary, left_most,
                       sprite0>>
        /\ phase' = "tiles" /\ pdot' = 0
    BY <1>6 DEF SpritePhase, queues
  <2>2. /\ coarse' \in Nat /\ DOMAIN patterns' = 1..Slot /\ wanted' \in Secondaries
        /\ lit' \in {"no", "counted", "yes"}
    BY <1>0, <1>6 DEF SpritePhase
  <2> QED
    BY <1>0, <1>a, <2>1, <2>2 DEF PixelType, PixelFlags
<1>7. CASE NextRow
  <2>1. /\ UNCHANGED <<coarse, mask, fine, next_attribute, next_pattern, patterns, left_most,
                       wanted, lit>>
        /\ phase' = "draw" /\ pdot' = 0 /\ vline' = (vline + 1) % (DrawnLines + 1)
        /\ secondary' \in {<<>>, secondary} /\ sprite0' = (sprite0 /\ vline' # 0)
    BY <1>7 DEF NextRow, queues
  <2>2. vline' \in 0..DrawnLines
    <3>1. \A m \in Nat, v \in Nat : (v + 1) % (m + 1) \in 0..m
      OBVIOUS
    <3> QED
      BY <1>0, <2>1, <3>1
  <2>3. sprite0' \in BOOLEAN
    BY <2>1, Zenon
  <2> QED
    BY <1>0, <1>a, <2>1, <2>2, <2>3 DEF PixelType, PixelFlags, Secondaries
<1>8. CASE WriteMaskBits
  <2>1. /\ UNCHANGED <<vline, phase, pdot, coarse, fine, next_attribute, next_pattern, secondary,
                       patterns, left_most, wanted, sprite0, lit>>
        /\ mask' \in [bg : BOOLEAN, sprites : BOOLEAN, bgleft : BOOLEAN, spleft : BOOLEAN]
    BY <1>8, PixelAssumption DEF WriteMaskBits, raster, queues, objects
  <2> QED
    BY <1>a, <2>1 DEF PixelType, PixelFlags
<1>9. CASE WriteFine
  <2>1. /\ UNCHANGED <<vline, phase, pdot, coarse, mask, next_attribute, next_pattern, secondary,
                       patterns, left_most, wanted, sprite0, lit>>
        /\ fine' \in 0..7
    BY <1>9, PixelAssumption DEF WriteFine, raster, queues, objects
  <2> QED
    BY <1>a, <2>1 DEF PixelType, PixelFlags
<1>10. CASE UNCHANGED pixelVars
  BY <1>10 DEF PixelType, PixelFlags, pixelVars, raster, queues, objects
<1> QED
  BY <1>1, <1>2, <1>3, <1>4, <1>5, <1>6, <1>7, <1>8, <1>9, <1>10 DEF PixelNext

(* ------------------------------------------------------------ the sprites *)

\* Each part of the invariant, through every step.
LEMMA LeftMostNext ==
  ASSUME PixelType, LeftMost, [PixelNext]_pixelVars PROVE LeftMost'
<1>1. CASE EvaluateSprites
  <2>1. wanted' = wanted /\ secondary' \in Oams /\ left_most' = Lowest(secondary')
    BY <1>1 DEF EvaluateSprites
  <2>2. PICK o \in Oams : o = secondary'
    BY <2>1
  <2> DEFINE S == {left_most} \cup {o[s].x : s \in DOMAIN o}
  <2>3. left_most \in Nat /\ \A s \in DOMAIN o : o[s].x \in Nat
    <3>1. \A w \in SpriteRecords : w.x \in Nat
      BY DEF SpriteRecords
    <3> QED
      BY <3>1, SecondaryIs DEF Secondaries, PixelType
  <2>4. S \in SUBSET Nat /\ S # {} /\ left_most \in S /\ \A s \in DOMAIN o : o[s].x \in S
    BY <2>3
  <2>5. Lowest(o) = Min(S)
    BY DEF Lowest
  <2> HIDE DEF S
  <2>6. Lowest(o) \in Nat /\ Lowest(o) <= left_most /\ \A s \in DOMAIN o : Lowest(o) <= o[s].x
    <3>1. PICK m \in S : m = Min(S) /\ \A n \in S : m <= n
      BY <2>4, MinIs
    <3>2. m \in Nat /\ m = Lowest(o)
      BY <2>4, <2>5, <3>1
    <3> QED
      BY <2>4, <3>1, <3>2
  <2>7. \A s \in DOMAIN wanted : left_most <= wanted[s].x /\ wanted[s].x \in Nat
    <3>1. \A w \in SpriteRecords : w.x \in Nat
      BY DEF SpriteRecords
    <3> QED
      BY <3>1, SecondaryIs DEF LeftMost, PixelType
  <2>8. \A s \in DOMAIN wanted : Lowest(o) <= wanted[s].x
    BY <2>3, <2>6, <2>7
  <2> QED
    BY <2>1, <2>2, <2>6, <2>8 DEF LeftMost
<1>2. CASE SpritePhase
  <2>1. secondary' = secondary /\ left_most' = left_most /\ wanted' \in {wanted, secondary}
    BY <1>2 DEF SpritePhase
  <2> QED
    BY <2>1 DEF LeftMost
<1>3. CASE NextRow
  <2>1. secondary' \in {<<>>, secondary} /\ left_most' = left_most /\ wanted' = wanted
    BY <1>3 DEF NextRow
  <2> QED
    BY <2>1 DEF LeftMost
<1>4. CASE \/ DrawDot \/ PreRenderDot \/ TileDot \/ BlankPixel \/ WriteMaskBits \/ WriteFine
           \/ UNCHANGED pixelVars
  <2>1. UNCHANGED <<secondary, left_most, wanted>>
    BY <1>4 DEF DrawDot, PreRenderDot, TileDot, BlankPixel, WriteMaskBits, WriteFine, pixelVars, objects
  <2> QED
    BY <2>1 DEF LeftMost
<1> QED
  BY <1>1, <1>2, <1>3, <1>4 DEF PixelNext

LEMMA SpritesLoadedNext ==
  ASSUME PixelType, PixelFlags, SpritesLoaded, [PixelNext]_pixelVars, PixelType'
  PROVE  SpritesLoaded'
<1>0. Width \in Nat /\ Width >= 16 /\ pdot \in Nat
  BY PixelSizes DEF PixelType
<1>1. CASE DrawDot \/ PreRenderDot
  <2>1. /\ phase = "draw" /\ pdot < Width /\ pdot' = pdot + 1 /\ phase' = "draw"
        /\ UNCHANGED <<secondary, patterns, wanted>> /\ CountAt256
    BY <1>1 DEF DrawDot, PreRenderDot, NextDotOf
  <2>2. CASE pdot' = Width
    <3>1. count' = Len(secondary') /\ phase' = "draw" /\ ~(pdot' < Width)
      BY <1>0, <2>1, <2>2 DEF CountAt256
    <3> QED
      BY <3>1 DEF SpritesLoaded
  <2>3. CASE pdot' # Width
    <3>1. count' = count /\ lit' = lit
      BY <2>1, <2>3 DEF CountAt256
    <3> QED
      BY <2>1, <2>3, <3>1 DEF SpritesLoaded, Reversed
  <2> QED
    BY <2>2, <2>3
<1>2. CASE TileDot
  <2>1. phase = "tiles" /\ phase' = "tiles" /\ UNCHANGED <<secondary, patterns, wanted, count, lit>>
    BY <1>2 DEF TileDot, NextDotOf, objects
  <2> QED
    BY <2>1 DEF SpritesLoaded, Reversed
<1>3. CASE BlankPixel
  BY <1>3 DEF BlankPixel, SpritesLoaded
<1>4. CASE EvaluateSprites
  <2>1. /\ phase = "draw" /\ pdot # Width /\ pdot < Width
        /\ UNCHANGED <<phase, pdot, patterns, wanted, count, lit>>
    BY <1>0, <1>4 DEF EvaluateSprites, raster
  <2> QED
    BY <2>1 DEF SpritesLoaded, Reversed
<1>5. CASE SpritePhase
  <2>1. phase = "draw" /\ pdot = Width /\ phase' = "tiles" /\ count' = count
    BY <1>5 DEF SpritePhase
  <2>2. CASE On /\ lit # "no"
    <3>1. wanted' = secondary /\ count = Len(secondary)
      BY <1>5, <2>1, <2>2 DEF SpritePhase, SpritesLoaded
    <3>2. \A s \in DOMAIN secondary : patterns'[s] = Reversed(secondary[s])
      <4>1. PICK dummy : patterns' = [s \in DOMAIN patterns |->
                                        IF s \in DOMAIN secondary THEN Reversed(secondary[s])
                                        ELSE [patterns[s] EXCEPT !.row = dummy]]
        BY <1>5, <2>2 DEF SpritePhase
      <4>2. \A s \in DOMAIN secondary : s \in DOMAIN patterns
        BY SecondaryIs DEF PixelType
      <4> QED
        BY <4>1, <4>2
    <3> QED
      BY <2>1, <3>1, <3>2 DEF SpritesLoaded, Reversed
  <2>3. CASE ~(On /\ lit # "no")
    <3>1. lit' = "no"
      BY <1>5, <2>3 DEF SpritePhase
    <3> QED
      BY <2>1, <3>1 DEF SpritesLoaded
  <2> QED
    BY <2>2, <2>3
<1>6. CASE NextRow
  <2>1. /\ phase = "tiles" /\ pdot' = 0 /\ pdot' # Width
        /\ UNCHANGED <<patterns, wanted, count, lit>>
    BY <1>0, <1>6 DEF NextRow
  <2> QED
    BY <2>1 DEF SpritesLoaded, Reversed
<1>7. CASE WriteMaskBits \/ WriteFine \/ UNCHANGED pixelVars
  <2>1. UNCHANGED <<phase, pdot, secondary, patterns, wanted, count, lit>>
    BY <1>7 DEF WriteMaskBits, WriteFine, pixelVars, raster, objects
  <2> QED
    BY <2>1 DEF SpritesLoaded, Reversed
<1> QED
  BY <1>1, <1>2, <1>3, <1>4, <1>5, <1>6, <1>7 DEF PixelNext

(* -------------------------------------------------------------- the tiles *)

\* The dots that fetch.
FetchingDot == DrawDot \/ PreRenderDot \/ TileDot

LEMMA FetchingDotIs ==
  ASSUME PixelType, FetchingDot
  PROVE  /\ vline' = vline /\ phase' = phase /\ pdot' = pdot + 1 /\ FetchDot(pdot')
         /\ lit' = "yes" => lit = "yes"
BY DEF FetchingDot, DrawDot, PreRenderDot, TileDot, NextDotOf, CountAt256

LEMMA TilesFetchedNext ==
  ASSUME PixelType, TilesFetched, [PixelNext]_pixelVars PROVE TilesFetched'
<1> SUFFICES ASSUME lit' = "yes" PROVE TilesFetched'
  BY DEF TilesFetched
<1>0. /\ pdot \in Nat /\ coarse \in Nat /\ next_pattern \in [0..1 -> Nat] /\ Width % 8 = 0
      /\ Width \in Nat
  BY PixelSizes DEF PixelType
<1>1. CASE FetchingDot
  <2>1. /\ vline' = vline /\ phase' = phase /\ pdot' = pdot + 1 /\ FetchDot(pdot') /\ lit = "yes"
    BY <1>1, FetchingDotIs
  <2>2. /\ next_attribute' = IF pdot' % 8 = 4 THEN coarse ELSE next_attribute
        /\ pdot' % 8 = 6 => next_pattern'[0] = coarse
        /\ pdot' % 8 # 6 => next_pattern'[0] = next_pattern[0]
        /\ coarse' = IF pdot' % 8 = 0 THEN coarse + 1 ELSE coarse
    BY <1>0, <2>1 DEF FetchDot
  <2>3. /\ pdot % 8 \in 0..7 /\ pdot \div 8 \in Nat
        /\ pdot' % 8 = (IF pdot % 8 = 7 THEN 0 ELSE (pdot % 8) + 1)
        /\ pdot' \div 8 = (IF pdot % 8 = 7 THEN (pdot \div 8) + 1 ELSE pdot \div 8)
    BY <1>0, <2>1, EightNext
  <2>4. /\ pdot' % 8 >= 4 => next_attribute' = coarse'
        /\ pdot' % 8 >= 6 => next_pattern'[0] = coarse'
    BY <2>1, <2>2, <2>3 DEF TilesFetched
  <2>5. /\ phase' = "tiles" => coarse' = pdot' \div 8
        /\ phase' = "draw" /\ vline' > 0 => coarse' = 2 + (pdot' \div 8)
    BY <2>1, <2>2, <2>3 DEF TilesFetched
  <2> QED
    BY <2>4, <2>5 DEF TilesFetched
<1>2. CASE BlankPixel
  BY <1>2 DEF BlankPixel
<1>3. CASE SpritePhase
  <2>1. phase' = "tiles" /\ pdot' = 0 /\ coarse' = 0
    BY <1>3 DEF SpritePhase
  <2> QED
    BY <2>1 DEF TilesFetched
<1>4. CASE NextRow
  <2>1. phase = "tiles" /\ pdot = 16 /\ phase' = "draw" /\ pdot' = 0 /\ coarse' = coarse /\ lit = "yes"
    BY <1>4 DEF NextRow
  <2>2. coarse = 2
    BY <2>1 DEF TilesFetched
  <2> QED
    BY <2>1, <2>2 DEF TilesFetched
<1>5. CASE EvaluateSprites \/ WriteMaskBits \/ WriteFine \/ UNCHANGED pixelVars
  <2>1. UNCHANGED <<vline, phase, pdot, coarse, next_attribute, next_pattern, lit>>
    BY <1>5 DEF EvaluateSprites, WriteMaskBits, WriteFine, pixelVars, raster, queues
  <2> QED
    BY <2>1 DEF TilesFetched
<1> QED
  BY <1>1, <1>2, <1>3, <1>4, <1>5 DEF PixelNext, FetchingDot

\* With dot 8 the tile fetched is the one whose bits are loaded.
LEMMA LoadsTheTile ==
  ASSUME PixelType, TilesFetched, lit = "yes", FetchDot(pdot'), pdot' = pdot + 1, pdot' % 8 = 0,
         NEW p, NEW a, LoadInto(p, a)
  PROVE  /\ Merges(pattern_queue', p, PatternBits, coarse)
         /\ Merges(attribute_queue', a, AttributeBits, coarse)
<1>1. pdot \in Nat /\ coarse \in Nat /\ next_pattern \in [0..1 -> Nat]
  BY DEF PixelType
<1>2. pdot % 8 = 7
  BY <1>1, EightNext
<1>3. next_attribute = coarse /\ next_pattern[0] = coarse
  BY <1>2 DEF TilesFetched
<1>4. next_pattern' = [next_pattern EXCEPT ![1] = coarse]
  BY DEF FetchDot
<1>5. next_pattern'[0] = coarse /\ next_pattern'[1] = coarse
  BY <1>1, <1>3, <1>4
<1>6. PICK n : n = next_pattern'
  OBVIOUS
<1>7. Merges(WithPattern(p, n), p, PatternBits, coarse)
  BY <1>1, <1>5, <1>6, WithPatternMerges
<1>8. Merges(WithAttribute(a, coarse), a, AttributeBits, coarse)
  BY <1>1, WithAttributeMerges
<1> QED
  BY <1>3, <1>6, <1>7, <1>8, Zenon DEF LoadInto

LEMMA QueuesFilledNext ==
  ASSUME PixelType, PixelFlags, TilesFetched, QueuesFilled, [PixelNext]_pixelVars
  PROVE  QueuesFilled'
<1> SUFFICES ASSUME lit' = "yes" PROVE QueuesFilled'
  BY DEF QueuesFilled
<1>0. pdot \in Nat /\ coarse \in Nat
  BY DEF PixelType
<1>1. CASE DrawDot
  <2>1. /\ phase = "draw" /\ phase' = "draw" /\ vline > 0 /\ pdot' = pdot + 1 /\ lit = "yes"
        /\ FetchDot(pdot') /\ IF pdot' % 8 = 0 THEN LoadShifted ELSE ShiftOnly
    BY <1>1, FetchingDotIs DEF DrawDot, NextDotOf, FetchingDot
  <2>2. /\ InRegisters(pattern_queue, PatternBits, pdot)
        /\ InRegisters(attribute_queue, AttributeBits, pdot)
        /\ coarse = 2 + (pdot \div 8)
    BY <2>1 DEF QueuesFilled, TilesFetched
  <2>3. /\ InRegisters(pattern_queue', PatternBits, pdot + 1)
        /\ InRegisters(attribute_queue', AttributeBits, pdot + 1)
    <3>1. CASE (pdot + 1) % 8 = 0
      <4>1. LoadInto(Shifted(pattern_queue), Shifted(attribute_queue))
        BY <2>1, <3>1 DEF LoadShifted
      <4>2. /\ Merges(pattern_queue', Shifted(pattern_queue), PatternBits, coarse)
            /\ Merges(attribute_queue', Shifted(attribute_queue), AttributeBits, coarse)
        BY <2>1, <3>1, <4>1, LoadsTheTile
      <4>3. 8 * coarse = pdot + 9
        BY <1>0, <2>2, <3>1, EightNext
      <4> QED
        BY <1>0, <2>2, <3>1, <4>2, <4>3, LoadKeepsPixels
    <3>2. CASE (pdot + 1) % 8 # 0
      <4>1. /\ pattern_queue' = Shifted(pattern_queue)
            /\ attribute_queue' = Shifted(attribute_queue)
        BY <2>1, <3>2 DEF ShiftOnly
      <4> QED
        BY <1>0, <2>2, <3>2, <4>1, ShiftKeepsPixels
    <3> QED
      BY <3>1, <3>2
  <2> QED
    BY <2>1, <2>3 DEF QueuesFilled
<1>2. CASE TileDot
  <2>1. /\ phase = "tiles" /\ phase' = "tiles" /\ pdot < 16 /\ pdot' = pdot + 1 /\ lit = "yes"
        /\ FetchDot(pdot')
        /\ IF pdot' % 8 = 0 THEN LoadIdle ELSE UNCHANGED <<pattern_queue, attribute_queue>>
    BY <1>2, FetchingDotIs DEF TileDot, NextDotOf, FetchingDot
  <2>2. coarse = pdot \div 8
    BY <2>1 DEF TilesFetched
  <2>3. CASE pdot' % 8 = 0
    <3>1. LoadInto(Shifted8(pattern_queue), Shifted8(attribute_queue))
      BY <2>1, <2>3 DEF LoadIdle
    <3>2. /\ Merges(pattern_queue', Shifted8(pattern_queue), PatternBits, coarse)
          /\ Merges(attribute_queue', Shifted8(attribute_queue), AttributeBits, coarse)
      BY <2>1, <2>3, <3>1, LoadsTheTile
    <3>3. CASE pdot = 7
      <4>1. coarse = 0 /\ pdot' = 8 /\ pdot' # 16
        BY <2>1, <2>2, <3>3
      <4>2. FirstTile(pattern_queue', PatternBits) /\ FirstTile(attribute_queue', AttributeBits)
        BY <3>2, <4>1, FirstTileLoaded
      <4> QED
        BY <2>1, <4>1, <4>2 DEF QueuesFilled
    <3>4. CASE pdot = 15
      <4>1. coarse = 1 /\ pdot' = 16 /\ pdot' \notin 8..15
        BY <2>1, <2>2, <3>4
      <4>2. FirstTile(pattern_queue, PatternBits) /\ FirstTile(attribute_queue, AttributeBits)
        BY <2>1, <3>4 DEF QueuesFilled
      <4>3. InRegisters(pattern_queue', PatternBits, 0) /\ InRegisters(attribute_queue', AttributeBits, 0)
        BY <3>2, <4>1, <4>2, SecondTileLoaded
      <4> QED
        BY <2>1, <4>1, <4>3 DEF QueuesFilled
    <3>5. pdot = 7 \/ pdot = 15
      BY <1>0, <2>1, <2>3
    <3> QED
      BY <3>3, <3>4, <3>5
  <2>4. CASE pdot' % 8 # 0
    <3>1. UNCHANGED <<pattern_queue, attribute_queue>>
      BY <2>1, <2>4
    <3>2. pdot' # 16 /\ (pdot' \in 8..15 => pdot \in 8..15)
      BY <1>0, <2>1, <2>4
    <3> QED
      BY <2>1, <3>1, <3>2 DEF QueuesFilled, FirstTile
  <2> QED
    BY <2>3, <2>4
<1>3. CASE PreRenderDot
  <2>1. vline' = 0 /\ phase' = "draw"
    BY <1>3 DEF PreRenderDot, NextDotOf
  <2> QED
    BY <2>1 DEF QueuesFilled
<1>4. CASE BlankPixel
  BY <1>4 DEF BlankPixel
<1>5. CASE SpritePhase
  <2>1. phase' = "tiles" /\ pdot' = 0
    BY <1>5 DEF SpritePhase
  <2> QED
    BY <2>1 DEF QueuesFilled
<1>6. CASE NextRow
  <2>1. /\ phase = "tiles" /\ pdot = 16 /\ phase' = "draw" /\ pdot' = 0 /\ lit = "yes"
        /\ UNCHANGED <<pattern_queue, attribute_queue>>
    BY <1>6 DEF NextRow, queues
  <2> QED
    BY <2>1 DEF QueuesFilled, InRegisters
<1>7. CASE EvaluateSprites \/ WriteMaskBits \/ WriteFine \/ UNCHANGED pixelVars
  <2>1. UNCHANGED <<vline, phase, pdot, pattern_queue, attribute_queue, lit>>
    BY <1>7 DEF EvaluateSprites, WriteMaskBits, WriteFine, pixelVars, raster, queues
  <2> QED
    BY <2>1 DEF QueuesFilled, InRegisters, FirstTile
<1> QED
  BY <1>1, <1>2, <1>3, <1>4, <1>5, <1>6, <1>7 DEF PixelNext

\* What every dot keeps of the picture, for any number of tiles and sprites.
THEOREM PixelInvariant == PixelSpec => []PixelInv
<1>1. PixelInit => PixelInv
  <2> SUFFICES ASSUME PixelInit PROVE PixelInv
    OBVIOUS
  <2>1. PixelType /\ PixelFlags
    BY PixelTypeInit
  <2>2. secondary = <<>> /\ wanted = <<>> /\ lit = "no"
    BY DEF PixelInit
  <2>3. LeftMost
    BY <2>2 DEF LeftMost
  <2> QED
    BY <2>1, <2>2, <2>3 DEF PixelInv, SpritesLoaded, TilesFetched, QueuesFilled
<1>2. PixelInv /\ [PixelNext]_pixelVars => PixelInv'
  BY PixelTypeNext, LeftMostNext, SpritesLoadedNext, TilesFetchedNext, QueuesFilledNext
     DEF PixelInv
<1> QED
  BY <1>1, <1>2, PTL DEF PixelSpec

\* render_pixel(), select_pixel() and the shift registers: every dot of a line
\* rendered from its first fetch shows the pixel that scroll, masks and OAM
\* name, and sprite zero hits exactly there.
THEOREM PictureInPlaceHolds == PixelSpec => PictureInPlace
<1> DEFINE Step == DrawDot /\ lit = "yes" =>
          /\ shown' = [bg |-> TileAt(pdot), sprite |-> FrontMost(pdot)]
          /\ sprite0' <=> \/ sprite0
                          \/ /\ pdot < Width - 1 /\ Opaque(TileAt(pdot))
                             /\ \E s \in DOMAIN wanted :
                                   wanted[s].zero /\ InPicture(wanted[s], pdot)
<1>1. PixelInv => Step
  BY DrawDotShows
<1>2. PixelInv /\ [PixelNext]_pixelVars => [Step]_pixelVars
  BY <1>1
<1> QED
  BY <1>2, PixelInvariant, PTL DEF PixelSpec, PictureInPlace
==============================================================================
