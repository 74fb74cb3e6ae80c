----------------------------- MODULE AsicBoards -----------------------------
(***************************************************************************)
(* The boards whose paging is done by a chip of its own. Their interrupt   *)
(* registers are other ports of the same handlers: they change nothing     *)
(* that is mapped and are in BoardTimers (and, for MMC3, in Mmc3).         *)
(***************************************************************************)
EXTENDS Paging

Zeros(S) == [i \in S |-> 0]

\* Bits 0-3 or 4-7 of a register that is written in halves.
SetLow(old, v) == old - (old % 16) + Bits(v, 0, 4)
SetHigh(old, v) == (old % 16) + (16 * Bits(v, 0, 4))

(* ------------------------------------------------------------------- MMC1 *)

\* Every fifth bit is committed, at the register its address names, and the
\* whole map follows the registers. Without CHR ROM only the 4K mode moves
\* the pattern tables.
Shown1(b) ==
  LET r == b.reg.r
      arranged ==
        Mirror(b, <<SingleLow, SingleHigh, Vertical, Horizontal>>[1 + Bits(r[0], 0, 2)])
      patterned ==
        CASE b.banks > 0 /\ Bit(r[0], 4) = 1 -> Chr(Chr(arranged, 0, 4, r[1]), 4, 4, r[2])
          [] b.banks > 0 /\ Bit(r[0], 4) = 0 -> Chr(arranged, 0, 8, r[1] \div 2)
          [] b.banks = 0 /\ Bit(r[0], 4) = 1 ->
               ChrRam(ChrRam(arranged, 0, 4, r[1] % 2), 4, 4, r[2] % 2)
          [] OTHER -> arranged
      bank == Bits(r[3], 0, 4)
  IN  CASE Bits(r[0], 2, 2) = 2 -> Prg(Prg(patterned, 8, 2, 0), 12, 2, bank)
        [] Bits(r[0], 2, 2) = 3 -> Prg(Prg(patterned, 8, 2, bank), 12, 2, 15)
        [] OTHER -> Prg(patterned, 8, 4, bank \div 2)

\* A reset that forgets the bits and not how many there were.
Write1KeepsCount(b, a, v, gap) ==
  IF gap <= 1 THEN b
  ELSE IF Bit(v, 7) = 1
  THEN Shown1([b EXCEPT !.reg.latch = 0, !.reg.r[0] = @ + (12 - (4 * Bits(@, 2, 2)))])
  ELSE LET latch == b.reg.latch + (2^(b.reg.count) * Bit(v, 0))
       IN  IF b.reg.count < 4
           THEN [b EXCEPT !.reg.latch = latch, !.reg.count = @ + 1]
           ELSE Shown1([b EXCEPT !.reg.r[(Digit(a) - 8) \div 2] = latch,
                                 !.reg.latch = 0, !.reg.count = 0])

\* `gap': CPU cycles since the port was written last. The second write of a
\* read-modify-write instruction comes one cycle after the first.
Write1(b, a, v, gap) ==
  IF gap <= 1 THEN b
  ELSE IF Bit(v, 7) = 1
  THEN Shown1([b EXCEPT !.reg.latch = 0, !.reg.count = 0,
                        !.reg.r[0] = @ + (12 - (4 * Bits(@, 2, 2)))])
  ELSE LET latch == b.reg.latch + (2^(b.reg.count) * Bit(v, 0))
       IN  IF b.reg.count < 4
           THEN [b EXCEPT !.reg.latch = latch, !.reg.count = @ + 1]
           ELSE Shown1([b EXCEPT !.reg.r[(Digit(a) - 8) \div 2] = latch,
                                 !.reg.latch = 0, !.reg.count = 0])

\* The constructor ends with a reset of the port; the gap is the number of
\* cycles the CPU has run, 1 when no cartridge was in before.
Power1(cart, gap) ==
  Write1(Patterns(FirstAndLast(Blank(cart, [r |-> Zeros(0..3), latch |-> 0, count |-> 0]))),
         \h8000, \h80, gap)

(* ------------------------------------------------------- MMC3 (4, 118, 245) *)

Power4(cart) ==
  Patterns(FirstAndLast(Blank(cart,
    [command |-> 0, chr |-> Zeros(0..7), prg |-> <<0, 0>>,
     enabled |-> FALSE, writable |-> FALSE])))

PrgBank4(b, i) ==
  LET banks == <<b.reg.prg[1], b.reg.prg[2], 254, 255>>
  IN  IF i % 2 = 1 \/ Bit(b.reg.command, 6) = 0 THEN banks[1 + i] ELSE banks[1 + (2 - i)]
ChrBank4(b, i) == b.reg.chr[IF Bit(b.reg.command, 7) = 1 THEN (i + 4) % 8 ELSE i]

Shown4(b) ==
  [b EXCEPT
    !.prg = [s \in PrgSlots |-> IF s = 6 THEN @[s]
                                ELSE PrgBank4(b, (s - 8) \div 2) % b.pages],
    !.chr = [s \in ChrSlots |-> IF b.banks > 0 THEN <<"rom", ChrBank4(b, s) % b.banks>>
                                ELSE <<"ram", ChrBank4(b, s)>>]]

\* The mode bits are in the command; what is mapped is brought in line with
\* them at the next write of the data port.
Data4(b, v) ==
  LET c == Bits(b.reg.command, 0, 3)
      even == v - (v % 2)
  IN  Shown4(
        CASE c \in {0, 1} -> [b EXCEPT !.reg.chr[2 * c] = even, !.reg.chr[1 + (2 * c)] = even + 1]
          [] c \in 2..5 -> [b EXCEPT !.reg.chr[c + 2] = v]
          [] OTHER -> [b EXCEPT !.reg.prg[c - 5] = Bits(v, 0, 6)])

Write4(b, a, v) ==
  CASE Digit(a) \in {8, 9} /\ Bit(a, 0) = 0 -> [b EXCEPT !.reg.command = v]
    [] Digit(a) \in {8, 9} /\ Bit(a, 0) = 1 -> Data4(b, v)
    [] Digit(a) \in {10, 11} /\ b.id # 118 /\ Bit(a, 0) = 0 ->
         IF b.mir = FourScreen THEN b ELSE HorizontalIf(b, Bit(v, 0))
    [] Digit(a) \in {10, 11} /\ b.id # 118 /\ Bit(a, 0) = 1 ->
         [b EXCEPT !.reg.enabled = (Bit(v, 7) = 1), !.reg.writable = (Bit(v, 6) = 0)]
    [] OTHER -> b

(* --------------------------------------------------- VRC2, VRC4 and VRC6 *)

PowerVrc(cart) ==
  RomPatterns(FirstAndLast(Blank(cart, [chr |-> [i \in 0..7 |-> i],
                                        prg |-> 0, mode |-> 0, latch |-> 0])))

\* Boards of one chip differ in the address lines its two pins are on; these
\* handlers pass an access on with A0 and A1 exchanged.
Pins22(a) == (2 * Bit(a, 0)) + Bit(a, 1)
Pins25(a) == Pins22(a)
Pins26(a) == Pins22(a)

Pin2(b, a) == CASE b.id = 22 -> Pins22(a) [] b.id = 25 -> Pins25(a) [] OTHER -> a % 4

WriteVrc2(b, a, v) ==
  LET port == Pin2(b, a)
      bank == (2 * (Digit(a) - 11)) + (port \div 2)
      value == IF port % 2 = 0 THEN SetLow(b.reg.chr[bank], v) ELSE SetHigh(b.reg.chr[bank], v)
  IN  CASE Digit(a) = 6 -> [b EXCEPT !.reg.latch = Bit(v, 0)]
        [] Digit(a) \in {8, 10} -> Prg(b, Digit(a), 1, Bits(v, 0, 5))
        [] Digit(a) = 9 -> MirrorCode(b, Bits(v, 0, 2))
        [] Digit(a) \in 11..14 ->
             Chr([b EXCEPT !.reg.chr[bank] = value], bank, 1,
                 IF b.id = 22 THEN value \div 2 ELSE value)
        [] OTHER -> b

\* 21 passes on what A2 and A3 name, if it is 0 or 4, and 27 twice what A0
\* and A1 name; VRC4 looks at A2 and A3 again. What is left is 0 or 4: the
\* ports for the high halves are never reached.
Port21(a) == 4 * Bits(a, 2, 2)
Port27(a) == 4 * Bit(a, 1)
Reached4 == {0, 4}
Port4(b, a) == IF b.id = 21 THEN Port21(a) ELSE Port27(a)

SyncPrgVrc4(b) ==
  LET bank == Bits(b.reg.prg, 0, 5)
  IN  IF Bit(b.reg.mode, 1) = 1 THEN Prg(Prg(b, 12, 1, bank), 8, 1, -2)
      ELSE Prg(Prg(b, 8, 1, bank), 12, 1, -2)

WriteVrc4(b, a, v) ==
  LET port == Port4(b, a)
      bank == (2 * (Digit(a) - 11)) + (port \div 4)
  IN  IF port \notin Reached4 THEN b ELSE
      CASE Digit(a) = 8 -> SyncPrgVrc4([b EXCEPT !.reg.prg = v])
        [] Digit(a) = 9 /\ port = 4 -> SyncPrgVrc4([b EXCEPT !.reg.mode = v])
        [] Digit(a) = 9 /\ port = 0 -> MirrorCode(b, Bits(v, 0, 2))
        [] Digit(a) = 10 -> Prg(b, 10, 1, Bits(v, 0, 5))
        [] Digit(a) \in 11..14 ->
             LET value == SetLow(b.reg.chr[bank], v)
             IN  Chr([b EXCEPT !.reg.chr[bank] = value], bank, 1, value)
        [] OTHER -> b

WriteVrc6(b, a, v) ==
  LET port == IF b.id = 26 THEN Pins26(a) ELSE a % 4
  IN  CASE Digit(a) = 8 -> Prg(b, 8, 2, Bits(v, 0, 4))
        [] Digit(a) = 11 /\ port = 3 -> MirrorCode(b, Bits(v, 2, 2))
        [] Digit(a) = 12 -> Prg(b, 12, 1, Bits(v, 0, 5))
        [] Digit(a) \in {13, 14} -> Chr(b, (4 * (Digit(a) - 13)) + port, 1, v)
        [] OTHER -> b

(* --------------------------------------------------- Bandai (16 and 159) *)

PowerBandai(cart) == RamPatterns(FirstAndLast(Blank(cart, [none |-> 0])))
WriteBandai(b, a, v) ==
  LET port == Bits(a, 0, 4)
  IN  CASE Digit(a) < 6 -> b
        [] Digit(a) >= 6 /\ port < 8 -> Chr(b, port, 1, v)
        [] Digit(a) >= 6 /\ port = 8 -> Prg(b, 8, 2, v)
        [] Digit(a) >= 6 /\ port = 9 -> MirrorCode(b, Bits(v, 0, 2))
        [] OTHER -> b

(* ------------------------------------------------------------ SS88006 (18) *)

Power18(cart) ==
  Patterns(FirstAndLast(Blank(cart, [prg |-> Zeros(0..7), chr |-> Zeros(0..15)])))

Pair(f, i) == f[i] + (16 * f[i + 1])
Write18(b, a, v) ==
  LET half == a % 4
      nibble == Bits(v, 0, 4)
      i == (4 * (Digit(a) - 10)) + half
      p == [b.reg.prg EXCEPT ![(4 * (Digit(a) - 8)) + half] = nibble]
      c == [b.reg.chr EXCEPT ![i] = nibble]
      first == 2 * (Digit(a) - 10)
  IN  CASE Digit(a) = 8 ->
             LET p8 == IF Bits(a, 2, 2) = 0 THEN p ELSE b.reg.prg
             IN  Prg(Prg([b EXCEPT !.reg.prg = p8], 8, 1, Pair(p8, 0)), 10, 1, Pair(p8, 2))
        [] Digit(a) = 9 ->
             LET p9 == IF Bits(a, 1, 3) = 0 THEN p ELSE b.reg.prg
             IN  Prg([b EXCEPT !.reg.prg = p9], 12, 1, Pair(p9, 4))
        [] Digit(a) \in 10..13 ->
             Chr(Chr([b EXCEPT !.reg.chr = c], first, 1, Pair(c, 2 * first)),
                 first + 1, 1, Pair(c, 2 * (first + 1)))
        [] Digit(a) = 15 /\ Bits(a, 0, 12) = 2 ->
             Mirror(b, <<Horizontal, Vertical, SingleLow, SingleHigh>>[1 + Bits(v, 0, 2)])
        [] OTHER -> b

(* --------------------------------------------------------------- N163 (19) *)

Power19(cart) ==
  Patterns(Prg(FirstBank(Blank(cart, [mirroring |-> 0])), 14, 1, -1))

\* Each quarter of the nametables has a port; only its lowest bit counts.
Write19(b, a, v) ==
  LET odd == Bit(a, 11)
      quarter == (2 * (Digit(a) - 12)) + odd
      mirroring == b.reg.mirroring
                     + (4^quarter * (Bit(v, 0) - Bits(b.reg.mirroring, 2 * quarter, 2)))
  IN  CASE Digit(a) \in 8..11 -> Chr(b, (2 * (Digit(a) - 8)) + odd, 1, v)
        [] Digit(a) \in {12, 13} -> Mirror([b EXCEPT !.reg.mirroring = mirroring], mirroring)
        [] Digit(a) = 14 -> Prg(b, 8 + (2 * odd), 1, v)
        [] Digit(a) = 15 /\ odd = 0 -> Prg(b, 12, 1, v)
        [] OTHER -> b

(* ------------------------------------------------------------ RAMBO-1 (64) *)

\* Registers 0 to 7 and 15 are R0-R7 and RF; 8 and 9 are the odd halves of
\* the first two double banks.
Power64(cart) ==
  RomPatterns(FirstAndLast(Blank(cart,
    [command |-> 0, r |-> [i \in (0..9) \cup {15} |->
       CASE i < 6 -> i [] i \in {6, 7} -> i - 6 [] i \in {8, 9} -> i - 2 [] OTHER -> 254]])))

Shown64(b) ==
  LET r == b.reg.r
      double == Bit(b.reg.command, 5) = 0
      half == IF double
              THEN <<r[0] - (r[0] % 2), r[0] - (r[0] % 2) + 1,
                     r[1] - (r[1] % 2), r[1] - (r[1] % 2) + 1>>
              ELSE <<r[0], r[8], r[1], r[9]>>
      banks == half \o <<r[2], r[3], r[4], r[5]>>
      pages == IF Bit(b.reg.command, 6) = 1 THEN <<r[15], r[6], r[7]>> ELSE <<r[6], r[7], r[15]>>
      turned == IF Bit(b.reg.command, 7) = 1 THEN 4 ELSE 0
  IN  [b EXCEPT
        !.prg = [s \in PrgSlots |-> IF s \in {6, 14} THEN @[s]
                                    ELSE pages[(s - 6) \div 2] % b.pages],
        !.chr = [s \in ChrSlots |-> IF b.banks = 0 THEN @[s]
                                    ELSE <<"rom", banks[1 + ((s + turned) % 8)] % b.banks>>]]

Write64(b, a, v) ==
  LET c == Bits(b.reg.command, 0, 4)
  IN  CASE Digit(a) \in {8, 9} /\ Bit(a, 0) = 0 -> Shown64([b EXCEPT !.reg.command = v])
        [] Digit(a) \in {8, 9} /\ Bit(a, 0) = 1 ->
             Shown64(IF c \in DOMAIN b.reg.r THEN [b EXCEPT !.reg.r[c] = v] ELSE b)
        [] Digit(a) \in {10, 11} /\ Bit(a, 0) = 0 -> HorizontalIf(b, Bit(v, 0))
        [] OTHER -> b

(* -------------------------------------------------------------- FME-7 (69) *)

Power69(cart) ==
  Patterns(FirstAndLast(Prg(Blank(cart, [command |-> 0, mode |-> 0]), 6, 1, 0)))

Write69(b, a, v) ==
  LET c == Bits(b.reg.command, 0, 4)
  IN  CASE Digit(a) = 8 -> [b EXCEPT !.reg.command = v]
        [] Digit(a) = 10 /\ c < 8 -> Chr(b, c, 1, v)
        [] Digit(a) = 10 /\ c = 8 -> Prg([b EXCEPT !.reg.mode = v], 6, 1, Bits(v, 0, 6))
        [] Digit(a) = 10 /\ c \in 9..11 -> Prg(b, 8 + (2 * (c - 9)), 1, v)
        [] Digit(a) = 10 /\ c = 12 -> MirrorCode(b, Bits(v, 0, 2))
        [] OTHER -> b

\* What the CPU reads at $6000.
Window69(b) ==
  CASE Bits(b.reg.mode, 6, 2) = 0 -> <<"rom", b.prg[6]>>
    [] Bits(b.reg.mode, 6, 2) = 3 -> <<"ram", 0>>
    [] OTHER -> Nothing

(* ------------------------------------------------------- JY-ASIC (90) *)

Power90(cart) ==
  RomPatterns(FirstAndLast(Blank(cart,
    [prg |-> Zeros(0..3), low |-> Zeros(0..7), high |-> Zeros(0..7),
     banks |-> 0, mode |-> 0, factors |-> <<0, 0>>, ram |-> 0])))

\* The seven bits of a page number in the other order.
Reversed7(n) ==
  Bit(n, 6) + (2 * Bit(n, 5)) + (4 * Bit(n, 4)) + (8 * Bit(n, 3))
    + (16 * Bit(n, 2)) + (32 * Bit(n, 1)) + (64 * Bit(n, 0))

SyncPrg90(b) ==
  LET p == b.reg.prg
      size == Bits(b.reg.banks, 0, 2)
      last == Bit(b.reg.banks, 2) = 0
      page(i) == IF size = 3 THEN Reversed7(p[i]) ELSE p[i]
      low == CASE size = 0 -> Prg(b, 6, 1, (4 * p[3]) + 3)
               [] size = 1 -> Prg(b, 6, 1, (2 * p[3]) + 1)
               [] OTHER -> Prg(b, 6, 1, page(3))
      high == CASE size = 0 -> Prg(low, 8, 4, IF last THEN -1 ELSE p[3])
                [] size = 1 -> Prg(Prg(low, 8, 2, p[1]), 12, 2, IF last THEN -1 ELSE p[3])
                [] OTHER -> Prg(Prg(Prg(Prg(low, 8, 1, page(0)), 10, 1, page(1)),
                                    12, 1, page(2)), 14, 1, IF last THEN -1 ELSE page(3))
  IN  IF Bit(b.reg.banks, 6) = 1 THEN high ELSE [high EXCEPT !.prg[6] = Open]

\* In the mirrored arrangement a few slots of the second half repeat the
\* registers of the first.
SyncChr90(b) ==
  LET size == <<8, 4, 2, 1>>[1 + Bits(b.reg.banks, 3, 2)]
      repeats == CASE Bit(b.reg.mode, 7) = 0 -> {}
                   [] size = 2 -> {4} [] size = 1 -> {4, 5} [] OTHER -> {}
      register(s) == IF s \in repeats THEN s - 4 ELSE s
      bank(s) == b.reg.low[register(s)] + (256 * b.reg.high[register(s)])
      first(s) == s - (s % size)
  IN  IF b.banks = 0 THEN b
      ELSE [b EXCEPT !.chr = [s \in ChrSlots |->
              <<"rom", ((bank(first(s)) * size) + (s % size)) % b.banks>>]]

\* $D000 and $D003 change the arrangement of the CHR banks too, and only the
\* PRG pages are brought in line.
Write90(b, a, v) ==
  LET i == Bits(a, 0, 3)
  IN  CASE Digit(a) = 5 /\ a \in {\h5800, \h5801} -> [b EXCEPT !.reg.factors[1 + (a % 2)] = v]
        [] Digit(a) = 5 /\ a = \h5803 -> [b EXCEPT !.reg.ram = v]
        [] Digit(a) = 8 -> SyncPrg90([b EXCEPT !.reg.prg[i % 4] = Bits(v, 0, 7)])
        [] Digit(a) = 9 -> SyncChr90([b EXCEPT !.reg.low[i] = v])
        [] Digit(a) = 10 -> SyncChr90([b EXCEPT !.reg.high[i] = v])
        [] Digit(a) = 13 /\ a % 4 = 0 ->
             SyncPrg90([b EXCEPT !.reg.banks = v - (32 * Bit(v, 5))])
        [] Digit(a) = 13 /\ a % 4 = 1 -> SyncPrg90(MirrorCode(b, Bits(v, 0, 2)))
        [] Digit(a) = 13 /\ a % 4 = 2 -> SyncPrg90(b)
        [] Digit(a) = 13 /\ a % 4 = 3 -> SyncPrg90([b EXCEPT !.reg.mode = v])
        [] OTHER -> b

(* ------------------------------------------------------------------- MMC5 *)

\* `window': the 4K block of which RAM chip covers a 4K slot of the CPU.
NoWindow == <<Open, 0>>
Power5(cart) ==
  LET reg == [prgMode |-> 3, chrMode |-> 0, upper |-> 0, last |-> "A",
              bg |-> Zeros(0..7), sp |-> Zeros(0..7), window |-> [s \in 6..13 |-> NoWindow]]
  IN  Prg(Prg(Prg(Prg(Blank(cart, reg), 8, 1, -1), 10, 1, -1), 12, 1, -1), 14, 1, -1)

\* The banks a pattern is read from while sprites are small: the set that
\* was written last. (Mmc5 has the choice for large ones.) A bank is named by
\* the last of the registers its slots have.
Shown5(b) ==
  LET set == IF b.reg.last = "A" THEN b.reg.sp ELSE b.reg.bg
      size == 8 \div 2^(b.reg.chrMode)
      number(s) == set[s - (s % size) + size - 1] + b.reg.upper
  IN  [b EXCEPT !.chr = [s \in ChrSlots |->
         <<"rom", ((number(s) * size) + (s % size)) % b.banks>>]]

\* RAM over slots of 4K; both halves of an 8K window are the same block.
Covered(b, slot, blocks, v) ==
  LET start == ((v % 4) * blocks) % 8
  IN  [b EXCEPT !.reg.window = [s \in 6..13 |->
         IF s \in slot..(slot + blocks - 1)
         THEN <<Bit(v, 2), start + (IF blocks = 4 THEN s - slot ELSE 0)>> ELSE @[s]]]
Uncovered(b, slots) ==
  [b EXCEPT !.reg.window = [s \in 6..13 |-> IF s \in slots THEN NoWindow ELSE @[s]]]

RomOrRam(b, slot, blocks, v) ==
  IF Bit(v, 7) = 0 THEN Covered(b, slot, blocks, v)
  ELSE Prg(Uncovered(b, slot..(slot + blocks - 1)), slot, blocks \div 2,
           Bits(v, 0, 7) \div (blocks \div 2))

\* $5114 to $5117; a change of the mode shows at the next of these writes.
WritePrg5(b, a, v) ==
  LET mode == b.reg.prgMode
  IN  CASE a = \h5114 /\ mode = 3       -> RomOrRam(b, 8, 2, v)
        [] a = \h5115 /\ mode \in {1, 2} -> RomOrRam(b, 8, 4, v)
        [] a = \h5115 /\ mode = 3       -> RomOrRam(b, 10, 2, v)
        [] a = \h5116 /\ mode \in {2, 3} -> RomOrRam(b, 12, 2, v)
        [] a = \h5117 /\ mode = 0 -> Prg(Uncovered(b, 8..13), 8, 4, Bits(v, 2, 5))
        [] a = \h5117 /\ mode = 1 -> Prg(Uncovered(b, 12..13), 12, 2, Bits(v, 1, 6))
        [] a = \h5117 /\ mode \in {2, 3} -> Prg(b, 14, 1, Bits(v, 0, 7))
        [] OTHER -> b

Write5(b, a, v) ==
  LET i == a % 8
  IN  CASE a = \h5100 -> [b EXCEPT !.reg.prgMode = v % 4]
        [] a = \h5101 -> Shown5([b EXCEPT !.reg.chrMode = v % 4])
        [] a = \h5105 -> Mirror(b, v)
        [] a = \h5113 -> Covered(b, 6, 2, v)
        [] a \in \h5114..\h5117 -> WritePrg5(b, a, v)
        [] a \in \h5120..\h5127 -> Shown5([b EXCEPT !.reg.last = "A", !.reg.sp[i] = v])
        [] a \in \h5128..\h512f ->
             Shown5([b EXCEPT !.reg.last = "B", !.reg.bg[i] = v, !.reg.bg[(i + 4) % 8] = v])
        [] a = \h5130 -> Shown5([b EXCEPT !.reg.upper = 256 * v])
        [] OTHER -> b

(* --------------------------------------------------------------- dispatch *)

AsicBoards == {1, 4, 5, 16, 18, 19, 21, 22, 23, 24, 25, 26, 27, 64, 69, 90, 118, 159, 245}

\* `gap' as in Write1.
AsicPower(cart, gap) ==
  CASE cart.id = 1 -> Power1(cart, gap)
    [] cart.id \in {4, 118, 245} -> Power4(cart)
    [] cart.id = 5 -> Power5(cart)
    [] cart.id \in 21..27 -> PowerVrc(cart)
    [] cart.id \in {16, 159} -> PowerBandai(cart)
    [] cart.id = 18 -> Power18(cart)
    [] cart.id = 19 -> Power19(cart)
    [] cart.id = 64 -> Power64(cart)
    [] cart.id = 69 -> Power69(cart)
    [] cart.id = 90 -> Power90(cart)

AsicWrite(b, a, v, gap) ==
  CASE b.id = 1 /\ a >= \h8000 -> Write1(b, a, v, gap)
    [] b.id \in {4, 118, 245} -> Write4(b, a, v)
    [] b.id = 5 -> Write5(b, a, v)
    [] b.id \in {22, 23, 25} -> WriteVrc2(b, a, v)
    [] b.id \in {21, 27} /\ a >= \h8000 -> WriteVrc4(b, a, v)
    [] b.id \in {24, 26} /\ a >= \h8000 -> WriteVrc6(b, a, v)
    [] b.id \in {16, 159} -> WriteBandai(b, a, v)
    [] b.id = 18 /\ a >= \h8000 -> Write18(b, a, v)
    [] b.id = 19 /\ a >= \h8000 -> Write19(b, a, v)
    [] b.id = 64 /\ a >= \h8000 -> Write64(b, a, v)
    [] b.id = 69 /\ a >= \h8000 -> Write69(b, a, v)
    [] b.id = 90 -> Write90(b, a, v)
    [] OTHER -> b
==============================================================================
