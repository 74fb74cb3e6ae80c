--------------------------- MODULE DiscreteBoards ---------------------------
(***************************************************************************)
(* The boards built of a few latches: for each mapper what its constructor *)
(* maps and what a CPU write does (PowerNNN, WriteNNN). Handlers that only *)
(* differ in the digit of the address they are named after are one         *)
(* operator; DiscreteWrite says which digits a board decodes.              *)
(***************************************************************************)
EXTENDS Paging

CONSTANT RomByte(_, _)      \* the byte of a page at an address of the CPU

NoReg == << >>

\* The bits two bytes share: `&'.
Common(x, y) ==
  LET both(n) == IF Bit(x, n) = 1 /\ Bit(y, n) = 1 THEN 2^n ELSE 0
  IN  both(0) + both(1) + both(2) + both(3) + both(4) + both(5) + both(6) + both(7)

(* ------------------------------------------------------------- power on *)

Power0(cart) == Patterns(FirstAndLast(Blank(cart, NoReg)))
PowerRamHalf(cart) == RamPatterns(FirstAndLast(Blank(cart, NoReg)))
PowerRomHalf(cart) == RomPatterns(FirstAndLast(Blank(cart, NoReg)))
PowerRomWhole(cart) == RomPatterns(FirstBank(Blank(cart, NoReg)))
PowerWhole(cart) == Patterns(FirstBank(Blank(cart, NoReg)))
Power7(cart) == RamPatterns(Prg(Blank(cart, NoReg), 8, 4, -1))
Power13(cart) == ChrRam(ChrRam(FirstAndLast(Blank(cart, NoReg)), 0, 4, 0), 4, 4, 1)
Power15(cart) == RamPatterns(FirstBank(Blank(cart, NoReg)))

(* ---------------------------------- one latch, in the value or the address *)

Write2(b, v) == Prg(b, 8, 2, v)
Write3(b, v) == Chr(b, 0, 8, v)
Write7(b, v) == HighIf(Prg(b, 8, 4, v), Bit(v, 4))
Write11(b, v) == Chr(Prg(b, 8, 4, Bits(v, 0, 2)), 0, 8, Bits(v, 4, 4))
\* Without its mask the bank lies behind the RAM of the board.
Write13Unmasked(b, v) == ChrRam(b, 4, 4, v)
Write13(b, v) == ChrRam(b, 4, 4, Bits(v, 0, 2))

\* Four ways to spread one page number; in the first the second half takes
\* the odd neighbour, in the second it stays on the last page.
Write15(b, a, v) ==
  LET bank == Bits(v, 0, 6)
      odd == bank + 1 - (bank % 2)
      paged ==
        CASE Bits(a, 0, 2) = 0 -> Prg(Prg(b, 8, 2, bank), 12, 2, odd)
          [] Bits(a, 0, 2) = 1 -> Prg(Prg(b, 8, 2, bank), 12, 2, -1)
          [] Bits(a, 0, 2) = 2 ->
               [b EXCEPT !.prg = [s \in PrgSlots |->
                  IF s = 6 THEN @[s] ELSE ((2 * bank) + Bit(v, 7)) % b.pages]]
          [] OTHER -> Prg(Prg(b, 8, 2, bank), 12, 2, bank)
  IN  HorizontalIf(paged, Bit(v, 6))

WriteBNROM(b, v) == Prg(b, 8, 4, v)
WriteNINA(b, a, v) ==
  CASE a = \h7ffd -> Prg(b, 8, 4, v)
    [] a = \h7ffe -> Chr(b, 0, 4, v)
    [] a = \h7fff -> Chr(b, 4, 4, v)
    [] OTHER -> b

Write43(b, a) == Prg(b, 8, 4, Bits(a, 0, 8))

\* Both mirrored halves take the page in the mode of bit 6.
Write58(b, a) ==
  LET bank == Bits(a, 0, 3)
      paged == IF Bit(a, 6) = 1 THEN Prg(Prg(b, 8, 2, bank), 12, 2, bank)
               ELSE Prg(b, 8, 4, bank)
  IN  Chr(HorizontalIf(paged, Bit(a, 7)), 0, 8, Bits(a, 3, 3))

\* The number of the 16K bank is used as it is in the 32K mode as well.
Write61(b, a) ==
  LET bank == (2 * Bits(a, 0, 4)) + Bit(a, 5)
  IN  HorizontalIf(IF Bit(a, 4) = 1 THEN Prg(Prg(b, 8, 2, bank), 12, 2, bank)
                   ELSE Prg(b, 8, 4, bank), Bit(a, 7))

Write66(b, v) == Chr(Prg(b, 8, 4, Bits(v, 4, 2)), 0, 8, Bits(v, 0, 2))

\* The block select at $8000 is compiled out of both.
Write71(b, v) == Prg(b, 8, 2, Bits(v, 0, 4))
Write232(b, v) == Prg(b, 8, 2, v)

\* $4100-$5FFF with A8: the NINA-03 family; 113 adds the mirroring bit.
Write79(b, v) ==
  Chr(Prg(b, 8, 4, Bits(v, 3, 3)), 0, 8, Bits(v, 0, 3) + (8 * Bit(v, 6)))
Write113(b, v) == HorizontalIf(Write79(b, v), 1 - Bit(v, 7))

Write86(b, v) ==
  Chr(Prg(b, 8, 4, Bits(v, 4, 2)), 0, 8, Bits(v, 0, 2) + (4 * Bit(v, 6)))

\* The ROM drives the bus as well, except for the lowest bit.
Write144(b, a, v) ==
  LET page == b.prg[Digit(a) - (Digit(a) % 2)]
      seen == Common(RomByte(page, a), (2 * Bits(v, 1, 7)) + 1)
  IN  Chr(Prg(b, 8, 4, Bits(seen, 0, 2)), 0, 8, Bits(seen, 4, 4))

Write180(b, v) == Prg(b, 12, 2, Bits(v, 0, 3))
Write201(b, a) == Chr(Prg(b, 8, 4, Bits(a, 0, 8)), 0, 8, Bits(a, 0, 8))

Write231(b, a) ==
  HorizontalIf(Prg(b, 8, 2, (2 * Bits(a, 1, 4)) + Bit(a, 5)), Bit(a, 7))

Write240(b, v) == Chr(Prg(b, 8, 4, Bits(v, 4, 4)), 0, 8, Bits(v, 0, 4))
Write241(b, v) == Prg(b, 8, 4, v)
Write242(b, a) == HorizontalIf(Prg(b, 8, 4, Bits(a, 3, 4)), Bit(a, 1))

\* Three chips of 512K, the second of which is not there; a mapper that pages
\* by itself, in chips and not in the cartridge's address mask.
ChipPages == 64
Chip == [select \in {0, 1, 3} |-> CASE select = 3 -> 2 [] OTHER -> select]

Write228(b, a, v) ==
  LET select == IF b.pages < ChipPages THEN 0 ELSE Bits(a, 11, 2)
      page == Bits(a, 6, 5)
      first == IF Bit(a, 5) = 0 THEN 4 * (page \div 2) ELSE 2 * page
      width == IF Bit(a, 5) = 0 THEN 4 ELSE 2
      shown == Chr(HorizontalIf(b, Bit(a, 13)), 0, 8,
                   (4 * Bits(a, 0, 4)) + Bits(v, 0, 2))
  IN  IF select \notin DOMAIN Chip THEN shown
      ELSE [shown EXCEPT !.prg = [s \in PrgSlots |->
              IF s = 6 THEN @[s]
              ELSE (Chip[select] * ChipPages)
                     + ((first + (((s - 8) \div 2) % width)) % ChipPages)]]

\* The nametable memory shows in the pattern tables: no CHR at all.
Power218(cart) ==
  [FirstAndLast(Blank(cart, NoReg)) EXCEPT !.chr =
     [s \in ChrSlots |-> <<"nametable", s % 4>>]]

(* ------------------------------------------------ boards with registers *)

\* MMC2 and MMC4: two registers for each half of the pattern tables, and a
\* latch that the PPU's reads of two tiles turn.
PowerLatched(cart) ==
  LET reg == [low |-> <<0, 0>>, high |-> <<0, 0>>, latch |-> <<TRUE, TRUE>>]
  IN  IF cart.id = 9
      THEN Patterns(Prg(Prg(Prg(Prg(Blank(cart, reg), 8, 1, 0), 10, 1, -3),
                            12, 1, -2), 14, 1, -1))
      ELSE RomPatterns(FirstAndLast(Blank(cart, reg)))

WriteLatched(b, a, v) ==
  CASE Digit(a) = 10 -> Prg(b, 8, IF b.id = 9 THEN 1 ELSE 2, Bits(v, 0, 4))
    [] Digit(a) \in 11..14 ->
         LET half == (Digit(a) - 9) \div 2
             high == Digit(a) \in {12, 14}
             kept == IF high THEN [b EXCEPT !.reg.high[half] = v]
                     ELSE [b EXCEPT !.reg.low[half] = v]
         IN  IF b.reg.latch[half] = high
             THEN Chr(kept, 4 * (half - 1), 4, Bits(v, 0, 5)) ELSE kept
    [] Digit(a) = 15 -> HorizontalIf(b, Bit(v, 0))
    [] OTHER -> b

\* read_vram: MMC2's left half looks at one line of the tile, the others at
\* all eight. The byte read is the old bank's.
Latches(b, a) ==
  \E tile \in {\h0fd8, \h0fe8, \h1fd8, \h1fe8} :
    IF b.id = 9 /\ tile < \h1000 THEN a = tile ELSE a \in tile..(tile + 7)

ReadPattern(b, a) ==
  LET half == 1 + Bit(a, 12)
      high == Bit(a, 5) = 1
  IN  IF ~Latches(b, a) THEN b
      ELSE Chr([b EXCEPT !.reg.latch[half] = high], 4 * (half - 1), 4,
               IF high THEN b.reg.high[half] ELSE b.reg.low[half])

Power32(cart) ==
  RomPatterns(FirstAndLast(Blank(cart, [p8000 |-> 0, pa000 |-> 0, mode |-> 0])))

SyncPrg32(b) ==
  IF b.reg.mode = 1
  THEN Prg(Prg(Prg(Prg(b, 8, 1, 0), 10, 1, b.reg.pa000), 12, 1, b.reg.p8000),
           14, 1, -1)
  ELSE Prg(Prg(Prg(b, 8, 1, b.reg.p8000), 10, 1, b.reg.pa000), 12, 2, -1)

Write32(b, a, v) ==
  CASE Digit(a) = 8 -> SyncPrg32([b EXCEPT !.reg.p8000 = v])
    [] Digit(a) = 9 ->
         HorizontalIf(SyncPrg32([b EXCEPT !.reg.mode = Bit(v, 1)]), Bit(v, 0))
    [] Digit(a) = 10 -> SyncPrg32([b EXCEPT !.reg.pa000 = v])
    [] Digit(a) = 11 -> Chr(b, Bits(a, 0, 3), 1, v)
    [] OTHER -> b

\* 33 and 48: two PRG pages, two double and four single CHR banks.
WriteTaito(b, a, v) ==
  LET reg == Bits(a, 0, 2) IN
  CASE Digit(a) \in {8, 9} /\ reg < 2 -> Prg(b, 8 + (2 * reg), 1, v)
    [] Digit(a) \in {8, 9} /\ reg >= 2 -> Chr(b, 2 * (reg - 2), 2, v)
    [] Digit(a) \in {10, 11} -> Chr(b, 4 + reg, 1, v)
    [] OTHER -> b

Write33(b, a, v) ==
  IF Digit(a) \in {8, 9} /\ Bits(a, 0, 2) = 0
  THEN HorizontalIf(WriteTaito(b, a, Bits(v, 0, 6)), Bit(v, 6))
  ELSE WriteTaito(b, a, IF Digit(a) \in {8, 9} /\ Bits(a, 0, 2) = 1
                        THEN Bits(v, 0, 6) ELSE v)

\* The mirroring of 48 has a port of its own.
Write48(b, a, v) ==
  IF Digit(a) >= 14
  THEN IF Bits(a, 0, 2) = 0 THEN HorizontalIf(b, Bit(v, 6)) ELSE b
  ELSE WriteTaito(b, a, v)

\* 40 and 50: one page can be changed, with the rest around it.
PowerFixed(b, low, first, last) ==
  Prg(Prg(Prg(Prg(Prg(b, 6, 1, low), 8, 1, first), 10, 1, first + 1), 12, 1, 0), 14, 1, last)
Write40(b, a, v) == IF Digit(a) >= 14 THEN Prg(b, 12, 1, Bits(v, 0, 3)) ELSE b
Write50(b, a, v) ==
  IF Digit(a) \in {4, 5} /\ Bits(a, 5, 2) = 1 /\ Bit(a, 8) = 0
  THEN Prg(b, 12, 1, (4 * Bit(v, 0)) + Bits(v, 1, 2) + (8 * Bit(v, 3)))
  ELSE b

\* The outer bank is in the address; a write of the inner one changes the
\* bank only while bit 2 of the outer one is set.
Power41(cart) == RomPatterns(FirstBank(Blank(cart, [outer |-> 0, inner |-> 0])))
Outer41(b, a, v) ==
  IF Bit(a, 11) = 1 THEN b
  ELSE HorizontalIf(Prg([b EXCEPT !.reg.outer = Bits(a, 0, 6)], 8, 4, Bits(a, 0, 3)),
                    Bit(v, 4))
Inner41(b, v) ==
  LET kept == [b EXCEPT !.reg.inner = v]
  IN  IF Bit(b.reg.outer, 2) = 0 THEN kept
      ELSE Chr(kept, 0, 8, 4 * Bits(b.reg.outer, 3, 2))

Power46(cart) == RomPatterns(FirstAndLast(Blank(cart, [prg |-> 0, chr |-> 0])))
Sync46(b) == Chr(Prg(b, 8, 4, b.reg.prg), 0, 8, b.reg.chr)
Outer46(b, v) ==
  Sync46([b EXCEPT !.reg.prg = (@ % 2) + (2 * Bits(v, 0, 4)),
                   !.reg.chr = (@ % 8) + (8 * Bits(v, 4, 4))])
Inner46(b, v) ==
  Sync46([b EXCEPT !.reg.prg = @ - (@ % 2) + Bit(v, 0),
                   !.reg.chr = @ - (@ % 8) + Bits(v, 4, 3)])

Power57(cart) == RomPatterns(FirstAndLast(Blank(cart, [r \in 0..1 |-> 0])))
Write57(b, a, v) ==
  LET kept == [b EXCEPT !.reg[Bit(a, 11)] = v]
      bank == Bits(kept.reg[1], 5, 3)
      either(n) == IF Bit(kept.reg[0], n) + Bit(kept.reg[1], n) > 0 THEN 2^n ELSE 0
      paged == IF Bit(kept.reg[1], 4) = 1 THEN Prg(kept, 8, 4, bank)
               ELSE Prg(Prg(kept, 8, 2, bank), 12, 2, bank)
  IN  Chr(HorizontalIf(paged, Bit(kept.reg[1], 3)), 0, 8,
          either(0) + either(1) + either(2) + (8 * Bit(kept.reg[0], 6)))

\* Sunsoft-4 can show CHR ROM in the nametables.
Power68(cart) ==
  RomPatterns(FirstAndLast(Blank(cart, [table |-> <<\h80, \h80>>, ctl |-> 0])))
Write68(b, a, v) ==
  CASE Digit(a) \in 8..11 -> Chr(b, 2 * (Digit(a) - 8), 2, v)
    [] Digit(a) \in {12, 13} ->
         [b EXCEPT !.reg.table[Digit(a) - 11] = \h80 + Bits(v, 0, 7)]
    [] Digit(a) = 14 -> HorizontalIf([b EXCEPT !.reg.ctl = v], 1 - Bit(v, 0))
    [] Digit(a) = 15 -> Prg(b, 8, 2, v)
    [] OTHER -> b

Nametable68(b, quarter) ==
  IF Bit(b.reg.ctl, 4) = 0 THEN <<"ram", Nametable(b, quarter)>>
  ELSE LET pick == IF Bit(b.reg.ctl, 0) = 1 THEN quarter \div 2 ELSE quarter % 2
       IN  <<"rom", b.reg.table[1 + pick] % b.banks>>

\* VRC1: the fifth bits of both CHR banks share the mirroring register.
Power75(cart) ==
  RomPatterns(Prg(FirstBank(Blank(cart, [chr |-> <<0, 0>>])), 14, 1, -1))
Sync75(b) == Chr(Chr(b, 0, 4, b.reg.chr[1]), 4, 4, b.reg.chr[2])
\* The fifth bits of the banks wait for the next write of a bank.
Write75KeepsBanks(b, a, v) ==
  CASE Digit(a) \in {8, 10, 12} -> Prg(b, Digit(a), 1, Bits(v, 0, 4))
    [] Digit(a) = 9 ->
         [HorizontalIf(b, Bit(v, 0)) EXCEPT
            !.reg.chr = <<(@[1] % 16) + (16 * Bit(v, 1)), (@[2] % 16) + (16 * Bit(v, 2))>>]
    [] Digit(a) \in {14, 15} ->
         Sync75([b EXCEPT !.reg.chr[Digit(a) - 13] = @ - (@ % 16) + Bits(v, 0, 4)])
    [] OTHER -> b
Write75(b, a, v) ==
  CASE Digit(a) \in {8, 10, 12} -> Prg(b, Digit(a), 1, Bits(v, 0, 4))
    [] Digit(a) = 9 ->
         Sync75([HorizontalIf(b, Bit(v, 0)) EXCEPT
                   !.reg.chr = <<(@[1] % 16) + (16 * Bit(v, 1)),
                                 (@[2] % 16) + (16 * Bit(v, 2))>>])
    [] Digit(a) \in {14, 15} ->
         Sync75([b EXCEPT !.reg.chr[Digit(a) - 13] = @ - (@ % 16) + Bits(v, 0, 4)])
    [] OTHER -> b

\* A command port and a data port. The digit test of 88 and 206 masks the
\* address to its last four bits and compares it with $8000 and $8001: no
\* case is ever taken.
PowerCommand(cart) == RomPatterns(FirstAndLast(Blank(cart, [command |-> 0])))
Write76(b, a, v) ==
  LET command == Bits(b.reg.command, 0, 3)
      bank == Bits(v, 0, 6)
  IN  CASE Bit(a, 0) = 0 -> [b EXCEPT !.reg.command = v]
        [] Bit(a, 0) = 1 /\ command \in 2..5 -> Chr(b, 2 * (command - 2), 2, bank)
        [] Bit(a, 0) = 1 /\ command \in 6..7 -> Prg(b, 8 + (2 * (command - 6)), 1, bank)
        [] OTHER -> b
Ignored(b, a, v) == b

\* The page number comes in halves; the security registers answer $5100 and
\* $5500.
Power163(cart) ==
  Patterns(FirstBank(Blank(cart, [prg |-> 0, security |-> 0, trigger |-> 0,
                                  r5101 |-> 0])))
Write163(b, a, v) ==
  LET port == Bits(a, 8, 2) IN
  IF Bits(a, 12, 3) # 5 THEN b
  ELSE LET kept ==
             CASE port = 0 -> [b EXCEPT !.reg.prg = @ - (@ % 16) + Bits(v, 0, 4)]
               [] port = 2 -> [b EXCEPT !.reg.prg = (@ % 16) + (16 * Bits(v, 0, 4))]
               [] port = 3 -> [b EXCEPT !.reg.security = v]
               [] OTHER -> b
           paged ==
             CASE port \in {0, 2} -> Prg(kept, 8, 4, kept.reg.prg)
               [] port = 1 /\ v = 6 -> Prg(kept, 8, 4, 3)
               [] OTHER -> kept
       IN  IF port # 1 \/ Bit(a, 0) = 0 THEN paged
           ELSE [paged EXCEPT
                   !.reg.trigger = IF b.reg.r5101 # 0 /\ v = 0 THEN 1 - @ ELSE @,
                   !.reg.r5101 = v]

Sync226(b) ==
  LET page == Bits(b.reg[0], 1, 4) + (16 * Bit(b.reg[0], 7)) + (32 * Bit(b.reg[1], 0))
      half == (2 * page) + Bit(b.reg[0], 0)
      shown == HorizontalIf(b, Bit(b.reg[0], 6))
  IN  IF Bit(b.reg[0], 5) = 1 THEN Prg(Prg(shown, 8, 2, half), 12, 2, half)
      ELSE Prg(shown, 8, 4, page)
Power226(cart) == RamPatterns(Sync226(Blank(cart, [r \in 0..1 |-> 0])))
Write226(b, a, v) == Sync226([b EXCEPT !.reg[Bit(a, 0)] = v])

\* $4100 names one of eight registers and $4101 writes it; every data write
\* shows all of them.
Power243(cart) ==
  RomPatterns(FirstAndLast(Blank(cart, [address |-> 0, data |-> [r \in 0..7 |-> 0]])))
Write243(b, a, v) ==
  IF Bit(a, 8) = 0 \/ Digit(a) # 4 THEN b
  ELSE IF Bit(a, 0) = 0 THEN [b EXCEPT !.reg.address = Bits(v, 0, 3)]
  ELSE LET r == [b.reg.data EXCEPT ![b.reg.address] = v]
           kept == [b EXCEPT !.reg.data = r]
           shown == Chr(Prg(kept, 8, 4, Bits(r[5], 0, 3)), 0, 8,
                        (8 * Bit(r[2], 0)) + (2 * Bits(r[6], 0, 2)) + Bit(r[4], 0))
           mir == r[7] \div 2
       IN  IF mir > 3 THEN shown
           ELSE Mirror(shown, <<Horizontal, Vertical, \h15, SingleHigh>>[1 + mir])

(* --------------------------------------------------------------- dispatch *)

DiscreteBoards ==
  {0, 2, 3, 7, 9, 10, 11, 13, 15, 32, 33, 34, 40, 41, 43, 46, 48, 50, 57, 58, 61,
   66, 68, 71, 75, 76, 79, 86, 88, 113, 144, 163, 180, 201, 206, 218, 226, 228, 231, 232,
   240, 241, 242, 243}

DiscretePower(cart) ==
  CASE cart.id \in {0, 34, 58, 61, 241} -> Power0(cart)
    [] cart.id \in {2, 71, 180, 232} -> PowerRamHalf(cart)
    [] cart.id = 40 -> RomPatterns(PowerFixed(Blank(cart, NoReg), 6, 4, 7))
    [] cart.id = 50 -> Patterns(PowerFixed(Blank(cart, NoReg), 15, 8, 11))
    [] cart.id \in {3, 33, 48, 86, 201, 240} -> PowerRomHalf(cart)
    [] cart.id = 57 -> Power57(cart)
    [] cart.id \in {11, 66, 79, 113, 144} -> PowerRomWhole(cart)
    [] cart.id = 43 -> PowerWhole(cart)
    [] cart.id = 7 -> Power7(cart)
    [] cart.id \in {9, 10} -> PowerLatched(cart)
    [] cart.id = 13 -> Power13(cart)
    [] cart.id = 15 -> Power15(cart)
    [] cart.id = 32 -> Power32(cart)
    [] cart.id = 41 -> Power41(cart)
    [] cart.id = 46 -> Power46(cart)
    [] cart.id = 68 -> Power68(cart)
    [] cart.id = 75 -> Power75(cart)
    [] cart.id \in {76, 88, 206} -> PowerCommand(cart)
    [] cart.id = 163 -> Power163(cart)
    [] cart.id = 218 -> Power218(cart)
    [] cart.id = 226 -> Power226(cart)
    [] cart.id = 228 -> Write228(Blank(cart, NoReg), \h8000, 0)
    [] cart.id = 231 ->
         Patterns(Prg(Prg(Blank(cart, NoReg), 8, 2, 0), 12, 2, 0))
    [] cart.id = 242 -> Patterns(Write242(Blank(cart, NoReg), 0))
    [] cart.id = 243 -> Power243(cart)

\* A write at $8000 and above of the boards that look no further.
LatchWrite(b, a, v) ==
  CASE b.id = 2 -> Write2(b, v)       [] b.id = 3 -> Write3(b, v)
    [] b.id = 7 -> Write7(b, v)       [] b.id = 11 -> Write11(b, v)
    [] b.id = 13 -> Write13(b, v)     [] b.id = 15 -> Write15(b, a, v)
    [] b.id = 34 -> IF b.banks = 0 THEN WriteBNROM(b, v) ELSE b
    [] b.id = 40 -> Write40(b, a, v)  [] b.id = 48 -> Write48(b, a, v)
    [] b.id = 41 -> Inner41(b, v)     [] b.id = 43 -> Write43(b, a)
    [] b.id = 46 -> Inner46(b, v)     [] b.id = 57 -> Write57(b, a, v)
    [] b.id = 58 -> Write58(b, a)     [] b.id = 61 -> Write61(b, a)
    [] b.id = 66 -> Write66(b, v)     [] b.id = 76 -> Write76(b, a, v)
    [] b.id = 144 -> Write144(b, a, v) [] b.id = 180 -> Write180(b, v)
    [] b.id = 201 -> Write201(b, a)   [] b.id = 226 -> Write226(b, a, v)
    [] b.id = 228 -> Write228(b, a, v) [] b.id = 231 -> Write231(b, a)
    [] b.id = 241 -> Write241(b, v)   [] b.id = 242 -> Write242(b, a)
    [] b.id \in {71, 232} /\ Digit(a) >= 12 ->
         IF b.id = 71 THEN Write71(b, v) ELSE Write232(b, v)
    [] b.id \in {9, 10} -> WriteLatched(b, a, v)
    [] b.id = 32 -> Write32(b, a, v)  [] b.id = 33 -> Write33(b, a, v)
    [] b.id = 68 -> Write68(b, a, v)  [] b.id = 75 -> Write75(b, a, v)
    [] OTHER -> Ignored(b, a, v)

\* A write below: registers in the expansion area and in the SRAM window.
ExpansionWrite(b, a, v) ==
  CASE b.id = 34 /\ b.banks > 0 -> WriteNINA(b, a, v)
    [] b.id = 41 /\ Digit(a) = 6 -> Outer41(b, a, v)
    [] b.id = 46 /\ Digit(a) \in {6, 7} -> Outer46(b, v)
    [] b.id \in {79, 113} /\ Digit(a) \in {4, 5} /\ Bit(a, 8) = 1 ->
         IF b.id = 79 THEN Write79(b, v) ELSE Write113(b, v)
    [] b.id = 50 -> Write50(b, a, v)
    [] b.id = 86 /\ Digit(a) = 6 -> Write86(b, v)
    [] b.id = 163 -> Write163(b, a, v)
    [] b.id = 240 /\ a > \h4020 /\ Digit(a) \in {4, 5} -> Write240(b, v)
    [] b.id = 243 -> Write243(b, a, v)
    [] OTHER -> b

DiscreteWrite(b, a, v) ==
  IF a >= \h8000 THEN LatchWrite(b, a, v) ELSE ExpansionWrite(b, a, v)
==============================================================================
