------------------------------- MODULE Paging -------------------------------
(***************************************************************************)
(* The address spaces of a cartridge, as the base class Mapper keeps them. *)
(*                                                                         *)
(* A board is a record: the number of its mapper; the sizes of its ROMs,   *)
(* in 8K pages and 1K banks; prg, the page in each 8K slot of the CPU      *)
(* (a slot is named by the first digit of its addresses, 6 to 14); chr,    *)
(* what each 1K slot of the PPU's pattern tables shows; mir, the           *)
(* mirroring control byte; and reg, the registers of the mapper.           *)
(***************************************************************************)
EXTENDS Integers, Sequences

PrgSlots == {6, 8, 10, 12, 14}
ChrSlots == 0..7

Open == -1                  \* a slot nothing is mapped to
Nothing == <<"open", 0>>

SingleLow == \h00
SingleHigh == \h55
Vertical == \h44
Horizontal == \h50
FourScreen == \he4

\* The `n' bits of v above bit `low', and one bit of it.
Bits(v, low, n) == (v \div 2^low) % 2^n
Bit(v, n) == Bits(v, n, 1)

\* The first digit of an address selects the handler, write_4 to write_f.
Digit(a) == Bits(a, 12, 4)

(* ------------------------------------------------------------------ swaps *)

\* set_prg_89 and its kin: `size' pages from `slot' on show bank number num
\* of that size. The mask makes the bank number modulo the size of the ROM,
\* which the cartridge rounds up to a power of two.
Prg(b, slot, size, num) ==
  [b EXCEPT !.prg = [s \in PrgSlots |->
     IF s \in slot..(slot + 2 * size - 1)
     THEN ((num * size) + ((s - slot) \div 2)) % b.pages
     ELSE @[s]]]

\* set_chr_0000_03ff and its kin: without CHR ROM they do nothing.
Chr(b, slot, size, num) ==
  IF b.banks = 0 THEN b
  ELSE [b EXCEPT !.chr = [s \in ChrSlots |->
          IF s \in slot..(slot + size - 1)
          THEN <<"rom", ((num * size) + (s - slot)) % b.banks>>
          ELSE @[s]]]

\* set_chr_0000_03ff_ram and its kin: no mask.
ChrRam(b, slot, size, num) ==
  [b EXCEPT !.chr = [s \in ChrSlots |->
     IF s \in slot..(slot + size - 1)
     THEN <<"ram", (num * size) + (s - slot)>>
     ELSE @[s]]]

\* set_mirroring.
Mirror(b, mir) == [b EXCEPT !.mir = mir]

\* What most mappers ask of a bit of the value or of the address.
HorizontalIf(b, bit) == Mirror(b, IF bit = 1 THEN Horizontal ELSE Vertical)
\* The order in which VRC and several others number the arrangements.
MirrorCode(b, code) ==
  Mirror(b, <<Vertical, Horizontal, SingleLow, SingleHigh>>[1 + code])
HighIf(b, bit) == Mirror(b, IF bit = 1 THEN SingleHigh ELSE SingleLow)

\* The 1K table each quarter of $2000-$2FFF shows; $3000-$3FFF repeats them.
Nametable(b, quarter) == Bits(b.mir, 2 * (quarter % 4), 2)

(* -------------------------------------------------------------- power on *)

\* A board before the constructor of its mapper has run; the base class has
\* set the mirroring of the iNES header.
Blank(cart, reg) ==
  [id |-> cart.id, pages |-> cart.pages, banks |-> cart.banks,
   prg |-> [s \in PrgSlots |-> Open], chr |-> [s \in ChrSlots |-> Nothing],
   mir |-> cart.mir, reg |-> reg]

\* The two beginnings most constructors have, and their pattern tables.
FirstAndLast(b) == Prg(Prg(b, 8, 2, 0), 12, 2, -1)
FirstBank(b) == Prg(b, 8, 4, 0)
RomPatterns(b) == Chr(b, 0, 8, 0)
RamPatterns(b) == ChrRam(b, 0, 8, 0)
Patterns(b) == IF b.banks > 0 THEN RomPatterns(b) ELSE RamPatterns(b)
==============================================================================
