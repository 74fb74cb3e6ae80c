---------------------------- MODULE Instructions ----------------------------
(***************************************************************************)
(* What an instruction does to the registers: src/src/opcodes, official    *)
(* and unofficial. A CPU is a record of its registers, c, of a byte each;  *)
(* d is the byte the addressing mode has read. An operator of a store or a *)
(* push gives the byte written; one of a read-modify-write instruction     *)
(* gives both, [cpu, byte].                                                *)
(***************************************************************************)
EXTENDS Integers

CMask == \h01
ZMask == \h02
IMask == \h04
DMask == \h08
BMask == \h10
RMask == \h20
VMask == \h40
NMask == \h80

\* The operators of C: bit by bit, and with one bit.
EachBit(x, y, f(_, _)) ==
  LET bit(n) == 2^n * f((x \div 2^n) % 2, (y \div 2^n) % 2)
  IN  bit(0) + bit(1) + bit(2) + bit(3) + bit(4) + bit(5) + bit(6) + bit(7)
And(x, y) == EachBit(x, y, LAMBDA p, q : IF p = 1 THEN q ELSE 0)
Or(x, y)  == EachBit(x, y, LAMBDA p, q : IF p = 1 THEN 1 ELSE q)
Xor(x, y) == EachBit(x, y, LAMBDA p, q : IF p = q THEN 0 ELSE 1)
Has(v, mask) == (v \div mask) % 2 = 1
Raised(v, mask) == IF Has(v, mask) THEN v ELSE v + mask
Cleared(v, mask) == IF Has(v, mask) THEN v - mask ELSE v

On(c, mask) == Has(c.P, mask)
Carry(c) == IF On(c, CMask) THEN 1 ELSE 0
Negative(v) == Has(v, \h80)
Low(n) == n % \h100          \* cut to a byte
Word(n) == n % \h10000       \* and to a uint_least16_t

\* set_flag_condition, clear_flag
Put(c, mask, on) == [c EXCEPT !.P = IF on THEN Raised(@, mask) ELSE Cleared(@, mask)]
\* update_nz_flags
Nz(c, v) == Put(Put(c, NMask, Negative(v)), ZMask, v = 0)

SetA(c, v) == Nz([c EXCEPT !.A = v], v)
SetX(c, v) == Nz([c EXCEPT !.X = v], v)
SetY(c, v) == Nz([c EXCEPT !.Y = v], v)
Changed(c, v) == [cpu |-> Nz(c, v), byte |-> v]

(* ------------------------------------------------------------- arithmetic *)

Adc(c, d) ==
  LET sum == c.A + d + Carry(c)
      overflow == Negative(c.A) = Negative(d) /\ Negative(c.A) # Negative(sum)
  IN  SetA(Put(Put(c, VMask, overflow), CMask, Has(sum, \h100)), Low(sum))

Sbc(c, d) ==
  LET difference == Word(c.A - d - (1 - Carry(c)))
      overflow == Negative(c.A) # Negative(d) /\ Negative(c.A) # Negative(difference)
  IN  SetA(Put(Put(c, VMask, overflow), CMask, difference < \h100), Low(difference))

\* do_compare
Compare(c, register, d) ==
  LET difference == Word(register - d)
  IN  Nz(Put(c, CMask, ~Has(difference, \h8000)), Low(difference))
Cmp(c, d) == Compare(c, c.A, d)
Cpx(c, d) == Compare(c, c.X, d)
Cpy(c, d) == Compare(c, c.Y, d)

AndA(c, d) == SetA(c, And(c.A, d))
OraA(c, d) == SetA(c, Or(c.A, d))
EorA(c, d) == SetA(c, Xor(c.A, d))
BitA(c, d) ==
  Put(Put(Put(c, ZMask, And(d, c.A) = 0), NMask, Has(d, NMask)), VMask, Has(d, VMask))

(* ------------------------------------------------------ read, modify, write *)

Inc(c, d) == Changed(c, Low(d + 1))
Dec(c, d) == Changed(c, Low(d - 1))
Asl(c, d) == Changed(Put(c, CMask, Has(d, \h80)), Low(2 * d))
Lsr(c, d) == Changed(Put(c, CMask, Has(d, 1)), d \div 2)
Rol(c, d) == Changed(Put(c, CMask, Has(d, \h80)), Low(2 * d) + Carry(c))

Ror(c, d) == Changed(Put(c, CMask, Has(d, 1)), (d \div 2) + (\h80 * Carry(c)))

(* ------------------------------------------------------ loads and transfers *)

Lda(c, d) == SetA(c, d)
Ldx(c, d) == SetX(c, d)
Ldy(c, d) == SetY(c, d)
Sta(c) == c.A
Stx(c) == c.X
Sty(c) == c.Y
Tax(c) == SetX(c, c.A)
Tay(c) == SetY(c, c.A)
Txa(c) == SetA(c, c.X)
Tya(c) == SetA(c, c.Y)
Tsx(c) == SetX(c, c.S)
Txs(c) == [c EXCEPT !.S = c.X]
Inx(c) == SetX(c, Low(c.X + 1))
Iny(c) == SetY(c, Low(c.Y + 1))
Dex(c) == SetX(c, Low(c.X - 1))
Dey(c) == SetY(c, Low(c.Y - 1))

(* -------------------------------------------------------- flags and stack *)

Clc(c) == Put(c, CMask, FALSE)
Sec(c) == Put(c, CMask, TRUE)
Cld(c) == Put(c, DMask, FALSE)
Sed(c) == Put(c, DMask, TRUE)
Cli(c) == Put(c, IMask, FALSE)
Sei(c) == Put(c, IMask, TRUE)
Clv(c) == Put(c, VMask, FALSE)
Nop(c) == c
Pha(c) == c.A
Php(c) == Raised(Raised(c.P, BMask), RMask)
Pla(c, d) == SetA(c, d)

Plp(c, d) == [c EXCEPT !.P = Raised(Cleared(d, BMask), RMask)]

(* ------------------------------------------------------ branch conditions *)

Bcc(c) == ~On(c, CMask)
Bcs(c) == On(c, CMask)
Bne(c) == ~On(c, ZMask)
Beq(c) == On(c, ZMask)
Bpl(c) == ~On(c, NMask)
Bmi(c) == On(c, NMask)
Bvc(c) == ~On(c, VMask)
Bvs(c) == On(c, VMask)

(* ------------------------------------------------------- unofficial opcodes *)

Lax(c, d) == SetX(SetA(c, d), d)
Lar(c, d) == LET r == And(d, c.S) IN [SetX(SetA(c, r), r) EXCEPT !.S = r]
Xaa(c, d) == SetA(c, And(c.X, d))
Aac(c, d) == LET r == AndA(c, d) IN Put(r, CMask, On(r, NMask))
Asr(c, d) == LET r == And(c.A, d) IN SetA(Put(c, CMask, Has(r, 1)), r \div 2)
Arr(c, d) ==
  LET r == (And(c.A, d) \div 2) + (\h80 * Carry(c))
  IN  SetA(Put(Put(c, CMask, Has(r, \h40)),
               VMask, (Has(r, \h40)) # (Has(r, \h20))), r)
Axs(c, d) ==
  LET difference == Word(And(c.X, c.A) - d)
  IN  Put(SetX(c, Low(difference)), CMask, difference < \h100)

\* Read, modify, write, and then an operation on the accumulator.
Both(c, byte) == [cpu |-> c, byte |-> byte]

Slo(c, d) ==
  LET v == Low(2 * d) IN Both(OraA(Put(c, CMask, Has(d, \h80)), v), v)
Sre(c, d) ==
  LET v == d \div 2 IN Both(EorA(Put(c, CMask, Has(d, 1)), v), v)

\* A mutant: the carry shifted in is the one shifted out.
RlaOwnCarry(c, d) ==
  LET v == Low(2 * d) + (d \div \h80)
  IN  Both(AndA(Put(c, CMask, Has(d, \h80)), v), v)

Rla(c, d) ==
  LET v == Low(2 * d) + Carry(c)
  IN  Both(AndA(Put(c, CMask, Has(d, \h80)), v), v)
Rra(c, d) ==
  LET v == (d \div 2) + (\h80 * Carry(c))
      sum == c.A + v + (d % 2)
      overflow == Negative(c.A) = Negative(v) /\ Negative(c.A) # Negative(sum)
  IN  Both(SetA(Put(Put(c, VMask, overflow), CMask, sum > \hff), Low(sum)), v)
Dcp(c, d) == LET v == Low(d - 1) IN Both(Compare(Nz(c, v), c.A, v), v)
Isc(c, d) ==
  LET v == Low(d + 1)
      difference == Word(c.A - v - (1 - Carry(c)))
      overflow == Negative(c.A) # Negative(v) /\ Negative(c.A) # Negative(difference)
  IN  Both(SetA(Put(Put(c, VMask, overflow), CMask, difference < \h100),
                Low(difference)), v)

\* A store of A AND X, and four that AND with the high byte of the address
\* and put what they store there: [cpu, byte, address].
Aax(c) == And(c.A, c.X)
Stored(c, v, address) ==
  [cpu |-> c, byte |-> v, address |-> Low(address) + (\h100 * v)]
High(address) == address \div \h100
Axa(c, address) == Stored(c, And(And(High(address), c.X), c.A), address)
Sxa(c, address) == Stored(c, And(High(address), c.X), address)
Sya(c, address) == Stored(c, And(High(address), c.Y), address)
Xas(c, address) ==
  Stored([c EXCEPT !.S = And(c.X, c.A)], And(And(High(address), c.X), c.A), address)
=============================================================================
