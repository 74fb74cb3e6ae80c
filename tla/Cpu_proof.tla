------------------------------ MODULE Cpu_proof ------------------------------
(***************************************************************************)
(* The composition of the sequencer with DMA keeps the steps of both, for  *)
(* any interrupt sources, instructions and lengths of the copy. And what   *)
(* the unofficial instructions compute, for all registers and operands.    *)
(***************************************************************************)
EXTENDS Cpu, Programs, TLAPS

-----------------------------------------------------------------------------
\* A cycle of cpu::tick() is either one of DMA's, which leaves the sequencer
\* alone, or one of the instruction's, and only its write to $4014 starts a copy.
LEMMA TickKeepsBoth ==
  ASSUME CpuTick
  PROVE  /\ I!Next \/ UNCHANGED opVars
         /\ D!DmaNext
<1>1. CASE DmaTick
  <2>1. D!DmaCycle /\ UNCHANGED opVars
    BY <1>1 DEF DmaTick
  <2> QED
    BY <2>1 DEF D!DmaNext, D!Tick
<1>2. CASE OpcodeTick
  <2>1. I!InstructionCycle /\ (D!CpuCycle \/ D!StartCycle)
    BY <1>2 DEF OpcodeTick
  <2> QED
    BY <2>1 DEF I!Next, D!DmaNext, D!Tick
<1> QED
  BY <1>1, <1>2 DEF CpuTick

\* nes::reset() reaches both or, when RST is running, DMA not at all.
LEMMA ResetsKeepBoth ==
  ASSUME Resets
  PROVE  /\ I!Next
         /\ D!DmaNext \/ UNCHANGED dmaVars
<1>1. ~aborted /\ UNCHANGED aborted /\ (SoftReset \/ HardReset)
  BY DEF Resets
<1>2. CASE SoftReset
  <2>1. I!SoftReset /\ (UNCHANGED dmaVars \/ D!ResetDma)
    BY <1>2 DEF SoftReset
  <2> QED
    BY <1>1, <2>1 DEF I!Next, I!Resets, D!DmaNext
<1>3. CASE HardReset
  <2>1. I!HardReset /\ D!ResetDma
    BY <1>3 DEF HardReset
  <2> QED
    BY <1>1, <2>1 DEF I!Next, I!Resets, D!DmaNext
<1> QED
  BY <1>1, <1>2, <1>3

LEMMA DevicesKeepBoth ==
  ASSUME Devices
  PROVE  /\ I!Next \/ UNCHANGED opVars
         /\ D!DmaNext \/ UNCHANGED dmaVars
<1>1. CASE ~aborted /\ D!ScheduleDmc /\ UNCHANGED opVars
  BY <1>1 DEF D!DmaNext
<1>2. CASE I!Lines /\ UNCHANGED dmaVars
  BY <1>2 DEF I!Next
<1> QED
  BY <1>1, <1>2 DEF Devices

LEMMA CpuStepsKeepBoth ==
  [CpuNext]_cpuVars => [I!Next]_opVars /\ [D!DmaNext]_dmaVars
<1> SUFFICES ASSUME [CpuNext]_cpuVars PROVE [I!Next]_opVars /\ [D!DmaNext]_dmaVars
  OBVIOUS
<1>1. CASE CpuTick
  BY <1>1, TickKeepsBoth
<1>2. CASE Devices
  BY <1>2, DevicesKeepBoth
<1>3. CASE Resets
  BY <1>3, ResetsKeepBoth
<1>4. CASE UNCHANGED cpuVars
  BY <1>4 DEF cpuVars
<1> QED
  BY <1>1, <1>2, <1>3, <1>4 DEF CpuNext

\* opVars are the sequencer's own, in another order.
LEMMA SameVariables == [I!Next]_opVars => [I!Next]_(I!vars)
  BY DEF opVars, I!vars, I!seqVars, I!asserted, I!executing

\* clock(), schedule_dmc_dma() and reset(): driven by instructions, devices and
\* resets the transfers take the steps of CpuDma and no others.
THEOREM DmaKeepsItsSpecHolds == CpuSpec => DmaKeepsItsSpec
<1>1. CpuInit => D!DmaInit
  BY DEF CpuInit
<1>2. [CpuNext]_cpuVars => [D!DmaNext]_dmaVars
  BY CpuStepsKeepBoth
<1> QED
  BY <1>1, <1>2, PTL DEF CpuSpec, DmaKeepsItsSpec

\* A stolen cycle changes nothing of the sequencer: the safety part of
\* SequencerKeepsItsSpec. (That DMA leaves it enough cycles is liveness.)
THEOREM SequencerStepsHold == CpuSpec => I!Init /\ [][I!Next]_(I!vars)
<1>1. CpuInit => I!Init
  BY DEF CpuInit
<1>2. [CpuNext]_cpuVars => [I!Next]_(I!vars)
  BY CpuStepsKeepBoth, SameVariables
<1> QED
  BY <1>1, <1>2, PTL DEF CpuSpec

-----------------------------------------------------------------------------
Byte == 0..255
Bit(v, mask) == (v \div mask) % 2
Bits == 0..1
\* A flag of a status byte, set to a bit.
Flag(p, mask, b) == IF b = 1 THEN Raised(p, mask) ELSE Cleared(p, mask)
Rest(p) == (p \div 4) % 16

\* Setting one flag leaves the other bits of a status byte alone.
LEMMA FlagSetsC ==
  ASSUME NEW p \in Byte, NEW b \in Bits
  PROVE  /\ Flag(p, CMask, b) \in Byte
         /\ Bit(Flag(p, CMask, b), CMask) = b
         /\ Bit(Flag(p, CMask, b), ZMask) = Bit(p, ZMask)
         /\ Bit(Flag(p, CMask, b), VMask) = Bit(p, VMask)
         /\ Bit(Flag(p, CMask, b), NMask) = Bit(p, NMask)
         /\ Rest(Flag(p, CMask, b)) = Rest(p)
  BY DEF Flag, Raised, Cleared, Has, Bit, Bits, Rest, Byte, CMask, ZMask, VMask, NMask

LEMMA FlagSetsZ ==
  ASSUME NEW p \in Byte, NEW b \in Bits
  PROVE  /\ Flag(p, ZMask, b) \in Byte
         /\ Bit(Flag(p, ZMask, b), ZMask) = b
         /\ Bit(Flag(p, ZMask, b), CMask) = Bit(p, CMask)
         /\ Bit(Flag(p, ZMask, b), VMask) = Bit(p, VMask)
         /\ Bit(Flag(p, ZMask, b), NMask) = Bit(p, NMask)
         /\ Rest(Flag(p, ZMask, b)) = Rest(p)
  BY DEF Flag, Raised, Cleared, Has, Bit, Bits, Rest, Byte, CMask, ZMask, VMask, NMask

LEMMA FlagSetsV ==
  ASSUME NEW p \in Byte, NEW b \in Bits
  PROVE  /\ Flag(p, VMask, b) \in Byte
         /\ Bit(Flag(p, VMask, b), VMask) = b
         /\ Bit(Flag(p, VMask, b), CMask) = Bit(p, CMask)
         /\ Bit(Flag(p, VMask, b), ZMask) = Bit(p, ZMask)
         /\ Bit(Flag(p, VMask, b), NMask) = Bit(p, NMask)
         /\ Rest(Flag(p, VMask, b)) = Rest(p)
  BY DEF Flag, Raised, Cleared, Has, Bit, Bits, Rest, Byte, CMask, ZMask, VMask, NMask

LEMMA FlagSetsN ==
  ASSUME NEW p \in Byte, NEW b \in Bits
  PROVE  /\ Flag(p, NMask, b) \in Byte
         /\ Bit(Flag(p, NMask, b), NMask) = b
         /\ Bit(Flag(p, NMask, b), CMask) = Bit(p, CMask)
         /\ Bit(Flag(p, NMask, b), ZMask) = Bit(p, ZMask)
         /\ Bit(Flag(p, NMask, b), VMask) = Bit(p, VMask)
         /\ Rest(Flag(p, NMask, b)) = Rest(p)
  BY DEF Flag, Raised, Cleared, Has, Bit, Bits, Rest, Byte, CMask, ZMask, VMask, NMask

\* Four flags and the rest are all of a status byte.
LEMMA SameFlags ==
  ASSUME NEW p \in Byte, NEW q \in Byte,
         Bit(p, CMask) = Bit(q, CMask), Bit(p, ZMask) = Bit(q, ZMask),
         Bit(p, VMask) = Bit(q, VMask), Bit(p, NMask) = Bit(q, NMask),
         Rest(p) = Rest(q)
  PROVE  p = q
  BY DEF Bit, Rest, Byte, CMask, ZMask, VMask, NMask

\* The status byte update_nz_flags(v) leaves.
NegativeBit(v) == IF Negative(v) THEN 1 ELSE 0
ZeroBit(v) == IF v = 0 THEN 1 ELSE 0
NzOf(p, v) == Flag(Flag(p, NMask, NegativeBit(v)), ZMask, ZeroBit(v))

\* update_nz_flags sets N and Z and keeps the other bits.
LEMMA NzSets ==
  ASSUME NEW p \in Byte, NEW v
  PROVE  /\ NzOf(p, v) \in Byte
         /\ Bit(NzOf(p, v), NMask) = NegativeBit(v)
         /\ Bit(NzOf(p, v), ZMask) = ZeroBit(v)
         /\ Bit(NzOf(p, v), CMask) = Bit(p, CMask)
         /\ Bit(NzOf(p, v), VMask) = Bit(p, VMask)
         /\ Rest(NzOf(p, v)) = Rest(p)
<1>1. NegativeBit(v) \in Bits /\ ZeroBit(v) \in Bits
  BY DEF NegativeBit, ZeroBit, Bits
<1> QED
  BY <1>1, FlagSetsN, FlagSetsZ DEF NzOf

\* N and Z are what the last result makes them, and a carry or an overflow set
\* between two results is kept.
LEMMA NzTwice ==
  ASSUME NEW p \in Byte, NEW v, NEW r
  PROVE  NzOf(NzOf(p, v), r) = NzOf(p, r)
  BY NzSets, SameFlags

LEMMA NzAroundC ==
  ASSUME NEW p \in Byte, NEW v, NEW r, NEW k \in Bits
  PROVE  NzOf(Flag(NzOf(p, v), CMask, k), r) = NzOf(Flag(p, CMask, k), r)
  BY NzSets, FlagSetsC, SameFlags

LEMMA NzAroundVC ==
  ASSUME NEW p \in Byte, NEW v, NEW r, NEW o \in Bits, NEW k \in Bits
  PROVE  NzOf(Flag(Flag(NzOf(p, v), VMask, o), CMask, k), r)
           = NzOf(Flag(Flag(p, VMask, o), CMask, k), r)
  BY NzSets, FlagSetsC, FlagSetsV, SameFlags

\* The carry of the first half is gone when the second has set its own.
LEMMA NzAroundCVC ==
  ASSUME NEW p \in Byte, NEW v, NEW r, NEW j \in Bits, NEW o \in Bits, NEW k \in Bits
  PROVE  NzOf(Flag(Flag(NzOf(Flag(p, CMask, j), v), VMask, o), CMask, k), r)
           = NzOf(Flag(Flag(p, VMask, o), CMask, k), r)
  BY NzSets, FlagSetsC, FlagSetsV, SameFlags

\* Registers of a byte each, and a constructor that proofs can keep closed.
Registers == [A : Byte, X : Byte, Y : Byte, S : Byte, P : Byte, PC : Int]
Of(a, x, y, s, p, at) == [A |-> a, X |-> x, Y |-> y, S |-> s, P |-> p, PC |-> at]

\* Registers by their fields.
LEMMA FieldsOf ==
  ASSUME NEW a, NEW x, NEW y, NEW s, NEW p, NEW at
  PROVE  /\ Of(a, x, y, s, p, at).A = a /\ Of(a, x, y, s, p, at).X = x
         /\ Of(a, x, y, s, p, at).Y = y /\ Of(a, x, y, s, p, at).S = s
         /\ Of(a, x, y, s, p, at).P = p /\ Of(a, x, y, s, p, at).PC = at
  BY DEF Of

\* One register replaced.
LEMMA WithOf ==
  ASSUME NEW a, NEW x, NEW y, NEW s, NEW p, NEW at, NEW v
  PROVE  /\ [Of(a, x, y, s, p, at) EXCEPT !.A = v] = Of(v, x, y, s, p, at)
         /\ [Of(a, x, y, s, p, at) EXCEPT !.X = v] = Of(a, v, y, s, p, at)
         /\ [Of(a, x, y, s, p, at) EXCEPT !.S = v] = Of(a, x, y, v, p, at)
         /\ [Of(a, x, y, s, p, at) EXCEPT !.P = v] = Of(a, x, y, s, v, at)
  BY DEF Of

\* set_flag_condition, with the condition as a bit.
LEMMA PutOf ==
  ASSUME NEW a, NEW x, NEW y, NEW s, NEW p, NEW at, NEW mask, NEW on \in BOOLEAN
  PROVE  Put(Of(a, x, y, s, p, at), mask, on) = Of(a, x, y, s, Flag(p, mask, Truth(on)), at)
<1>1. CASE on
  BY <1>1 DEF Put, Of, Flag, Truth
<1>2. CASE ~on
  BY <1>2 DEF Put, Of, Flag, Truth
<1> QED
  BY <1>1, <1>2

\* update_nz_flags and the setters on registers.
LEMMA NzSetsOf ==
  ASSUME NEW a, NEW x, NEW y, NEW s, NEW p, NEW at, NEW v
  PROVE  Nz(Of(a, x, y, s, p, at), v) = Of(a, x, y, s, NzOf(p, v), at)
<1>1. Negative(v) \in BOOLEAN /\ (v = 0) \in BOOLEAN
  BY DEF Negative, Has
<1>2. Truth(Negative(v)) = NegativeBit(v) /\ Truth(v = 0) = ZeroBit(v)
  BY DEF Truth, NegativeBit, ZeroBit
<1> DEFINE q == Flag(p, NMask, NegativeBit(v))
<1>3. Put(Of(a, x, y, s, p, at), NMask, Negative(v)) = Of(a, x, y, s, q, at)
  BY <1>1, <1>2, PutOf
<1>4. NzOf(p, v) = Flag(q, ZMask, ZeroBit(v))
  BY DEF NzOf
<1> HIDE DEF q
<1>5. Put(Of(a, x, y, s, q, at), ZMask, v = 0) = Of(a, x, y, s, Flag(q, ZMask, ZeroBit(v)), at)
  <2>1. CASE v = 0
    BY <2>1 DEF Put, Of, Flag, ZeroBit
  <2>2. CASE v # 0
    BY <2>2 DEF Put, Of, Flag, ZeroBit
  <2> QED
    BY <2>1, <2>2
<1> QED
  BY <1>3, <1>4, <1>5, Zenon DEF Nz

LEMMA SetOf ==
  ASSUME NEW a, NEW x, NEW y, NEW s, NEW p, NEW at, NEW v
  PROVE  /\ SetA(Of(a, x, y, s, p, at), v) = Of(v, x, y, s, NzOf(p, v), at)
         /\ SetX(Of(a, x, y, s, p, at), v) = Of(a, v, y, s, NzOf(p, v), at)
<1>1. SetA(Of(a, x, y, s, p, at), v) = Nz([Of(a, x, y, s, p, at) EXCEPT !.A = v], v)
  BY Zenon DEF SetA
<1>2. SetX(Of(a, x, y, s, p, at), v) = Nz([Of(a, x, y, s, p, at) EXCEPT !.X = v], v)
  BY Zenon DEF SetX
<1>3. /\ SetA(Of(a, x, y, s, p, at), v) = Nz(Of(v, x, y, s, p, at), v)
      /\ SetX(Of(a, x, y, s, p, at), v) = Nz(Of(a, v, y, s, p, at), v)
  BY <1>1, <1>2 DEF Of
<1> QED
  BY <1>3, NzSetsOf

\* A bit of a number is one.
LEMMA BitIs ==
  ASSUME NEW v \in Int, NEW n \in 0..7
  PROVE  (v \div 2^n) % 2 \in 0..1
<1>1. 2^0 = 1 /\ 2^1 = 2 /\ 2^2 = 4 /\ 2^3 = 8 /\ 2^4 = 16 /\ 2^5 = 32 /\ 2^6 = 64 /\ 2^7 = 128
  OBVIOUS
<1>2. n = 0 \/ n = 1 \/ n = 2 \/ n = 3 \/ n = 4 \/ n = 5 \/ n = 6 \/ n = 7
  OBVIOUS
<1>3. 2^n \in {2^0, 2^1, 2^2, 2^3, 2^4, 2^5, 2^6, 2^7}
  BY <1>2, Zenon
<1> DEFINE w == 2^n
<1>4. w \in Nat \ {0}
  BY <1>1, <1>3
<1> HIDE DEF w
<1>5. (v \div w) % 2 \in 0..1
  BY <1>4
<1> QED
  BY <1>5 DEF w

\* Eight bits, each of its weight, make a byte.
LEMMA EightBits ==
  ASSUME NEW b0 \in 0..1, NEW b1 \in 0..1, NEW b2 \in 0..1, NEW b3 \in 0..1,
         NEW b4 \in 0..1, NEW b5 \in 0..1, NEW b6 \in 0..1, NEW b7 \in 0..1
  PROVE  2^0 * b0 + 2^1 * b1 + 2^2 * b2 + 2^3 * b3 + 2^4 * b4 + 2^5 * b5 + 2^6 * b6 + 2^7 * b7
           \in Byte
<1>1. 2^0 = 1 /\ 2^1 = 2 /\ 2^2 = 4 /\ 2^3 = 8 /\ 2^4 = 16 /\ 2^5 = 32 /\ 2^6 = 64 /\ 2^7 = 128
  OBVIOUS
<1> QED
  BY <1>1 DEF Byte

\* The logical operators of the accumulator give bytes.
LEMMA AndIsByte ==
  ASSUME NEW x \in Int, NEW y \in Int
  PROVE  And(x, y) \in Byte
<1> DEFINE bit(v, n) == (v \div 2^n) % 2
           both(n) == IF bit(x, n) = 1 THEN bit(y, n) ELSE 0
<1>1. \A n \in 0..7 : both(n) \in 0..1
  BY BitIs
<1>2. And(x, y) = 2^0 * both(0) + 2^1 * both(1) + 2^2 * both(2) + 2^3 * both(3)
                    + 2^4 * both(4) + 2^5 * both(5) + 2^6 * both(6) + 2^7 * both(7)
  BY Zenon DEF And, EachBit
<1>3. both(0) \in 0..1 /\ both(1) \in 0..1 /\ both(2) \in 0..1 /\ both(3) \in 0..1
      /\ both(4) \in 0..1 /\ both(5) \in 0..1 /\ both(6) \in 0..1 /\ both(7) \in 0..1
  BY <1>1
<1> HIDE DEF both
<1> QED
  BY <1>2, <1>3, EightBits

LEMMA OrIsByte ==
  ASSUME NEW x \in Int, NEW y \in Int
  PROVE  Or(x, y) \in Byte
<1> DEFINE bit(v, n) == (v \div 2^n) % 2
           either(n) == IF bit(x, n) = 1 THEN 1 ELSE bit(y, n)
<1>1. \A n \in 0..7 : either(n) \in 0..1
  BY BitIs
<1>2. Or(x, y) = 2^0 * either(0) + 2^1 * either(1) + 2^2 * either(2) + 2^3 * either(3)
                   + 2^4 * either(4) + 2^5 * either(5) + 2^6 * either(6) + 2^7 * either(7)
  BY Zenon DEF Or, EachBit
<1>3. either(0) \in 0..1 /\ either(1) \in 0..1 /\ either(2) \in 0..1 /\ either(3) \in 0..1
      /\ either(4) \in 0..1 /\ either(5) \in 0..1 /\ either(6) \in 0..1 /\ either(7) \in 0..1
  BY <1>1
<1> HIDE DEF either
<1> QED
  BY <1>2, <1>3, EightBits

LEMMA XorIsByte ==
  ASSUME NEW x \in Int, NEW y \in Int
  PROVE  Xor(x, y) \in Byte
<1> DEFINE bit(v, n) == (v \div 2^n) % 2
           one(n) == IF bit(x, n) = bit(y, n) THEN 0 ELSE 1
<1>1. \A n \in 0..7 : one(n) \in 0..1
  OBVIOUS
<1>2. Xor(x, y) = 2^0 * one(0) + 2^1 * one(1) + 2^2 * one(2) + 2^3 * one(3)
                    + 2^4 * one(4) + 2^5 * one(5) + 2^6 * one(6) + 2^7 * one(7)
  BY Zenon DEF Xor, EachBit
<1>3. one(0) \in 0..1 /\ one(1) \in 0..1 /\ one(2) \in 0..1 /\ one(3) \in 0..1
      /\ one(4) \in 0..1 /\ one(5) \in 0..1 /\ one(6) \in 0..1 /\ one(7) \in 0..1
  BY <1>1
<1> HIDE DEF one
<1> QED
  BY <1>2, <1>3, EightBits

\* And is symmetric, so the order of its operands in the code does not matter.
LEMMA AndCommutes ==
  ASSUME NEW x \in Int, NEW y \in Int
  PROVE  And(x, y) = And(y, x)
<1> DEFINE bit(v, n) == (v \div 2^n) % 2
           both(n) == IF bit(x, n) = 1 THEN bit(y, n) ELSE 0
           swapped(n) == IF bit(y, n) = 1 THEN bit(x, n) ELSE 0
<1>1. ASSUME NEW n \in 0..7 PROVE both(n) = swapped(n)
  <2>1. bit(x, n) \in 0..1 /\ bit(y, n) \in 0..1
    BY BitIs
  <2> HIDE DEF bit
  <2> QED
    BY <2>1
<1>2. And(x, y) = 2^0 * both(0) + 2^1 * both(1) + 2^2 * both(2) + 2^3 * both(3)
                    + 2^4 * both(4) + 2^5 * both(5) + 2^6 * both(6) + 2^7 * both(7)
  BY Zenon DEF And, EachBit
<1>3. And(y, x) = 2^0 * swapped(0) + 2^1 * swapped(1) + 2^2 * swapped(2) + 2^3 * swapped(3)
                    + 2^4 * swapped(4) + 2^5 * swapped(5) + 2^6 * swapped(6) + 2^7 * swapped(7)
  BY Zenon DEF And, EachBit
<1>4. /\ both(0) = swapped(0) /\ both(1) = swapped(1) /\ both(2) = swapped(2)
      /\ both(3) = swapped(3) /\ both(4) = swapped(4) /\ both(5) = swapped(5)
      /\ both(6) = swapped(6) /\ both(7) = swapped(7)
  BY <1>1
<1> HIDE DEF both, swapped
<1> QED
  BY <1>2, <1>3, <1>4

\* update_nz_flags and the carry do not depend on which comes first.
LEMMA NzBesideC ==
  ASSUME NEW p \in Byte, NEW v, NEW k \in Bits
  PROVE  Flag(NzOf(p, v), CMask, k) = NzOf(Flag(p, CMask, k), v)
  BY NzSets, FlagSetsC, SameFlags

LEMMA TruthIs == ASSUME NEW on \in BOOLEAN PROVE Truth(on) \in Bits
  BY DEF Truth, Bits

\* The carry of registers is the lowest bit of their status.
LEMMA CarryOf ==
  ASSUME NEW a, NEW x, NEW y, NEW s, NEW p \in Byte, NEW at
  PROVE  Carry(Of(a, x, y, s, p, at)) = Bit(p, CMask)
  BY FieldsOf DEF Carry, On, Has, Bit, Byte, CMask

\* What the read-modify-write instructions leave,
LEMMA ChangedOf ==
  ASSUME NEW a, NEW x, NEW y, NEW s, NEW p, NEW at, NEW v
  PROVE  Changed(Of(a, x, y, s, p, at), v) = Both(Of(a, x, y, s, NzOf(p, v), at), v)
<1>1. Changed(Of(a, x, y, s, p, at), v) = Both(Nz(Of(a, x, y, s, p, at), v), v)
  BY Zenon DEF Changed, Both
<1> QED
  BY <1>1, NzSetsOf

\* The second half works on what the first left.
LEMMA ThenIs ==
  ASSUME NEW c, NEW v
  PROVE  /\ Then(Both(c, v), OraA) = Both(OraA(c, v), v)
         /\ Then(Both(c, v), EorA) = Both(EorA(c, v), v)
         /\ Then(Both(c, v), AndA) = Both(AndA(c, v), v)
         /\ Then(Both(c, v), Adc) = Both(Adc(c, v), v)
         /\ Then(Both(c, v), Cmp) = Both(Cmp(c, v), v)
         /\ Then(Both(c, v), Sbc) = Both(Sbc(c, v), v)
  BY DEF Then, Both

\* what the logical instructions leave,
LEMMA LogicOf ==
  ASSUME NEW a, NEW x, NEW y, NEW s, NEW p, NEW at, NEW v
  PROVE  /\ OraA(Of(a, x, y, s, p, at), v) = Of(Or(a, v), x, y, s, NzOf(p, Or(a, v)), at)
         /\ EorA(Of(a, x, y, s, p, at), v) = Of(Xor(a, v), x, y, s, NzOf(p, Xor(a, v)), at)
         /\ AndA(Of(a, x, y, s, p, at), v) = Of(And(a, v), x, y, s, NzOf(p, And(a, v)), at)
  BY SetOf, FieldsOf DEF OraA, EorA, AndA

\* and what the shifts leave, with the bit shifted out in the carry.
LEMMA ShiftsOf ==
  ASSUME NEW a, NEW x, NEW y, NEW s, NEW p \in Byte, NEW at, NEW d
  PROVE  LET out(mask) == Flag(p, CMask, Truth(Has(d, mask)))
             shifted(v, mask) == Both(Of(a, x, y, s, NzOf(out(mask), v), at), v)
         IN  /\ Asl(Of(a, x, y, s, p, at), d) = shifted(Low(2 * d), \h80)
             /\ Lsr(Of(a, x, y, s, p, at), d) = shifted(d \div 2, 1)
             /\ Rol(Of(a, x, y, s, p, at), d) = shifted(Low(2 * d) + Bit(p, CMask), \h80)
             /\ Ror(Of(a, x, y, s, p, at), d)
                  = shifted((d \div 2) + (\h80 * Bit(p, CMask)), 1)
<1>1. Has(d, \h80) \in BOOLEAN /\ Has(d, 1) \in BOOLEAN
  BY DEF Has
<1>2. /\ Put(Of(a, x, y, s, p, at), CMask, Has(d, \h80))
           = Of(a, x, y, s, Flag(p, CMask, Truth(Has(d, \h80))), at)
      /\ Put(Of(a, x, y, s, p, at), CMask, Has(d, 1))
           = Of(a, x, y, s, Flag(p, CMask, Truth(Has(d, 1))), at)
  BY <1>1, PutOf
<1> QED
  BY <1>2, ChangedOf, CarryOf DEF Asl, Lsr, Rol, Ror

\* Each of the unofficial instructions, for any registers and operand.
LEMMA SloIsTwo ==
  ASSUME NEW a, NEW x, NEW y, NEW s, NEW p \in Byte, NEW at, NEW d
  PROVE  Slo(Of(a, x, y, s, p, at), d) = Then(Asl(Of(a, x, y, s, p, at), d), OraA)
<1> DEFINE v == Low(2 * d)
           q == Flag(p, CMask, Truth(Has(d, \h80)))
<1>1. Has(d, \h80) \in BOOLEAN
  BY DEF Has
<1>2. q \in Byte
  BY <1>1, TruthIs, FlagSetsC
<1>3. Slo(Of(a, x, y, s, p, at), d) = Both(OraA(Of(a, x, y, s, q, at), v), v)
  BY <1>1, PutOf DEF Slo
<1>4. Asl(Of(a, x, y, s, p, at), d) = Both(Of(a, x, y, s, NzOf(q, v), at), v)
  BY ShiftsOf
<1> HIDE DEF v, q
<1>5. OraA(Of(a, x, y, s, NzOf(q, v), at), v) = OraA(Of(a, x, y, s, q, at), v)
  BY <1>2, LogicOf, NzTwice
<1>6. Then(Asl(Of(a, x, y, s, p, at), d), OraA)
        = Both(OraA(Of(a, x, y, s, NzOf(q, v), at), v), v)
  BY <1>4, ThenIs
<1> QED
  BY <1>3, <1>5, <1>6

LEMMA SreIsTwo ==
  ASSUME NEW a, NEW x, NEW y, NEW s, NEW p \in Byte, NEW at, NEW d
  PROVE  Sre(Of(a, x, y, s, p, at), d) = Then(Lsr(Of(a, x, y, s, p, at), d), EorA)
<1> DEFINE v == d \div 2
           q == Flag(p, CMask, Truth(Has(d, 1)))
<1>1. Has(d, 1) \in BOOLEAN
  BY DEF Has
<1>2. q \in Byte
  BY <1>1, TruthIs, FlagSetsC
<1>3. Sre(Of(a, x, y, s, p, at), d) = Both(EorA(Of(a, x, y, s, q, at), v), v)
  BY <1>1, PutOf DEF Sre
<1>4. Lsr(Of(a, x, y, s, p, at), d) = Both(Of(a, x, y, s, NzOf(q, v), at), v)
  BY ShiftsOf
<1> HIDE DEF v, q
<1>5. EorA(Of(a, x, y, s, NzOf(q, v), at), v) = EorA(Of(a, x, y, s, q, at), v)
  BY <1>2, LogicOf, NzTwice
<1>6. Then(Lsr(Of(a, x, y, s, p, at), d), EorA)
        = Both(EorA(Of(a, x, y, s, NzOf(q, v), at), v), v)
  BY <1>4, ThenIs
<1> QED
  BY <1>3, <1>5, <1>6

LEMMA RlaIsTwo ==
  ASSUME NEW a, NEW x, NEW y, NEW s, NEW p \in Byte, NEW at, NEW d
  PROVE  Rla(Of(a, x, y, s, p, at), d) = Then(Rol(Of(a, x, y, s, p, at), d), AndA)
<1> DEFINE v == Low(2 * d) + Bit(p, CMask)
           q == Flag(p, CMask, Truth(Has(d, \h80)))
<1>1. Has(d, \h80) \in BOOLEAN
  BY DEF Has
<1>2. q \in Byte
  BY <1>1, TruthIs, FlagSetsC
<1>3. Rla(Of(a, x, y, s, p, at), d) = Both(AndA(Of(a, x, y, s, q, at), v), v)
  BY <1>1, PutOf, CarryOf DEF Rla
<1>4. Rol(Of(a, x, y, s, p, at), d) = Both(Of(a, x, y, s, NzOf(q, v), at), v)
  BY ShiftsOf
<1> HIDE DEF v, q
<1>5. AndA(Of(a, x, y, s, NzOf(q, v), at), v) = AndA(Of(a, x, y, s, q, at), v)
  BY <1>2, LogicOf, NzTwice
<1>6. Then(Rol(Of(a, x, y, s, p, at), d), AndA)
        = Both(AndA(Of(a, x, y, s, NzOf(q, v), at), v), v)
  BY <1>4, ThenIs
<1> QED
  BY <1>3, <1>5, <1>6

\* The carry and the overflow of a sum, and of a difference.
SumOverflows(a, d, sum) == Negative(a) = Negative(d) /\ Negative(a) # Negative(sum)
DifferenceOverflows(a, d, difference) ==
  Negative(a) # Negative(d) /\ Negative(a) # Negative(difference)

\* The registers that an addition or a subtraction of result r leaves.
Reckoned(c, o, k, r) == SetA(Put(Put(c, VMask, o), CMask, k), r)

\* Reckoned, as registers.
LEMMA ReckonedOf ==
  ASSUME NEW a, NEW x, NEW y, NEW s, NEW p, NEW at, NEW o \in BOOLEAN, NEW k \in BOOLEAN, NEW r
  PROVE  Reckoned(Of(a, x, y, s, p, at), o, k, r)
           = Of(r, x, y, s, NzOf(Flag(Flag(p, VMask, Truth(o)), CMask, Truth(k)), r), at)
<1>1. Put(Of(a, x, y, s, p, at), VMask, o) = Of(a, x, y, s, Flag(p, VMask, Truth(o)), at)
  BY PutOf
<1>2. Put(Put(Of(a, x, y, s, p, at), VMask, o), CMask, k)
        = Of(a, x, y, s, Flag(Flag(p, VMask, Truth(o)), CMask, Truth(k)), at)
  BY <1>1, PutOf
<1> DEFINE q == Flag(Flag(p, VMask, Truth(o)), CMask, Truth(k))
<1> HIDE DEF q
<1>3. SetA(Of(a, x, y, s, q, at), r) = Of(r, x, y, s, NzOf(q, r), at)
  BY SetOf
<1> QED
  BY <1>2, <1>3 DEF Reckoned, q

\* The flags of the first half are gone from what the second computes.
LEMMA ReckonedAfterNz ==
  ASSUME NEW a, NEW x, NEW y, NEW s, NEW p \in Byte, NEW at, NEW v,
         NEW o \in BOOLEAN, NEW k \in BOOLEAN, NEW r
  PROVE  Reckoned(Of(a, x, y, s, NzOf(p, v), at), o, k, r)
           = Reckoned(Of(a, x, y, s, p, at), o, k, r)
<1>1. Truth(o) \in Bits /\ Truth(k) \in Bits
  BY TruthIs
<1>2. NzOf(Flag(Flag(NzOf(p, v), VMask, Truth(o)), CMask, Truth(k)), r)
        = NzOf(Flag(Flag(p, VMask, Truth(o)), CMask, Truth(k)), r)
  BY <1>1, NzAroundVC
<1> QED
  BY <1>2, ReckonedOf

LEMMA ReckonedAfterShift ==
  ASSUME NEW a, NEW x, NEW y, NEW s, NEW p \in Byte, NEW at, NEW v, NEW j \in Bits,
         NEW o \in BOOLEAN, NEW k \in BOOLEAN, NEW r
  PROVE  Reckoned(Of(a, x, y, s, NzOf(Flag(p, CMask, j), v), at), o, k, r)
           = Reckoned(Of(a, x, y, s, p, at), o, k, r)
<1>1. Truth(o) \in Bits /\ Truth(k) \in Bits
  BY TruthIs
<1>2. NzOf(Flag(Flag(NzOf(Flag(p, CMask, j), v), VMask, Truth(o)), CMask, Truth(k)), r)
        = NzOf(Flag(Flag(p, VMask, Truth(o)), CMask, Truth(k)), r)
  BY <1>1, NzAroundCVC
<1> QED
  BY <1>2, ReckonedOf

\* ADC and SBC reckon with the carry of the status they find.
LEMMA AdcOf ==
  ASSUME NEW a, NEW x, NEW y, NEW s, NEW p \in Byte, NEW at, NEW d
  PROVE  LET sum == a + d + Bit(p, CMask)
         IN  Adc(Of(a, x, y, s, p, at), d)
               = Reckoned(Of(a, x, y, s, p, at), SumOverflows(a, d, sum), Has(sum, \h100), Low(sum))
<1>1. Carry(Of(a, x, y, s, p, at)) = Bit(p, CMask) /\ Of(a, x, y, s, p, at).A = a
  BY CarryOf, FieldsOf
<1> DEFINE c == Of(a, x, y, s, p, at)
<1> HIDE DEF c
<1>2. Adc(c, d) = Reckoned(c, SumOverflows(c.A, d, c.A + d + Carry(c)),
                           Has(c.A + d + Carry(c), \h100), Low(c.A + d + Carry(c)))
  BY DEF Adc, Reckoned, SumOverflows
<1>3. c.A = a /\ Carry(c) = Bit(p, CMask)
  BY <1>1 DEF c
<1> QED
  BY <1>2, <1>3, Zenon DEF c

LEMMA SbcOf ==
  ASSUME NEW a, NEW x, NEW y, NEW s, NEW p \in Byte, NEW at, NEW d
  PROVE  LET difference == Word(a - d - (1 - Bit(p, CMask)))
         IN  Sbc(Of(a, x, y, s, p, at), d)
               = Reckoned(Of(a, x, y, s, p, at), DifferenceOverflows(a, d, difference),
                          difference < \h100, Low(difference))
<1>1. Carry(Of(a, x, y, s, p, at)) = Bit(p, CMask) /\ Of(a, x, y, s, p, at).A = a
  BY CarryOf, FieldsOf
<1> DEFINE c == Of(a, x, y, s, p, at)
<1> HIDE DEF c
<1>2. Sbc(c, d) = LET difference == Word(c.A - d - (1 - Carry(c)))
                  IN  Reckoned(c, DifferenceOverflows(c.A, d, difference),
                               difference < \h100, Low(difference))
  BY DEF Sbc, Reckoned, DifferenceOverflows
<1>3. c.A = a /\ Carry(c) = Bit(p, CMask)
  BY <1>1 DEF c
<1> QED
  BY <1>2, <1>3, Zenon DEF c

\* The conjuncts of TwoInOne that are no Then.
AsrInTwo(c, d) ==
  Asr(c, d) = LET m == Lsr(AndA(c, d), And(c.A, d)) IN [m.cpu EXCEPT !.A = m.byte]
LoadsInTwo(c, d) ==
  /\ Lax(c, d) = Tax(Lda(c, d))
  /\ Xaa(c, d) = AndA(Txa(c), d)
  /\ Lar(c, d) = Txs(Tax(AndA([c EXCEPT !.A = c.S], d)))
AacInTwo(c, d) ==
  Aac(c, d) = Put(AndA(c, d), CMask, On(Asl(c, And(c.A, d)).cpu, CMask))
ArrInTwo(c, d) ==
  LET m == Ror(AndA(c, d), And(c.A, d))
      ror == [m.cpu EXCEPT !.A = m.byte]
  IN  Arr(c, d) = [ror EXCEPT !.P = Arr(c, d).P] /\ On(Arr(c, d), NMask) = On(ror, NMask)
AxsInTwo(c, d) ==
  LET r == Cmp([c EXCEPT !.A = Aax(c)], d)
  IN  Axs(c, d) = [r EXCEPT !.A = c.A, !.X = Low(Aax(c) - d)]

LEMMA RraIsTwo ==
  ASSUME NEW a \in Byte, NEW x, NEW y, NEW s, NEW p \in Byte, NEW at, NEW d \in Byte
  PROVE  Rra(Of(a, x, y, s, p, at), d) = Then(Ror(Of(a, x, y, s, p, at), d), Adc)
<1> DEFINE v == (d \div 2) + (\h80 * Bit(p, CMask))
           j == Truth(Has(d, 1))
           q == NzOf(Flag(p, CMask, j), v)
           sum == a + v + (d % 2)
<1>1. Ror(Of(a, x, y, s, p, at), d) = Both(Of(a, x, y, s, q, at), v)
  BY ShiftsOf
<1>2. Has(d, 1) \in BOOLEAN /\ j \in Bits /\ j = d % 2
  BY DEF Has, Truth, Bits, Byte
<1>3. q \in Byte /\ Bit(q, CMask) = d % 2
  BY <1>2, NzSets, FlagSetsC
<1>4. sum \in 0..511
  <2>1. Bit(p, CMask) \in 0..1
    BY DEF Bit, Byte, CMask
  <2>2. d \div 2 \in 0..127 /\ d % 2 \in 0..1
    BY DEF Byte
  <2> DEFINE e == d \div 2
             f == d % 2
             b == Bit(p, CMask)
  <2>3. e \in 0..127 /\ f \in 0..1 /\ b \in 0..1
    BY <2>1, <2>2
  <2> HIDE DEF e, f, b
  <2>4. a + (e + (\h80 * b)) + f \in 0..511
    BY <2>3 DEF Byte
  <2> QED
    BY <2>4 DEF e, f, b
<1>5. SumOverflows(a, v, sum) \in BOOLEAN /\ Has(sum, \h100) \in BOOLEAN
  BY DEF SumOverflows, Has
<1>6. Rra(Of(a, x, y, s, p, at), d)
        = Both(Reckoned(Of(a, x, y, s, p, at), SumOverflows(a, v, sum), sum > \hff, Low(sum)), v)
  <2> DEFINE c == Of(a, x, y, s, p, at)
  <2> HIDE DEF c
  <2>1. Rra(c, d) =
          LET w == (d \div 2) + (\h80 * Carry(c))
              t == c.A + w + (d % 2)
          IN  Both(Reckoned(c, SumOverflows(c.A, w, t), t > \hff, Low(t)), w)
    BY DEF Rra, Reckoned, SumOverflows
  <2>2. c.A = a /\ Carry(c) = Bit(p, CMask)
    BY FieldsOf, CarryOf DEF c
  <2> QED
    BY <2>1, <2>2, Zenon DEF c
<1>7. (sum > \hff) <=> Has(sum, \h100)
  BY <1>4 DEF Has
<1> HIDE DEF v
<1>8. Adc(Of(a, x, y, s, q, at), v)
        = Reckoned(Of(a, x, y, s, q, at), SumOverflows(a, v, sum), Has(sum, \h100), Low(sum))
  <2> HIDE DEF q
  <2> QED
    BY <1>3, AdcOf
<1> DEFINE o == SumOverflows(a, v, sum)
           k == Has(sum, \h100)
<1>9. Reckoned(Of(a, x, y, s, p, at), o, sum > \hff, Low(sum))
        = Reckoned(Of(a, x, y, s, p, at), o, k, Low(sum))
  BY <1>7 DEF Reckoned, Put
<1> HIDE DEF sum, j, o, k
<1>10. Reckoned(Of(a, x, y, s, q, at), o, k, Low(sum))
         = Reckoned(Of(a, x, y, s, p, at), o, k, Low(sum))
  <2>1. o \in BOOLEAN /\ k \in BOOLEAN
    BY <1>5 DEF o, k
  <2> QED
    BY <1>2, <2>1, ReckonedAfterShift
<1>11. Then(Ror(Of(a, x, y, s, p, at), d), Adc) = Both(Adc(Of(a, x, y, s, q, at), v), v)
  BY <1>1, ThenIs
<1> QED
  BY <1>6, <1>8, <1>9, <1>10, <1>11, Zenon DEF o, k

LEMMA DcpIsTwo ==
  ASSUME NEW a, NEW x, NEW y, NEW s, NEW p, NEW at, NEW d
  PROVE  Dcp(Of(a, x, y, s, p, at), d) = Then(Dec(Of(a, x, y, s, p, at), d), Cmp)
<1> DEFINE v == Low(d - 1)
           c == Of(a, x, y, s, p, at)
<1> HIDE DEF v
<1>1. Dec(c, d) = Both(Nz(c, v), v)
  BY DEF Dec, Changed, Both, v
<1>2. Nz(c, v).A = a /\ c.A = a
  BY NzSetsOf, FieldsOf
<1> HIDE DEF c
<1>3. Then(Dec(c, d), Cmp) = Both(Compare(Nz(c, v), Nz(c, v).A, v), v)
  BY <1>1, ThenIs, Zenon DEF Cmp
<1>4. Dcp(c, d) = Both(Compare(Nz(c, v), c.A, v), v)
  BY Zenon DEF Dcp, v
<1> QED
  BY <1>2, <1>3, <1>4 DEF c

LEMMA IscIsTwo ==
  ASSUME NEW a \in Byte, NEW x, NEW y, NEW s, NEW p \in Byte, NEW at, NEW d \in Byte
  PROVE  Isc(Of(a, x, y, s, p, at), d) = Then(Inc(Of(a, x, y, s, p, at), d), Sbc)
<1> DEFINE v == Low(d + 1)
           q == NzOf(p, v)
           difference == Word(a - v - (1 - Bit(p, CMask)))
<1>1. Inc(Of(a, x, y, s, p, at), d) = Both(Of(a, x, y, s, q, at), v)
  BY ChangedOf DEF Inc
<1>2. q \in Byte /\ Bit(q, CMask) = Bit(p, CMask)
  BY NzSets
<1>3. DifferenceOverflows(a, v, difference) \in BOOLEAN /\ (difference < \h100) \in BOOLEAN
  BY DEF DifferenceOverflows
<1>4. Isc(Of(a, x, y, s, p, at), d)
        = Both(Reckoned(Of(a, x, y, s, p, at), DifferenceOverflows(a, v, difference),
                        difference < \h100, Low(difference)), v)
  <2> DEFINE c == Of(a, x, y, s, p, at)
  <2> HIDE DEF c
  <2>1. Isc(c, d) =
          LET w == Low(d + 1)
              t == Word(c.A - w - (1 - Carry(c)))
          IN  Both(Reckoned(c, DifferenceOverflows(c.A, w, t), t < \h100, Low(t)), w)
    BY DEF Isc, Reckoned, DifferenceOverflows
  <2>2. c.A = a /\ Carry(c) = Bit(p, CMask)
    BY FieldsOf, CarryOf DEF c
  <2> QED
    BY <2>1, <2>2, Zenon DEF c
<1> HIDE DEF v
<1>5. Sbc(Of(a, x, y, s, q, at), v)
        = Reckoned(Of(a, x, y, s, q, at), DifferenceOverflows(a, v, difference),
                   difference < \h100, Low(difference))
  <2> HIDE DEF q
  <2> QED
    BY <1>2, SbcOf
<1> DEFINE o == DifferenceOverflows(a, v, difference)
           k == difference < \h100
<1> HIDE DEF difference, o, k
<1>6. Reckoned(Of(a, x, y, s, q, at), o, k, Low(difference))
        = Reckoned(Of(a, x, y, s, p, at), o, k, Low(difference))
  <2>1. o \in BOOLEAN /\ k \in BOOLEAN
    BY <1>3 DEF o, k
  <2> QED
    BY <2>1, ReckonedAfterNz
<1>7. Then(Inc(Of(a, x, y, s, p, at), d), Sbc) = Both(Sbc(Of(a, x, y, s, q, at), v), v)
  BY <1>1, ThenIs
<1> QED
  BY <1>4, <1>5, <1>6, <1>7, Zenon DEF o, k

LEMMA AsrIsTwo ==
  ASSUME NEW a, NEW x, NEW y, NEW s, NEW p \in Byte, NEW at, NEW d
  PROVE  AsrInTwo(Of(a, x, y, s, p, at), d)
<1> DEFINE c == Of(a, x, y, s, p, at)
           r == And(a, d)
           w == r \div 2
           k == Truth(Has(r, 1))
           m == Lsr(AndA(c, d), And(c.A, d))
<1>1. Has(r, 1) \in BOOLEAN /\ k \in Bits
  BY TruthIs DEF Has
<1>2. c.A = a
  BY FieldsOf
<1>3. Asr(c, d) = Of(w, x, y, s, NzOf(Flag(p, CMask, k), w), at)
  <2>1. Put(c, CMask, Has(r, 1)) = Of(a, x, y, s, Flag(p, CMask, k), at)
    BY <1>1, PutOf
  <2>2. Asr(c, d) = SetA(Put(c, CMask, Has(r, 1)), w)
    BY <1>2, Zenon DEF Asr
  <2> QED
    BY <2>1, <2>2, SetOf
<1>4. m = Both(Of(r, x, y, s, NzOf(Flag(NzOf(p, r), CMask, k), w), at), w)
  <2>1. AndA(c, d) = Of(r, x, y, s, NzOf(p, r), at) /\ NzOf(p, r) \in Byte
    BY LogicOf, NzSets
  <2>2. Lsr(Of(r, x, y, s, NzOf(p, r), at), r)
          = Both(Of(r, x, y, s, NzOf(Flag(NzOf(p, r), CMask, k), w), at), w)
    BY <2>1, ShiftsOf
  <2> QED
    BY <1>2, <2>1, <2>2
<1>5. NzOf(Flag(NzOf(p, r), CMask, k), w) = NzOf(Flag(p, CMask, k), w)
  BY <1>1, NzAroundC
<1> DEFINE q == NzOf(Flag(p, CMask, k), w)
<1>6. m = Both(Of(r, x, y, s, q, at), w)
  BY <1>4, <1>5
<1> HIDE DEF m, q, w, r, k
<1>7. [m.cpu EXCEPT !.A = m.byte] = Of(w, x, y, s, q, at)
  BY <1>6 DEF Both, Of
<1>20. AsrInTwo(c, d)
  BY <1>3, <1>7 DEF m, q, AsrInTwo
<1> QED
  BY <1>20 DEF c

LEMMA LoadsAreTwo ==
  ASSUME NEW a \in Byte, NEW x, NEW y, NEW s \in Byte, NEW p \in Byte, NEW at, NEW d \in Byte
  PROVE  LoadsInTwo(Of(a, x, y, s, p, at), d)
<1> DEFINE c == Of(a, x, y, s, p, at)
<1>0. c.A = a /\ c.X = x /\ c.S = s
  BY FieldsOf
<1>1. Lax(c, d) = Tax(Lda(c, d))
  <2>1. SetA(c, d) = Of(d, x, y, s, NzOf(p, d), at)
    BY SetOf
  <2>2. SetA(c, d).A = d
    BY <2>1, FieldsOf
  <2> HIDE DEF c
  <2> QED
    BY <2>2 DEF Lax, Tax, Lda
<1>2. Xaa(c, d) = AndA(Txa(c), d)
  <2> DEFINE r == And(x, d)
  <2>1. Txa(c) = Of(x, x, y, s, NzOf(p, x), at)
    BY <1>0, SetOf DEF Txa
  <2>2. AndA(Txa(c), d) = Of(r, x, y, s, NzOf(NzOf(p, x), r), at)
    BY <2>1, LogicOf
  <2>3. Xaa(c, d) = Of(r, x, y, s, NzOf(p, r), at)
    BY <1>0, SetOf DEF Xaa
  <2> QED
    BY <2>2, <2>3, NzTwice
<1>3. Lar(c, d) = Txs(Tax(AndA([c EXCEPT !.A = c.S], d)))
  <2> DEFINE r == And(d, s)
             e == NzOf(p, r)
             q == NzOf(e, r)
  <2>1. [c EXCEPT !.A = c.S] = Of(s, x, y, s, p, at)
    BY <1>0 DEF Of
  <2>2. AndA(Of(s, x, y, s, p, at), d) = Of(r, x, y, s, e, at)
    <3>1. And(s, d) = r
      BY AndCommutes DEF Byte
    <3> QED
      BY <3>1, LogicOf
  <2> HIDE DEF r, e, q
  <2>3. Tax(Of(r, x, y, s, e, at)) = Of(r, r, y, s, q, at)
    BY FieldsOf, SetOf DEF Tax, q
  <2>4. Txs(Of(r, r, y, s, q, at)) = Of(r, r, y, r, q, at)
    BY DEF Txs, Of
  <2>5. Lar(c, d) = [SetX(SetA(c, r), r) EXCEPT !.S = r]
    BY <1>0, Zenon DEF Lar, r
  <2>6. SetX(SetA(c, r), r) = Of(r, r, y, s, q, at)
    BY SetOf DEF e, q
  <2>7. [SetX(SetA(c, r), r) EXCEPT !.S = r] = Of(r, r, y, r, q, at)
    BY <2>6 DEF Of
  <2> QED
    BY <2>1, <2>2, <2>3, <2>4, <2>5, <2>7
<1>20. LoadsInTwo(c, d)
  BY <1>1, <1>2, <1>3 DEF LoadsInTwo
<1> QED
  BY <1>20 DEF c

LEMMA AacIsTwo ==
  ASSUME NEW a, NEW x, NEW y, NEW s, NEW p \in Byte, NEW at, NEW d
  PROVE  AacInTwo(Of(a, x, y, s, p, at), d)
<1> DEFINE c == Of(a, x, y, s, p, at)
           r == And(a, d)
           k == Truth(Has(r, \h80))
           q == NzOf(Flag(p, CMask, k), Low(2 * r))
<1>1. AndA(c, d) = Of(r, x, y, s, NzOf(p, r), at) /\ c.A = a
  BY LogicOf, FieldsOf
<1>2. Asl(c, r) = Both(Of(a, x, y, s, q, at), Low(2 * r))
  BY ShiftsOf
<1>3. Asl(c, r).cpu.P = q
  BY <1>2, FieldsOf DEF Both
<1>4. Has(r, \h80) \in BOOLEAN /\ k \in Bits
  BY TruthIs DEF Has
<1>5. Bit(q, CMask) = k
  BY <1>4, NzSets, FlagSetsC
<1>6. Bit(NzOf(p, r), NMask) = NegativeBit(r)
  BY NzSets
<1>7. On(Asl(c, r).cpu, CMask) <=> Negative(r)
  BY <1>3, <1>5 DEF On, Has, Bit, Truth, Negative
<1>8. On(AndA(c, d), NMask) <=> Negative(r)
  BY <1>1, <1>6, FieldsOf DEF On, Has, Bit, NegativeBit
<1>9. Aac(c, d) = Put(AndA(c, d), CMask, On(AndA(c, d), NMask))
  BY Zenon DEF Aac
<1> HIDE DEF c, r
<1>20. AacInTwo(c, d)
  BY <1>1, <1>7, <1>8, <1>9 DEF Put, c, r, AacInTwo
<1> QED
  BY <1>20 DEF c

LEMMA ArrIsTwo ==
  ASSUME NEW a, NEW x, NEW y, NEW s, NEW p \in Byte, NEW at, NEW d
  PROVE  ArrInTwo(Of(a, x, y, s, p, at), d)
<1> DEFINE c == Of(a, x, y, s, p, at)
           r == And(a, d)
           w == (r \div 2) + (\h80 * Bit(p, CMask))
           k == Truth(Has(r, 1))
           m == Ror(AndA(c, d), And(c.A, d))
           ror == [m.cpu EXCEPT !.A = m.byte]
           e == NzOf(p, r)
           q == NzOf(Flag(e, CMask, k), w)
           n == Has(w, \h40)
           o == Has(w, \h40) # Has(w, \h20)
           t == Flag(Flag(p, CMask, Truth(n)), VMask, Truth(o))
<1>1. c.A = a /\ Carry(c) = Bit(p, CMask)
  BY FieldsOf, CarryOf
<1>2. e \in Byte /\ Bit(e, CMask) = Bit(p, CMask)
  BY NzSets
<1>3. Has(r, 1) \in BOOLEAN /\ k \in Bits /\ n \in BOOLEAN /\ o \in BOOLEAN
  BY TruthIs DEF Has
<1>4. m = Both(Of(r, x, y, s, q, at), w)
  <2>1. AndA(c, d) = Of(r, x, y, s, e, at)
    BY LogicOf
  <2> HIDE DEF e
  <2>2. Ror(Of(r, x, y, s, e, at), r) = Both(Of(r, x, y, s, q, at), w)
    BY <1>2, ShiftsOf
  <2> QED
    BY <1>1, <2>1, <2>2
<1>5. Arr(c, d) = SetA(Put(Put(c, CMask, n), VMask, o), w)
  BY <1>1, Zenon DEF Arr
<1>6. q \in Byte /\ Bit(q, NMask) = NegativeBit(w)
  BY <1>2, <1>3, NzSets, FlagSetsC
<1>7. t \in Byte
  BY <1>3, TruthIs, FlagSetsC, FlagSetsV
<1> HIDE DEF n, o
<1>8. Put(Put(c, CMask, n), VMask, o) = Of(a, x, y, s, t, at)
  <2>1. Put(c, CMask, n) = Of(a, x, y, s, Flag(p, CMask, Truth(n)), at)
    BY <1>3, PutOf
  <2> QED
    BY <1>3, <2>1, PutOf
<1> HIDE DEF w, t, q, m, r, e
<1>9. Arr(c, d) = Of(w, x, y, s, NzOf(t, w), at)
  BY <1>5, <1>8, SetOf
<1>10. ror = Of(w, x, y, s, q, at)
  BY <1>4 DEF Both, Of
<1> DEFINE u == NzOf(t, w)
<1>11. Bit(u, NMask) = NegativeBit(w)
  BY <1>7, NzSets
<1>12. Arr(c, d) = Of(w, x, y, s, u, at)
  BY <1>9
<1> HIDE DEF u, ror, c
<1>13. Arr(c, d) = [ror EXCEPT !.P = Arr(c, d).P]
  BY <1>10, <1>12 DEF Of
<1>14. On(Arr(c, d), NMask) = On(ror, NMask)
  <2>1. Arr(c, d).P = u /\ ror.P = q
    BY <1>10, <1>12, FieldsOf
  <2> QED
    BY <1>6, <1>11, <2>1 DEF On, Has, Bit
<1>20. ArrInTwo(c, d)
  BY <1>13, <1>14 DEF c, ror, m, ArrInTwo
<1> QED
  BY <1>20 DEF c

LEMMA AxsIsTwo ==
  ASSUME NEW a \in Byte, NEW x \in Byte, NEW y, NEW s, NEW p \in Byte, NEW at, NEW d \in Byte
  PROVE  AxsInTwo(Of(a, x, y, s, p, at), d)
<1> DEFINE c == Of(a, x, y, s, p, at)
           b == And(a, x)
           difference == Word(b - d)
           low == Low(difference)
           k == difference < \h100
<1>1. c.A = a /\ c.X = x /\ Aax(c) = b
  BY FieldsOf DEF Aax
<1>2. b \in Byte /\ b = And(x, a)
  <2>1. a \in Int /\ x \in Int
    BY DEF Byte
  <2> QED
    BY <2>1, AndIsByte, AndCommutes
<1> HIDE DEF b
<1>3. k \in BOOLEAN /\ (k <=> ~Has(difference, \h8000)) /\ low = Low(b - d)
  BY <1>2 DEF Word, Low, Has, Byte
<1>4. Axs(c, d) = Put(SetX(c, low), CMask, k)
  BY <1>1, <1>2, Zenon DEF Axs
<1>5. Cmp([c EXCEPT !.A = b], d)
        = Nz(Put(Of(b, x, y, s, p, at), CMask, ~Has(difference, \h8000)), low)
  <2>1. [c EXCEPT !.A = b] = Of(b, x, y, s, p, at)
    BY DEF Of
  <2>2. Of(b, x, y, s, p, at).A = b
    BY FieldsOf
  <2> DEFINE f == Of(b, x, y, s, p, at)
  <2>3. Cmp(f, d) = Compare(f, f.A, d)
    BY Zenon DEF Cmp
  <2> HIDE DEF f
  <2>4. Compare(f, b, d) = Nz(Put(f, CMask, ~Has(difference, \h8000)), low)
    BY DEF Compare
  <2> HIDE DEF c, difference, low
  <2> QED
    BY <2>1, <2>2, <2>3, <2>4 DEF f
<1> HIDE DEF difference, low, k
<1>6. Put(Of(b, x, y, s, p, at), CMask, ~Has(difference, \h8000))
        = Put(Of(b, x, y, s, p, at), CMask, k)
  BY <1>3 DEF Put
<1> DEFINE e == Flag(p, CMask, Truth(k))
           q == NzOf(e, low)
<1>7. Cmp([c EXCEPT !.A = b], d) = Of(b, x, y, s, q, at)
  <2>1. Put(Of(b, x, y, s, p, at), CMask, k) = Of(b, x, y, s, e, at)
    BY <1>3, PutOf
  <2> QED
    BY <1>5, <1>6, <2>1, NzSetsOf
<1>8. Axs(c, d) = Of(a, low, y, s, q, at)
  <2>1. SetX(c, low) = Of(a, low, y, s, NzOf(p, low), at)
    BY SetOf
  <2>2. Put(Of(a, low, y, s, NzOf(p, low), at), CMask, k)
          = Of(a, low, y, s, Flag(NzOf(p, low), CMask, Truth(k)), at)
    BY <1>3, PutOf
  <2>3. Flag(NzOf(p, low), CMask, Truth(k)) = q
    BY <1>3, TruthIs, NzBesideC
  <2> QED
    BY <1>4, <2>1, <2>2, <2>3
<1> DEFINE r == Cmp([c EXCEPT !.A = b], d)
<1>9. r = Of(b, x, y, s, q, at)
  BY <1>7
<1> HIDE DEF q, r
<1>10. [r EXCEPT !.A = a, !.X = low] = Of(a, low, y, s, q, at)
  <2>1. [r EXCEPT !.A = a, !.X = low] = [[r EXCEPT !.A = a] EXCEPT !.X = low]
    OBVIOUS
  <2>2. [r EXCEPT !.A = a] = Of(a, x, y, s, q, at)
    BY <1>9 DEF Of
  <2> DEFINE h == [r EXCEPT !.A = a]
  <2> HIDE DEF h
  <2>3. [h EXCEPT !.X = low] = Of(a, low, y, s, q, at)
    <3>1. h = Of(a, x, y, s, q, at)
      BY <2>2 DEF h
    <3> QED
      BY <3>1 DEF Of
  <2> QED
    BY <2>1, <2>3 DEF h
<1>20. AxsInTwo(c, d)
  BY <1>1, <1>3, <1>8, <1>10 DEF r, AxsInTwo
<1> QED
  BY <1>20 DEF c

\* Slo, Sre, Rla, Rra, Dcp, Isc, Asr, Lax, Xaa, Lar, Aac, Arr and Axs do what
\* their two halves do, for all registers and all operands: every value of A, X,
\* Y, S and P and of the byte read (src/src/opcodes/unofficial).
THEOREM EveryUnofficialIsTwo ==
  ASSUME NEW c \in Registers, NEW d \in Byte
  PROVE  TwoInOne(c, d)
<1>1. PICK a \in Byte, x \in Byte, y \in Byte, s \in Byte, p \in Byte, at \in Int :
        c = Of(a, x, y, s, p, at)
  <2>1. /\ c.A \in Byte /\ c.X \in Byte /\ c.Y \in Byte /\ c.S \in Byte /\ c.P \in Byte
        /\ c.PC \in Int
    BY DEF Registers
  <2>2. c = Of(c.A, c.X, c.Y, c.S, c.P, c.PC)
    BY DEF Registers, Of
  <2> QED
    BY <2>1, <2>2
<1> DEFINE k == Of(a, x, y, s, p, at)
<1>2. /\ Slo(k, d) = Then(Asl(k, d), OraA)
      /\ Sre(k, d) = Then(Lsr(k, d), EorA)
      /\ Rla(k, d) = Then(Rol(k, d), AndA)
      /\ Rra(k, d) = Then(Ror(k, d), Adc)
      /\ Dcp(k, d) = Then(Dec(k, d), Cmp)
      /\ Isc(k, d) = Then(Inc(k, d), Sbc)
  BY SloIsTwo, SreIsTwo, RlaIsTwo, RraIsTwo, DcpIsTwo, IscIsTwo
<1>3. AsrInTwo(k, d) /\ LoadsInTwo(k, d) /\ AacInTwo(k, d) /\ ArrInTwo(k, d) /\ AxsInTwo(k, d)
  BY AsrIsTwo, LoadsAreTwo, AacIsTwo, ArrIsTwo, AxsIsTwo
<1> HIDE DEF k
<1>4. TwoInOne(k, d)
  BY <1>2, <1>3, Zenon
     DEF TwoInOne, AsrInTwo, LoadsInTwo, AacInTwo, ArrInTwo, AxsInTwo
<1> QED
  BY <1>1, <1>4 DEF k

-----------------------------------------------------------------------------
\* The inductive invariant: an opcode job stands on its jump, where no interrupt
\* comes, and keeps the registers it was given.
OpcodeStands ==
  /\ job \in Jobs
  /\ job.name = "opcode" =>
       /\ cpu \in [A : Byte, X : Byte, Y : Byte, S : Byte, P : Byte, PC : {Base}]
       /\ irqs = 0 /\ nmis = 0

LEMMA OpcodeStandsInit == ProgInit => OpcodeStands
  BY OpcodeJobsAssumption DEF ProgInit, OpcodeStands, Byte

LEMMA OpcodeStandsNext == OpcodeStands /\ [ProgNext]_progVars => OpcodeStands'
<1> SUFFICES ASSUME OpcodeStands, [ProgNext]_progVars
             PROVE  OpcodeStands'
  OBVIOUS
<1>1. job \in Jobs /\ job' = job
  BY DEF OpcodeStands, ProgNext, Plain, Quiet, Rti, Nmi, Irq, Brk, Vector, progVars
<1> SUFFICES ASSUME job.name = "opcode"
             PROVE  /\ cpu' \in [A : Byte, X : Byte, Y : Byte, S : Byte, P : Byte, PC : {Base}]
                    /\ irqs' = 0 /\ nmis' = 0
  BY <1>1 DEF OpcodeStands
<1>2. /\ cpu \in [A : Byte, X : Byte, Y : Byte, S : Byte, P : Byte, PC : {Base}]
      /\ irqs = 0 /\ nmis = 0 /\ cpu.PC = Base
  BY DEF OpcodeStands
<1>3. /\ Code(cpu.PC).kind = "other"
      /\ Code(cpu.PC).op = "jmp"
      /\ Code(cpu.PC).arg = Base
  <2>1. Code(cpu.PC) = job.code[1]
    <3>1. ~(Base >= NmiBase) /\ ~(Base >= IrqBase /\ Base < NmiBase) /\ 1 + Base - Base = 1
      BY LayoutAssumption
    <3> QED
      BY <1>2, <3>1, Zenon DEF Code
  <2> QED
    BY <1>1, <2>1, OpcodeJobsAssumption
<1>4. ~Rti /\ ~Nmi /\ ~Irq /\ ~Brk
  <2>1. ~Rti /\ ~Brk
    BY <1>3 DEF Rti, Brk
  <2>2. ~Nmi /\ ~Irq
    BY <1>2 DEF Nmi, Irq
  <2> QED
    BY <2>1, <2>2
<1>5. CASE UNCHANGED progVars
  BY <1>2, <1>5 DEF progVars
<1>6. CASE Plain
  <2> DEFINE i == Code(cpu.PC)
             c == Next1(cpu)
  <2>1. cpu' = [c EXCEPT !.PC = i.arg] /\ Quiet
    BY <1>3, <1>6, Zenon DEF Plain
  <2>2. c \in [A : Byte, X : Byte, Y : Byte, S : Byte, P : Byte, PC : Int]
    <3>1. Word(cpu.PC + 1) \in Int
      BY <1>2, LayoutAssumption DEF Word
    <3> QED
      BY <1>2, <3>1 DEF Next1
  <2> HIDE DEF c, i
  <2>3. cpu' = [c EXCEPT !.PC = Base]
    BY <1>3, <2>1 DEF i
  <2>4. cpu' \in [A : Byte, X : Byte, Y : Byte, S : Byte, P : Byte, PC : {Base}]
    BY <2>2, <2>3
  <2> QED
    BY <1>2, <2>1, <2>4 DEF Quiet
<1> QED
  BY <1>4, <1>5, <1>6 DEF ProgNext

\* Whatever bytes the opcode jobs hold, the unofficial instructions do at them
\* what their two halves do.
THEOREM UnofficialOpcodesAreTwo == ProgSpec => []UnofficialAreTwo
<1>1. OpcodeStands => UnofficialAreTwo
  <2> SUFFICES ASSUME OpcodeStands, job.name = "opcode"
               PROVE  TwoInOne(cpu, job.arg)
    BY DEF UnofficialAreTwo
  <2>1. cpu \in Registers
    BY LayoutAssumption DEF OpcodeStands, Registers
  <2>2. job.arg \in Byte
    BY OpcodeJobsAssumption DEF OpcodeStands, Byte
  <2> QED
    BY <2>1, <2>2, EveryUnofficialIsTwo
<1> QED
  BY <1>1, OpcodeStandsInit, OpcodeStandsNext, PTL DEF ProgSpec

(* ------------------------------------------------------------ arithmetic *)

\* A byte as a signed number.
SignedByte(v) == IF v >= 128 THEN v - 256 ELSE v

LEMMA FlagsReckoned ==
  ASSUME NEW a, NEW x, NEW y, NEW s, NEW p \in Byte, NEW at,
         NEW o \in BOOLEAN, NEW k \in BOOLEAN, NEW r \in Byte
  PROVE  LET c == Reckoned(Of(a, x, y, s, p, at), o, k, r)
         IN  /\ c.A = r /\ c.P \in Byte
             /\ c.X = x /\ c.Y = y /\ c.S = s /\ c.PC = at
             /\ Carry(c) = Truth(k)
             /\ On(c, VMask) <=> o
             /\ On(c, ZMask) <=> r = 0
             /\ On(c, NMask) <=> r >= 128
<1> DEFINE e == Flag(p, VMask, Truth(o))
           f == Flag(e, CMask, Truth(k))
           q == NzOf(f, r)
           c == Of(r, x, y, s, q, at)
<1>1. Reckoned(Of(a, x, y, s, p, at), o, k, r) = c
  BY ReckonedOf
<1>2. Truth(o) \in Bits /\ Truth(k) \in Bits
  BY TruthIs
<1>3. e \in Byte /\ Bit(e, VMask) = Truth(o)
  BY <1>2, FlagSetsV
<1> HIDE DEF e
<1>4. f \in Byte /\ Bit(f, VMask) = Truth(o) /\ Bit(f, CMask) = Truth(k)
  BY <1>2, <1>3, FlagSetsC
<1> HIDE DEF f
<1>5. /\ q \in Byte /\ Bit(q, VMask) = Truth(o) /\ Bit(q, CMask) = Truth(k)
      /\ Bit(q, NMask) = NegativeBit(r) /\ Bit(q, ZMask) = ZeroBit(r)
  BY <1>4, NzSets
<1> HIDE DEF q
<1>6. c.A = r /\ c.P = q /\ c.X = x /\ c.Y = y /\ c.S = s /\ c.PC = at
  BY FieldsOf
<1>7. Carry(c) = Truth(k)
  BY <1>5, CarryOf
<1> HIDE DEF c
<1>8. On(c, VMask) <=> o
  BY <1>5, <1>6 DEF On, Has, Bit, Truth
<1>9. On(c, ZMask) <=> r = 0
  BY <1>5, <1>6 DEF On, Has, Bit, ZeroBit
<1>10. On(c, NMask) <=> r >= 128
  BY <1>5, <1>6 DEF On, Has, Bit, NegativeBit, Negative, Byte
<1> QED
  BY <1>1, <1>5, <1>6, <1>7, <1>8, <1>9, <1>10

\* Cutting to a byte and to a word, and the bits on which the code decides.
LEMMA SumIsCut ==
  ASSUME NEW n \in Int, 0 <= n, n <= 511
  PROVE  /\ Low(n) = IF n < 256 THEN n ELSE n - 256
         /\ Has(n, \h100) <=> n >= 256
         /\ Negative(n) <=> (128 <= n /\ n < 256) \/ 384 <= n
  BY DEF Low, Has, Negative

LEMMA DifferenceIsCut ==
  ASSUME NEW n \in Int, -256 <= n, n <= 255
  PROVE  /\ Word(n) = IF n < 0 THEN n + 65536 ELSE n
         /\ Low(Word(n)) = IF n < 0 THEN n + 256 ELSE n
         /\ Word(n) < \h100 <=> n >= 0
         /\ Negative(Word(n)) <=> n >= 128 \/ (-128 <= n /\ n < 0)
         /\ Has(Word(n), \h8000) <=> n < 0
<1>1. Word(n) = IF n < 0 THEN n + 65536 ELSE n
  BY DEF Word
<1>2. CASE n < 0
  <2> DEFINE w == n + 65536
  <2>1. w \in Int /\ 65280 <= w /\ w < 65536 /\ w - 65536 = n
    BY <1>2
  <2> HIDE DEF w
  <2>2. w % 256 = w - 65280 /\ (w \div 128) % 2 = (IF w >= 65408 THEN 1 ELSE 0)
        /\ (w \div 32768) % 2 = 1
    BY <2>1
  <2>3. Word(n) = w
    BY <1>1, <1>2 DEF w
  <2> QED
    BY <1>2, <2>1, <2>2, <2>3 DEF Low, Has, Negative
<1>3. CASE n >= 0
  BY <1>1, <1>3 DEF Low, Has, Negative
<1> QED
  BY <1>2, <1>3

\* The overflow of the code is that of a signed sum, and of a signed difference.
LEMMA OverflowsAreSigned ==
  ASSUME NEW a \in Byte, NEW d \in Byte, NEW b \in 0..1
  PROVE  /\ SumOverflows(a, d, a + d + b)
              <=> SignedByte(a) + SignedByte(d) + b \notin -128..127
         /\ DifferenceOverflows(a, d, Word(a - d - (1 - b)))
              <=> SignedByte(a) - SignedByte(d) - (1 - b) \notin -128..127
<1> DEFINE n == a + d + b
           t == a - d - (1 - b)
<1>1. n \in Int /\ 0 <= n /\ n <= 511 /\ t \in Int /\ -256 <= t /\ t <= 255
  BY DEF Byte
<1>2. /\ Negative(a) <=> a >= 128
      /\ Negative(d) <=> d >= 128
  BY DEF Negative, Has, Byte
<1>3. Negative(n) <=> (128 <= n /\ n < 256) \/ 384 <= n
  <2> HIDE DEF n
  <2> QED
    BY <1>1, SumIsCut
<1>4. Negative(Word(t)) <=> t >= 128 \/ (-128 <= t /\ t < 0)
  <2> HIDE DEF t
  <2> QED
    BY <1>1, DifferenceIsCut
<1> DEFINE sa == SignedByte(a)
           sd == SignedByte(d)
<1>5. /\ sa \in Int /\ (a >= 128 => sa = a - 256) /\ (~(a >= 128) => sa = a)
      /\ sd \in Int /\ (d >= 128 => sd = d - 256) /\ (~(d >= 128) => sd = d)
      /\ a \in 0..255 /\ d \in 0..255
  BY DEF SignedByte, Byte
<1>6. n = a + d + b /\ t = a - d - (1 - b)
  OBVIOUS
<1> HIDE DEF n, t, sa, sd
<1>7. SumOverflows(a, d, n) <=> sa + sd + b \notin -128..127
  <2>1. SumOverflows(a, d, n) <=> (Negative(a) <=> Negative(d)) /\ ~(Negative(a) <=> Negative(n))
    <3>1. Negative(a) \in BOOLEAN /\ Negative(d) \in BOOLEAN /\ Negative(n) \in BOOLEAN
      BY DEF Negative, Has
    <3> QED
      BY <3>1, Zenon DEF SumOverflows
  <2> QED
    BY <1>1, <1>2, <1>3, <1>5, <1>6, <2>1
<1>8. DifferenceOverflows(a, d, Word(t)) <=> sa - sd - (1 - b) \notin -128..127
  <2>1. DifferenceOverflows(a, d, Word(t))
          <=> ~(Negative(a) <=> Negative(d)) /\ ~(Negative(a) <=> Negative(Word(t)))
    <3>1. /\ Negative(a) \in BOOLEAN /\ Negative(d) \in BOOLEAN
          /\ Negative(Word(t)) \in BOOLEAN
      BY DEF Negative, Has
    <3> QED
      BY <3>1, Zenon DEF DifferenceOverflows
  <2> QED
    BY <1>1, <1>2, <1>4, <1>5, <1>6, <2>1
<1> QED
  BY <1>7, <1>8 DEF n, t, sa, sd

LEMMA RegistersAre ==
  ASSUME NEW c \in Registers
  PROVE  \E a \in Byte, x \in Byte, y \in Byte, s \in Byte, p \in Byte, at \in Int :
           c = Of(a, x, y, s, p, at)
<1>1. /\ c.A \in Byte /\ c.X \in Byte /\ c.Y \in Byte /\ c.S \in Byte /\ c.P \in Byte
      /\ c.PC \in Int
  BY DEF Registers
<1>2. c = Of(c.A, c.X, c.Y, c.S, c.P, c.PC)
  BY DEF Registers, Of
<1> QED
  BY <1>1, <1>2

LEMMA OfAreRegisters ==
  ASSUME NEW a \in Byte, NEW x \in Byte, NEW y \in Byte, NEW s \in Byte, NEW p \in Byte,
         NEW at \in Int
  PROVE  Of(a, x, y, s, p, at) \in Registers
  BY DEF Of, Registers

\* What is not of the result: the other registers.
Kept(c, r) == r.X = c.X /\ r.Y = c.Y /\ r.S = c.S /\ r.PC = c.PC
ResultFlags(r) == (On(r, ZMask) <=> r.A = 0) /\ (On(r, NMask) <=> r.A >= 128)

LEMMA ReckonedIs ==
  ASSUME NEW c \in Registers, NEW o \in BOOLEAN, NEW k \in BOOLEAN, NEW v \in Byte
  PROVE  LET r == Reckoned(c, o, k, v)
         IN  /\ r \in Registers /\ r.A = v /\ Kept(c, r) /\ ResultFlags(r)
             /\ Carry(r) = Truth(k) /\ (On(r, VMask) <=> o)
<1>1. PICK a \in Byte, x \in Byte, y \in Byte, s \in Byte, p \in Byte, at \in Int :
        c = Of(a, x, y, s, p, at)
  BY RegistersAre
<1> DEFINE r == Reckoned(Of(a, x, y, s, p, at), o, k, v)
<1>2. /\ r.A = v /\ r.P \in Byte
      /\ r.X = x /\ r.Y = y /\ r.S = s /\ r.PC = at
      /\ Carry(r) = Truth(k)
      /\ On(r, VMask) <=> o
      /\ On(r, ZMask) <=> v = 0
      /\ On(r, NMask) <=> v >= 128
  BY FlagsReckoned
<1>3. r \in Registers
  <2> DEFINE q == NzOf(Flag(Flag(p, VMask, Truth(o)), CMask, Truth(k)), v)
  <2>1. r = Of(v, x, y, s, q, at)
    BY ReckonedOf
  <2>2. q \in Byte
    BY TruthIs, FlagSetsV, FlagSetsC, NzSets
  <2> HIDE DEF q, r
  <2> QED
    BY <2>1, <2>2, OfAreRegisters
<1>4. c.X = x /\ c.Y = y /\ c.S = s /\ c.PC = at
  BY <1>1, FieldsOf
<1> HIDE DEF r
<1>5. Kept(c, r) /\ ResultFlags(r)
  BY <1>2, <1>4 DEF Kept, ResultFlags
<1> QED
  BY <1>1, <1>2, <1>3, <1>5, Zenon DEF r

LEMMA CarryIs == ASSUME NEW c \in Registers PROVE Carry(c) \in 0..1
  BY DEF Carry

\* The sum of nine bits, C and A, is exact, V says whether the signed sum is out
\* of a byte, and no other register changes.
Adds(c, d, r) ==
  /\ r \in Registers /\ Kept(c, r) /\ ResultFlags(r)
  /\ r.A + (256 * Carry(r)) = c.A + d + Carry(c)
  /\ On(r, VMask) <=> SignedByte(c.A) + SignedByte(d) + Carry(c) \notin -128..127

\* ADC adds, whatever A, the operand and the carry: src/src/opcodes/adc.h, which
\* takes C and V from single bits of the sum.
THEOREM AdcAdds ==
  ASSUME NEW c \in Registers, NEW d \in Byte
  PROVE  Adds(c, d, Adc(c, d))
<1> DEFINE a == c.A
           b == Carry(c)
           n == a + d + b
           o == SumOverflows(a, d, n)
           k == Has(n, \h100)
           v == Low(n)
           r == Reckoned(c, o, k, v)
<1>1. Adc(c, d) = r
  BY DEF Adc, Reckoned, SumOverflows
<1>2. a \in Byte /\ b \in 0..1
  BY CarryIs DEF Registers
<1>3. o \in BOOLEAN /\ k \in BOOLEAN
  BY DEF SumOverflows, Has
<1>4. o <=> SignedByte(a) + SignedByte(d) + b \notin -128..127
  <2> HIDE DEF a, b
  <2> QED
    BY <1>2, OverflowsAreSigned
<1>5. n \in Int /\ 0 <= n /\ n <= 511
  BY <1>2 DEF Byte
<1> HIDE DEF n
<1>6. v \in Byte /\ v + (256 * Truth(k)) = n
  <2>1. v = (IF n < 256 THEN n ELSE n - 256) /\ (k <=> n >= 256)
    BY <1>5, SumIsCut
  <2>2. Truth(k) = IF n >= 256 THEN 1 ELSE 0
    BY <2>1 DEF Truth
  <2> HIDE DEF v, k
  <2> QED
    BY <1>5, <2>1, <2>2 DEF Byte
<1> HIDE DEF o, k, v
<1>7. /\ r \in Registers /\ r.A = v /\ Kept(c, r) /\ ResultFlags(r)
      /\ Carry(r) = Truth(k) /\ (On(r, VMask) <=> o)
  BY <1>3, <1>6, ReckonedIs
<1> HIDE DEF r
<1>8. r.A + (256 * Carry(r)) = a + d + b
  BY <1>6, <1>7 DEF n
<1> HIDE DEF a, b
<1>9. Adds(c, d, r)
  BY <1>4, <1>7, <1>8 DEF Adds, a, b
<1> QED
  BY <1>1, <1>9

\* The same of a difference: the carry is the borrow that did not happen.
Subtracts(c, d, r) ==
  /\ r \in Registers /\ Kept(c, r) /\ ResultFlags(r)
  /\ r.A = c.A - d - (1 - Carry(c)) + (256 * (1 - Carry(r)))
  /\ On(r, VMask) <=> SignedByte(c.A) - SignedByte(d) - (1 - Carry(c)) \notin -128..127

\* And SBC subtracts: src/src/opcodes/sbc.h, which takes C, V and A from the
\* difference cut to 16 bits.
THEOREM SbcSubtracts ==
  ASSUME NEW c \in Registers, NEW d \in Byte
  PROVE  Subtracts(c, d, Sbc(c, d))
<1> DEFINE a == c.A
           b == Carry(c)
           n == a - d - (1 - b)
           w == Word(n)
           o == DifferenceOverflows(a, d, w)
           k == w < \h100
           v == Low(w)
           r == Reckoned(c, o, k, v)
<1>1. Sbc(c, d) = r
  BY DEF Sbc, Reckoned, DifferenceOverflows
<1>2. a \in Byte /\ b \in 0..1
  BY CarryIs DEF Registers
<1>3. o \in BOOLEAN /\ k \in BOOLEAN
  BY DEF DifferenceOverflows
<1>4. o <=> SignedByte(a) - SignedByte(d) - (1 - b) \notin -128..127
  <2> HIDE DEF a, b
  <2> QED
    BY <1>2, OverflowsAreSigned
<1>5. n \in Int /\ -256 <= n /\ n <= 255
  BY <1>2 DEF Byte
<1> HIDE DEF n
<1>6. v \in Byte /\ v = n + (256 * (1 - Truth(k)))
  <2>1. v = (IF n < 0 THEN n + 256 ELSE n) /\ (k <=> n >= 0)
    BY <1>5, DifferenceIsCut
  <2>2. Truth(k) = IF n >= 0 THEN 1 ELSE 0
    BY <2>1 DEF Truth
  <2> HIDE DEF v, k
  <2> QED
    BY <1>5, <2>1, <2>2 DEF Byte
<1> HIDE DEF o, k, v
<1>7. /\ r \in Registers /\ r.A = v /\ Kept(c, r) /\ ResultFlags(r)
      /\ Carry(r) = Truth(k) /\ (On(r, VMask) <=> o)
  BY <1>3, <1>6, ReckonedIs
<1> HIDE DEF r
<1>8. r.A = a - d - (1 - b) + (256 * (1 - Carry(r)))
  BY <1>6, <1>7 DEF n
<1> HIDE DEF a, b
<1>9. Subtracts(c, d, r)
  BY <1>4, <1>7, <1>8 DEF Subtracts, a, b
<1> QED
  BY <1>1, <1>9

LEMMA LoadKeepsCarry ==
  ASSUME NEW c \in Registers, NEW v \in Byte
  PROVE  Lda(c, v) \in Registers /\ Lda(c, v).A = v /\ Carry(Lda(c, v)) = Carry(c)
<1>1. PICK a \in Byte, x \in Byte, y \in Byte, s \in Byte, p \in Byte, at \in Int :
        c = Of(a, x, y, s, p, at)
  BY RegistersAre
<1> DEFINE e == Of(a, x, y, s, p, at)
           q == NzOf(p, v)
           r == Of(v, x, y, s, q, at)
<1>2. Lda(e, v) = r
  BY SetOf DEF Lda
<1>3. q \in Byte /\ Bit(q, CMask) = Bit(p, CMask)
  BY NzSets
<1> HIDE DEF q
<1>4. r \in Registers /\ r.A = v /\ Carry(r) = Bit(q, CMask) /\ Carry(e) = Bit(p, CMask)
  BY <1>3, OfAreRegisters, FieldsOf, CarryOf
<1> HIDE DEF r, e
<1> QED
  BY <1>1, <1>2, <1>3, <1>4 DEF e

LEMMA CarryIsSet ==
  ASSUME NEW c \in Registers
  PROVE  /\ Clc(c) \in Registers /\ Carry(Clc(c)) = 0
         /\ Sec(c) \in Registers /\ Carry(Sec(c)) = 1
<1>1. PICK a \in Byte, x \in Byte, y \in Byte, s \in Byte, p \in Byte, at \in Int :
        c = Of(a, x, y, s, p, at)
  BY RegistersAre
<1> DEFINE e == Of(a, x, y, s, p, at)
           q0 == Flag(p, CMask, 0)
           q1 == Flag(p, CMask, 1)
<1>2. Clc(e) = Of(a, x, y, s, q0, at) /\ Sec(e) = Of(a, x, y, s, q1, at)
  BY DEF Clc, Sec, Put, Of, Flag
<1>3. q0 \in Byte /\ Bit(q0, CMask) = 0 /\ q1 \in Byte /\ Bit(q1, CMask) = 1
  BY FlagSetsC DEF Bits
<1> HIDE DEF e, q0, q1
<1>4. /\ Clc(e) \in Registers /\ Carry(Clc(e)) = 0
      /\ Sec(e) \in Registers /\ Carry(Sec(e)) = 1
  BY <1>2, <1>3, OfAreRegisters, CarryOf
<1> QED
  BY <1>1, <1>4 DEF e

\* The decimal mode, which the console's processor does not have, leaves the
\* carry alone.
LEMMA DecimalKeepsCarry ==
  ASSUME NEW c \in Registers
  PROVE  Sed(c) \in Registers /\ Carry(Sed(c)) = Carry(c)
<1>1. PICK a \in Byte, x \in Byte, y \in Byte, s \in Byte, p \in Byte, at \in Int :
        c = Of(a, x, y, s, p, at)
  BY RegistersAre
<1> DEFINE e == Of(a, x, y, s, p, at)
           q == Raised(p, DMask)
<1>2. Sed(e) = Of(a, x, y, s, q, at)
  BY DEF Sed, Put, Of
<1>3. q \in Byte /\ Bit(q, CMask) = Bit(p, CMask)
  BY DEF Raised, Has, Bit, CMask, DMask, Byte
<1> HIDE DEF q
<1>4. /\ Of(a, x, y, s, q, at) \in Registers
      /\ Carry(Of(a, x, y, s, q, at)) = Bit(q, CMask) /\ Carry(e) = Bit(p, CMask)
  BY <1>3, OfAreRegisters, CarryOf
<1>5. Sed(e) \in Registers /\ Carry(Sed(e)) = Carry(e)
  BY <1>2, <1>3, <1>4
<1> QED
  BY <1>1, <1>5

\* Two bytes of a word.
Words == {w \in Nat : w < 65536}
SignedWords == {w \in Int : -32768 <= w /\ w <= 32767}

LEMMA WordIsTwoBytes ==
  ASSUME NEW w \in Words
  PROVE  /\ w % 256 \in Byte /\ w \div 256 \in Byte
         /\ w = 256 * (w \div 256) + (w % 256)
         /\ Signed(w) = 256 * SignedByte(w \div 256) + (w % 256)
<1> DEFINE l == w % 256
           h == w \div 256
<1>1. l \in 0..255 /\ h \in 0..255 /\ w = 256 * h + l
  BY DEF Words
<1> HIDE DEF l, h
<1>2. Signed(w) = 256 * SignedByte(h) + l
  BY <1>1 DEF Signed, SignedByte
<1> QED
  BY <1>1, <1>2 DEF l, h, Byte

\* The bytes of two words, those of their sum, and the two carries.
Carried(pl, ph, ql, qh, l, h, k, n) ==
  /\ pl \in Byte /\ ph \in Byte /\ ql \in Byte /\ qh \in Byte
  /\ l \in Byte /\ h \in Byte /\ k \in 0..1 /\ n \in 0..1
  /\ l + 256 * k = pl + ql /\ h + 256 * n = ph + qh + k

\* A carry from the low bytes into the high ones makes the sum of two words.
SumOfWords(t, l, h, n) == t % 65536 = 256 * h + l /\ (t > 65535 <=> n = 1)

LEMMA CarriedSum ==
  ASSUME NEW pl, NEW ph, NEW ql, NEW qh, NEW l, NEW h, NEW k, NEW n,
         Carried(pl, ph, ql, qh, l, h, k, n)
  PROVE  SumOfWords((256 * ph + pl) + (256 * qh + ql), l, h, n)
<1> DEFINE m == 256 * h + l
           t == (256 * ph + pl) + (256 * qh + ql)
<1>1. m \in Int /\ 0 <= m /\ m < 65536 /\ t \in Int /\ n \in 0..1
  BY DEF Carried, Byte
<1>2. t = m + 65536 * n
  BY DEF Carried, Byte
<1> HIDE DEF m, t
<1>3. t > 65535 <=> n = 1
  BY <1>1, <1>2
<1>4. t % 65536 = m
  <2>1. CASE n = 0
    <3>1. t = m
      BY <1>1, <1>2, <2>1
    <3> QED
      BY <1>1, <3>1
  <2>2. CASE n = 1
    <3>1. t = m + 65536
      BY <1>1, <1>2, <2>2
    <3> QED
      BY <1>1, <3>1
  <2> QED
    BY <1>1, <2>1, <2>2
<1> QED
  BY <1>3, <1>4 DEF SumOfWords, m, t

\* And the signed sum of the high bytes is out of a byte when that of the words
\* is out of a word.
SignOfWords(pl, ph, ql, qh, k) ==
  SignedByte(ph) + SignedByte(qh) + k \notin -128..127
    <=> (256 * SignedByte(ph) + pl) + (256 * SignedByte(qh) + ql) \notin SignedWords

LEMMA CarriedSign ==
  ASSUME NEW pl, NEW ph, NEW ql, NEW qh, NEW l, NEW h, NEW k, NEW n,
         Carried(pl, ph, ql, qh, l, h, k, n)
  PROVE  SignOfWords(pl, ph, ql, qh, k)
<1> DEFINE g == SignedByte(ph) + SignedByte(qh) + k
           u == (256 * SignedByte(ph) + pl) + (256 * SignedByte(qh) + ql)
<1>1. SignedByte(ph) \in Int /\ SignedByte(qh) \in Int
  BY DEF Carried, SignedByte, Byte
<1>2. g \in Int /\ u = 256 * g + l /\ l \in 0..255
  BY <1>1 DEF Carried, Byte
<1> HIDE DEF g, u
<1>3. g < -128 \/ g > 127 <=> u < -32768 \/ u > 32767
  BY <1>2
<1>4. g \notin -128..127 <=> g < -128 \/ g > 127
  BY <1>2
<1>5. u \notin SignedWords <=> u < -32768 \/ u > 32767
  BY <1>2 DEF SignedWords
<1> QED
  BY <1>3, <1>4, <1>5 DEF SignOfWords, g, u

\* The addition of two words as games write it (and the program Add of the run):
\* CLC, and for each byte LDA and ADC. The two bytes are those of the sum cut to
\* 16 bits, C says whether it was cut and V whether the signed sum is out of a word.
LowAdded(c, p, q) == Adc(Lda(Sed(Clc(c)), p % 256), q % 256)
HighAdded(c, p, q) == Adc(Lda(LowAdded(c, p, q), p \div 256), q \div 256)
AddedWords(c, p, q) ==
  /\ 256 * HighAdded(c, p, q).A + LowAdded(c, p, q).A = (p + q) % 65536
  /\ On(HighAdded(c, p, q), CMask) <=> p + q > 65535
  /\ On(HighAdded(c, p, q), VMask) <=> Signed(p) + Signed(q) \notin SignedWords

\* The carry of adc.h chains: words are added right byte by byte, for all words
\* and with the decimal mode on, which the console's processor does not have.
THEOREM WordsAdd ==
  ASSUME NEW c \in Registers, NEW p \in Words, NEW q \in Words
  PROVE  AddedWords(c, p, q)
<1> DEFINE pl == p % 256
           ph == p \div 256
           ql == q % 256
           qh == q \div 256
           begun == Sed(Clc(c))
           c0 == Lda(begun, pl)
           low == LowAdded(c, p, q)
           c1 == Lda(low, ph)
           high == HighAdded(c, p, q)
<1>1. /\ pl \in Byte /\ ph \in Byte /\ p = 256 * ph + pl
      /\ ql \in Byte /\ qh \in Byte /\ q = 256 * qh + ql
      /\ Signed(p) = 256 * SignedByte(ph) + pl
      /\ Signed(q) = 256 * SignedByte(qh) + ql
  BY WordIsTwoBytes
<1>2. begun \in Registers /\ Carry(begun) = 0
  BY CarryIsSet, DecimalKeepsCarry
<1>0. low = Adc(c0, ql) /\ high = Adc(c1, qh)
  BY DEF LowAdded, HighAdded
<1> HIDE DEF pl, ph, ql, qh, begun
<1>3. c0 \in Registers /\ c0.A = pl /\ Carry(c0) = 0
  BY <1>1, <1>2, LoadKeepsCarry
<1> HIDE DEF c0
<1>4. Adds(c0, ql, low)
  BY <1>0, <1>1, <1>3, AdcAdds
<1> HIDE DEF low
<1>5. low \in Registers /\ low.A + 256 * Carry(low) = pl + ql
  <2>1. low \in Registers /\ low.A + (256 * Carry(low)) = c0.A + ql + Carry(c0)
    BY <1>4 DEF Adds
  <2> QED
    BY <1>1, <1>3, <2>1 DEF Byte
<1>6. c1 \in Registers /\ c1.A = ph /\ Carry(c1) = Carry(low)
  BY <1>1, <1>5, LoadKeepsCarry
<1> HIDE DEF c1
<1>7. Adds(c1, qh, high)
  BY <1>0, <1>1, <1>6, AdcAdds
<1> HIDE DEF high
<1>8. /\ high \in Registers /\ high.A + 256 * Carry(high) = ph + qh + Carry(low)
      /\ On(high, VMask) <=> SignedByte(ph) + SignedByte(qh) + Carry(low) \notin -128..127
  BY <1>6, <1>7 DEF Adds
<1> DEFINE l == low.A
           h == high.A
           k == Carry(low)
           n == Carry(high)
<1>9. l \in Byte /\ h \in Byte /\ k \in 0..1 /\ n \in 0..1
  BY <1>5, <1>8, CarryIs DEF Registers
<1>10. On(high, CMask) <=> n = 1
  BY <1>8 DEF On, Carry
<1>11. l + 256 * k = pl + ql /\ h + 256 * n = ph + qh + k
  BY <1>5, <1>8
<1>12. On(high, VMask) <=> SignedByte(ph) + SignedByte(qh) + k \notin -128..127
  BY <1>8
<1> HIDE DEF l, h, k, n
<1>13. Carried(pl, ph, ql, qh, l, h, k, n)
  BY <1>1, <1>9, <1>11 DEF Carried
<1>14. (p + q) % 65536 = 256 * h + l /\ (p + q > 65535 <=> n = 1)
  <2>1. SumOfWords((256 * ph + pl) + (256 * qh + ql), l, h, n)
    BY <1>13, CarriedSum
  <2>2. p + q = (256 * ph + pl) + (256 * qh + ql)
    BY <1>1
  <2>3. SumOfWords(p + q, l, h, n)
    BY <2>1, <2>2, Zenon
  <2> QED
    BY <2>3 DEF SumOfWords
<1>15. SignedByte(ph) + SignedByte(qh) + k \notin -128..127
           <=> Signed(p) + Signed(q) \notin SignedWords
  <2>1. SignOfWords(pl, ph, ql, qh, k)
    BY <1>13, CarriedSign
  <2>2. Signed(p) + Signed(q)
          = (256 * SignedByte(ph) + pl) + (256 * SignedByte(qh) + ql)
    BY <1>1
  <2> QED
    BY <2>1, <2>2, Zenon DEF SignOfWords
<1>16. 256 * high.A + low.A = (p + q) % 65536
  BY <1>14 DEF h, l
<1>17. On(high, CMask) <=> p + q > 65535
  BY <1>10, <1>14
<1>18. On(high, VMask) <=> Signed(p) + Signed(q) \notin SignedWords
  BY <1>12, <1>15
<1> QED
  BY <1>16, <1>17, <1>18 DEF AddedWords, high, low

\* The bytes of two words, those of their difference, and the two carries.
Borrowed(pl, ph, ql, qh, l, h, k, n) ==
  /\ pl \in Byte /\ ph \in Byte /\ ql \in Byte /\ qh \in Byte
  /\ l \in Byte /\ h \in Byte /\ k \in 0..1 /\ n \in 0..1
  /\ l = pl - ql + 256 * (1 - k) /\ h = ph - qh - (1 - k) + 256 * (1 - n)

\* The borrow of the low bytes makes the difference of two words.
DifferenceOfWords(t, l, h, n) == t % 65536 = 256 * h + l /\ (t >= 0 <=> n = 1)

LEMMA BorrowedDifference ==
  ASSUME NEW pl, NEW ph, NEW ql, NEW qh, NEW l, NEW h, NEW k, NEW n,
         Borrowed(pl, ph, ql, qh, l, h, k, n)
  PROVE  DifferenceOfWords((256 * ph + pl) - (256 * qh + ql), l, h, n)
<1> DEFINE m == 256 * h + l
           t == (256 * ph + pl) - (256 * qh + ql)
<1>1. m \in Int /\ 0 <= m /\ m < 65536 /\ t \in Int /\ n \in 0..1
  BY DEF Borrowed, Byte
<1>2. t = m - 65536 * (1 - n)
  BY DEF Borrowed, Byte
<1> HIDE DEF m, t
<1>3. t >= 0 <=> n = 1
  BY <1>1, <1>2
<1>4. t % 65536 = m
  <2>1. CASE n = 0
    <3>1. t = m - 65536
      BY <1>1, <1>2, <2>1
    <3> QED
      BY <1>1, <3>1
  <2>2. CASE n = 1
    <3>1. t = m
      BY <1>1, <1>2, <2>2
    <3> QED
      BY <1>1, <3>1
  <2> QED
    BY <1>1, <2>1, <2>2
<1> QED
  BY <1>3, <1>4 DEF DifferenceOfWords, m, t

\* And the signed difference of the high bytes is out of a byte when that of the
\* words is out of a word.
SignOfDifference(pl, ph, ql, qh, k) ==
  SignedByte(ph) - SignedByte(qh) - (1 - k) \notin -128..127
    <=> (256 * SignedByte(ph) + pl) - (256 * SignedByte(qh) + ql) \notin SignedWords

LEMMA BorrowedSign ==
  ASSUME NEW pl, NEW ph, NEW ql, NEW qh, NEW l, NEW h, NEW k, NEW n,
         Borrowed(pl, ph, ql, qh, l, h, k, n)
  PROVE  SignOfDifference(pl, ph, ql, qh, k)
<1> DEFINE g == SignedByte(ph) - SignedByte(qh) - (1 - k)
           u == (256 * SignedByte(ph) + pl) - (256 * SignedByte(qh) + ql)
<1>1. SignedByte(ph) \in Int /\ SignedByte(qh) \in Int
  BY DEF Borrowed, SignedByte, Byte
<1>2. g \in Int /\ u = 256 * g + l /\ l \in 0..255
  BY <1>1 DEF Borrowed, Byte
<1> HIDE DEF g, u
<1>3. g < -128 \/ g > 127 <=> u < -32768 \/ u > 32767
  BY <1>2
<1>4. g \notin -128..127 <=> g < -128 \/ g > 127
  BY <1>2
<1>5. u \notin SignedWords <=> u < -32768 \/ u > 32767
  BY <1>2 DEF SignedWords
<1> QED
  BY <1>3, <1>4, <1>5 DEF SignOfDifference, g, u

\* The subtraction of two words (the program Subtract of the run): SEC, and for
\* each byte LDA and SBC.
LowSubtracted(c, p, q) == Sbc(Lda(Sec(c), p % 256), q % 256)
HighSubtracted(c, p, q) == Sbc(Lda(LowSubtracted(c, p, q), p \div 256), q \div 256)
SubtractedWords(c, p, q) ==
  /\ 256 * HighSubtracted(c, p, q).A + LowSubtracted(c, p, q).A = (p - q) % 65536
  /\ On(HighSubtracted(c, p, q), CMask) <=> p >= q
  /\ On(HighSubtracted(c, p, q), VMask) <=> Signed(p) - Signed(q) \notin SignedWords

\* The borrow of sbc.h chains: words are subtracted right byte by byte, and the
\* carry that is left says which is greater, for all words.
THEOREM WordsSubtract ==
  ASSUME NEW c \in Registers, NEW p \in Words, NEW q \in Words
  PROVE  SubtractedWords(c, p, q)
<1> DEFINE pl == p % 256
           ph == p \div 256
           ql == q % 256
           qh == q \div 256
           begun == Sec(c)
           c0 == Lda(begun, pl)
           low == LowSubtracted(c, p, q)
           c1 == Lda(low, ph)
           high == HighSubtracted(c, p, q)
<1>1. /\ pl \in Byte /\ ph \in Byte /\ p = 256 * ph + pl
      /\ ql \in Byte /\ qh \in Byte /\ q = 256 * qh + ql
      /\ Signed(p) = 256 * SignedByte(ph) + pl
      /\ Signed(q) = 256 * SignedByte(qh) + ql
  BY WordIsTwoBytes
<1>2. begun \in Registers /\ Carry(begun) = 1
  BY CarryIsSet
<1>3. low = Sbc(c0, ql) /\ high = Sbc(c1, qh)
  BY DEF LowSubtracted, HighSubtracted
<1> HIDE DEF pl, ph, ql, qh, begun
<1>4. c0 \in Registers /\ c0.A = pl /\ Carry(c0) = 1
  BY <1>1, <1>2, LoadKeepsCarry
<1> HIDE DEF c0
<1>5. Subtracts(c0, ql, low)
  BY <1>1, <1>3, <1>4, SbcSubtracts
<1> HIDE DEF low
<1>6. low \in Registers /\ low.A = pl - ql + 256 * (1 - Carry(low))
  <2>1. /\ low \in Registers
        /\ low.A = c0.A - ql - (1 - Carry(c0)) + (256 * (1 - Carry(low)))
    BY <1>5 DEF Subtracts
  <2> QED
    BY <1>1, <1>4, <2>1 DEF Byte
<1>7. c1 \in Registers /\ c1.A = ph /\ Carry(c1) = Carry(low)
  BY <1>1, <1>6, LoadKeepsCarry
<1> HIDE DEF c1
<1>8. Subtracts(c1, qh, high)
  BY <1>1, <1>3, <1>7, SbcSubtracts
<1> HIDE DEF high
<1>9. /\ high \in Registers
      /\ high.A = ph - qh - (1 - Carry(low)) + 256 * (1 - Carry(high))
      /\ On(high, VMask) <=> SignedByte(ph) - SignedByte(qh) - (1 - Carry(low)) \notin -128..127
  BY <1>7, <1>8 DEF Subtracts
<1> DEFINE l == low.A
           h == high.A
           k == Carry(low)
           n == Carry(high)
<1>10. l \in Byte /\ h \in Byte /\ k \in 0..1 /\ n \in 0..1
  BY <1>6, <1>9, CarryIs DEF Registers
<1>11. On(high, CMask) <=> n = 1
  BY <1>9 DEF On, Carry
<1>12. l = pl - ql + 256 * (1 - k) /\ h = ph - qh - (1 - k) + 256 * (1 - n)
  BY <1>6, <1>9
<1>13. On(high, VMask) <=> SignedByte(ph) - SignedByte(qh) - (1 - k) \notin -128..127
  BY <1>9
<1> HIDE DEF l, h, k, n
<1>14. Borrowed(pl, ph, ql, qh, l, h, k, n)
  BY <1>1, <1>10, <1>12 DEF Borrowed
<1>15. (p - q) % 65536 = 256 * h + l /\ (p >= q <=> n = 1)
  <2>1. DifferenceOfWords((256 * ph + pl) - (256 * qh + ql), l, h, n)
    BY <1>14, BorrowedDifference
  <2>2. p - q = (256 * ph + pl) - (256 * qh + ql)
    BY <1>1
  <2>3. DifferenceOfWords(p - q, l, h, n)
    BY <2>1, <2>2, Zenon
  <2>4. p >= q <=> p - q >= 0
    BY DEF Words
  <2> QED
    BY <2>3, <2>4 DEF DifferenceOfWords
<1>16. SignedByte(ph) - SignedByte(qh) - (1 - k) \notin -128..127
         <=> Signed(p) - Signed(q) \notin SignedWords
  <2>1. SignOfDifference(pl, ph, ql, qh, k)
    BY <1>14, BorrowedSign
  <2>2. Signed(p) - Signed(q)
          = (256 * SignedByte(ph) + pl) - (256 * SignedByte(qh) + ql)
    BY <1>1
  <2> QED
    BY <2>1, <2>2, Zenon DEF SignOfDifference
<1>17. 256 * high.A + low.A = (p - q) % 65536
  BY <1>15 DEF h, l
<1>18. On(high, CMask) <=> p >= q
  BY <1>11, <1>15
<1>19. On(high, VMask) <=> Signed(p) - Signed(q) \notin SignedWords
  BY <1>13, <1>16
<1> QED
  BY <1>17, <1>18, <1>19 DEF SubtractedWords, high, low
=============================================================================
