---------------------------- MODULE Mapping_proof ----------------------------
(***************************************************************************)
(* Every board keeps its cartridge mapped (CartStaysMapped), for any       *)
(* cartridge it was built with, any accesses and any number of them.       *)
(*                                                                         *)
(* The setters of the class Mapper are treated first: what each of them    *)
(* does to a board that is mapped. A handler is a chain of setters.        *)
(***************************************************************************)
EXTENDS Boards, TLAPS

-----------------------------------------------------------------------------
(* A board of the cartridge c.                                             *)

Pages(c) == 0..(c.pages - 1)

\* Its constructor is under way: what is mapped is there.
Begun(c, b) ==
  /\ b = [id |-> c.id, pages |-> c.pages, banks |-> c.banks, prg |-> b.prg,
          chr |-> b.chr, mir |-> b.mir, reg |-> b.reg]
  /\ b.prg \in [PrgSlots -> {Open} \cup Pages(c)]
  /\ \A s \in ChrSlots : b.chr[s][1] = "ram" => b.chr[s][2] < RamBanks(c.id)

\* And it has run: the CPU finds ROM, and its vectors.
Sound(c, b) ==
  /\ Begun(c, b)
  /\ \A s \in PrgSlots \ {6} : b.prg[s] \in Pages(c)
  /\ c.id \in KeepsVectors => b.prg[14] = c.pages - 1

Sized(c) == c.pages \in Nat \ {0} /\ c.banks \in Nat

-----------------------------------------------------------------------------
LEMMA Remainder ==
  ASSUME NEW n \in Int, NEW S \in Nat \ {0}
  PROVE  n % S \in 0..(S - 1)
  OBVIOUS

LEMMA LastPage ==
  ASSUME NEW S \in Nat \ {0}
  PROVE  (-1) % S = S - 1
<1>1. (S * (-1) + (S - 1)) % S = S - 1
  OBVIOUS
<1>2. S * (-1) + (S - 1) = -1
  OBVIOUS
<1> QED
  BY <1>1, <1>2

LEMMA PrgIs ==
  ASSUME NEW c, Sized(c), NEW b, Begun(c, b),
         NEW slot \in Int, NEW size \in Int, NEW num \in Int
  PROVE  /\ Begun(c, Prg(b, slot, size, num))
         /\ Prg(b, slot, size, num).reg = b.reg
         /\ \A s \in PrgSlots :
              Prg(b, slot, size, num).prg[s] =
                IF slot <= s /\ s <= slot + 2 * size - 1
                THEN ((num * size) + ((s - slot) \div 2)) % c.pages ELSE b.prg[s]
<1> DEFINE prg == [s \in PrgSlots |->
             IF s \in slot..(slot + 2 * size - 1)
             THEN ((num * size) + ((s - slot) \div 2)) % b.pages ELSE b.prg[s]]
           d == [b EXCEPT !.prg = prg]
<1>1. Prg(b, slot, size, num) = d
  BY Zenon DEF Prg
<1>2. b.pages = c.pages
  BY DEF Begun
<1>3. ASSUME NEW s \in PrgSlots
      PROVE  /\ prg[s] = IF slot <= s /\ s <= slot + 2 * size - 1
                THEN ((num * size) + ((s - slot) \div 2)) % c.pages ELSE b.prg[s]
             /\ prg[s] \in {Open} \cup Pages(c)
  <2>1. s \in Int
    BY DEF PrgSlots
  <2>2. (num * size) + ((s - slot) \div 2) \in Int
    BY <2>1
  <2>3. ((num * size) + ((s - slot) \div 2)) % c.pages \in Pages(c)
    BY <2>2, Remainder DEF Sized, Pages
  <2>4. b.prg[s] \in {Open} \cup Pages(c)
    BY DEF Begun
  <2> QED
    BY <1>2, <2>1, <2>3, <2>4
<1> HIDE DEF prg
<1>4. d = [id |-> c.id, pages |-> c.pages, banks |-> c.banks, prg |-> prg,
           chr |-> b.chr, mir |-> b.mir, reg |-> b.reg]
  BY DEF Begun
<1>5. DOMAIN prg = PrgSlots /\ prg = [s \in PrgSlots |-> prg[s]]
  BY DEF prg
<1>6. prg \in [PrgSlots -> {Open} \cup Pages(c)]
  BY <1>3, <1>5
<1> QED
  BY <1>1, <1>3, <1>4, <1>6 DEF Begun

LEMMA ChrKeeps ==
  ASSUME NEW c, NEW b, NEW slot, NEW size, NEW num
  PROVE  /\ Begun(c, b) => Begun(c, Chr(b, slot, size, num))
         /\ Sound(c, b) => Sound(c, Chr(b, slot, size, num))
         /\ Begun(c, b) => Chr(b, slot, size, num).reg = b.reg
         /\ Begun(c, b) => Chr(b, slot, size, num).prg = b.prg
<1> DEFINE chr == [s \in ChrSlots |->
             IF s \in slot..(slot + size - 1)
             THEN <<"rom", ((num * size) + (s - slot)) % b.banks>> ELSE b.chr[s]]
           d == [b EXCEPT !.chr = chr]
<1>1. Chr(b, slot, size, num) = IF b.banks = 0 THEN b ELSE d
  BY Zenon DEF Chr
<1> SUFFICES ASSUME Begun(c, b)
             PROVE  /\ Begun(c, d) /\ d.reg = b.reg /\ d.prg = b.prg
                    /\ Sound(c, b) => Sound(c, d)
  BY <1>1 DEF Sound
<1>2. ASSUME NEW s \in ChrSlots, chr[s][1] = "ram"
      PROVE  chr[s][2] < RamBanks(c.id)
  BY <1>2 DEF Begun
<1> HIDE DEF chr
<1>3. d = [id |-> c.id, pages |-> c.pages, banks |-> c.banks, prg |-> b.prg,
           chr |-> chr, mir |-> b.mir, reg |-> b.reg]
  BY DEF Begun
<1>4. Begun(c, d) /\ d.reg = b.reg /\ d.prg = b.prg
  BY <1>2, <1>3 DEF Begun
<1> QED
  BY <1>4 DEF Sound

LEMMA ChrRamKeeps ==
  ASSUME NEW c, NEW b, NEW slot \in Int, NEW size \in Int, NEW num \in Int,
         (num * size) + size <= RamBanks(c.id)
  PROVE  /\ Begun(c, b) => Begun(c, ChrRam(b, slot, size, num))
         /\ Sound(c, b) => Sound(c, ChrRam(b, slot, size, num))
         /\ Begun(c, b) => ChrRam(b, slot, size, num).reg = b.reg
         /\ Begun(c, b) => ChrRam(b, slot, size, num).prg = b.prg
<1> DEFINE chr == [s \in ChrSlots |->
             IF s \in slot..(slot + size - 1) THEN <<"ram", (num * size) + (s - slot)>>
             ELSE b.chr[s]]
           d == [b EXCEPT !.chr = chr]
<1>1. ChrRam(b, slot, size, num) = d
  BY Zenon DEF ChrRam
<1> SUFFICES ASSUME Begun(c, b)
             PROVE  /\ Begun(c, d) /\ d.reg = b.reg /\ d.prg = b.prg
                    /\ Sound(c, b) => Sound(c, d)
  BY <1>1 DEF Sound
<1>2. ASSUME NEW s \in ChrSlots, chr[s][1] = "ram"
      PROVE  chr[s][2] < RamBanks(c.id)
  <2>1. RamBanks(c.id) \in Int
    BY DEF RamBanks
  <2>2. CASE s \in slot..(slot + size - 1)
    <3>1. chr[s][2] = (num * size) + (s - slot)
      BY <2>2
    <3>2. s - slot < size /\ s \in Int /\ num * size \in Int
      BY <2>2
    <3> HIDE DEF chr
    <3> QED
      BY <2>1, <3>1, <3>2
  <2>3. CASE s \notin slot..(slot + size - 1)
    BY <1>2, <2>3 DEF Begun
  <2> QED
    BY <2>2, <2>3
<1> HIDE DEF chr
<1>3. d = [id |-> c.id, pages |-> c.pages, banks |-> c.banks, prg |-> b.prg,
           chr |-> chr, mir |-> b.mir, reg |-> b.reg]
  BY DEF Begun
<1>4. Begun(c, d) /\ d.reg = b.reg /\ d.prg = b.prg
  BY <1>2, <1>3 DEF Begun
<1> QED
  BY <1>4 DEF Sound

LEMMA MirrorKeeps ==
  ASSUME NEW c, NEW b, NEW mir
  PROVE  /\ Begun(c, b) => Begun(c, Mirror(b, mir))
         /\ Sound(c, b) => Sound(c, Mirror(b, mir))
         /\ Begun(c, b) => Mirror(b, mir).reg = b.reg
<1> SUFFICES ASSUME Begun(c, b)
             PROVE  /\ Begun(c, Mirror(b, mir)) /\ Mirror(b, mir).reg = b.reg
                    /\ Sound(c, b) => Sound(c, Mirror(b, mir))
  BY DEF Sound
<1>1. Mirror(b, mir) = [id |-> c.id, pages |-> c.pages, banks |-> c.banks,
                        prg |-> b.prg, chr |-> b.chr, mir |-> mir, reg |-> b.reg]
  BY DEF Begun, Mirror
<1>2. Begun(c, Mirror(b, mir)) /\ Mirror(b, mir).reg = b.reg
  BY <1>1 DEF Begun
<1> QED
  BY <1>1, <1>2 DEF Sound

\* A change of the registers alone.
LEMMA RegKeeps ==
  ASSUME NEW c, NEW b, NEW r
  PROVE  /\ Sound(c, b) => Sound(c, [b EXCEPT !.reg = r])
         /\ Sound(c, b) => [b EXCEPT !.reg = r].reg = r
<1> SUFFICES ASSUME Sound(c, b)
             PROVE  Sound(c, [b EXCEPT !.reg = r]) /\ [b EXCEPT !.reg = r].reg = r
  OBVIOUS
<1> DEFINE d == [b EXCEPT !.reg = r]
<1>1. d = [id |-> c.id, pages |-> c.pages, banks |-> c.banks, prg |-> b.prg,
           chr |-> b.chr, mir |-> b.mir, reg |-> r]
  BY DEF Sound, Begun
<1> HIDE DEF d
<1>2. Begun(c, d) /\ d.reg = r
  BY <1>1 DEF Sound, Begun
<1>3. Sound(c, d)
  BY <1>1, <1>2 DEF Sound
<1> QED
  BY <1>2, <1>3 DEF d

With(b, r) == [b EXCEPT !.reg = r]

LEMMA WithKeeps ==
  ASSUME NEW c, NEW b, Sound(c, b), NEW r
  PROVE  Sound(c, With(b, r)) /\ With(b, r).reg = r
  BY RegKeeps, Zenon DEF With

LEMMA NamedMirrorsKeep ==
  ASSUME NEW c, NEW b, NEW bit
  PROVE  /\ Sound(c, b) => Sound(c, HorizontalIf(b, bit))
         /\ Sound(c, b) => Sound(c, HighIf(b, bit))
         /\ Sound(c, b) => Sound(c, MirrorCode(b, bit))
         /\ Sound(c, b) => HorizontalIf(b, bit).reg = b.reg
         /\ Sound(c, b) => MirrorCode(b, bit).reg = b.reg
  BY MirrorKeeps, Zenon DEF HorizontalIf, HighIf, MirrorCode, Sound

LEMMA BoardFields ==
  ASSUME NEW c, NEW b, Sound(c, b)
  PROVE  Begun(c, b) /\ b.id = c.id /\ b.pages = c.pages /\ b.banks = c.banks
  BY DEF Sound, Begun

\* A page number of any size, in the slots before the vectors.
LEMMA PrgKeeps ==
  ASSUME NEW c, Sized(c), NEW b, Sound(c, b),
         NEW slot \in Int, NEW size \in Int, NEW num \in Int,
         slot + 2 * size <= 14 \/ c.id \notin KeepsVectors
  PROVE  /\ Sound(c, Prg(b, slot, size, num))
         /\ Prg(b, slot, size, num).reg = b.reg
<1> DEFINE d == Prg(b, slot, size, num)
<1>1. Begun(c, b)
  BY DEF Sound
<1>2. /\ Begun(c, d) /\ d.reg = b.reg
      /\ \A s \in PrgSlots :
           d.prg[s] = IF slot <= s /\ s <= slot + 2 * size - 1
                      THEN ((num * size) + ((s - slot) \div 2)) % c.pages ELSE b.prg[s]
  BY <1>1, PrgIs
<1> HIDE DEF d
<1>3. ASSUME NEW s \in PrgSlots \ {6} PROVE d.prg[s] \in Pages(c)
  <2>1. s \in Int
    BY DEF PrgSlots
  <2>2. ((num * size) + ((s - slot) \div 2)) % c.pages \in Pages(c)
    <3>1. (num * size) + ((s - slot) \div 2) \in Int
      BY <2>1
    <3> QED
      BY <3>1, Remainder DEF Sized, Pages
  <2> QED
    BY <1>2, <2>2 DEF Sound
<1>4. ASSUME c.id \in KeepsVectors PROVE d.prg[14] = c.pages - 1
  BY <1>2, <1>4 DEF Sound, PrgSlots
<1>5. Sound(c, d)
  BY <1>2, <1>3, <1>4 DEF Sound
<1> QED
  BY <1>2, <1>5 DEF d

\* The page with the vectors, in its place.
LEMMA LastPrgKeeps ==
  ASSUME NEW c, Sized(c), NEW b, Sound(c, b)
  PROVE  /\ Sound(c, Prg(b, 14, 1, -1)) /\ Prg(b, 14, 1, -1).reg = b.reg
         /\ Sound(c, Prg(b, 12, 2, -1)) /\ Prg(b, 12, 2, -1).reg = b.reg
<1>0. Begun(c, b)
  BY DEF Sound
<1>1. ASSUME NEW d, NEW slot \in {12, 14},
             d = Prg(b, slot, (16 - slot) \div 2, -1)
      PROVE  Sound(c, d) /\ d.reg = b.reg
  <2> DEFINE size == (16 - slot) \div 2
  <2>1. size \in {1, 2} /\ slot + 2 * size = 16 /\ slot \in Int /\ -1 \in Int
    BY <1>1
  <2> HIDE DEF size
  <2>2. /\ Begun(c, d) /\ d.reg = b.reg
        /\ \A s \in PrgSlots :
             d.prg[s] = IF slot <= s /\ s <= slot + 2 * size - 1
                        THEN (((-1) * size) + ((s - slot) \div 2)) % c.pages ELSE b.prg[s]
    <3>1. d = Prg(b, slot, size, -1)
      BY <1>1 DEF size
    <3>2. size \in Int
      BY <2>1
    <3> QED
      BY <1>0, <2>1, <3>1, <3>2, PrgIs
  <2>3. ASSUME NEW s \in PrgSlots \ {6} PROVE d.prg[s] \in Pages(c)
    <3>1. s \in Int
      BY DEF PrgSlots
    <3>2. (((-1) * size) + ((s - slot) \div 2)) % c.pages \in Pages(c)
      <4>1. ((-1) * size) + ((s - slot) \div 2) \in Int
        BY <2>1, <3>1
      <4> QED
        BY <4>1, Remainder DEF Sized, Pages
    <3> QED
      BY <2>2, <3>2 DEF Sound
  <2>4. d.prg[14] = c.pages - 1
    <3>1. d.prg[14] = (((-1) * size) + ((14 - slot) \div 2)) % c.pages
      BY <2>1, <2>2 DEF PrgSlots
    <3>2. ((-1) * size) + ((14 - slot) \div 2) = -1
      BY <2>1
    <3> QED
      BY <3>1, <3>2, LastPage DEF Sized
  <2> QED
    BY <2>2, <2>3, <2>4 DEF Sound
<1>2. (16 - 14) \div 2 = 1 /\ (16 - 12) \div 2 = 2
  OBVIOUS
<1> QED
  BY <1>1, <1>2

-----------------------------------------------------------------------------
(* Constructors: from nothing mapped to a page in every slot.              *)

LEMMA BlankBegun ==
  ASSUME NEW c, NEW reg
  PROVE  Begun(c, Blank(c, reg)) /\ Blank(c, reg).reg = reg
<1> DEFINE d == Blank(c, reg)
<1>1. /\ d = [id |-> c.id, pages |-> c.pages, banks |-> c.banks,
              prg |-> [s \in PrgSlots |-> Open], chr |-> [s \in ChrSlots |-> Nothing],
              mir |-> c.mir, reg |-> reg]
  BY DEF Blank
<1> HIDE DEF d
<1>2. d.prg = [s \in PrgSlots |-> Open] /\ d.chr = [s \in ChrSlots |-> Nothing] /\ d.reg = reg
  BY <1>1
<1>3. d = [id |-> c.id, pages |-> c.pages, banks |-> c.banks, prg |-> d.prg,
           chr |-> d.chr, mir |-> d.mir, reg |-> d.reg]
  BY <1>1
<1>4. ASSUME NEW s \in ChrSlots PROVE d.chr[s][1] # "ram"
  <2>1. d.chr[s] = <<"open", 0>>
    BY <1>2 DEF Nothing
  <2> QED
    BY <2>1
<1> QED
  BY <1>2, <1>3, <1>4 DEF Begun, d

\* The four ways to fill the slots from $8000 on: the pages are some, and the
\* last is the one that was asked for.
Filled(c, b, d, last) ==
  /\ Begun(c, d) /\ d.reg = b.reg
  /\ \A s \in PrgSlots \ {6} : d.prg[s] \in Pages(c)
  /\ d.prg[14] = last % c.pages

LEMMA FilledIsSound ==
  ASSUME NEW c, Sized(c), NEW b, NEW d, NEW last \in Int, Filled(c, b, d, last),
         c.id \in KeepsVectors => last = -1
  PROVE  Sound(c, d) /\ d.reg = b.reg
<1>1. c.id \in KeepsVectors => d.prg[14] = c.pages - 1
  BY LastPage DEF Filled, Sized
<1> QED
  BY <1>1 DEF Filled, Sound

LEMMA PageIn ==
  ASSUME NEW c, Sized(c), NEW slot \in Int, NEW size \in Int, NEW num \in Int,
         NEW s \in PrgSlots
  PROVE  /\ s \in Int
         /\ ((num * size) + ((s - slot) \div 2)) % c.pages \in Pages(c)
<1>1. s \in Int
  BY DEF PrgSlots
<1>2. (num * size) + ((s - slot) \div 2) \in Int
  BY <1>1
<1> QED
  BY <1>1, <1>2, Remainder DEF Sized, Pages

LEMMA FilledWhole ==
  ASSUME NEW c, Sized(c), NEW b, Begun(c, b), NEW num \in Int
  PROVE  Filled(c, b, Prg(b, 8, 4, num), (4 * num) + 3)
<1> DEFINE d == Prg(b, 8, 4, num)
<1>1. /\ Begun(c, d) /\ d.reg = b.reg
      /\ \A s \in PrgSlots :
           d.prg[s] = IF 8 <= s /\ s <= 8 + 2 * 4 - 1
                      THEN ((num * 4) + ((s - 8) \div 2)) % c.pages ELSE b.prg[s]
  BY PrgIs
<1> HIDE DEF d
<1>2. ASSUME NEW s \in PrgSlots \ {6} PROVE d.prg[s] \in Pages(c)
  <2>1. 8 <= s /\ s <= 8 + 2 * 4 - 1
    BY DEF PrgSlots
  <2>2. ((num * 4) + ((s - 8) \div 2)) % c.pages \in Pages(c)
    BY PageIn
  <2> QED
    BY <1>1, <2>1, <2>2
<1>3. d.prg[14] = ((4 * num) + 3) % c.pages
  <2>1. d.prg[14] = ((num * 4) + ((14 - 8) \div 2)) % c.pages
    BY <1>1 DEF PrgSlots
  <2>2. (num * 4) + ((14 - 8) \div 2) = (4 * num) + 3
    OBVIOUS
  <2> QED
    BY <2>1, <2>2
<1> QED
  BY <1>1, <1>2, <1>3 DEF Filled, d

LEMMA FilledHalves ==
  ASSUME NEW c, Sized(c), NEW b, Begun(c, b), NEW m \in Int, NEW n \in Int
  PROVE  Filled(c, b, Prg(Prg(b, 8, 2, m), 12, 2, n), (2 * n) + 1)
<1> DEFINE e == Prg(b, 8, 2, m)
           d == Prg(e, 12, 2, n)
<1>1. /\ Begun(c, e) /\ e.reg = b.reg
      /\ \A s \in PrgSlots :
           e.prg[s] = IF 8 <= s /\ s <= 8 + 2 * 2 - 1
                      THEN ((m * 2) + ((s - 8) \div 2)) % c.pages ELSE b.prg[s]
  BY PrgIs
<1> HIDE DEF e
<1>2. /\ Begun(c, d) /\ d.reg = e.reg
      /\ \A s \in PrgSlots :
           d.prg[s] = IF 12 <= s /\ s <= 12 + 2 * 2 - 1
                      THEN ((n * 2) + ((s - 12) \div 2)) % c.pages ELSE e.prg[s]
  BY <1>1, PrgIs
<1> HIDE DEF d
<1>3. ASSUME NEW s \in PrgSlots \ {6} PROVE d.prg[s] \in Pages(c)
  <2>1. (8 <= s /\ s <= 8 + 2 * 2 - 1) \/ (12 <= s /\ s <= 12 + 2 * 2 - 1)
    BY DEF PrgSlots
  <2>2. ((m * 2) + ((s - 8) \div 2)) % c.pages \in Pages(c)
    BY PageIn
  <2>3. ((n * 2) + ((s - 12) \div 2)) % c.pages \in Pages(c)
    BY PageIn
  <2> QED
    BY <1>1, <1>2, <2>1, <2>2, <2>3
<1>4. d.prg[14] = ((2 * n) + 1) % c.pages
  <2>1. d.prg[14] = ((n * 2) + ((14 - 12) \div 2)) % c.pages
    BY <1>2 DEF PrgSlots
  <2>2. (n * 2) + ((14 - 12) \div 2) = (2 * n) + 1
    OBVIOUS
  <2> QED
    BY <2>1, <2>2
<1> QED
  BY <1>1, <1>2, <1>3, <1>4 DEF Filled, d, e

LEMMA FilledSingly ==
  ASSUME NEW c, Sized(c), NEW b, Begun(c, b),
         NEW p0 \in Int, NEW p1 \in Int, NEW p2 \in Int, NEW p3 \in Int
  PROVE  Filled(c, b, Prg(Prg(Prg(Prg(b, 8, 1, p0), 10, 1, p1), 12, 1, p2), 14, 1, p3), p3)
<1> DEFINE d0 == Prg(b, 8, 1, p0)
           d1 == Prg(d0, 10, 1, p1)
           d2 == Prg(d1, 12, 1, p2)
           d == Prg(d2, 14, 1, p3)
           At(e, f, slot, p) ==
             /\ Begun(c, f) /\ f.reg = e.reg
             /\ \A s \in PrgSlots :
                  f.prg[s] = IF slot <= s /\ s <= slot + 2 * 1 - 1
                             THEN ((p * 1) + ((s - slot) \div 2)) % c.pages ELSE e.prg[s]
<1>1. At(b, d0, 8, p0)
  BY PrgIs
<1> HIDE DEF d0
<1>2. At(d0, d1, 10, p1)
  BY <1>1, PrgIs
<1> HIDE DEF d1
<1>3. At(d1, d2, 12, p2)
  BY <1>2, PrgIs
<1> HIDE DEF d2
<1>4. At(d2, d, 14, p3)
  BY <1>3, PrgIs
<1> HIDE DEF d
<1>5. /\ d.prg[8] = ((p0 * 1) + ((8 - 8) \div 2)) % c.pages
      /\ d.prg[10] = ((p1 * 1) + ((10 - 10) \div 2)) % c.pages
      /\ d.prg[12] = ((p2 * 1) + ((12 - 12) \div 2)) % c.pages
      /\ d.prg[14] = ((p3 * 1) + ((14 - 14) \div 2)) % c.pages
  BY <1>1, <1>2, <1>3, <1>4 DEF PrgSlots
<1>7. /\ d.prg[8] \in Pages(c) /\ d.prg[10] \in Pages(c)
      /\ d.prg[12] \in Pages(c) /\ d.prg[14] \in Pages(c)
  <2>1. ASSUME NEW p \in Int, NEW slot \in {8, 10, 12, 14}
        PROVE  ((p * 1) + ((slot - slot) \div 2)) % c.pages \in Pages(c)
    <3>1. (p * 1) + ((slot - slot) \div 2) \in Int
      OBVIOUS
    <3> QED
      BY <3>1, Remainder DEF Sized, Pages
  <2> QED
    BY <1>5, <2>1
<1>8. \A s \in PrgSlots \ {6} : d.prg[s] \in Pages(c)
  BY <1>7 DEF PrgSlots
<1>9. d.prg[14] = p3 % c.pages
  <2>1. (p3 * 1) + ((14 - 14) \div 2) = p3
    OBVIOUS
  <2> QED
    BY <1>5, <2>1
<1> QED
  BY <1>1, <1>2, <1>3, <1>4, <1>8, <1>9 DEF Filled, d, d2, d1, d0

\* The vectors put into a bank that did not have them.
LEMMA FilledWithLast ==
  ASSUME NEW c, Sized(c), NEW b, NEW d, NEW last, Filled(c, b, d, last)
  PROVE  Filled(c, b, Prg(d, 14, 1, -1), -1)
<1> DEFINE f == Prg(d, 14, 1, -1)
<1>1. -1 \in Int /\ Begun(c, d)
  BY DEF Filled
<1>2. /\ Begun(c, f) /\ f.reg = d.reg
      /\ \A s \in PrgSlots :
           f.prg[s] = IF 14 <= s /\ s <= 14 + 2 * 1 - 1
                      THEN (((-1) * 1) + ((s - 14) \div 2)) % c.pages ELSE d.prg[s]
  BY <1>1, PrgIs
<1> HIDE DEF f
<1>3. ASSUME NEW s \in PrgSlots \ {6} PROVE f.prg[s] \in Pages(c)
  <2>1. s \in Int
    BY DEF PrgSlots
  <2>2. ((-1) * 1) + ((s - 14) \div 2) \in Int
    BY <2>1
  <2>3. (((-1) * 1) + ((s - 14) \div 2)) % c.pages \in Pages(c)
    BY <2>2, Remainder DEF Sized, Pages
  <2> QED
    BY <1>2, <2>3 DEF Filled
<1>4. f.prg[14] = (-1) % c.pages
  <2>1. f.prg[14] = (((-1) * 1) + ((14 - 14) \div 2)) % c.pages
    BY <1>2 DEF PrgSlots
  <2>2. ((-1) * 1) + ((14 - 14) \div 2) = -1
    OBVIOUS
  <2> QED
    BY <2>1, <2>2
<1> QED
  BY <1>2, <1>3, <1>4 DEF Filled, f

LEMMA FirstAndLastSound ==
  ASSUME NEW c, Sized(c), NEW b, Begun(c, b)
  PROVE  Sound(c, FirstAndLast(b)) /\ FirstAndLast(b).reg = b.reg
<1>1. Filled(c, b, FirstAndLast(b), (2 * (-1)) + 1)
  BY FilledHalves DEF FirstAndLast
<1>2. (2 * (-1)) + 1 = -1
  OBVIOUS
<1> QED
  BY <1>1, <1>2, FilledIsSound

LEMMA FirstBankSound ==
  ASSUME NEW c, Sized(c), NEW b, Begun(c, b), c.id \notin KeepsVectors
  PROVE  Sound(c, FirstBank(b)) /\ FirstBank(b).reg = b.reg
<1>1. Filled(c, b, FirstBank(b), (4 * 0) + 3)
  BY FilledWhole DEF FirstBank
<1> QED
  BY <1>1, FilledIsSound

\* The pattern tables as most constructors show them.
LEMMA PatternsKeep ==
  ASSUME NEW c, NEW b, Sound(c, b)
  PROVE  /\ Sound(c, RomPatterns(b)) /\ RomPatterns(b).reg = b.reg
         /\ Sound(c, RamPatterns(b)) /\ RamPatterns(b).reg = b.reg
         /\ Sound(c, Patterns(b)) /\ Patterns(b).reg = b.reg
<1>1. Sound(c, RomPatterns(b)) /\ RomPatterns(b).reg = b.reg
  BY BoardFields, ChrKeeps DEF RomPatterns
<1>2. Sound(c, RamPatterns(b)) /\ RamPatterns(b).reg = b.reg
  <2>1. (0 * 8) + 8 <= RamBanks(c.id)
    BY DEF RamBanks
  <2> QED
    BY <2>1, BoardFields, ChrRamKeeps DEF RamPatterns
<1> QED
  BY <1>1, <1>2 DEF Patterns

-----------------------------------------------------------------------------
(* What is cut out of an address or a value.                               *)

LEMMA BitsAre ==
  ASSUME NEW v \in Nat
  PROVE  /\ Bits(v, 0, 2) \in 0..3 /\ Bits(v, 4, 4) \in 0..15 /\ Bits(v, 0, 4) \in 0..15
         /\ Bits(v, 0, 6) \in 0..63 /\ Bits(v, 0, 3) \in 0..7 /\ Bits(v, 4, 2) \in 0..3
         /\ Bits(v, 3, 3) \in 0..7 /\ Bits(v, 3, 4) \in 0..15 /\ Bits(v, 1, 4) \in 0..15
         /\ Bits(v, 3, 2) \in 0..3 /\ Bits(v, 5, 3) \in 0..7 /\ Bits(v, 1, 2) \in 0..3
         /\ Bits(v, 0, 5) \in 0..31 /\ Bits(v, 4, 3) \in 0..7 /\ Bits(v, 0, 8) \in Nat
         /\ Bits(v, 11, 2) \in 0..3 /\ Bits(v, 6, 5) \in 0..31 /\ Bits(v, 2, 2) \in 0..3
  BY DEF Bits

LEMMA BitIs ==
  ASSUME NEW v \in Nat
  PROVE  /\ Bit(v, 0) \in {0, 1} /\ Bit(v, 1) \in {0, 1} /\ Bit(v, 2) \in {0, 1}
         /\ Bit(v, 3) \in {0, 1} /\ Bit(v, 4) \in {0, 1} /\ Bit(v, 5) \in {0, 1}
         /\ Bit(v, 6) \in {0, 1} /\ Bit(v, 7) \in {0, 1}
  BY DEF Bit, Bits

LEMMA DigitIs ==
  ASSUME NEW a \in Nat
  PROVE  Digit(a) \in 0..15 /\ (a >= 32768 /\ a < 65536 => Digit(a) >= 8)
  BY DEF Digit, Bits

LEMMA CommonIs == \A x, y : Common(x, y) \in Nat
<1> DEFINE both(x, y, n) == IF Bit(x, n) = 1 /\ Bit(y, n) = 1 THEN 2^n ELSE 0
<1> SUFFICES ASSUME NEW x, NEW y
             PROVE  Common(x, y) \in Nat
  OBVIOUS
<1>1. /\ both(x, y, 0) \in Nat /\ both(x, y, 1) \in Nat /\ both(x, y, 2) \in Nat
      /\ both(x, y, 3) \in Nat /\ both(x, y, 4) \in Nat /\ both(x, y, 5) \in Nat
      /\ both(x, y, 6) \in Nat /\ both(x, y, 7) \in Nat
  OBVIOUS
<1>2. Common(x, y) = both(x, y, 0) + both(x, y, 1) + both(x, y, 2) + both(x, y, 3)
                       + both(x, y, 4) + both(x, y, 5) + both(x, y, 6) + both(x, y, 7)
  BY Zenon DEF Common
<1> HIDE DEF both
<1> QED
  BY <1>1, <1>2

-----------------------------------------------------------------------------
(* The boards of one latch. Only those of the set KeepsVectors have to     *)
(* leave the last page where it is.                                        *)

LEMMA WholeKeeps ==
  ASSUME NEW c, Sized(c), NEW b, Sound(c, b), NEW num \in Int, c.id \notin KeepsVectors
  PROVE  /\ Sound(c, Prg(b, 8, 4, num)) /\ Prg(b, 8, 4, num).reg = b.reg
         /\ Sound(c, Prg(Prg(b, 8, 2, num), 12, 2, num))
         /\ Prg(Prg(b, 8, 2, num), 12, 2, num).reg = b.reg
<1>1. Sound(c, Prg(b, 8, 4, num)) /\ Prg(b, 8, 4, num).reg = b.reg
  BY PrgKeeps
<1>2. Sound(c, Prg(b, 8, 2, num)) /\ Prg(b, 8, 2, num).reg = b.reg
  BY PrgKeeps
<1>3. /\ Sound(c, Prg(Prg(b, 8, 2, num), 12, 2, num))
      /\ Prg(Prg(b, 8, 2, num), 12, 2, num).reg = Prg(b, 8, 2, num).reg
  BY <1>2, PrgKeeps
<1> QED
  BY <1>1, <1>2, <1>3

LEMMA WholeBankBoards ==
  ASSUME NEW c, Sized(c), NEW b, Sound(c, b), NEW a \in Nat, NEW v \in Nat,
         c.id \notin KeepsVectors
  PROVE  /\ Sound(c, Write3(b, v)) /\ Sound(c, Write7(b, v)) /\ Sound(c, Write11(b, v))
         /\ Sound(c, WriteBNROM(b, v)) /\ Sound(c, Write43(b, a)) /\ Sound(c, Write66(b, v))
         /\ Sound(c, Write79(b, v)) /\ Sound(c, Write113(b, v)) /\ Sound(c, Write86(b, v))
         /\ Sound(c, Write144(b, a, v)) /\ Sound(c, Write180(b, v)) /\ Sound(c, Write201(b, a))
         /\ Sound(c, Write240(b, v)) /\ Sound(c, Write241(b, v)) /\ Sound(c, Write242(b, a))
         /\ Sound(c, WriteNINA(b, a, v))
<1>1. Sound(c, Write3(b, v))
  BY ChrKeeps DEF Write3
<1>2. Sound(c, Write7(b, v))
  BY WholeKeeps, NamedMirrorsKeep DEF Write7
<1>3. ASSUME NEW num \in Int, NEW bank
      PROVE  Sound(c, Chr(Prg(b, 8, 4, num), 0, 8, bank))
  BY WholeKeeps, ChrKeeps
<1>4. Sound(c, Write11(b, v))
  BY <1>3, BitsAre DEF Write11
<1>5. Sound(c, WriteBNROM(b, v)) /\ Sound(c, Write241(b, v))
  BY WholeKeeps DEF WriteBNROM, Write241
<1>6. Sound(c, Write43(b, a))
  BY WholeKeeps, BitsAre DEF Write43
<1>7. Sound(c, Write66(b, v))
  BY <1>3, BitsAre DEF Write66
<1>8. Sound(c, Write79(b, v))
  BY <1>3, BitsAre DEF Write79
<1>9. Sound(c, Write113(b, v))
  BY <1>8, NamedMirrorsKeep DEF Write113
<1>10. Sound(c, Write86(b, v))
  BY <1>3, BitsAre DEF Write86
<1>11. Sound(c, Write144(b, a, v))
  <2> DEFINE seen == Common(RomByte(b.prg[Digit(a) - (Digit(a) % 2)], a),
                            (2 * Bits(v, 1, 7)) + 1)
  <2>1. seen \in Nat
    BY CommonIs
  <2>2. Write144(b, a, v) = Chr(Prg(b, 8, 4, Bits(seen, 0, 2)), 0, 8, Bits(seen, 4, 4))
    BY Zenon DEF Write144
  <2> HIDE DEF seen
  <2> QED
    BY <1>3, <2>1, <2>2, BitsAre
<1>12. Sound(c, Write180(b, v))
  BY PrgKeeps, BitsAre DEF Write180
<1>13. Sound(c, Write201(b, a))
  BY <1>3, BitsAre DEF Write201
<1>14. Sound(c, Write240(b, v))
  BY <1>3, BitsAre DEF Write240
<1>15. Sound(c, Write242(b, a))
  <2>1. Bits(a, 3, 4) \in Int
    BY BitsAre
  <2> QED
    BY <2>1, WholeKeeps, NamedMirrorsKeep DEF Write242
<1>16. Sound(c, WriteNINA(b, a, v))
  BY WholeKeeps, ChrKeeps DEF WriteNINA
<1> QED
  BY <1>1, <1>2, <1>4, <1>5, <1>6, <1>7, <1>8, <1>9, <1>10, <1>11, <1>12, <1>13, <1>14,
     <1>15, <1>16

\* Boards whose two halves are paged apart.
LEMMA HalfBankBoards ==
  ASSUME NEW c, Sized(c), NEW b, Sound(c, b), NEW a \in Nat, NEW v \in Nat
  PROVE  /\ Sound(c, Write2(b, v)) /\ Sound(c, Write71(b, v)) /\ Sound(c, Write232(b, v))
         /\ c.id \notin KeepsVectors =>
              /\ Sound(c, Write58(b, a)) /\ Sound(c, Write61(b, a)) /\ Sound(c, Write231(b, a))
<1>1. Sound(c, Write2(b, v)) /\ Sound(c, Write71(b, v)) /\ Sound(c, Write232(b, v))
  BY PrgKeeps, BitsAre DEF Write2, Write71, Write232
<1> SUFFICES ASSUME c.id \notin KeepsVectors
             PROVE  Sound(c, Write58(b, a)) /\ Sound(c, Write61(b, a)) /\ Sound(c, Write231(b, a))
  BY <1>1
<1>2. Sound(c, Write58(b, a))
  <2> DEFINE paged == IF Bit(a, 6) = 1
                      THEN Prg(Prg(b, 8, 2, Bits(a, 0, 3)), 12, 2, Bits(a, 0, 3))
                      ELSE Prg(b, 8, 4, Bits(a, 0, 3))
  <2>1. Sound(c, paged)
    <3>1. Bits(a, 0, 3) \in Int
      BY BitsAre
    <3> QED
      BY <3>1, WholeKeeps
  <2>2. Write58(b, a) = Chr(HorizontalIf(paged, Bit(a, 7)), 0, 8, Bits(a, 3, 3))
    BY Zenon DEF Write58
  <2> HIDE DEF paged
  <2> QED
    BY <2>1, <2>2, NamedMirrorsKeep, ChrKeeps
<1>3. Sound(c, Write61(b, a))
  <2>1. (2 * Bits(a, 0, 4)) + Bit(a, 5) \in Int
    BY BitsAre, BitIs
  <2> QED
    BY <2>1, WholeKeeps, NamedMirrorsKeep DEF Write61
<1>4. Sound(c, Write231(b, a))
  <2>1. (2 * Bits(a, 1, 4)) + Bit(a, 5) \in Int
    BY BitsAre, BitIs
  <2> QED
    BY <2>1, PrgKeeps, NamedMirrorsKeep DEF Write231
<1> QED
  BY <1>2, <1>3, <1>4

\* CPROM: the bank of its RAM is masked by hand.
LEMMA CpromKeeps ==
  ASSUME NEW c, Sized(c), NEW b, Sound(c, b), NEW v \in Nat, c.id = 13
  PROVE  Sound(c, Write13(b, v))
<1>1. Bits(v, 0, 2) \in 0..3
  BY BitsAre
<1>2. (Bits(v, 0, 2) * 4) + 4 <= RamBanks(c.id)
  BY <1>1 DEF RamBanks
<1> QED
  BY <1>1, <1>2, ChrRamKeeps DEF Write13

\* 15: the four modes of the address.
LEMMA Keeps15 ==
  ASSUME NEW c, Sized(c), NEW b, Sound(c, b), NEW a \in Nat, NEW v \in Nat, c.id = 15
  PROVE  Sound(c, Write15(b, a, v))
<1> DEFINE bank == Bits(v, 0, 6)
           odd == bank + 1 - (bank % 2)
           prg == [s \in PrgSlots |-> IF s = 6 THEN b.prg[s]
                                      ELSE ((2 * bank) + Bit(v, 7)) % b.pages]
           d == [b EXCEPT !.prg = prg]
           paged == CASE Bits(a, 0, 2) = 0 -> Prg(Prg(b, 8, 2, bank), 12, 2, odd)
                      [] Bits(a, 0, 2) = 1 -> Prg(Prg(b, 8, 2, bank), 12, 2, -1)
                      [] Bits(a, 0, 2) = 2 -> d
                      [] OTHER -> Prg(Prg(b, 8, 2, bank), 12, 2, bank)
<1>1. bank \in Int /\ odd \in Int /\ Bit(v, 7) \in Int /\ -1 \in Int
  <2>1. bank \in Nat /\ Bit(v, 7) \in {0, 1}
    BY BitsAre, BitIs
  <2> QED
    BY <2>1
<1>2. c.id \notin KeepsVectors
  BY DEF KeepsVectors
<1>3. Write15(b, a, v) = HorizontalIf(paged, Bit(v, 6))
  BY Zenon DEF Write15
<1> HIDE DEF bank, odd
<1>4. ASSUME NEW n \in Int PROVE Sound(c, Prg(Prg(b, 8, 2, bank), 12, 2, n))
  BY <1>1, <1>2, PrgKeeps
<1>5. Sound(c, d)
  <2>1. ((2 * bank) + Bit(v, 7)) % b.pages \in Pages(c)
    <3>1. (2 * bank) + Bit(v, 7) \in Int /\ b.pages = c.pages
      BY <1>1, BoardFields
    <3> QED
      BY <3>1, Remainder DEF Sized, Pages
  <2>2. ASSUME NEW s \in PrgSlots
        PROVE  prg[s] \in {Open} \cup Pages(c) /\ (s # 6 => prg[s] \in Pages(c))
    BY <2>1 DEF Sound, Begun
  <2>3. d = [id |-> c.id, pages |-> c.pages, banks |-> c.banks, prg |-> prg,
             chr |-> b.chr, mir |-> b.mir, reg |-> b.reg]
    BY DEF Sound, Begun
  <2>4. prg \in [PrgSlots -> {Open} \cup Pages(c)]
    BY <2>2
  <2> HIDE DEF prg
  <2>5. Begun(c, d)
    BY <2>3, <2>4 DEF Sound, Begun
  <2> QED
    BY <1>2, <2>2, <2>3, <2>5 DEF Sound
<1>6. Sound(c, paged)
  <2> HIDE DEF d
  <2> QED
    BY <1>1, <1>4, <1>5
<1> QED
  BY <1>3, <1>6, NamedMirrorsKeep

\* 228: a page of one of the three chips.
LEMMA Keeps228 ==
  ASSUME NEW c, Sized(c), NEW b, Begun(c, b), NEW a \in Nat, NEW v \in Nat,
         c.id = 228, c.pages >= 3 * ChipPages, Sound(c, b) \/ Bits(a, 11, 2) # 2
  PROVE  Sound(c, Write228(b, a, v))
<1> DEFINE select == IF b.pages < ChipPages THEN 0 ELSE Bits(a, 11, 2)
           page == Bits(a, 6, 5)
           first == IF Bit(a, 5) = 0 THEN 4 * (page \div 2) ELSE 2 * page
           width == IF Bit(a, 5) = 0 THEN 4 ELSE 2
           shown == Chr(HorizontalIf(b, Bit(a, 13)), 0, 8,
                        (4 * Bits(a, 0, 4)) + Bits(v, 0, 2))
           prg == [s \in PrgSlots |->
                     IF s = 6 THEN shown.prg[s]
                     ELSE (Chip[select] * ChipPages)
                            + ((first + (((s - 8) \div 2) % width)) % ChipPages)]
           d == [shown EXCEPT !.prg = prg]
<1>1. Write228(b, a, v) = IF select \notin DOMAIN Chip THEN shown ELSE d
  BY Zenon DEF Write228
<1>2. b.pages = c.pages /\ c.id \notin KeepsVectors
  BY DEF Begun, KeepsVectors
<1>3. Begun(c, shown) /\ (Sound(c, b) => Sound(c, shown))
  <2>1. Begun(c, HorizontalIf(b, Bit(a, 13)))
    BY MirrorKeeps DEF HorizontalIf
  <2>2. Sound(c, b) => Sound(c, HorizontalIf(b, Bit(a, 13)))
    BY NamedMirrorsKeep
  <2> QED
    BY <2>1, <2>2, ChrKeeps
<1>4. Bits(a, 11, 2) \in 0..3 /\ page \in 0..31 /\ Bit(a, 5) \in {0, 1}
  BY BitsAre, BitIs
<1> HIDE DEF shown, page
<1>5. CASE select \notin DOMAIN Chip
  <2>1. select = 2
    BY <1>2, <1>4, <1>5 DEF Chip, ChipPages
  <2>2. Sound(c, b)
    BY <1>2, <2>1 DEF ChipPages
  <2> QED
    BY <1>1, <1>3, <1>5, <2>2
<1>6. CASE select \in DOMAIN Chip
  <2>1. Chip[select] \in 0..2
    BY <1>6 DEF Chip
  <2>2. first \in Int /\ width \in {2, 4}
    BY <1>4
  <2> HIDE DEF select, first, width
  <2>3. ASSUME NEW s \in PrgSlots
        PROVE  prg[s] \in {Open} \cup Pages(c) /\ (s # 6 => prg[s] \in Pages(c))
    <3>1. CASE s = 6
      BY <1>3, <3>1 DEF Begun
    <3>2. CASE s # 6
      <4>1. prg[s] = (Chip[select] * ChipPages)
                       + ((first + (((s - 8) \div 2) % width)) % ChipPages)
        BY <3>2
      <4>2. ((s - 8) \div 2) % width \in Int
        BY <2>2 DEF PrgSlots
      <4>3. (first + (((s - 8) \div 2) % width)) % 64 \in 0..63
        BY <2>2, <4>2
      <4> HIDE DEF prg
      <4>4. prg[s] \in 0..191
        BY <2>1, <4>1, <4>3 DEF ChipPages
      <4> QED
        BY <3>2, <4>4 DEF ChipPages, Sized, Pages
    <3> QED
      BY <3>1, <3>2
  <2>4. prg \in [PrgSlots -> {Open} \cup Pages(c)]
    BY <2>3
  <2> HIDE DEF prg
  <2>5. d = [id |-> c.id, pages |-> c.pages, banks |-> c.banks, prg |-> prg,
             chr |-> shown.chr, mir |-> shown.mir, reg |-> shown.reg]
    BY <1>3 DEF Begun
  <2>6. Begun(c, d)
    BY <1>3, <2>4, <2>5 DEF Begun
  <2>7. Sound(c, d)
    BY <1>2, <2>3, <2>5, <2>6 DEF Sound
  <2> QED
    BY <1>1, <1>6, <2>7
<1> QED
  BY <1>5, <1>6

-----------------------------------------------------------------------------
(* The boards with registers. Where a page number is taken from one, the   *)
(* registers are numbers:                                                  *)

Reg32 == [p8000 : Nat, pa000 : Nat, mode : Nat]
Reg46 == [prg : Nat, chr : Nat]
TwoBytes == [0..1 -> Nat]
Reg68 == [table : [1..2 -> Nat], ctl : Nat]
Reg163 == [prg : Nat, security : Nat, trigger : Int, r5101 : Nat]
Reg243 == [address : 0..7, data : [0..7 -> Nat]]

LEMMA LatchedKeeps ==
  ASSUME NEW c, Sized(c), NEW b, Sound(c, b), NEW a \in Nat, NEW v \in Nat
  PROVE  Sound(c, WriteLatched(b, a, v)) /\ Sound(c, ReadPattern(b, a))
<1>1. Sound(c, WriteLatched(b, a, v))
  <2> DEFINE half == (Digit(a) - 9) \div 2
             high == Digit(a) \in {12, 14}
             held == IF high THEN [b EXCEPT !.reg.high[half] = v]
                     ELSE [b EXCEPT !.reg.low[half] = v]
  <2>1. CASE Digit(a) = 10
    <3>1. WriteLatched(b, a, v) = Prg(b, 8, IF b.id = 9 THEN 1 ELSE 2, Bits(v, 0, 4))
      BY <2>1 DEF WriteLatched
    <3>2. Bits(v, 0, 4) \in Int
      BY BitsAre
    <3> DEFINE size == IF b.id = 9 THEN 1 ELSE 2
    <3>3. size \in {1, 2}
      OBVIOUS
    <3> HIDE DEF size
    <3>4. Sound(c, Prg(b, 8, size, Bits(v, 0, 4)))
      BY <3>2, <3>3, PrgKeeps
    <3> QED
      BY <3>1, <3>4 DEF size
  <2>2. CASE Digit(a) \in 11..14
    <3>1. WriteLatched(b, a, v) =
            IF b.reg.latch[half] = high
            THEN Chr(held, 4 * (half - 1), 4, Bits(v, 0, 5)) ELSE held
      BY <2>2 DEF WriteLatched
    <3>2. /\ [b EXCEPT !.reg.high[half] = v]
                = [b EXCEPT !.reg = [b.reg EXCEPT !.high[half] = v]]
          /\ [b EXCEPT !.reg.low[half] = v]
                = [b EXCEPT !.reg = [b.reg EXCEPT !.low[half] = v]]
      BY DEF Sound, Begun
    <3>3. Sound(c, held)
      BY <3>2, RegKeeps
    <3> HIDE DEF held
    <3> QED
      BY <3>1, <3>3, ChrKeeps
  <2>3. CASE Digit(a) = 15
    BY <2>3, NamedMirrorsKeep DEF WriteLatched
  <2>4. CASE Digit(a) \notin 10..15
    BY <2>4 DEF WriteLatched
  <2> QED
    BY <2>1, <2>2, <2>3, <2>4, DigitIs
<1>2. Sound(c, ReadPattern(b, a))
  <2> DEFINE half == 1 + Bit(a, 12)
             high == Bit(a, 5) = 1
             held == [b EXCEPT !.reg.latch[half] = high]
  <2>1. ReadPattern(b, a) =
          IF ~Latches(b, a) THEN b
          ELSE Chr(held, 4 * (half - 1), 4,
                   IF high THEN b.reg.high[half] ELSE b.reg.low[half])
    BY Zenon DEF ReadPattern
  <2>2. held = [b EXCEPT !.reg = [b.reg EXCEPT !.latch[half] = high]]
    BY DEF Sound, Begun
  <2>3. Sound(c, held)
    BY <2>2, RegKeeps
  <2> HIDE DEF held
  <2> QED
    BY <2>1, <2>3, ChrKeeps
<1> QED
  BY <1>1, <1>2

LEMMA Sync32Keeps ==
  ASSUME NEW c, Sized(c), NEW b, Sound(c, b), b.reg \in Reg32
  PROVE  Sound(c, SyncPrg32(b)) /\ SyncPrg32(b).reg = b.reg
<1> DEFINE p == b.reg.p8000
           q == b.reg.pa000
<1>1. p \in Int /\ q \in Int
  BY DEF Reg32
<1>2. CASE b.reg.mode = 1
  <2> DEFINE d == Prg(Prg(Prg(b, 8, 1, 0), 10, 1, q), 12, 1, p)
  <2>1. Sound(c, Prg(b, 8, 1, 0)) /\ Prg(b, 8, 1, 0).reg = b.reg
    BY PrgKeeps
  <2>2. /\ Sound(c, Prg(Prg(b, 8, 1, 0), 10, 1, q))
        /\ Prg(Prg(b, 8, 1, 0), 10, 1, q).reg = b.reg
    BY <1>1, <2>1, PrgKeeps
  <2>3. Sound(c, d) /\ d.reg = b.reg
    BY <1>1, <2>2, PrgKeeps
  <2>4. SyncPrg32(b) = Prg(d, 14, 1, -1)
    BY <1>2 DEF SyncPrg32
  <2> HIDE DEF d
  <2> QED
    BY <2>3, <2>4, LastPrgKeeps
<1>3. CASE b.reg.mode # 1
  <2> DEFINE d == Prg(Prg(b, 8, 1, p), 10, 1, q)
  <2>1. Sound(c, Prg(b, 8, 1, p)) /\ Prg(b, 8, 1, p).reg = b.reg
    BY <1>1, PrgKeeps
  <2>2. Sound(c, d) /\ d.reg = b.reg
    BY <1>1, <2>1, PrgKeeps
  <2>3. SyncPrg32(b) = Prg(d, 12, 2, -1)
    BY <1>3 DEF SyncPrg32
  <2> HIDE DEF d
  <2> QED
    BY <2>2, <2>3, LastPrgKeeps
<1> QED
  BY <1>2, <1>3

LEMMA Keeps32 ==
  ASSUME NEW c, Sized(c), NEW b, Sound(c, b), b.reg \in Reg32, NEW a \in Nat, NEW v \in Nat
  PROVE  Sound(c, Write32(b, a, v)) /\ Write32(b, a, v).reg \in Reg32
<1>1. /\ [b EXCEPT !.reg.p8000 = v] = With(b, [b.reg EXCEPT !.p8000 = v])
      /\ [b EXCEPT !.reg.mode = Bit(v, 1)] = With(b, [b.reg EXCEPT !.mode = Bit(v, 1)])
      /\ [b EXCEPT !.reg.pa000 = v] = With(b, [b.reg EXCEPT !.pa000 = v])
  BY DEF Sound, Begun, With
<1>2. /\ [b.reg EXCEPT !.p8000 = v] \in Reg32
      /\ [b.reg EXCEPT !.mode = Bit(v, 1)] \in Reg32
      /\ [b.reg EXCEPT !.pa000 = v] \in Reg32
  <2>1. Bit(v, 1) \in Nat
    BY BitIs
  <2> QED
    BY <2>1 DEF Reg32
<1>3. ASSUME NEW r \in Reg32
      PROVE  Sound(c, SyncPrg32(With(b, r))) /\ SyncPrg32(With(b, r)).reg \in Reg32
  BY WithKeeps, Sync32Keeps
<1>4. CASE Digit(a) = 8
  BY <1>1, <1>2, <1>3, <1>4 DEF Write32
<1>5. CASE Digit(a) = 9
  <2>1. Write32(b, a, v) =
          HorizontalIf(SyncPrg32([b EXCEPT !.reg.mode = Bit(v, 1)]), Bit(v, 0))
    BY <1>5 DEF Write32
  <2> QED
    BY <1>1, <1>2, <1>3, <2>1, NamedMirrorsKeep
<1>6. CASE Digit(a) = 10
  BY <1>1, <1>2, <1>3, <1>6 DEF Write32
<1>7. CASE Digit(a) = 11
  <2>1. Write32(b, a, v) = Chr(b, Bits(a, 0, 3), 1, v)
    BY <1>7 DEF Write32
  <2> QED
    BY <2>1, ChrKeeps, BoardFields
<1>8. CASE Digit(a) \notin 8..11
  BY <1>8 DEF Write32
<1> QED
  BY <1>4, <1>5, <1>6, <1>7, <1>8, DigitIs

LEMMA TaitoKeeps ==
  ASSUME NEW c, Sized(c), NEW b, Sound(c, b), NEW a \in Nat, NEW v \in Nat
  PROVE  /\ Sound(c, WriteTaito(b, a, v)) /\ Sound(c, Write33(b, a, v))
         /\ Sound(c, Write48(b, a, v))
<1>1. ASSUME NEW w \in Nat PROVE Sound(c, WriteTaito(b, a, w))
  <2>1. Bits(a, 0, 2) \in 0..3
    BY BitsAre
  <2>2. CASE Digit(a) \in {8, 9} /\ Bits(a, 0, 2) < 2
    <3>1. WriteTaito(b, a, w) = Prg(b, 8 + (2 * Bits(a, 0, 2)), 1, w)
      BY <2>1, <2>2 DEF WriteTaito
    <3> DEFINE slot == 8 + (2 * Bits(a, 0, 2))
    <3>2. slot \in {8, 10}
      BY <2>1, <2>2
    <3> HIDE DEF slot
    <3>3. Sound(c, Prg(b, slot, 1, w))
      BY <3>2, PrgKeeps
    <3> QED
      BY <3>1, <3>3 DEF slot
  <2>3. CASE Digit(a) \in {8, 9} /\ Bits(a, 0, 2) >= 2
    <3>1. WriteTaito(b, a, w) = Chr(b, 2 * (Bits(a, 0, 2) - 2), 2, w)
      BY <2>1, <2>3 DEF WriteTaito
    <3> QED
      BY <3>1, ChrKeeps
  <2>4. CASE Digit(a) \in {10, 11}
    <3>1. WriteTaito(b, a, w) = Chr(b, 4 + Bits(a, 0, 2), 1, w)
      BY <2>4 DEF WriteTaito
    <3> QED
      BY <3>1, ChrKeeps
  <2>5. CASE Digit(a) \notin 8..11
    BY <2>5 DEF WriteTaito
  <2> QED
    BY <2>1, <2>2, <2>3, <2>4, <2>5, DigitIs
<1>2. Bits(v, 0, 6) \in Nat
  BY BitsAre
<1>3. Sound(c, Write33(b, a, v))
  BY <1>1, <1>2, NamedMirrorsKeep DEF Write33
<1>4. Sound(c, Write48(b, a, v))
  BY <1>1, NamedMirrorsKeep DEF Write48
<1> QED
  BY <1>1, <1>3, <1>4

LEMMA OnePageBoards ==
  ASSUME NEW c, Sized(c), NEW b, Sound(c, b), NEW a \in Nat, NEW v \in Nat
  PROVE  Sound(c, Write40(b, a, v)) /\ Sound(c, Write50(b, a, v))
<1>1. /\ Bits(v, 0, 3) \in Int
      /\ (4 * Bit(v, 0)) + Bits(v, 1, 2) + (8 * Bit(v, 3)) \in Int
  <2>1. Bits(v, 0, 3) \in Nat /\ Bits(v, 1, 2) \in Nat
    BY BitsAre
  <2>2. Bit(v, 0) \in {0, 1} /\ Bit(v, 3) \in {0, 1}
    BY BitIs
  <2> QED
    BY <2>1, <2>2
<1>2. ASSUME NEW n \in Int PROVE Sound(c, Prg(b, 12, 1, n))
  BY PrgKeeps
<1>3. Sound(c, Write40(b, a, v))
  BY <1>1, <1>2 DEF Write40
<1>4. Sound(c, Write50(b, a, v))
  BY <1>1, <1>2 DEF Write50
<1> QED
  BY <1>3, <1>4

LEMMA Keeps41 ==
  ASSUME NEW c, Sized(c), NEW b, Sound(c, b), NEW a \in Nat, NEW v \in Nat, c.id = 41
  PROVE  Sound(c, Outer41(b, a, v)) /\ Sound(c, Inner41(b, v))
<1>1. Sound(c, Outer41(b, a, v))
  <2> DEFINE held == [b EXCEPT !.reg.outer = Bits(a, 0, 6)]
  <2>1. held = [b EXCEPT !.reg = [b.reg EXCEPT !.outer = Bits(a, 0, 6)]]
    BY DEF Sound, Begun
  <2>2. Sound(c, held)
    BY <2>1, RegKeeps
  <2>3. Outer41(b, a, v) = IF Bit(a, 11) = 1 THEN b
                           ELSE HorizontalIf(Prg(held, 8, 4, Bits(a, 0, 3)), Bit(v, 4))
    BY Zenon DEF Outer41
  <2> HIDE DEF held
  <2>4. Bits(a, 0, 3) \in Int /\ c.id \notin KeepsVectors
    BY BitsAre DEF KeepsVectors
  <2>5. Sound(c, Prg(held, 8, 4, Bits(a, 0, 3)))
    BY <2>2, <2>4, WholeKeeps
  <2> QED
    BY <2>3, <2>5, NamedMirrorsKeep
<1>2. Sound(c, Inner41(b, v))
  <2> DEFINE held == [b EXCEPT !.reg.inner = v]
  <2>1. held = [b EXCEPT !.reg = [b.reg EXCEPT !.inner = v]]
    BY DEF Sound, Begun
  <2>2. Sound(c, held)
    BY <2>1, RegKeeps
  <2>3. Inner41(b, v) = IF Bit(b.reg.outer, 2) = 0 THEN held
                        ELSE Chr(held, 0, 8, 4 * Bits(b.reg.outer, 3, 2))
    BY Zenon DEF Inner41
  <2> HIDE DEF held
  <2> QED
    BY <2>2, <2>3, ChrKeeps
<1> QED
  BY <1>1, <1>2

LEMMA Keeps46 ==
  ASSUME NEW c, Sized(c), NEW b, Sound(c, b), NEW v \in Nat, c.id = 46, b.reg \in Reg46
  PROVE  /\ Sound(c, Outer46(b, v)) /\ Outer46(b, v).reg \in Reg46
         /\ Sound(c, Inner46(b, v)) /\ Inner46(b, v).reg \in Reg46
<1>1. ASSUME NEW r \in Reg46
      PROVE  /\ Sound(c, Sync46([b EXCEPT !.reg = r]))
             /\ Sync46([b EXCEPT !.reg = r]).reg \in Reg46
  <2> DEFINE held == [b EXCEPT !.reg = r]
  <2>1. Sound(c, held) /\ held.reg = r
    BY RegKeeps
  <2> HIDE DEF held
  <2>2. held.reg.prg \in Int /\ c.id \notin KeepsVectors
    BY <2>1 DEF Reg46, KeepsVectors
  <2>3. Sound(c, Prg(held, 8, 4, held.reg.prg)) /\ Prg(held, 8, 4, held.reg.prg).reg = r
    BY <2>1, <2>2, WholeKeeps
  <2>4. Sound(c, Sync46(held)) /\ Sync46(held).reg = r
    BY <2>3, ChrKeeps, BoardFields DEF Sync46
  <2> QED
    BY <2>4 DEF held
<1>2. Bits(v, 0, 4) \in Nat /\ Bits(v, 4, 4) \in Nat /\ Bits(v, 4, 3) \in Nat /\ Bit(v, 0) \in Nat
  BY BitsAre, BitIs
<1>3. b.reg.prg \in Nat /\ b.reg.chr \in Nat
  BY DEF Reg46
<1>4. Sound(c, Outer46(b, v)) /\ Outer46(b, v).reg \in Reg46
  <2> DEFINE q == [b.reg EXCEPT !.prg = (b.reg.prg % 2) + (2 * Bits(v, 0, 4))]
             r == [q EXCEPT !.chr = (q.chr % 8) + (8 * Bits(v, 4, 4))]
  <2>1. q \in Reg46
    BY <1>2, <1>3 DEF Reg46
  <2>2. [b EXCEPT !.reg.prg = (@ % 2) + (2 * Bits(v, 0, 4)),
                  !.reg.chr = (@ % 8) + (8 * Bits(v, 4, 4))] = [b EXCEPT !.reg = r]
    BY DEF Sound, Begun
  <2> HIDE DEF q
  <2>3. r \in Reg46
    BY <1>2, <2>1 DEF Reg46
  <2>4. Outer46(b, v) = Sync46([b EXCEPT !.reg = r])
    BY <2>2, Zenon DEF Outer46
  <2> QED
    BY <1>1, <2>3, <2>4
<1>5. Sound(c, Inner46(b, v)) /\ Inner46(b, v).reg \in Reg46
  <2> DEFINE q == [b.reg EXCEPT !.prg = b.reg.prg - (b.reg.prg % 2) + Bit(v, 0)]
             r == [q EXCEPT !.chr = q.chr - (q.chr % 8) + Bits(v, 4, 3)]
  <2>1. q \in Reg46
    BY <1>2, <1>3 DEF Reg46
  <2>2. [b EXCEPT !.reg.prg = @ - (@ % 2) + Bit(v, 0),
                  !.reg.chr = @ - (@ % 8) + Bits(v, 4, 3)] = [b EXCEPT !.reg = r]
    BY DEF Sound, Begun
  <2> HIDE DEF q
  <2>3. r \in Reg46
    BY <1>2, <2>1 DEF Reg46
  <2>4. Inner46(b, v) = Sync46([b EXCEPT !.reg = r])
    BY <2>2, Zenon DEF Inner46
  <2> QED
    BY <1>1, <2>3, <2>4
<1> QED
  BY <1>4, <1>5

LEMMA Keeps57 ==
  ASSUME NEW c, Sized(c), NEW b, Sound(c, b), NEW a \in Nat, NEW v \in Nat, c.id = 57,
         b.reg \in TwoBytes
  PROVE  Sound(c, Write57(b, a, v)) /\ Write57(b, a, v).reg \in TwoBytes
<1> DEFINE held == [b EXCEPT !.reg[Bit(a, 11)] = v]
           bank == Bits(held.reg[1], 5, 3)
           either(n) == IF Bit(held.reg[0], n) + Bit(held.reg[1], n) > 0 THEN 2^n ELSE 0
           paged == IF Bit(held.reg[1], 4) = 1 THEN Prg(held, 8, 4, bank)
                    ELSE Prg(Prg(held, 8, 2, bank), 12, 2, bank)
<1>1. held = [b EXCEPT !.reg = [b.reg EXCEPT ![Bit(a, 11)] = v]]
  BY DEF Sound, Begun
<1>2. [b.reg EXCEPT ![Bit(a, 11)] = v] \in TwoBytes
  BY DEF TwoBytes
<1>3. Sound(c, held) /\ held.reg \in TwoBytes
  BY <1>1, <1>2, RegKeeps
<1>4. Write57(b, a, v) = Chr(HorizontalIf(paged, Bit(held.reg[1], 3)), 0, 8,
                             either(0) + either(1) + either(2) + (8 * Bit(held.reg[0], 6)))
  BY Zenon DEF Write57
<1> HIDE DEF held
<1>5. bank \in Int
  <2>1. held.reg[1] \in Nat
    BY <1>3 DEF TwoBytes
  <2> QED
    BY <2>1, BitsAre
<1> HIDE DEF bank, either
<1>6. c.id \notin KeepsVectors
  BY DEF KeepsVectors
<1>7. Sound(c, paged) /\ paged.reg = held.reg
  BY <1>3, <1>5, <1>6, WholeKeeps
<1> HIDE DEF paged
<1>8. Sound(c, HorizontalIf(paged, Bit(held.reg[1], 3)))
      /\ HorizontalIf(paged, Bit(held.reg[1], 3)).reg = held.reg
  BY <1>7, NamedMirrorsKeep
<1> QED
  BY <1>3, <1>4, <1>8, ChrKeeps, BoardFields

LEMMA Keeps68 ==
  ASSUME NEW c, Sized(c), NEW b, Sound(c, b), NEW a \in Nat, NEW v \in Nat, b.reg \in Reg68
  PROVE  Sound(c, Write68(b, a, v)) /\ Write68(b, a, v).reg \in Reg68
<1>1. CASE Digit(a) \in 8..11
  <2>1. Write68(b, a, v) = Chr(b, 2 * (Digit(a) - 8), 2, v)
    BY <1>1 DEF Write68
  <2> QED
    BY <2>1, ChrKeeps, BoardFields
<1>2. CASE Digit(a) \in {12, 13}
  <2> DEFINE table == [b.reg.table EXCEPT ![Digit(a) - 11] = 128 + Bits(v, 0, 7)]
             r == [b.reg EXCEPT !.table = table]
  <2>1. [b EXCEPT !.reg.table[Digit(a) - 11] = 128 + Bits(v, 0, 7)] = [b EXCEPT !.reg = r]
    BY DEF Sound, Begun
  <2>2. Write68(b, a, v) = [b EXCEPT !.reg = r]
    BY <1>2, <2>1 DEF Write68
  <2>3. table \in [1..2 -> Nat]
    <3>1. 128 + Bits(v, 0, 7) \in Nat
      BY DEF Bits
    <3>2. b.reg.table \in [1..2 -> Nat]
      BY DEF Reg68
    <3> QED
      BY <3>1, <3>2
  <2> HIDE DEF table
  <2>4. r \in Reg68
    BY <2>3 DEF Reg68
  <2> HIDE DEF r
  <2> QED
    BY <2>2, <2>4, RegKeeps
<1>3. CASE Digit(a) = 14
  <2> DEFINE r == [b.reg EXCEPT !.ctl = v]
  <2>1. [b EXCEPT !.reg.ctl = v] = [b EXCEPT !.reg = r]
    BY DEF Sound, Begun
  <2>2. Write68(b, a, v) = HorizontalIf([b EXCEPT !.reg = r], 1 - Bit(v, 0))
    BY <1>3, <2>1 DEF Write68
  <2>3. r \in Reg68
    BY DEF Reg68
  <2> DEFINE d == [b EXCEPT !.reg = r]
  <2> HIDE DEF r
  <2>4. Sound(c, d) /\ d.reg = r
    BY RegKeeps
  <2> HIDE DEF d
  <2>5. Write68(b, a, v) = HorizontalIf(d, 1 - Bit(v, 0))
    BY <2>2 DEF d
  <2> QED
    BY <2>3, <2>4, <2>5, NamedMirrorsKeep
<1>4. CASE Digit(a) = 15
  <2>1. Write68(b, a, v) = Prg(b, 8, 2, v)
    BY <1>4 DEF Write68
  <2> QED
    BY <2>1, PrgKeeps
<1>5. CASE Digit(a) \notin 8..15
  BY <1>5 DEF Write68
<1> QED
  BY <1>1, <1>2, <1>3, <1>4, <1>5, DigitIs

LEMMA Keeps75 ==
  ASSUME NEW c, Sized(c), NEW b, Sound(c, b), NEW a \in Nat, NEW v \in Nat
  PROVE  Sound(c, Write75(b, a, v))
<1>0. ASSUME NEW d, Sound(c, d) PROVE Sound(c, Sync75(d))
  BY <1>0, ChrKeeps DEF Sync75
<1>1. CASE Digit(a) \in {8, 10, 12}
  <2>1. Write75(b, a, v) = Prg(b, Digit(a), 1, Bits(v, 0, 4))
    BY <1>1 DEF Write75
  <2>2. Bits(v, 0, 4) \in Int
    BY BitsAre
  <2> QED
    BY <1>1, <2>1, <2>2, PrgKeeps
<1>2. CASE Digit(a) = 9
  <2> DEFINE d == HorizontalIf(b, Bit(v, 0))
             f == [d EXCEPT !.reg.chr = <<(@[1] % 16) + (16 * Bit(v, 1)),
                                          (@[2] % 16) + (16 * Bit(v, 2))>>]
  <2>1. Write75(b, a, v) = Sync75(f)
    BY <1>2 DEF Write75
  <2>2. Sound(c, d)
    BY NamedMirrorsKeep
  <2> HIDE DEF d
  <2> DEFINE r == [d.reg EXCEPT !.chr = <<(@[1] % 16) + (16 * Bit(v, 1)),
                                          (@[2] % 16) + (16 * Bit(v, 2))>>]
  <2>3. f = [d EXCEPT !.reg = r]
    BY <2>2 DEF Sound, Begun
  <2> HIDE DEF f, r
  <2> QED
    BY <1>0, <2>1, <2>2, <2>3, RegKeeps
<1>3. CASE Digit(a) \in {14, 15}
  <2> DEFINE f == [b EXCEPT !.reg.chr[Digit(a) - 13] = @ - (@ % 16) + Bits(v, 0, 4)]
  <2>1. Write75(b, a, v) = Sync75(f)
    BY <1>3 DEF Write75
  <2> DEFINE r == [b.reg EXCEPT !.chr[Digit(a) - 13] = @ - (@ % 16) + Bits(v, 0, 4)]
  <2>2. f = [b EXCEPT !.reg = r]
    BY DEF Sound, Begun
  <2> HIDE DEF f, r
  <2> QED
    BY <1>0, <2>1, <2>2, RegKeeps
<1>4. CASE Digit(a) \notin {8, 9, 10, 12, 14, 15}
  BY <1>4 DEF Write75
<1> QED
  BY <1>1, <1>2, <1>3, <1>4

LEMMA Keeps76 ==
  ASSUME NEW c, Sized(c), NEW b, Sound(c, b), NEW a \in Nat, NEW v \in Nat
  PROVE  Sound(c, Write76(b, a, v))
<1> DEFINE command == Bits(b.reg.command, 0, 3)
<1>1. CASE Bit(a, 0) = 0
  <2>1. Write76(b, a, v) = [b EXCEPT !.reg.command = v]
    BY <1>1 DEF Write76
  <2>2. [b EXCEPT !.reg.command = v] = [b EXCEPT !.reg = [b.reg EXCEPT !.command = v]]
    BY DEF Sound, Begun
  <2> QED
    BY <2>1, <2>2, RegKeeps
<1>2. CASE Bit(a, 0) = 1 /\ command \in 2..5
  <2>1. Write76(b, a, v) = Chr(b, 2 * (command - 2), 2, Bits(v, 0, 6))
    BY <1>2 DEF Write76
  <2> QED
    BY <2>1, ChrKeeps
<1>3. CASE Bit(a, 0) = 1 /\ command \in 6..7
  <2>1. Write76(b, a, v) = Prg(b, 8 + (2 * (command - 6)), 1, Bits(v, 0, 6))
    BY <1>3 DEF Write76
  <2>2. Bits(v, 0, 6) \in Int
    BY BitsAre
  <2> DEFINE slot == 8 + (2 * (command - 6))
  <2>3. slot \in {8, 10}
    BY <1>3
  <2> HIDE DEF slot
  <2>4. Sound(c, Prg(b, slot, 1, Bits(v, 0, 6)))
    BY <2>2, <2>3, PrgKeeps
  <2> QED
    BY <2>1, <2>4 DEF slot
<1>4. CASE Bit(a, 0) = 1 /\ command \notin 2..7
  BY <1>4 DEF Write76
<1> QED
  BY <1>1, <1>2, <1>3, <1>4, BitIs

LEMMA Keeps226 ==
  ASSUME NEW c, Sized(c), NEW b, Begun(c, b), c.id = 226, b.reg \in TwoBytes
  PROVE  Sound(c, Sync226(b)) /\ Sync226(b).reg \in TwoBytes
<1> DEFINE page == Bits(b.reg[0], 1, 4) + (16 * Bit(b.reg[0], 7)) + (32 * Bit(b.reg[1], 0))
           half == (2 * page) + Bit(b.reg[0], 0)
           shown == HorizontalIf(b, Bit(b.reg[0], 6))
<1>1. page \in Int /\ half \in Int
  <2>1. b.reg[0] \in Nat /\ b.reg[1] \in Nat
    BY DEF TwoBytes
  <2>2. Bits(b.reg[0], 1, 4) \in Nat /\ Bit(b.reg[0], 7) \in {0, 1}
    BY <2>1, BitsAre, BitIs
  <2>3. Bit(b.reg[1], 0) \in {0, 1} /\ Bit(b.reg[0], 0) \in {0, 1}
    BY <2>1, BitIs
  <2> QED
    BY <2>2, <2>3
<1>2. Sync226(b) = IF Bit(b.reg[0], 5) = 1 THEN Prg(Prg(shown, 8, 2, half), 12, 2, half)
                   ELSE Prg(shown, 8, 4, page)
  BY Zenon DEF Sync226
<1>3. Begun(c, shown) /\ shown.reg = b.reg
  BY MirrorKeeps DEF HorizontalIf
<1> HIDE DEF page, half, shown
<1>4. c.id \notin KeepsVectors
  BY DEF KeepsVectors
<1>5. /\ Filled(c, shown, Prg(shown, 8, 4, page), (4 * page) + 3)
      /\ Filled(c, shown, Prg(Prg(shown, 8, 2, half), 12, 2, half), (2 * half) + 1)
  BY <1>1, <1>3, FilledWhole, FilledHalves
<1>6. (4 * page) + 3 \in Int /\ (2 * half) + 1 \in Int
  BY <1>1
<1> QED
  BY <1>2, <1>3, <1>4, <1>5, <1>6, FilledIsSound

LEMMA Write226Keeps ==
  ASSUME NEW c, Sized(c), NEW b, Sound(c, b), NEW a \in Nat, NEW v \in Nat, c.id = 226,
         b.reg \in TwoBytes
  PROVE  Sound(c, Write226(b, a, v)) /\ Write226(b, a, v).reg \in TwoBytes
<1> DEFINE r == [b.reg EXCEPT ![Bit(a, 0)] = v]
<1>1. [b EXCEPT !.reg[Bit(a, 0)] = v] = [b EXCEPT !.reg = r]
  BY DEF Sound, Begun
<1>2. r \in TwoBytes
  BY DEF TwoBytes
<1> HIDE DEF r
<1> DEFINE d == [b EXCEPT !.reg = r]
<1>3. Sound(c, d) /\ d.reg = r
  BY RegKeeps
<1>4. Write226(b, a, v) = Sync226(d)
  BY <1>1, Zenon DEF Write226
<1> HIDE DEF d
<1>5. Begun(c, d)
  BY <1>3, BoardFields
<1> QED
  BY <1>2, <1>3, <1>4, <1>5, Keeps226

LEMMA Keeps163 ==
  ASSUME NEW c, Sized(c), NEW b, Sound(c, b), NEW a \in Nat, NEW v \in Nat,
         c.id \notin KeepsVectors, b.reg \in Reg163
  PROVE  Sound(c, Write163(b, a, v)) /\ Write163(b, a, v).reg \in Reg163
<1>0. ASSUME NEW d, Sound(c, d), NEW n \in Int
      PROVE  Sound(c, Prg(d, 8, 4, n)) /\ Prg(d, 8, 4, n).reg = d.reg
  BY <1>0, WholeKeeps
<1> DEFINE port == Bits(a, 8, 2)
           held == CASE port = 0 -> [b EXCEPT !.reg.prg = @ - (@ % 16) + Bits(v, 0, 4)]
                     [] port = 2 -> [b EXCEPT !.reg.prg = (@ % 16) + (16 * Bits(v, 0, 4))]
                     [] port = 3 -> [b EXCEPT !.reg.security = v]
                     [] OTHER -> b
           paged == CASE port \in {0, 2} -> Prg(held, 8, 4, held.reg.prg)
                      [] port = 1 /\ v = 6 -> Prg(held, 8, 4, 3)
                      [] OTHER -> held
           end == [paged EXCEPT
                     !.reg.trigger = IF b.reg.r5101 # 0 /\ v = 0 THEN 1 - @ ELSE @,
                     !.reg.r5101 = v]
<1>1. Write163(b, a, v) = IF Bits(a, 12, 3) # 5 THEN b
                          ELSE IF port # 1 \/ Bit(a, 0) = 0 THEN paged ELSE end
  BY Zenon DEF Write163
<1>2. Bits(v, 0, 4) \in 0..15 /\ b.reg.prg \in Nat
  BY BitsAre DEF Reg163
<1>4. Sound(c, held) /\ held.reg \in Reg163
  <2>1. ASSUME NEW r \in Reg163
        PROVE  Sound(c, With(b, r)) /\ With(b, r).reg \in Reg163
    BY WithKeeps
  <2>2. ASSUME NEW p \in Nat
        PROVE  [b.reg EXCEPT !.prg = p] \in Reg163
    BY DEF Reg163
  <2>3. CASE port = 0
    <3> DEFINE p == b.reg.prg - (b.reg.prg % 16) + Bits(v, 0, 4)
    <3>1. p \in Nat
      BY <1>2
    <3>2. held = With(b, [b.reg EXCEPT !.prg = p])
      BY <2>3 DEF Sound, Begun, With
    <3> HIDE DEF p, held
    <3> QED
      BY <2>1, <2>2, <3>1, <3>2
  <2>4. CASE port = 2
    <3> DEFINE p == (b.reg.prg % 16) + (16 * Bits(v, 0, 4))
    <3>1. p \in Nat
      BY <1>2
    <3>2. held = With(b, [b.reg EXCEPT !.prg = p])
      BY <2>4 DEF Sound, Begun, With
    <3> HIDE DEF p, held
    <3> QED
      BY <2>1, <2>2, <3>1, <3>2
  <2>5. CASE port = 3
    <3>1. held = With(b, [b.reg EXCEPT !.security = v])
      BY <2>5 DEF Sound, Begun, With
    <3>2. [b.reg EXCEPT !.security = v] \in Reg163
      BY DEF Reg163
    <3> HIDE DEF held
    <3> QED
      BY <2>1, <3>1, <3>2
  <2>6. CASE port \notin {0, 2, 3}
    BY <2>6
  <2> QED
    BY <2>3, <2>4, <2>5, <2>6
<1> HIDE DEF held
<1>5. Sound(c, paged) /\ paged.reg \in Reg163
  <2>1. held.reg.prg \in Int
    BY <1>4 DEF Reg163
  <2>2. /\ Sound(c, Prg(held, 8, 4, held.reg.prg))
        /\ Prg(held, 8, 4, held.reg.prg).reg = held.reg
    BY <1>0, <1>4, <2>1
  <2>3. Sound(c, Prg(held, 8, 4, 3)) /\ Prg(held, 8, 4, 3).reg = held.reg
    BY <1>0, <1>4
  <2> HIDE DEF port
  <2> QED
    BY <1>4, <2>2, <2>3
<1> HIDE DEF paged
<1>6. Sound(c, end) /\ end.reg \in Reg163
  <2> DEFINE turned == IF b.reg.r5101 # 0 /\ v = 0 THEN 1 - paged.reg.trigger
                       ELSE paged.reg.trigger
             q == [paged.reg EXCEPT !.trigger = turned]
             r == [q EXCEPT !.r5101 = v]
  <2>1. end = With(paged, r)
    BY <1>5 DEF Sound, Begun, With
  <2>2. turned \in Int
    BY <1>5 DEF Reg163
  <2> HIDE DEF turned
  <2>3. q \in Reg163
    BY <1>5, <2>2 DEF Reg163
  <2> HIDE DEF q
  <2>4. r \in Reg163
    BY <2>3 DEF Reg163
  <2> HIDE DEF r, end
  <2> QED
    BY <1>5, <2>1, <2>4, WithKeeps
<1> HIDE DEF end, port
<1> QED
  BY <1>1, <1>5, <1>6

LEMMA Keeps243 ==
  ASSUME NEW c, Sized(c), NEW b, Sound(c, b), NEW a \in Nat, NEW v \in Nat,
         c.id \notin KeepsVectors, b.reg \in Reg243
  PROVE  Sound(c, Write243(b, a, v)) /\ Write243(b, a, v).reg \in Reg243
<1>0. ASSUME NEW d, Sound(c, d), NEW n \in Int
      PROVE  Sound(c, Prg(d, 8, 4, n)) /\ Prg(d, 8, 4, n).reg = d.reg
  BY <1>0, WholeKeeps
<1> DEFINE named == [b EXCEPT !.reg.address = Bits(v, 0, 3)]
           r == [b.reg.data EXCEPT ![b.reg.address] = v]
           held == [b EXCEPT !.reg.data = r]
           paged == Prg(held, 8, 4, Bits(r[5], 0, 3))
           shown == Chr(paged, 0, 8,
                        (8 * Bit(r[2], 0)) + (2 * Bits(r[6], 0, 2)) + Bit(r[4], 0))
           mir == r[7] \div 2
           turned == Mirror(shown, <<Horizontal, Vertical, \h15, SingleHigh>>[1 + mir])
<1>1. Write243(b, a, v) =
        IF Bit(a, 8) = 0 \/ Digit(a) # 4 THEN b
        ELSE IF Bit(a, 0) = 0 THEN named ELSE IF mir > 3 THEN shown ELSE turned
  BY Zenon DEF Write243
<1>2. Sound(c, named) /\ named.reg \in Reg243
  <2> DEFINE q == [b.reg EXCEPT !.address = Bits(v, 0, 3)]
  <2>1. named = With(b, q)
    BY DEF Sound, Begun, With
  <2>2. Bits(v, 0, 3) \in 0..7
    BY BitsAre
  <2>3. q \in Reg243
    BY <2>2 DEF Reg243
  <2> HIDE DEF q, named
  <2> QED
    BY <2>1, <2>3, WithKeeps
<1>3. r \in [0..7 -> Nat]
  BY DEF Reg243
<1> HIDE DEF r, named
<1>4. Sound(c, held) /\ held.reg \in Reg243
  <2> DEFINE q == [b.reg EXCEPT !.data = r]
  <2>1. held = With(b, q)
    BY DEF Sound, Begun, With
  <2>2. q \in Reg243
    BY <1>3 DEF Reg243
  <2> HIDE DEF q, held
  <2> QED
    BY <2>1, <2>2, WithKeeps
<1> HIDE DEF held
<1>5. Sound(c, paged) /\ paged.reg = held.reg
  <2>1. r[5] \in Nat
    BY <1>3
  <2>2. Bits(r[5], 0, 3) \in Int
    BY <2>1, BitsAre
  <2> QED
    BY <1>0, <1>4, <2>2
<1> HIDE DEF paged
<1>6. Sound(c, shown) /\ shown.reg = held.reg
  BY <1>5, ChrKeeps, BoardFields
<1> HIDE DEF shown
<1>7. Sound(c, turned) /\ turned.reg = held.reg
  BY <1>6, MirrorKeeps, BoardFields
<1> HIDE DEF turned, mir
<1> QED
  BY <1>1, <1>2, <1>4, <1>6, <1>7

-----------------------------------------------------------------------------
(* What the constructors of the discrete boards leave.                     *)

LEMMA Powered ==
  ASSUME NEW c, Sized(c), NEW reg
  PROVE  /\ Sound(c, Patterns(FirstAndLast(Blank(c, reg))))
         /\ Patterns(FirstAndLast(Blank(c, reg))).reg = reg
         /\ Sound(c, RomPatterns(FirstAndLast(Blank(c, reg))))
         /\ RomPatterns(FirstAndLast(Blank(c, reg))).reg = reg
         /\ Sound(c, RamPatterns(FirstAndLast(Blank(c, reg))))
         /\ RamPatterns(FirstAndLast(Blank(c, reg))).reg = reg
<1> DEFINE d == Blank(c, reg)
           f == FirstAndLast(d)
<1>1. Begun(c, d) /\ d.reg = reg
  BY BlankBegun
<1> HIDE DEF d
<1>2. Sound(c, f) /\ f.reg = reg
  BY <1>1, FirstAndLastSound
<1> HIDE DEF f
<1>3. /\ Sound(c, Patterns(f)) /\ Patterns(f).reg = reg
      /\ Sound(c, RomPatterns(f)) /\ RomPatterns(f).reg = reg
      /\ Sound(c, RamPatterns(f)) /\ RamPatterns(f).reg = reg
  BY <1>2, PatternsKeep
<1> QED
  BY <1>3 DEF f, d

LEMMA PoweredWhole ==
  ASSUME NEW c, Sized(c), NEW reg, c.id \notin KeepsVectors
  PROVE  /\ Sound(c, Patterns(FirstBank(Blank(c, reg))))
         /\ Patterns(FirstBank(Blank(c, reg))).reg = reg
         /\ Sound(c, RomPatterns(FirstBank(Blank(c, reg))))
         /\ RomPatterns(FirstBank(Blank(c, reg))).reg = reg
         /\ Sound(c, RamPatterns(FirstBank(Blank(c, reg))))
         /\ RamPatterns(FirstBank(Blank(c, reg))).reg = reg
<1> DEFINE d == Blank(c, reg)
           f == FirstBank(d)
<1>1. Begun(c, d) /\ d.reg = reg
  BY BlankBegun
<1> HIDE DEF d
<1>2. Sound(c, f) /\ f.reg = reg
  BY <1>1, FirstBankSound
<1> HIDE DEF f
<1>3. /\ Sound(c, Patterns(f)) /\ Patterns(f).reg = reg
      /\ Sound(c, RomPatterns(f)) /\ RomPatterns(f).reg = reg
      /\ Sound(c, RamPatterns(f)) /\ RamPatterns(f).reg = reg
  BY <1>2, PatternsKeep
<1> QED
  BY <1>3 DEF f, d

LEMMA PlainPowers ==
  ASSUME NEW c, Sized(c)
  PROVE  /\ Sound(c, Power0(c)) /\ Sound(c, PowerRamHalf(c)) /\ Sound(c, PowerRomHalf(c))
         /\ Sound(c, PowerCommand(c))
         /\ c.id \notin KeepsVectors =>
              /\ Sound(c, PowerRomWhole(c)) /\ Sound(c, PowerWhole(c)) /\ Sound(c, Power15(c))
              /\ Sound(c, Power41(c))
<1>1. /\ Sound(c, Power0(c)) /\ Sound(c, PowerRamHalf(c)) /\ Sound(c, PowerRomHalf(c))
      /\ Sound(c, PowerCommand(c))
  BY Powered DEF Power0, PowerRamHalf, PowerRomHalf, PowerCommand
<1>2. ASSUME c.id \notin KeepsVectors
      PROVE  /\ Sound(c, PowerRomWhole(c)) /\ Sound(c, PowerWhole(c)) /\ Sound(c, Power15(c))
             /\ Sound(c, Power41(c))
  BY <1>2, PoweredWhole DEF PowerRomWhole, PowerWhole, Power15, Power41
<1> QED
  BY <1>1, <1>2

LEMMA RegisterPowers ==
  ASSUME NEW c, Sized(c)
  PROVE  /\ Sound(c, Power32(c)) /\ Power32(c).reg \in Reg32
         /\ Sound(c, Power46(c)) /\ Power46(c).reg \in Reg46
         /\ Sound(c, Power57(c)) /\ Power57(c).reg \in TwoBytes
         /\ Sound(c, Power68(c)) /\ Power68(c).reg \in Reg68
         /\ Sound(c, Power243(c)) /\ Power243(c).reg \in Reg243
         /\ c.id \notin KeepsVectors => Sound(c, Power163(c)) /\ Power163(c).reg \in Reg163
<1>1. [p8000 |-> 0, pa000 |-> 0, mode |-> 0] \in Reg32
  BY DEF Reg32
<1>2. [prg |-> 0, chr |-> 0] \in Reg46
  BY DEF Reg46
<1>3. [r \in 0..1 |-> 0] \in TwoBytes
  BY DEF TwoBytes
<1>4. [table |-> <<\h80, \h80>>, ctl |-> 0] \in Reg68
  BY DEF Reg68
<1>5. [address |-> 0, data |-> [r \in 0..7 |-> 0]] \in Reg243
  BY DEF Reg243
<1>6. [prg |-> 0, security |-> 0, trigger |-> 0, r5101 |-> 0] \in Reg163
  BY DEF Reg163
<1>7. Sound(c, Power32(c)) /\ Power32(c).reg \in Reg32
  BY <1>1, Powered, Zenon DEF Power32
<1>8. Sound(c, Power46(c)) /\ Power46(c).reg \in Reg46
  BY <1>2, Powered, Zenon DEF Power46
<1>9. Sound(c, Power57(c)) /\ Power57(c).reg \in TwoBytes
  BY <1>3, Powered, Zenon DEF Power57
<1>10. Sound(c, Power68(c)) /\ Power68(c).reg \in Reg68
  <2>1. Power68(c) = RomPatterns(FirstAndLast(Blank(c, [table |-> <<\h80, \h80>>, ctl |-> 0])))
    BY DEF Power68
  <2> QED
    BY <1>4, <2>1, Powered
<1>11. Sound(c, Power243(c)) /\ Power243(c).reg \in Reg243
  BY <1>5, Powered, Zenon DEF Power243
<1>12. c.id \notin KeepsVectors => Sound(c, Power163(c)) /\ Power163(c).reg \in Reg163
  BY <1>6, PoweredWhole, Zenon DEF Power163
<1> QED
  BY <1>7, <1>8, <1>9, <1>10, <1>11, <1>12

LEMMA Power7Sound ==
  ASSUME NEW c, Sized(c), c.id \notin KeepsVectors
  PROVE  Sound(c, Power7(c))
<1> DEFINE d == Blank(c, NoReg)
           f == Prg(d, 8, 4, -1)
<1>1. Begun(c, d)
  BY BlankBegun
<1> HIDE DEF d
<1>2. Filled(c, d, f, (4 * (-1)) + 3)
  BY <1>1, FilledWhole
<1> HIDE DEF f
<1>3. Sound(c, f)
  BY <1>2, FilledIsSound
<1>4. Power7(c) = RamPatterns(f)
  BY DEF Power7, f, d
<1> QED
  BY <1>3, <1>4, PatternsKeep

LEMMA Power13Sound ==
  ASSUME NEW c, Sized(c), c.id \in {13}
  PROVE  Sound(c, Power13(c))
<1> DEFINE f == FirstAndLast(Blank(c, NoReg))
           g == ChrRam(f, 0, 4, 0)
<1>1. Sound(c, f)
  BY BlankBegun, FirstAndLastSound
<1> HIDE DEF f
<1>2. RamBanks(c.id) = 16
  BY DEF RamBanks
<1>3. (0 * 4) + 4 <= RamBanks(c.id) /\ (1 * 4) + 4 <= RamBanks(c.id)
  BY <1>2
<1>4. Sound(c, g)
  BY <1>1, <1>3, ChrRamKeeps
<1> HIDE DEF g
<1>5. Sound(c, ChrRam(g, 4, 4, 1))
  BY <1>3, <1>4, ChrRamKeeps
<1>6. Power13(c) = ChrRam(g, 4, 4, 1)
  BY DEF Power13, g, f
<1> QED
  BY <1>5, <1>6

LEMMA LatchedPower ==
  ASSUME NEW c, Sized(c)
  PROVE  Sound(c, PowerLatched(c))
<1> DEFINE reg == [low |-> <<0, 0>>, high |-> <<0, 0>>, latch |-> <<TRUE, TRUE>>]
           d == Blank(c, reg)
           f == Prg(Prg(Prg(Prg(d, 8, 1, 0), 10, 1, -3), 12, 1, -2), 14, 1, -1)
<1>1. Begun(c, d)
  BY BlankBegun
<1>2. PowerLatched(c) = IF c.id = 9 THEN Patterns(f) ELSE RomPatterns(FirstAndLast(d))
  BY Zenon DEF PowerLatched
<1>3. Sound(c, RomPatterns(FirstAndLast(d)))
  BY Powered
<1> HIDE DEF d
<1>4. Filled(c, d, f, -1)
  BY <1>1, FilledSingly
<1> HIDE DEF f
<1>5. Sound(c, Patterns(f))
  BY <1>4, FilledIsSound, PatternsKeep
<1> QED
  BY <1>2, <1>3, <1>5

\* 40 and 50.
LEMMA FixedPower ==
  ASSUME NEW c, Sized(c), c.id \notin KeepsVectors,
         NEW low \in Nat, NEW first \in Nat, NEW last \in Nat
  PROVE  LET b == PowerFixed(Blank(c, NoReg), low, first, last)
         IN  Sound(c, RomPatterns(b)) /\ Sound(c, Patterns(b))
<1> DEFINE d == Prg(Blank(c, NoReg), 6, 1, low)
           f == Prg(Prg(Prg(Prg(d, 8, 1, first), 10, 1, first + 1), 12, 1, 0), 14, 1, last)
<1>1. Begun(c, d)
  BY BlankBegun, PrgIs
<1> HIDE DEF d
<1>2. Filled(c, d, f, last)
  BY <1>1, FilledSingly
<1>3. PowerFixed(Blank(c, NoReg), low, first, last) = f
  BY Zenon DEF PowerFixed, d
<1> HIDE DEF f
<1>4. Sound(c, f)
  BY <1>2, FilledIsSound
<1> QED
  BY <1>3, <1>4, PatternsKeep

\* 75 and 19 put the vectors into the first bank.
LEMMA VectorsPower ==
  ASSUME NEW c, Sized(c), NEW reg
  PROVE  LET b == Prg(FirstBank(Blank(c, reg)), 14, 1, -1)
         IN  /\ Sound(c, RomPatterns(b)) /\ RomPatterns(b).reg = reg
             /\ Sound(c, Patterns(b)) /\ Patterns(b).reg = reg
<1> DEFINE d == Blank(c, reg)
           f == FirstBank(d)
           g == Prg(f, 14, 1, -1)
<1>1. Begun(c, d) /\ d.reg = reg
  BY BlankBegun
<1> HIDE DEF d
<1>2. Filled(c, d, f, (4 * 0) + 3)
  BY <1>1, FilledWhole DEF FirstBank
<1> HIDE DEF f
<1>3. Filled(c, d, g, -1)
  BY <1>2, FilledWithLast
<1> HIDE DEF g
<1>4. Sound(c, g) /\ g.reg = reg
  BY <1>1, <1>3, FilledIsSound
<1>5. Prg(FirstBank(Blank(c, reg)), 14, 1, -1) = g
  BY DEF g, f, d
<1> QED
  BY <1>4, <1>5, PatternsKeep

\* 218 shows its nametables, not RAM of the board.
LEMMA Power218Sound ==
  ASSUME NEW c, Sized(c)
  PROVE  Sound(c, Power218(c))
<1> DEFINE b == FirstAndLast(Blank(c, NoReg))
           chr == [s \in ChrSlots |-> <<"nametable", s % 4>>]
           d == [b EXCEPT !.chr = chr]
<1>1. Sound(c, b)
  BY BlankBegun, FirstAndLastSound
<1>2. Power218(c) = d
  BY Zenon DEF Power218
<1> HIDE DEF b
<1>3. ASSUME NEW s \in ChrSlots PROVE chr[s][1] # "ram"
  <2>1. chr[s] = <<"nametable", s % 4>>
    OBVIOUS
  <2> QED
    BY <2>1
<1> HIDE DEF chr
<1>4. d = [id |-> c.id, pages |-> c.pages, banks |-> c.banks, prg |-> b.prg,
           chr |-> chr, mir |-> b.mir, reg |-> b.reg]
  BY <1>1 DEF Sound, Begun
<1>5. Begun(c, d)
  BY <1>1, <1>3, <1>4 DEF Sound, Begun
<1>6. Sound(c, d)
  BY <1>1, <1>4, <1>5 DEF Sound
<1> QED
  BY <1>2, <1>6

LEMMA Power226Sound ==
  ASSUME NEW c, Sized(c), c.id = 226
  PROVE  Sound(c, Power226(c)) /\ Power226(c).reg \in TwoBytes
<1> DEFINE d == Blank(c, [r \in 0..1 |-> 0])
<1>1. Begun(c, d) /\ d.reg \in TwoBytes
  <2>1. Begun(c, d) /\ d.reg = [r \in 0..1 |-> 0]
    BY BlankBegun
  <2>2. [r \in 0..1 |-> 0] \in TwoBytes
    BY DEF TwoBytes
  <2> QED
    BY <2>1, <2>2
<1> HIDE DEF d
<1>2. Sound(c, Sync226(d)) /\ Sync226(d).reg \in TwoBytes
  BY <1>1, Keeps226
<1>3. Power226(c) = RamPatterns(Sync226(d))
  BY DEF Power226, d
<1> QED
  BY <1>2, <1>3, PatternsKeep

LEMMA Power228Sound ==
  ASSUME NEW c, Sized(c), c.id = 228, c.pages >= 3 * ChipPages
  PROVE  Sound(c, Write228(Blank(c, NoReg), \h8000, 0))
<1>1. Begun(c, Blank(c, NoReg))
  BY BlankBegun
<1>2. Bits(32768, 11, 2) # 2
  BY DEF Bits
<1> QED
  BY <1>1, <1>2, Keeps228

LEMMA AddressPowers ==
  ASSUME NEW c, Sized(c), c.id \notin KeepsVectors
  PROVE  /\ Sound(c, Patterns(Prg(Prg(Blank(c, NoReg), 8, 2, 0), 12, 2, 0)))
         /\ Sound(c, Patterns(Write242(Blank(c, NoReg), 0)))
<1> DEFINE d == Blank(c, NoReg)
           f == Prg(Prg(d, 8, 2, 0), 12, 2, 0)
           g == Prg(d, 8, 4, Bits(0, 3, 4))
           h == HorizontalIf(g, Bit(0, 1))
<1>1. Begun(c, d)
  BY BlankBegun
<1>2. Write242(d, 0) = h
  BY Zenon DEF Write242
<1> HIDE DEF d
<1>3. Filled(c, d, f, (2 * 0) + 1)
  BY <1>1, FilledHalves
<1> HIDE DEF f
<1>4. Sound(c, f)
  BY <1>3, FilledIsSound
<1>5. Bits(0, 3, 4) \in 0..15
  BY BitsAre
<1>6. Filled(c, d, g, (4 * Bits(0, 3, 4)) + 3)
  BY <1>1, <1>5, FilledWhole
<1> HIDE DEF g
<1>7. Sound(c, g)
  BY <1>5, <1>6, FilledIsSound
<1>8. Sound(c, h)
  BY <1>7, NamedMirrorsKeep
<1>9. Sound(c, Patterns(f)) /\ Sound(c, Patterns(h))
  BY <1>4, <1>8, PatternsKeep
<1> QED
  BY <1>2, <1>9 DEF f, d

-----------------------------------------------------------------------------
(* What is known of a discrete board all the time.                         *)

DiscreteTyped(c, b) ==
  /\ c.id = 32 => b.reg \in Reg32
  /\ c.id = 46 => b.reg \in Reg46
  /\ c.id \in {57, 226} => b.reg \in TwoBytes
  /\ c.id = 68 => b.reg \in Reg68
  /\ c.id = 163 => b.reg \in Reg163
  /\ c.id = 243 => b.reg \in Reg243

\* The cartridge is one that was built: see BuiltAssumption.
Built(c) ==
  /\ c.id \in {4, 118, 245} => c.pages \in {2^n : n \in 0..8}
  /\ c.id = 228 => c.pages >= 3 * ChipPages
  /\ c.id = 68 => c.banks > 0

Registers == {32, 46, 57, 68, 163, 226, 243}

LEMMA Untyped ==
  ASSUME NEW c, NEW b, c.id \notin Registers
  PROVE  DiscreteTyped(c, b)
  BY DEF DiscreteTyped, Registers

LEMMA DiscretePowerSound ==
  ASSUME NEW c, Sized(c), Built(c), c.id \in DiscreteBoards
  PROVE  Sound(c, DiscretePower(c)) /\ DiscreteTyped(c, DiscretePower(c))
<1>1. CASE c.id \in {0, 34, 58, 61, 241}
  <2>1. DiscretePower(c) = Power0(c)
    BY <1>1 DEF DiscretePower
  <2>2. Sound(c, Power0(c))
    BY PlainPowers
  <2>3. c.id \notin Registers
    BY <1>1 DEF Registers
  <2> QED
    BY <2>1, <2>2, <2>3, Untyped
<1>2. CASE c.id \in {2, 71, 180, 232}
  <2>1. DiscretePower(c) = PowerRamHalf(c)
    BY <1>2 DEF DiscretePower
  <2>2. Sound(c, PowerRamHalf(c))
    BY PlainPowers
  <2>3. c.id \notin Registers
    BY <1>2 DEF Registers
  <2> QED
    BY <2>1, <2>2, <2>3, Untyped
<1>3. CASE c.id \in {40}
  <2>1. DiscretePower(c) = RomPatterns(PowerFixed(Blank(c, NoReg), 6, 4, 7))
    BY <1>3 DEF DiscretePower
  <2>2. c.id \notin KeepsVectors
    BY <1>3 DEF KeepsVectors
  <2>3. Sound(c, RomPatterns(PowerFixed(Blank(c, NoReg), 6, 4, 7)))
    BY <2>2, FixedPower
  <2>4. c.id \notin Registers
    BY <1>3 DEF Registers
  <2> QED
    BY <2>1, <2>3, <2>4, Untyped
<1>4. CASE c.id \in {50}
  <2>1. DiscretePower(c) = Patterns(PowerFixed(Blank(c, NoReg), 15, 8, 11))
    BY <1>4 DEF DiscretePower
  <2>2. c.id \notin KeepsVectors
    BY <1>4 DEF KeepsVectors
  <2>3. Sound(c, Patterns(PowerFixed(Blank(c, NoReg), 15, 8, 11)))
    BY <2>2, FixedPower
  <2>4. c.id \notin Registers
    BY <1>4 DEF Registers
  <2> QED
    BY <2>1, <2>3, <2>4, Untyped
<1>5. CASE c.id \in {3, 33, 48, 86, 201, 240}
  <2>1. DiscretePower(c) = PowerRomHalf(c)
    BY <1>5 DEF DiscretePower
  <2>2. Sound(c, PowerRomHalf(c))
    BY PlainPowers
  <2>3. c.id \notin Registers
    BY <1>5 DEF Registers
  <2> QED
    BY <2>1, <2>2, <2>3, Untyped
<1>6. CASE c.id \in {57}
  <2>1. DiscretePower(c) = Power57(c)
    BY <1>6 DEF DiscretePower
  <2>2. Sound(c, Power57(c)) /\ Power57(c).reg \in TwoBytes
    BY RegisterPowers
  <2> QED
    BY <1>6, <2>1, <2>2 DEF DiscreteTyped
<1>7. CASE c.id \in {11, 66, 79, 113, 144}
  <2>1. DiscretePower(c) = PowerRomWhole(c)
    BY <1>7 DEF DiscretePower
  <2>2. c.id \notin KeepsVectors
    BY <1>7 DEF KeepsVectors
  <2>3. Sound(c, PowerRomWhole(c))
    BY <2>2, PlainPowers
  <2>4. c.id \notin Registers
    BY <1>7 DEF Registers
  <2> QED
    BY <2>1, <2>3, <2>4, Untyped
<1>8. CASE c.id \in {43}
  <2>1. DiscretePower(c) = PowerWhole(c)
    BY <1>8 DEF DiscretePower
  <2>2. c.id \notin KeepsVectors
    BY <1>8 DEF KeepsVectors
  <2>3. Sound(c, PowerWhole(c))
    BY <2>2, PlainPowers
  <2>4. c.id \notin Registers
    BY <1>8 DEF Registers
  <2> QED
    BY <2>1, <2>3, <2>4, Untyped
<1>9. CASE c.id \in {7}
  <2>1. DiscretePower(c) = Power7(c)
    BY <1>9 DEF DiscretePower
  <2>2. c.id \notin KeepsVectors
    BY <1>9 DEF KeepsVectors
  <2>3. Sound(c, Power7(c))
    BY <2>2, Power7Sound
  <2>4. c.id \notin Registers
    BY <1>9 DEF Registers
  <2> QED
    BY <2>1, <2>3, <2>4, Untyped
<1>10. CASE c.id \in {9, 10}
  <2>1. DiscretePower(c) = PowerLatched(c)
    BY <1>10 DEF DiscretePower
  <2>2. Sound(c, PowerLatched(c))
    BY LatchedPower
  <2>3. c.id \notin Registers
    BY <1>10 DEF Registers
  <2> QED
    BY <2>1, <2>2, <2>3, Untyped
<1>11. CASE c.id \in {13}
  <2>1. DiscretePower(c) = Power13(c)
    BY <1>11 DEF DiscretePower
  <2>2. Sound(c, Power13(c))
    BY <1>11, Power13Sound
  <2>3. c.id \notin Registers
    BY <1>11 DEF Registers
  <2> QED
    BY <2>1, <2>2, <2>3, Untyped
<1>12. CASE c.id \in {15}
  <2>1. DiscretePower(c) = Power15(c)
    BY <1>12 DEF DiscretePower
  <2>2. c.id \notin KeepsVectors
    BY <1>12 DEF KeepsVectors
  <2>3. Sound(c, Power15(c))
    BY <2>2, PlainPowers
  <2>4. c.id \notin Registers
    BY <1>12 DEF Registers
  <2> QED
    BY <2>1, <2>3, <2>4, Untyped
<1>13. CASE c.id \in {32}
  <2>1. DiscretePower(c) = Power32(c)
    BY <1>13 DEF DiscretePower
  <2>2. Sound(c, Power32(c)) /\ Power32(c).reg \in Reg32
    BY RegisterPowers
  <2> QED
    BY <1>13, <2>1, <2>2 DEF DiscreteTyped
<1>14. CASE c.id \in {41}
  <2>1. DiscretePower(c) = Power41(c)
    BY <1>14 DEF DiscretePower
  <2>2. c.id \notin KeepsVectors
    BY <1>14 DEF KeepsVectors
  <2>3. Sound(c, Power41(c))
    BY <2>2, PlainPowers
  <2>4. c.id \notin Registers
    BY <1>14 DEF Registers
  <2> QED
    BY <2>1, <2>3, <2>4, Untyped
<1>15. CASE c.id \in {46}
  <2>1. DiscretePower(c) = Power46(c)
    BY <1>15 DEF DiscretePower
  <2>2. Sound(c, Power46(c)) /\ Power46(c).reg \in Reg46
    BY RegisterPowers
  <2> QED
    BY <1>15, <2>1, <2>2 DEF DiscreteTyped
<1>16. CASE c.id \in {68}
  <2>1. DiscretePower(c) = Power68(c)
    BY <1>16 DEF DiscretePower
  <2>2. Sound(c, Power68(c)) /\ Power68(c).reg \in Reg68
    BY RegisterPowers
  <2> QED
    BY <1>16, <2>1, <2>2 DEF DiscreteTyped
<1>17. CASE c.id \in {75}
  <2>1. DiscretePower(c) = Power75(c)
    BY <1>17 DEF DiscretePower
  <2>2. Sound(c, Power75(c))
    BY VectorsPower DEF Power75
  <2>3. c.id \notin Registers
    BY <1>17 DEF Registers
  <2> QED
    BY <2>1, <2>2, <2>3, Untyped
<1>18. CASE c.id \in {76, 88, 206}
  <2>1. DiscretePower(c) = PowerCommand(c)
    BY <1>18 DEF DiscretePower
  <2>2. Sound(c, PowerCommand(c))
    BY PlainPowers
  <2>3. c.id \notin Registers
    BY <1>18 DEF Registers
  <2> QED
    BY <2>1, <2>2, <2>3, Untyped
<1>19. CASE c.id \in {163}
  <2>1. DiscretePower(c) = Power163(c)
    BY <1>19 DEF DiscretePower
  <2>2. c.id \notin KeepsVectors
    BY <1>19 DEF KeepsVectors
  <2>3. Sound(c, Power163(c)) /\ Power163(c).reg \in Reg163
    BY <2>2, RegisterPowers
  <2> QED
    BY <1>19, <2>1, <2>3 DEF DiscreteTyped
<1>20. CASE c.id \in {218}
  <2>1. DiscretePower(c) = Power218(c)
    BY <1>20 DEF DiscretePower
  <2>2. Sound(c, Power218(c))
    BY Power218Sound
  <2>3. c.id \notin Registers
    BY <1>20 DEF Registers
  <2> QED
    BY <2>1, <2>2, <2>3, Untyped
<1>21. CASE c.id \in {226}
  <2>1. DiscretePower(c) = Power226(c)
    BY <1>21 DEF DiscretePower
  <2>2. Sound(c, Power226(c)) /\ Power226(c).reg \in TwoBytes
    BY <1>21, Power226Sound
  <2> QED
    BY <1>21, <2>1, <2>2 DEF DiscreteTyped
<1>22. CASE c.id \in {228}
  <2>1. DiscretePower(c) = Write228(Blank(c, NoReg), \h8000, 0)
    BY <1>22 DEF DiscretePower
  <2>2. c.pages >= 3 * ChipPages
    BY <1>22 DEF Built
  <2>3. Sound(c, Write228(Blank(c, NoReg), \h8000, 0))
    BY <1>22, <2>2, Power228Sound
  <2>4. c.id \notin Registers
    BY <1>22 DEF Registers
  <2> QED
    BY <2>1, <2>3, <2>4, Untyped
<1>23. CASE c.id \in {231}
  <2>1. DiscretePower(c) = Patterns(Prg(Prg(Blank(c, NoReg), 8, 2, 0), 12, 2, 0))
    BY <1>23 DEF DiscretePower
  <2>2. c.id \notin KeepsVectors
    BY <1>23 DEF KeepsVectors
  <2>3. Sound(c, Patterns(Prg(Prg(Blank(c, NoReg), 8, 2, 0), 12, 2, 0)))
    BY <2>2, AddressPowers
  <2>4. c.id \notin Registers
    BY <1>23 DEF Registers
  <2> QED
    BY <2>1, <2>3, <2>4, Untyped
<1>24. CASE c.id \in {242}
  <2>1. DiscretePower(c) = Patterns(Write242(Blank(c, NoReg), 0))
    BY <1>24 DEF DiscretePower
  <2>2. c.id \notin KeepsVectors
    BY <1>24 DEF KeepsVectors
  <2>3. Sound(c, Patterns(Write242(Blank(c, NoReg), 0)))
    BY <2>2, AddressPowers
  <2>4. c.id \notin Registers
    BY <1>24 DEF Registers
  <2> QED
    BY <2>1, <2>3, <2>4, Untyped
<1>25. CASE c.id \in {243}
  <2>1. DiscretePower(c) = Power243(c)
    BY <1>25 DEF DiscretePower
  <2>2. Sound(c, Power243(c)) /\ Power243(c).reg \in Reg243
    BY RegisterPowers
  <2> QED
    BY <1>25, <2>1, <2>2 DEF DiscreteTyped
<1> QED
  BY <1>1, <1>2, <1>3, <1>4, <1>5, <1>6, <1>7, <1>8, <1>9, <1>10, <1>11, <1>12, <1>13,
     <1>14, <1>15, <1>16, <1>17, <1>18, <1>19, <1>20, <1>21, <1>22, <1>23, <1>24, <1>25
     DEF DiscreteBoards

LEMMA LatchWriteKeeps ==
  ASSUME NEW c, Sized(c), Built(c), c.id \in DiscreteBoards, NEW b, Sound(c, b),
         DiscreteTyped(c, b), NEW a \in Nat, NEW v \in Nat
  PROVE  Sound(c, LatchWrite(b, a, v)) /\ DiscreteTyped(c, LatchWrite(b, a, v))
<1>0. b.id = c.id
  BY BoardFields
<1>1. CASE c.id \in {2}
  <2>1. LatchWrite(b, a, v) =
          Write2(b, v)
    BY <1>0, <1>1 DEF LatchWrite
  <2>2. Sound(c, LatchWrite(b, a, v))
    BY <2>1, HalfBankBoards
  <2>3. c.id \notin Registers
    BY <1>1 DEF Registers
  <2> QED
    BY <2>2, <2>3, Untyped
<1>2. CASE c.id \in {3}
  <2>1. LatchWrite(b, a, v) =
          Write3(b, v)
    BY <1>0, <1>2 DEF LatchWrite
  <2>2. c.id \notin KeepsVectors
    BY <1>2 DEF KeepsVectors
  <2>3. Sound(c, LatchWrite(b, a, v))
    BY <2>2, <2>1, WholeBankBoards
  <2>4. c.id \notin Registers
    BY <1>2 DEF Registers
  <2> QED
    BY <2>3, <2>4, Untyped
<1>3. CASE c.id \in {7}
  <2>1. LatchWrite(b, a, v) =
          Write7(b, v)
    BY <1>0, <1>3 DEF LatchWrite
  <2>2. c.id \notin KeepsVectors
    BY <1>3 DEF KeepsVectors
  <2>3. Sound(c, LatchWrite(b, a, v))
    BY <2>2, <2>1, WholeBankBoards
  <2>4. c.id \notin Registers
    BY <1>3 DEF Registers
  <2> QED
    BY <2>3, <2>4, Untyped
<1>4. CASE c.id \in {11}
  <2>1. LatchWrite(b, a, v) =
          Write11(b, v)
    BY <1>0, <1>4 DEF LatchWrite
  <2>2. c.id \notin KeepsVectors
    BY <1>4 DEF KeepsVectors
  <2>3. Sound(c, LatchWrite(b, a, v))
    BY <2>2, <2>1, WholeBankBoards
  <2>4. c.id \notin Registers
    BY <1>4 DEF Registers
  <2> QED
    BY <2>3, <2>4, Untyped
<1>5. CASE c.id \in {13}
  <2>1. LatchWrite(b, a, v) =
          Write13(b, v)
    BY <1>0, <1>5 DEF LatchWrite
  <2>2. Sound(c, LatchWrite(b, a, v))
    BY <1>5, <2>1, CpromKeeps
  <2>3. c.id \notin Registers
    BY <1>5 DEF Registers
  <2> QED
    BY <2>2, <2>3, Untyped
<1>6. CASE c.id \in {15}
  <2>1. LatchWrite(b, a, v) =
          Write15(b, a, v)
    BY <1>0, <1>6 DEF LatchWrite
  <2>2. Sound(c, LatchWrite(b, a, v))
    BY <1>6, <2>1, Keeps15
  <2>3. c.id \notin Registers
    BY <1>6 DEF Registers
  <2> QED
    BY <2>2, <2>3, Untyped
<1>7. CASE c.id \in {34}
  <2>1. LatchWrite(b, a, v) =
          IF b.banks = 0 THEN WriteBNROM(b, v) ELSE b
    BY <1>0, <1>7 DEF LatchWrite
  <2>2. c.id \notin KeepsVectors
    BY <1>7 DEF KeepsVectors
  <2>3. Sound(c, LatchWrite(b, a, v))
    BY <2>2, <2>1, WholeBankBoards
  <2>4. c.id \notin Registers
    BY <1>7 DEF Registers
  <2> QED
    BY <2>3, <2>4, Untyped
<1>8. CASE c.id \in {40}
  <2>1. LatchWrite(b, a, v) =
          Write40(b, a, v)
    BY <1>0, <1>8 DEF LatchWrite
  <2>2. Sound(c, LatchWrite(b, a, v))
    BY <2>1, OnePageBoards
  <2>3. c.id \notin Registers
    BY <1>8 DEF Registers
  <2> QED
    BY <2>2, <2>3, Untyped
<1>9. CASE c.id \in {48}
  <2>1. LatchWrite(b, a, v) =
          Write48(b, a, v)
    BY <1>0, <1>9 DEF LatchWrite
  <2>2. Sound(c, LatchWrite(b, a, v))
    BY <2>1, TaitoKeeps
  <2>3. c.id \notin Registers
    BY <1>9 DEF Registers
  <2> QED
    BY <2>2, <2>3, Untyped
<1>10. CASE c.id \in {41}
  <2>1. LatchWrite(b, a, v) =
          Inner41(b, v)
    BY <1>0, <1>10 DEF LatchWrite
  <2>2. Sound(c, LatchWrite(b, a, v))
    BY <1>10, <2>1, Keeps41
  <2>3. c.id \notin Registers
    BY <1>10 DEF Registers
  <2> QED
    BY <2>2, <2>3, Untyped
<1>11. CASE c.id \in {43}
  <2>1. LatchWrite(b, a, v) =
          Write43(b, a)
    BY <1>0, <1>11 DEF LatchWrite
  <2>2. c.id \notin KeepsVectors
    BY <1>11 DEF KeepsVectors
  <2>3. Sound(c, LatchWrite(b, a, v))
    BY <2>2, <2>1, WholeBankBoards
  <2>4. c.id \notin Registers
    BY <1>11 DEF Registers
  <2> QED
    BY <2>3, <2>4, Untyped
<1>12. CASE c.id \in {46}
  <2>1. LatchWrite(b, a, v) =
          Inner46(b, v)
    BY <1>0, <1>12 DEF LatchWrite
  <2>2. b.reg \in Reg46
    BY <1>12 DEF DiscreteTyped
  <2>3. Sound(c, LatchWrite(b, a, v)) /\ LatchWrite(b, a, v).reg \in Reg46
    BY <1>12, <2>2, <2>1, Keeps46
  <2> QED
    BY <1>12, <2>3 DEF DiscreteTyped
<1>13. CASE c.id \in {57}
  <2>1. LatchWrite(b, a, v) =
          Write57(b, a, v)
    BY <1>0, <1>13 DEF LatchWrite
  <2>2. b.reg \in TwoBytes
    BY <1>13 DEF DiscreteTyped
  <2>3. Sound(c, LatchWrite(b, a, v)) /\ LatchWrite(b, a, v).reg \in TwoBytes
    BY <1>13, <2>2, <2>1, Keeps57
  <2> QED
    BY <1>13, <2>3 DEF DiscreteTyped
<1>14. CASE c.id \in {58}
  <2>1. LatchWrite(b, a, v) =
          Write58(b, a)
    BY <1>0, <1>14 DEF LatchWrite
  <2>2. c.id \notin KeepsVectors
    BY <1>14 DEF KeepsVectors
  <2>3. Sound(c, LatchWrite(b, a, v))
    BY <2>2, <2>1, HalfBankBoards
  <2>4. c.id \notin Registers
    BY <1>14 DEF Registers
  <2> QED
    BY <2>3, <2>4, Untyped
<1>15. CASE c.id \in {61}
  <2>1. LatchWrite(b, a, v) =
          Write61(b, a)
    BY <1>0, <1>15 DEF LatchWrite
  <2>2. c.id \notin KeepsVectors
    BY <1>15 DEF KeepsVectors
  <2>3. Sound(c, LatchWrite(b, a, v))
    BY <2>2, <2>1, HalfBankBoards
  <2>4. c.id \notin Registers
    BY <1>15 DEF Registers
  <2> QED
    BY <2>3, <2>4, Untyped
<1>16. CASE c.id \in {66}
  <2>1. LatchWrite(b, a, v) =
          Write66(b, v)
    BY <1>0, <1>16 DEF LatchWrite
  <2>2. c.id \notin KeepsVectors
    BY <1>16 DEF KeepsVectors
  <2>3. Sound(c, LatchWrite(b, a, v))
    BY <2>2, <2>1, WholeBankBoards
  <2>4. c.id \notin Registers
    BY <1>16 DEF Registers
  <2> QED
    BY <2>3, <2>4, Untyped
<1>17. CASE c.id \in {76}
  <2>1. LatchWrite(b, a, v) =
          Write76(b, a, v)
    BY <1>0, <1>17 DEF LatchWrite
  <2>2. Sound(c, LatchWrite(b, a, v))
    BY <2>1, Keeps76
  <2>3. c.id \notin Registers
    BY <1>17 DEF Registers
  <2> QED
    BY <2>2, <2>3, Untyped
<1>18. CASE c.id \in {144}
  <2>1. LatchWrite(b, a, v) =
          Write144(b, a, v)
    BY <1>0, <1>18 DEF LatchWrite
  <2>2. c.id \notin KeepsVectors
    BY <1>18 DEF KeepsVectors
  <2>3. Sound(c, LatchWrite(b, a, v))
    BY <2>2, <2>1, WholeBankBoards
  <2>4. c.id \notin Registers
    BY <1>18 DEF Registers
  <2> QED
    BY <2>3, <2>4, Untyped
<1>19. CASE c.id \in {180}
  <2>1. LatchWrite(b, a, v) =
          Write180(b, v)
    BY <1>0, <1>19 DEF LatchWrite
  <2>2. c.id \notin KeepsVectors
    BY <1>19 DEF KeepsVectors
  <2>3. Sound(c, LatchWrite(b, a, v))
    BY <2>2, <2>1, WholeBankBoards
  <2>4. c.id \notin Registers
    BY <1>19 DEF Registers
  <2> QED
    BY <2>3, <2>4, Untyped
<1>20. CASE c.id \in {201}
  <2>1. LatchWrite(b, a, v) =
          Write201(b, a)
    BY <1>0, <1>20 DEF LatchWrite
  <2>2. c.id \notin KeepsVectors
    BY <1>20 DEF KeepsVectors
  <2>3. Sound(c, LatchWrite(b, a, v))
    BY <2>2, <2>1, WholeBankBoards
  <2>4. c.id \notin Registers
    BY <1>20 DEF Registers
  <2> QED
    BY <2>3, <2>4, Untyped
<1>21. CASE c.id \in {226}
  <2>1. LatchWrite(b, a, v) =
          Write226(b, a, v)
    BY <1>0, <1>21 DEF LatchWrite
  <2>2. b.reg \in TwoBytes
    BY <1>21 DEF DiscreteTyped
  <2>3. Sound(c, LatchWrite(b, a, v)) /\ LatchWrite(b, a, v).reg \in TwoBytes
    BY <1>21, <2>2, <2>1, Write226Keeps
  <2> QED
    BY <1>21, <2>3 DEF DiscreteTyped
<1>22. CASE c.id \in {228}
  <2>1. LatchWrite(b, a, v) =
          Write228(b, a, v)
    BY <1>0, <1>22 DEF LatchWrite
  <2>2. Begun(c, b) /\ c.pages >= 3 * ChipPages
    BY <1>22, BoardFields DEF Built
  <2>3. Sound(c, LatchWrite(b, a, v))
    BY <1>22, <2>2, <2>1, Keeps228
  <2>4. c.id \notin Registers
    BY <1>22 DEF Registers
  <2> QED
    BY <2>3, <2>4, Untyped
<1>23. CASE c.id \in {231}
  <2>1. LatchWrite(b, a, v) =
          Write231(b, a)
    BY <1>0, <1>23 DEF LatchWrite
  <2>2. c.id \notin KeepsVectors
    BY <1>23 DEF KeepsVectors
  <2>3. Sound(c, LatchWrite(b, a, v))
    BY <2>2, <2>1, HalfBankBoards
  <2>4. c.id \notin Registers
    BY <1>23 DEF Registers
  <2> QED
    BY <2>3, <2>4, Untyped
<1>24. CASE c.id \in {241}
  <2>1. LatchWrite(b, a, v) =
          Write241(b, v)
    BY <1>0, <1>24 DEF LatchWrite
  <2>2. c.id \notin KeepsVectors
    BY <1>24 DEF KeepsVectors
  <2>3. Sound(c, LatchWrite(b, a, v))
    BY <2>2, <2>1, WholeBankBoards
  <2>4. c.id \notin Registers
    BY <1>24 DEF Registers
  <2> QED
    BY <2>3, <2>4, Untyped
<1>25. CASE c.id \in {242}
  <2>1. LatchWrite(b, a, v) =
          Write242(b, a)
    BY <1>0, <1>25 DEF LatchWrite
  <2>2. c.id \notin KeepsVectors
    BY <1>25 DEF KeepsVectors
  <2>3. Sound(c, LatchWrite(b, a, v))
    BY <2>2, <2>1, WholeBankBoards
  <2>4. c.id \notin Registers
    BY <1>25 DEF Registers
  <2> QED
    BY <2>3, <2>4, Untyped
<1>26. CASE c.id \in {71}
  <2>1. LatchWrite(b, a, v) =
          IF Digit(a) >= 12 THEN Write71(b, v) ELSE b
    BY <1>0, <1>26 DEF Ignored, LatchWrite
  <2>2. Sound(c, LatchWrite(b, a, v))
    BY <2>1, HalfBankBoards
  <2>3. c.id \notin Registers
    BY <1>26 DEF Registers
  <2> QED
    BY <2>2, <2>3, Untyped
<1>27. CASE c.id \in {232}
  <2>1. LatchWrite(b, a, v) =
          IF Digit(a) >= 12 THEN Write232(b, v) ELSE b
    BY <1>0, <1>27 DEF Ignored, LatchWrite
  <2>2. Sound(c, LatchWrite(b, a, v))
    BY <2>1, HalfBankBoards
  <2>3. c.id \notin Registers
    BY <1>27 DEF Registers
  <2> QED
    BY <2>2, <2>3, Untyped
<1>28. CASE c.id \in {9, 10}
  <2>1. LatchWrite(b, a, v) =
          WriteLatched(b, a, v)
    BY <1>0, <1>28 DEF LatchWrite
  <2>2. Sound(c, LatchWrite(b, a, v))
    BY <2>1, LatchedKeeps
  <2>3. c.id \notin Registers
    BY <1>28 DEF Registers
  <2> QED
    BY <2>2, <2>3, Untyped
<1>29. CASE c.id \in {32}
  <2>1. LatchWrite(b, a, v) =
          Write32(b, a, v)
    BY <1>0, <1>29 DEF LatchWrite
  <2>2. b.reg \in Reg32
    BY <1>29 DEF DiscreteTyped
  <2>3. Sound(c, LatchWrite(b, a, v)) /\ LatchWrite(b, a, v).reg \in Reg32
    BY <2>2, <2>1, Keeps32
  <2> QED
    BY <1>29, <2>3 DEF DiscreteTyped
<1>30. CASE c.id \in {33}
  <2>1. LatchWrite(b, a, v) =
          Write33(b, a, v)
    BY <1>0, <1>30 DEF LatchWrite
  <2>2. Sound(c, LatchWrite(b, a, v))
    BY <2>1, TaitoKeeps
  <2>3. c.id \notin Registers
    BY <1>30 DEF Registers
  <2> QED
    BY <2>2, <2>3, Untyped
<1>31. CASE c.id \in {68}
  <2>1. LatchWrite(b, a, v) =
          Write68(b, a, v)
    BY <1>0, <1>31 DEF LatchWrite
  <2>2. b.reg \in Reg68
    BY <1>31 DEF DiscreteTyped
  <2>3. Sound(c, LatchWrite(b, a, v)) /\ LatchWrite(b, a, v).reg \in Reg68
    BY <2>2, <2>1, Keeps68
  <2> QED
    BY <1>31, <2>3 DEF DiscreteTyped
<1>32. CASE c.id \in {75}
  <2>1. LatchWrite(b, a, v) =
          Write75(b, a, v)
    BY <1>0, <1>32 DEF LatchWrite
  <2>2. Sound(c, LatchWrite(b, a, v))
    BY <2>1, Keeps75
  <2>3. c.id \notin Registers
    BY <1>32 DEF Registers
  <2> QED
    BY <2>2, <2>3, Untyped
<1>33. CASE c.id \in {0, 50, 79, 86, 88, 113, 163, 206, 218, 240, 243}
  <2>1. LatchWrite(b, a, v) = b
    BY <1>0, <1>33 DEF Ignored, LatchWrite
  <2> QED
    BY <2>1
<1> QED
  BY <1>1, <1>2, <1>3, <1>4, <1>5, <1>6, <1>7, <1>8, <1>9, <1>10, <1>11, <1>12, <1>13,
     <1>14, <1>15, <1>16, <1>17, <1>18, <1>19, <1>20, <1>21, <1>22, <1>23, <1>24, <1>25,
     <1>26, <1>27, <1>28, <1>29, <1>30, <1>31, <1>32, <1>33 DEF DiscreteBoards

LEMMA ExpansionWriteKeeps ==
  ASSUME NEW c, Sized(c), Built(c), c.id \in DiscreteBoards, NEW b, Sound(c, b),
         DiscreteTyped(c, b), NEW a \in Nat, NEW v \in Nat
  PROVE  Sound(c, ExpansionWrite(b, a, v)) /\ DiscreteTyped(c, ExpansionWrite(b, a, v))
<1>0. b.id = c.id
  BY BoardFields
<1>1. CASE c.id \in {34}
  <2>1. ExpansionWrite(b, a, v) =
          IF b.banks > 0 THEN WriteNINA(b, a, v) ELSE b
    BY <1>0, <1>1 DEF ExpansionWrite
  <2>2. c.id \notin KeepsVectors
    BY <1>1 DEF KeepsVectors
  <2>3. Sound(c, ExpansionWrite(b, a, v))
    BY <2>2, <2>1, WholeBankBoards
  <2>4. c.id \notin Registers
    BY <1>1 DEF Registers
  <2> QED
    BY <2>3, <2>4, Untyped
<1>2. CASE c.id \in {41}
  <2>1. ExpansionWrite(b, a, v) =
          IF Digit(a) = 6 THEN Outer41(b, a, v) ELSE b
    BY <1>0, <1>2 DEF ExpansionWrite
  <2>2. Sound(c, ExpansionWrite(b, a, v))
    BY <1>2, <2>1, Keeps41
  <2>3. c.id \notin Registers
    BY <1>2 DEF Registers
  <2> QED
    BY <2>2, <2>3, Untyped
<1>3. CASE c.id \in {46}
  <2>1. ExpansionWrite(b, a, v) =
          IF Digit(a) \in {6, 7} THEN Outer46(b, v) ELSE b
    BY <1>0, <1>3 DEF ExpansionWrite
  <2>2. b.reg \in Reg46
    BY <1>3 DEF DiscreteTyped
  <2>3. Sound(c, ExpansionWrite(b, a, v)) /\ ExpansionWrite(b, a, v).reg \in Reg46
    BY <1>3, <2>2, <2>1, Keeps46
  <2> QED
    BY <1>3, <2>3 DEF DiscreteTyped
<1>4. CASE c.id \in {79}
  <2>1. ExpansionWrite(b, a, v) =
          IF Digit(a) \in {4, 5} /\ Bit(a, 8) = 1 THEN Write79(b, v) ELSE b
    BY <1>0, <1>4 DEF ExpansionWrite
  <2>2. c.id \notin KeepsVectors
    BY <1>4 DEF KeepsVectors
  <2>3. Sound(c, ExpansionWrite(b, a, v))
    BY <2>2, <2>1, WholeBankBoards
  <2>4. c.id \notin Registers
    BY <1>4 DEF Registers
  <2> QED
    BY <2>3, <2>4, Untyped
<1>5. CASE c.id \in {113}
  <2>1. ExpansionWrite(b, a, v) =
          IF Digit(a) \in {4, 5} /\ Bit(a, 8) = 1 THEN Write113(b, v) ELSE b
    BY <1>0, <1>5 DEF ExpansionWrite
  <2>2. c.id \notin KeepsVectors
    BY <1>5 DEF KeepsVectors
  <2>3. Sound(c, ExpansionWrite(b, a, v))
    BY <2>2, <2>1, WholeBankBoards
  <2>4. c.id \notin Registers
    BY <1>5 DEF Registers
  <2> QED
    BY <2>3, <2>4, Untyped
<1>6. CASE c.id \in {50}
  <2>1. ExpansionWrite(b, a, v) =
          Write50(b, a, v)
    BY <1>0, <1>6 DEF ExpansionWrite
  <2>2. Sound(c, ExpansionWrite(b, a, v))
    BY <2>1, OnePageBoards
  <2>3. c.id \notin Registers
    BY <1>6 DEF Registers
  <2> QED
    BY <2>2, <2>3, Untyped
<1>7. CASE c.id \in {86}
  <2>1. ExpansionWrite(b, a, v) =
          IF Digit(a) = 6 THEN Write86(b, v) ELSE b
    BY <1>0, <1>7 DEF ExpansionWrite
  <2>2. c.id \notin KeepsVectors
    BY <1>7 DEF KeepsVectors
  <2>3. Sound(c, ExpansionWrite(b, a, v))
    BY <2>2, <2>1, WholeBankBoards
  <2>4. c.id \notin Registers
    BY <1>7 DEF Registers
  <2> QED
    BY <2>3, <2>4, Untyped
<1>8. CASE c.id \in {163}
  <2>1. ExpansionWrite(b, a, v) =
          Write163(b, a, v)
    BY <1>0, <1>8 DEF ExpansionWrite
  <2>2. b.reg \in Reg163
    BY <1>8 DEF DiscreteTyped
  <2>3. c.id \notin KeepsVectors
    BY <1>8 DEF KeepsVectors
  <2>4. Sound(c, ExpansionWrite(b, a, v)) /\ ExpansionWrite(b, a, v).reg \in Reg163
    BY <2>2, <2>3, <2>1, Keeps163
  <2> QED
    BY <1>8, <2>4 DEF DiscreteTyped
<1>9. CASE c.id \in {240}
  <2>1. ExpansionWrite(b, a, v) =
          IF a > \h4020 /\ Digit(a) \in {4, 5} THEN Write240(b, v) ELSE b
    BY <1>0, <1>9 DEF ExpansionWrite
  <2>2. c.id \notin KeepsVectors
    BY <1>9 DEF KeepsVectors
  <2>3. Sound(c, ExpansionWrite(b, a, v))
    BY <2>2, <2>1, WholeBankBoards
  <2>4. c.id \notin Registers
    BY <1>9 DEF Registers
  <2> QED
    BY <2>3, <2>4, Untyped
<1>10. CASE c.id \in {243}
  <2>1. ExpansionWrite(b, a, v) =
          Write243(b, a, v)
    BY <1>0, <1>10 DEF ExpansionWrite
  <2>2. b.reg \in Reg243
    BY <1>10 DEF DiscreteTyped
  <2>3. c.id \notin KeepsVectors
    BY <1>10 DEF KeepsVectors
  <2>4. Sound(c, ExpansionWrite(b, a, v)) /\ ExpansionWrite(b, a, v).reg \in Reg243
    BY <2>2, <2>3, <2>1, Keeps243
  <2> QED
    BY <1>10, <2>4 DEF DiscreteTyped
<1>11. CASE c.id \in {0, 2, 3, 7, 9, 10, 11, 13, 15, 32, 33, 40, 43, 48, 57, 58, 61, 66,
                     68, 71, 75, 76, 88, 144, 180, 201, 206, 218, 226, 228, 231, 232,
                     241, 242}
  <2>1. ExpansionWrite(b, a, v) = b
    BY <1>0, <1>11 DEF ExpansionWrite
  <2> QED
    BY <2>1
<1> QED
  BY <1>1, <1>2, <1>3, <1>4, <1>5, <1>6, <1>7, <1>8, <1>9, <1>10, <1>11 DEF
     DiscreteBoards

LEMMA DiscreteWriteKeeps ==
  ASSUME NEW c, Sized(c), Built(c), c.id \in DiscreteBoards, NEW b, Sound(c, b),
         DiscreteTyped(c, b), NEW a \in Nat, NEW v \in Nat
  PROVE  Sound(c, DiscreteWrite(b, a, v)) /\ DiscreteTyped(c, DiscreteWrite(b, a, v))
  BY LatchWriteKeeps, ExpansionWriteKeeps DEF DiscreteWrite

-----------------------------------------------------------------------------
(* The boards of one chip. A chip that pages by the numbers in its         *)
(* registers keeps numbers there:                                          *)

Byte == {n \in Nat : n < 256}
Reg1 == [r : [0..3 -> Nat], latch : Nat, count : 0..4]
Reg4 == [command : Nat, chr : [0..7 -> Byte], prg : [1..2 -> Nat],
         enabled : BOOLEAN, writable : BOOLEAN]
RegVrc == [chr : [0..7 -> Nat], prg : Nat, mode : Nat, latch : Nat]
Reg18 == [prg : [0..7 -> Nat], chr : [0..15 -> Nat]]
Reg64 == [command : Nat, r : [(0..9) \cup {15} -> Nat]]
Reg90 == [prg : [0..3 -> Nat], low : [0..7 -> Nat], high : [0..7 -> Nat], banks : Nat,
          mode : Nat, factors : [1..2 -> Nat], ram : Nat]

LEMMA Vrc2Keeps ==
  ASSUME NEW c, Sized(c), NEW b, Sound(c, b), NEW a \in Nat, NEW v \in Nat
  PROVE  Sound(c, WriteVrc2(b, a, v))
<1> DEFINE port == Pin2(b, a)
           bank == (2 * (Digit(a) - 11)) + (port \div 2)
           value == IF port % 2 = 0 THEN SetLow(b.reg.chr[bank], v)
                    ELSE SetHigh(b.reg.chr[bank], v)
           latched == [b EXCEPT !.reg.latch = Bit(v, 0)]
           held == [b EXCEPT !.reg.chr[bank] = value]
<1>1. WriteVrc2(b, a, v) =
        CASE Digit(a) = 6 -> latched
          [] Digit(a) \in {8, 10} -> Prg(b, Digit(a), 1, Bits(v, 0, 5))
          [] Digit(a) = 9 -> MirrorCode(b, Bits(v, 0, 2))
          [] Digit(a) \in 11..14 ->
               Chr(held, bank, 1, IF b.id = 22 THEN value \div 2 ELSE value)
          [] OTHER -> b
  BY Zenon DEF WriteVrc2
<1> HIDE DEF bank, value
<1>2. Sound(c, latched)
  <2>1. latched = With(b, [b.reg EXCEPT !.latch = Bit(v, 0)])
    BY DEF Sound, Begun, With
  <2> QED
    BY <2>1, WithKeeps
<1>3. Sound(c, held)
  <2>1. held = With(b, [b.reg EXCEPT !.chr[bank] = value])
    BY DEF Sound, Begun, With
  <2> QED
    BY <2>1, WithKeeps
<1> HIDE DEF held, latched
<1>4. Sound(c, Chr(held, bank, 1, IF b.id = 22 THEN value \div 2 ELSE value))
  BY <1>3, ChrKeeps
<1>5. CASE Digit(a) \in {8, 10}
  <2>1. Bits(v, 0, 5) \in 0..31
    BY BitsAre
  <2>2. Sound(c, Prg(b, Digit(a), 1, Bits(v, 0, 5)))
    BY <1>5, <2>1, PrgKeeps
  <2> QED
    BY <1>1, <1>5, <2>2
<1>6. CASE Digit(a) \notin {8, 10}
  BY <1>1, <1>2, <1>4, <1>6, NamedMirrorsKeep
<1> QED
  BY <1>5, <1>6

LEMMA SyncVrc4Keeps ==
  ASSUME NEW c, Sized(c), NEW b, Sound(c, b), b.reg \in RegVrc
  PROVE  Sound(c, SyncPrgVrc4(b)) /\ SyncPrgVrc4(b).reg = b.reg
<1> DEFINE bank == Bits(b.reg.prg, 0, 5)
<1>1. bank \in Int
  <2>1. b.reg.prg \in Nat
    BY DEF RegVrc
  <2> QED
    BY <2>1, BitsAre
<1>2. SyncPrgVrc4(b) =
        IF Bit(b.reg.mode, 1) = 1 THEN Prg(Prg(b, 12, 1, bank), 8, 1, -2)
        ELSE Prg(Prg(b, 8, 1, bank), 12, 1, -2)
  BY Zenon DEF SyncPrgVrc4
<1> HIDE DEF bank
<1>3. /\ Sound(c, Prg(b, 12, 1, bank)) /\ Prg(b, 12, 1, bank).reg = b.reg
      /\ Sound(c, Prg(b, 8, 1, bank)) /\ Prg(b, 8, 1, bank).reg = b.reg
  BY <1>1, PrgKeeps
<1>4. /\ Sound(c, Prg(Prg(b, 12, 1, bank), 8, 1, -2))
      /\ Prg(Prg(b, 12, 1, bank), 8, 1, -2).reg = b.reg
      /\ Sound(c, Prg(Prg(b, 8, 1, bank), 12, 1, -2))
      /\ Prg(Prg(b, 8, 1, bank), 12, 1, -2).reg = b.reg
  BY <1>3, PrgKeeps
<1> QED
  BY <1>2, <1>4

LEMMA Vrc4Keeps ==
  ASSUME NEW c, Sized(c), NEW b, Sound(c, b), b.reg \in RegVrc, NEW a \in Nat, NEW v \in Nat
  PROVE  Sound(c, WriteVrc4(b, a, v)) /\ WriteVrc4(b, a, v).reg \in RegVrc
<1> DEFINE port == Port4(b, a)
           bank == (2 * (Digit(a) - 11)) + (port \div 4)
           value == SetLow(b.reg.chr[bank], v)
           held == [b EXCEPT !.reg.chr[bank] = value]
<1>1. ASSUME port \in {0, 4}
      PROVE  WriteVrc4(b, a, v) =
        CASE Digit(a) = 8 -> SyncPrgVrc4([b EXCEPT !.reg.prg = v])
          [] Digit(a) = 9 /\ port = 4 -> SyncPrgVrc4([b EXCEPT !.reg.mode = v])
          [] Digit(a) = 9 /\ port = 0 -> MirrorCode(b, Bits(v, 0, 2))
          [] Digit(a) = 10 -> Prg(b, 10, 1, Bits(v, 0, 5))
          [] Digit(a) \in 11..14 -> Chr(held, bank, 1, value)
          [] OTHER -> b
  BY <1>1, Zenon DEF WriteVrc4, Reached4
<1>2. port \notin {0, 4} => WriteVrc4(b, a, v) = b
  BY Zenon DEF WriteVrc4, Reached4
<1> SUFFICES ASSUME port \in {0, 4}
             PROVE  Sound(c, WriteVrc4(b, a, v)) /\ WriteVrc4(b, a, v).reg \in RegVrc
  BY <1>2
<1> HIDE DEF port
<1>3. ASSUME NEW r \in RegVrc
      PROVE  /\ Sound(c, With(b, r)) /\ With(b, r).reg = r
             /\ Sound(c, SyncPrgVrc4(With(b, r))) /\ SyncPrgVrc4(With(b, r)).reg = r
  BY WithKeeps, SyncVrc4Keeps
<1>4. CASE Digit(a) = 8
  <2> DEFINE r == [b.reg EXCEPT !.prg = v]
  <2>1. [b EXCEPT !.reg.prg = v] = With(b, r)
    BY DEF Sound, Begun, With
  <2>2. WriteVrc4(b, a, v) = SyncPrgVrc4(With(b, r))
    BY <1>1, <1>4, <2>1
  <2>3. r \in RegVrc
    BY DEF RegVrc
  <2> HIDE DEF r
  <2> QED
    BY <1>3, <2>2, <2>3
<1>5. CASE Digit(a) = 9 /\ port = 4
  <2> DEFINE r == [b.reg EXCEPT !.mode = v]
  <2>1. [b EXCEPT !.reg.mode = v] = With(b, r)
    BY DEF Sound, Begun, With
  <2>2. WriteVrc4(b, a, v) = SyncPrgVrc4(With(b, r))
    BY <1>1, <1>5, <2>1
  <2>3. r \in RegVrc
    BY DEF RegVrc
  <2> HIDE DEF r
  <2> QED
    BY <1>3, <2>2, <2>3
<1>6. CASE Digit(a) = 9 /\ port = 0
  <2>1. WriteVrc4(b, a, v) = MirrorCode(b, Bits(v, 0, 2))
    BY <1>1, <1>6
  <2> QED
    BY <2>1, NamedMirrorsKeep
<1>7. CASE Digit(a) = 10
  <2>1. WriteVrc4(b, a, v) = Prg(b, 10, 1, Bits(v, 0, 5))
    BY <1>1, <1>7
  <2>2. Bits(v, 0, 5) \in 0..31
    BY BitsAre
  <2> QED
    BY <2>1, <2>2, PrgKeeps
<1>8. CASE Digit(a) \in 11..14
  <2> DEFINE r == [b.reg EXCEPT !.chr[bank] = value]
  <2>1. held = With(b, r)
    BY DEF Sound, Begun, With
  <2>2. WriteVrc4(b, a, v) = Chr(held, bank, 1, value)
    BY <1>1, <1>8
  <2>3. bank \in 0..7
    BY <1>8
  <2>4. b.reg.chr[bank] \in Nat /\ Bits(v, 0, 4) \in 0..15
    BY <2>3, BitsAre DEF RegVrc
  <2> HIDE DEF bank
  <2>5. value \in Nat
    BY <2>4 DEF SetLow
  <2> HIDE DEF value, held
  <2> DEFINE chr == [b.reg.chr EXCEPT ![bank] = value]
  <2>6. chr \in [0..7 -> Nat]
    BY <2>3, <2>5 DEF RegVrc
  <2>7. r = [b.reg EXCEPT !.chr = chr]
    OBVIOUS
  <2> HIDE DEF chr
  <2>8. r \in RegVrc
    BY <2>6, <2>7 DEF RegVrc
  <2> HIDE DEF r
  <2>9. Sound(c, held) /\ held.reg = r
    BY <2>1, <2>8, <1>3
  <2> QED
    BY <2>2, <2>8, <2>9, ChrKeeps, BoardFields
<1>9. CASE Digit(a) \notin 8..14
  <2>1. WriteVrc4(b, a, v) = b
    BY <1>1, <1>9
  <2> QED
    BY <2>1
<1> QED
  BY <1>4, <1>5, <1>6, <1>7, <1>8, <1>9, DigitIs

LEMMA Vrc6Keeps ==
  ASSUME NEW c, Sized(c), NEW b, Sound(c, b), NEW a \in Nat, NEW v \in Nat
  PROVE  Sound(c, WriteVrc6(b, a, v))
<1>1. Bits(v, 0, 4) \in 0..15 /\ Bits(v, 0, 5) \in 0..31
  BY BitsAre
<1>2. Sound(c, Prg(b, 8, 2, Bits(v, 0, 4))) /\ Sound(c, Prg(b, 12, 1, Bits(v, 0, 5)))
  BY <1>1, PrgKeeps
<1>3. \A slot, num : Sound(c, Chr(b, slot, 1, num))
  BY ChrKeeps
<1>4. Sound(c, MirrorCode(b, Bits(v, 2, 2)))
  BY NamedMirrorsKeep
<1> QED
  BY <1>2, <1>3, <1>4 DEF WriteVrc6

LEMMA BandaiKeeps ==
  ASSUME NEW c, Sized(c), NEW b, Sound(c, b), NEW a \in Nat, NEW v \in Nat
  PROVE  Sound(c, WriteBandai(b, a, v))
<1>1. Sound(c, Prg(b, 8, 2, v)) /\ Sound(c, MirrorCode(b, Bits(v, 0, 2)))
  BY PrgKeeps, NamedMirrorsKeep
<1>2. Sound(c, Chr(b, Bits(a, 0, 4), 1, v))
  BY ChrKeeps
<1> QED
  BY <1>1, <1>2 DEF WriteBandai

LEMMA Keeps18 ==
  ASSUME NEW c, Sized(c), NEW b, Sound(c, b), b.reg \in Reg18, NEW a \in Nat, NEW v \in Nat
  PROVE  Sound(c, Write18(b, a, v)) /\ Write18(b, a, v).reg \in Reg18
<1> DEFINE half == a % 4
           nibble == Bits(v, 0, 4)
           i == (4 * (Digit(a) - 10)) + half
           j == (4 * (Digit(a) - 8)) + half
           p == [b.reg.prg EXCEPT ![j] = nibble]
           q == [b.reg.chr EXCEPT ![i] = nibble]
           first == 2 * (Digit(a) - 10)
           p8 == IF Bits(a, 2, 2) = 0 THEN p ELSE b.reg.prg
           p9 == IF Bits(a, 1, 3) = 0 THEN p ELSE b.reg.prg
           held8 == [b EXCEPT !.reg.prg = p8]
           held9 == [b EXCEPT !.reg.prg = p9]
           heldc == [b EXCEPT !.reg.chr = q]
<1>1. /\ Digit(a) = 8 => Write18(b, a, v)
           = Prg(Prg(held8, 8, 1, Pair(p8, 0)), 10, 1, Pair(p8, 2))
      /\ Digit(a) = 9 => Write18(b, a, v) = Prg(held9, 12, 1, Pair(p9, 4))
      /\ Digit(a) \in 10..13 => Write18(b, a, v)
           = Chr(Chr(heldc, first, 1, Pair(q, 2 * first)),
                 first + 1, 1, Pair(q, 2 * (first + 1)))
      /\ Digit(a) \notin 8..13 => Write18(b, a, v) =
           IF Digit(a) = 15 /\ Bits(a, 0, 12) = 2
           THEN Mirror(b, <<Horizontal, Vertical, SingleLow, SingleHigh>>[1 + Bits(v, 0, 2)])
           ELSE b
  BY DEF Write18
<1>2. nibble \in Nat /\ b.reg.prg \in [0..7 -> Nat] /\ b.reg.chr \in [0..15 -> Nat]
  <2>1. nibble \in Nat
    BY BitsAre
  <2> QED
    BY <2>1 DEF Reg18
<1> HIDE DEF nibble, i, j, half
<1>3. p \in [0..7 -> Nat] /\ q \in [0..15 -> Nat]
  BY <1>2
<1>4. p8 \in [0..7 -> Nat] /\ p9 \in [0..7 -> Nat]
  BY <1>2, <1>3
<1> HIDE DEF p, q, p8, p9, first
<1>5. ASSUME NEW r \in Reg18
      PROVE  Sound(c, With(b, r)) /\ With(b, r).reg \in Reg18
  BY WithKeeps
<1>6. ASSUME NEW f \in [0..7 -> Nat]
      PROVE  [b.reg EXCEPT !.prg = f] \in Reg18
  BY DEF Reg18
<1>7. /\ held8 = With(b, [b.reg EXCEPT !.prg = p8])
      /\ held9 = With(b, [b.reg EXCEPT !.prg = p9])
      /\ heldc = With(b, [b.reg EXCEPT !.chr = q])
  BY DEF Sound, Begun, With
<1>8. [b.reg EXCEPT !.chr = q] \in Reg18
  BY <1>3 DEF Reg18
<1> HIDE DEF held8, held9, heldc
<1>9. /\ Sound(c, held8) /\ held8.reg \in Reg18
      /\ Sound(c, held9) /\ held9.reg \in Reg18
      /\ Sound(c, heldc) /\ heldc.reg \in Reg18
  BY <1>4, <1>5, <1>6, <1>7, <1>8
<1>10. Pair(p8, 0) \in Int /\ Pair(p8, 2) \in Int /\ Pair(p9, 4) \in Int
  BY <1>4 DEF Pair
<1>11. CASE Digit(a) = 8
  <2> DEFINE d == Prg(held8, 8, 1, Pair(p8, 0))
  <2>1. Sound(c, d) /\ d.reg = held8.reg
    BY <1>9, <1>10, PrgKeeps
  <2>2. Write18(b, a, v) = Prg(d, 10, 1, Pair(p8, 2))
    BY <1>1, <1>11
  <2> HIDE DEF d
  <2> QED
    BY <1>9, <1>10, <2>1, <2>2, PrgKeeps
<1>12. CASE Digit(a) = 9
  <2>1. Write18(b, a, v) = Prg(held9, 12, 1, Pair(p9, 4))
    BY <1>1, <1>12
  <2> QED
    BY <1>9, <1>10, <2>1, PrgKeeps
<1>13. CASE Digit(a) \in 10..13
  <2> DEFINE d == Chr(heldc, first, 1, Pair(q, 2 * first))
  <2>1. Sound(c, d) /\ d.reg = heldc.reg
    BY <1>9, ChrKeeps, BoardFields
  <2>2. Write18(b, a, v) = Chr(d, first + 1, 1, Pair(q, 2 * (first + 1)))
    BY <1>1, <1>13
  <2> HIDE DEF d
  <2> QED
    BY <1>9, <2>1, <2>2, ChrKeeps, BoardFields
<1>14. CASE Digit(a) \notin 8..13
  <2> DEFINE d == Mirror(b, <<Horizontal, Vertical, SingleLow, SingleHigh>>[1 + Bits(v, 0, 2)])
  <2>1. Sound(c, d) /\ d.reg = b.reg
    BY MirrorKeeps, BoardFields
  <2>2. Write18(b, a, v) \in {b, d}
    BY <1>1, <1>14
  <2> HIDE DEF d
  <2> QED
    BY <2>1, <2>2
<1> QED
  BY <1>11, <1>12, <1>13, <1>14, DigitIs

LEMMA Keeps19 ==
  ASSUME NEW c, Sized(c), NEW b, Sound(c, b), NEW a \in Nat, NEW v \in Nat
  PROVE  Sound(c, Write19(b, a, v))
<1> DEFINE odd == Bit(a, 11)
           quarter == (2 * (Digit(a) - 12)) + odd
           mirroring == b.reg.mirroring
                          + (4^quarter * (Bit(v, 0) - Bits(b.reg.mirroring, 2 * quarter, 2)))
           held == [b EXCEPT !.reg.mirroring = mirroring]
<1>1. Write19(b, a, v) =
        CASE Digit(a) \in 8..11 -> Chr(b, (2 * (Digit(a) - 8)) + odd, 1, v)
          [] Digit(a) \in {12, 13} -> Mirror(held, mirroring)
          [] Digit(a) = 14 -> Prg(b, 8 + (2 * odd), 1, v)
          [] Digit(a) = 15 /\ odd = 0 -> Prg(b, 12, 1, v)
          [] OTHER -> b
  BY Zenon DEF Write19
<1>2. odd \in {0, 1}
  BY DEF Bit, Bits
<1> HIDE DEF mirroring, odd
<1>3. Sound(c, Chr(b, (2 * (Digit(a) - 8)) + odd, 1, v))
  BY ChrKeeps
<1>4. Sound(c, Mirror(held, mirroring))
  <2>1. held = With(b, [b.reg EXCEPT !.mirroring = mirroring])
    BY DEF Sound, Begun, With
  <2> QED
    BY <2>1, WithKeeps, MirrorKeeps
<1> HIDE DEF held
<1>5. Sound(c, Prg(b, 8 + (2 * odd), 1, v)) /\ Sound(c, Prg(b, 12, 1, v))
  <2> DEFINE slot == 8 + (2 * odd)
  <2>1. slot \in Int /\ slot + 2 * 1 <= 14
    BY <1>2
  <2> HIDE DEF slot
  <2>2. Sound(c, Prg(b, slot, 1, v)) /\ Sound(c, Prg(b, 12, 1, v))
    BY <2>1, PrgKeeps
  <2> QED
    BY <2>2 DEF slot
<1> QED
  BY <1>1, <1>3, <1>4, <1>5

LEMMA Keeps69 ==
  ASSUME NEW c, Sized(c), NEW b, Sound(c, b), NEW a \in Nat, NEW v \in Nat
  PROVE  Sound(c, Write69(b, a, v))
<1> DEFINE n == Bits(b.reg.command, 0, 4)
           named == [b EXCEPT !.reg.command = v]
           held == [b EXCEPT !.reg.mode = v]
<1>1. Write69(b, a, v) =
        CASE Digit(a) = 8 -> named
          [] Digit(a) = 10 /\ n < 8 -> Chr(b, n, 1, v)
          [] Digit(a) = 10 /\ n = 8 -> Prg(held, 6, 1, Bits(v, 0, 6))
          [] Digit(a) = 10 /\ n \in 9..11 -> Prg(b, 8 + (2 * (n - 9)), 1, v)
          [] Digit(a) = 10 /\ n = 12 -> MirrorCode(b, Bits(v, 0, 2))
          [] OTHER -> b
  BY Zenon DEF Write69
<1> HIDE DEF n
<1>2. Sound(c, named)
  <2>1. named = With(b, [b.reg EXCEPT !.command = v])
    BY DEF Sound, Begun, With
  <2> QED
    BY <2>1, WithKeeps
<1>3. Sound(c, Prg(held, 6, 1, Bits(v, 0, 6)))
  <2>1. held = With(b, [b.reg EXCEPT !.mode = v])
    BY DEF Sound, Begun, With
  <2>2. Sound(c, held)
    BY <2>1, WithKeeps
  <2> HIDE DEF held
  <2>3. Bits(v, 0, 6) \in Int
    BY BitsAre
  <2> QED
    BY <2>2, <2>3, PrgKeeps
<1> HIDE DEF named, held
<1>4. CASE Digit(a) = 10 /\ n \in 9..11
  <2> DEFINE slot == 8 + (2 * (n - 9))
  <2>1. slot \in Int /\ slot + 2 * 1 <= 14
    BY <1>4
  <2>2. Write69(b, a, v) = Prg(b, slot, 1, v)
    BY <1>1, <1>4
  <2> HIDE DEF slot
  <2> QED
    BY <2>1, <2>2, PrgKeeps
<1>5. CASE ~(Digit(a) = 10 /\ n \in 9..11)
  <2>1. Sound(c, Chr(b, n, 1, v)) /\ Sound(c, MirrorCode(b, Bits(v, 0, 2)))
    BY ChrKeeps, NamedMirrorsKeep
  <2> QED
    BY <1>1, <1>2, <1>3, <1>5, <2>1
<1> QED
  BY <1>4, <1>5

\* The chips that bring all their pages in line at once.
Replaced(b, prg, chr) == [b EXCEPT !.prg = prg, !.chr = chr]

LEMMA BothReplaced ==
  ASSUME NEW c, NEW b, Begun(c, b), NEW prg, NEW chr
  PROVE  Replaced(b, prg, chr)
           = [id |-> c.id, pages |-> c.pages, banks |-> c.banks, prg |-> prg,
              chr |-> chr, mir |-> b.mir, reg |-> b.reg]
<1> DEFINE e == [b EXCEPT !.prg = prg]
<1>1. e = [id |-> c.id, pages |-> c.pages, banks |-> c.banks, prg |-> prg,
           chr |-> b.chr, mir |-> b.mir, reg |-> b.reg]
  BY DEF Begun
<1>2. Replaced(b, prg, chr) = [e EXCEPT !.chr = chr]
  BY DEF Replaced
<1> HIDE DEF e
<1>3. [e EXCEPT !.chr = chr]
        = [id |-> c.id, pages |-> c.pages, banks |-> c.banks, prg |-> prg,
           chr |-> chr, mir |-> b.mir, reg |-> b.reg]
  BY <1>1
<1> QED
  BY <1>2, <1>3

LEMMA AllShown ==
  ASSUME NEW c, NEW b, Sound(c, b), NEW prg, NEW chr,
         prg \in [PrgSlots -> {Open} \cup Pages(c)],
         \A s \in PrgSlots \ {6} : prg[s] \in Pages(c),
         c.id \in KeepsVectors => prg[14] = c.pages - 1,
         \A s \in ChrSlots : chr[s][1] = "ram" => chr[s][2] < RamBanks(c.id)
  PROVE  Sound(c, Replaced(b, prg, chr)) /\ Replaced(b, prg, chr).reg = b.reg
<1> DEFINE d == Replaced(b, prg, chr)
<1>1. Begun(c, b)
  BY DEF Sound
<1>3. d = [id |-> c.id, pages |-> c.pages, banks |-> c.banks, prg |-> prg,
           chr |-> chr, mir |-> b.mir, reg |-> b.reg]
  BY <1>1, BothReplaced, Zenon
<1> HIDE DEF d
<1>4. Begun(c, d)
  BY <1>3 DEF Begun
<1>5. Sound(c, d)
  BY <1>3, <1>4 DEF Sound
<1> QED
  BY <1>3, <1>5 DEF d

LEMMA PageOf ==
  ASSUME NEW c, Sized(c), NEW n \in Int
  PROVE  n % c.pages \in Pages(c)
  BY Remainder DEF Sized, Pages

LEMMA Shown64Keeps ==
  ASSUME NEW c, Sized(c), NEW b, Sound(c, b), b.reg \in Reg64
  PROVE  Sound(c, Shown64(b)) /\ Shown64(b).reg = b.reg
<1> DEFINE r == b.reg.r
           double == Bit(b.reg.command, 5) = 0
           half == IF double
                   THEN <<r[0] - (r[0] % 2), r[0] - (r[0] % 2) + 1,
                          r[1] - (r[1] % 2), r[1] - (r[1] % 2) + 1>>
                   ELSE <<r[0], r[8], r[1], r[9]>>
           banks == half \o <<r[2], r[3], r[4], r[5]>>
           pages == IF Bit(b.reg.command, 6) = 1 THEN <<r[15], r[6], r[7]>>
                    ELSE <<r[6], r[7], r[15]>>
           turned == IF Bit(b.reg.command, 7) = 1 THEN 4 ELSE 0
           prg == [s \in PrgSlots |-> IF s \in {6, 14} THEN b.prg[s]
                                      ELSE pages[(s - 6) \div 2] % b.pages]
           chr == [s \in ChrSlots |->
                     IF b.banks = 0 THEN b.chr[s]
                     ELSE <<"rom", banks[1 + ((s + turned) % 8)] % b.banks>>]
<1>1. Shown64(b) = Replaced(b, prg, chr)
  BY Zenon DEF Shown64, Replaced
<1>2. b.pages = c.pages
  BY BoardFields
<1>3. \A s \in ChrSlots : chr[s][1] = "ram" => chr[s][2] < RamBanks(c.id)
  <2> HIDE DEF banks, turned
  <2> QED
    BY DEF Sound, Begun
<1> HIDE DEF chr
<1>4. r \in [(0..9) \cup {15} -> Nat]
  BY DEF Reg64
<1>5. pages[1] \in Nat /\ pages[2] \in Nat /\ pages[3] \in Nat
  BY <1>4
<1> HIDE DEF pages
<1>6. ASSUME NEW s \in PrgSlots
      PROVE  /\ prg[s] \in {Open} \cup Pages(c)
             /\ s # 6 => prg[s] \in Pages(c)
             /\ s = 14 => prg[s] = b.prg[14]
  <2>1. CASE s \in {6, 14}
    BY <2>1 DEF Sound, Begun, PrgSlots
  <2>2. CASE s \in {8, 10, 12}
    <3> DEFINE n == pages[(s - 6) \div 2]
    <3>1. n \in Int
      <4>1. (s - 6) \div 2 \in 1..3
        BY <2>2
      <4> QED
        BY <1>5, <4>1
    <3>2. prg[s] = n % c.pages
      BY <1>2, <2>2
    <3> HIDE DEF prg, n
    <3>3. n % c.pages \in Pages(c)
      BY <3>1, Remainder DEF Sized, Pages
    <3> QED
      BY <2>2, <3>2, <3>3
  <2> QED
    BY <2>1, <2>2 DEF PrgSlots
<1>7. prg \in [PrgSlots -> {Open} \cup Pages(c)]
  BY <1>6
<1>8. \A s \in PrgSlots \ {6} : prg[s] \in Pages(c)
  BY <1>6
<1>9. c.id \in KeepsVectors => prg[14] = c.pages - 1
  BY <1>6 DEF Sound, PrgSlots
<1> HIDE DEF prg
<1> QED
  BY <1>1, <1>3, <1>7, <1>8, <1>9, AllShown

LEMMA Keeps64 ==
  ASSUME NEW c, Sized(c), NEW b, Sound(c, b), b.reg \in Reg64, NEW a \in Nat, NEW v \in Nat
  PROVE  Sound(c, Write64(b, a, v)) /\ Write64(b, a, v).reg \in Reg64
<1> DEFINE n == Bits(b.reg.command, 0, 4)
           named == [b EXCEPT !.reg.command = v]
           held == IF n \in DOMAIN b.reg.r THEN [b EXCEPT !.reg.r[n] = v] ELSE b
<1>1. Write64(b, a, v) =
        CASE Digit(a) \in {8, 9} /\ Bit(a, 0) = 0 -> Shown64(named)
          [] Digit(a) \in {8, 9} /\ Bit(a, 0) = 1 -> Shown64(held)
          [] Digit(a) \in {10, 11} /\ Bit(a, 0) = 0 -> HorizontalIf(b, Bit(v, 0))
          [] OTHER -> b
  BY Zenon DEF Write64
<1> HIDE DEF n
<1>2. Sound(c, named) /\ named.reg \in Reg64
  <2> DEFINE r == [b.reg EXCEPT !.command = v]
  <2>1. named = With(b, r)
    BY DEF Sound, Begun, With
  <2>2. r \in Reg64
    BY DEF Reg64
  <2> HIDE DEF r, named
  <2> QED
    BY <2>1, <2>2, WithKeeps
<1>3. Sound(c, held) /\ held.reg \in Reg64
  <2> DEFINE r == [b.reg EXCEPT !.r[n] = v]
             f == [b.reg.r EXCEPT ![n] = v]
  <2>1. [b EXCEPT !.reg.r[n] = v] = With(b, r)
    BY DEF Sound, Begun, With
  <2>2. held = IF n \in DOMAIN b.reg.r THEN With(b, r) ELSE b
    BY <2>1
  <2>3. f \in [(0..9) \cup {15} -> Nat]
    BY DEF Reg64
  <2>4. r = [b.reg EXCEPT !.r = f]
    OBVIOUS
  <2> HIDE DEF f
  <2>5. r \in Reg64
    BY <2>3, <2>4 DEF Reg64
  <2> HIDE DEF r, held
  <2> QED
    BY <2>2, <2>5, WithKeeps
<1> HIDE DEF named, held
<1>4. /\ Sound(c, Shown64(named)) /\ Shown64(named).reg \in Reg64
      /\ Sound(c, Shown64(held)) /\ Shown64(held).reg \in Reg64
  BY <1>2, <1>3, Shown64Keeps
<1>5. Sound(c, HorizontalIf(b, Bit(v, 0))) /\ HorizontalIf(b, Bit(v, 0)).reg \in Reg64
  BY NamedMirrorsKeep
<1> QED
  BY <1>1, <1>4, <1>5

\* MMC3 numbers 256 pages: the last it names is the last there is, when the
\* cartridge has a power of two of them.
LEMMA Names255 ==
  ASSUME NEW S \in {2^n : n \in 0..8}
  PROVE  255 % S = S - 1
<1>1. S \in {2^0, 2^1, 2^2, 2^3, 2^4, 2^5, 2^6, 2^7, 2^8}
  <2>1. PICK n \in 0..8 : S = 2^n
    OBVIOUS
  <2>2. n \in {0, 1, 2, 3, 4, 5, 6, 7, 8}
    BY <2>1
  <2> QED
    BY <2>1, <2>2, Zenon
<1>2. S \in {1, 2, 4, 8, 16, 32, 64, 128, 256}
  BY <1>1
<1> QED
  BY <1>2

LEMMA Shown4Keeps ==
  ASSUME NEW c, Sized(c), NEW b, Sound(c, b), b.reg \in Reg4,
         c.id \in {4, 118, 245}, Built(c)
  PROVE  Sound(c, Shown4(b)) /\ Shown4(b).reg = b.reg
<1> DEFINE prg == [s \in PrgSlots |-> IF s = 6 THEN b.prg[s]
                                      ELSE PrgBank4(b, (s - 8) \div 2) % b.pages]
           chr == [s \in ChrSlots |-> IF b.banks > 0 THEN <<"rom", ChrBank4(b, s) % b.banks>>
                                      ELSE <<"ram", ChrBank4(b, s)>>]
<1>1. Shown4(b) = Replaced(b, prg, chr)
  BY Zenon DEF Shown4, Replaced
<1>2. b.pages = c.pages
  BY BoardFields
<1>3. \A s \in ChrSlots : chr[s][1] = "ram" => chr[s][2] < RamBanks(c.id)
  <2>1. RamBanks(c.id) = 256
    BY DEF RamBanks
  <2>2. ASSUME NEW s \in ChrSlots PROVE ChrBank4(b, s) < 256
    <3> DEFINE i == IF Bit(b.reg.command, 7) = 1 THEN (s + 4) % 8 ELSE s
    <3>1. i \in 0..7
      BY DEF ChrSlots
    <3>2. ChrBank4(b, s) = b.reg.chr[i]
      BY Zenon DEF ChrBank4
    <3> HIDE DEF i
    <3>3. b.reg.chr[i] \in Byte
      BY <3>1 DEF Reg4
    <3> QED
      BY <3>2, <3>3 DEF Byte
  <2>3. ASSUME NEW s \in ChrSlots, chr[s][1] = "ram" PROVE chr[s][2] < 256
    <3>1. chr[s] = IF b.banks > 0 THEN <<"rom", ChrBank4(b, s) % b.banks>>
                   ELSE <<"ram", ChrBank4(b, s)>>
      BY Zenon
    <3> HIDE DEF chr
    <3>2. chr[s] = <<"ram", ChrBank4(b, s)>>
      BY <2>3, <3>1
    <3> QED
      BY <2>2, <3>2
  <2> QED
    BY <2>1, <2>3
<1> HIDE DEF chr
<1>4. PrgBank4(b, 3) = 255
  BY DEF PrgBank4
<1>5. ASSUME NEW i \in 0..3 PROVE PrgBank4(b, i) \in Nat
  <2> DEFINE banks == <<b.reg.prg[1], b.reg.prg[2], 254, 255>>
             j == IF i % 2 = 1 \/ Bit(b.reg.command, 6) = 0 THEN 1 + i ELSE 1 + (2 - i)
  <2>1. banks \in [1..4 -> Nat]
    <3>1. b.reg.prg[1] \in Nat /\ b.reg.prg[2] \in Nat
      BY DEF Reg4
    <3> QED
      BY <3>1
  <2>2. j \in 1..4
    <3>1. i % 2 = 1 \/ i \in {0, 2}
      OBVIOUS
    <3> QED
      BY <3>1
  <2>3. PrgBank4(b, i) = banks[j]
    BY Zenon DEF PrgBank4
  <2> HIDE DEF banks, j
  <2> QED
    BY <2>1, <2>2, <2>3
<1>6. ASSUME NEW s \in PrgSlots, s # 6
      PROVE  prg[s] \in Pages(c) /\ (s = 14 => prg[s] = c.pages - 1)
  <2> DEFINE n == PrgBank4(b, (s - 8) \div 2)
  <2>1. (s - 8) \div 2 \in 0..3
    BY <1>6 DEF PrgSlots
  <2>2. n \in Int
    BY <1>5, <2>1
  <2>3. prg[s] = n % c.pages
    BY <1>2, <1>6
  <2>4. s = 14 => n = 255
    <3>1. (14 - 8) \div 2 = 3
      OBVIOUS
    <3> QED
      BY <1>4, <3>1
  <2> HIDE DEF prg, n
  <2>5. n % c.pages \in Pages(c)
    BY <2>2, PageOf, Zenon
  <2>6. 255 % c.pages = c.pages - 1
    BY Names255 DEF Built
  <2> QED
    BY <2>3, <2>4, <2>5, <2>6
<1>7. prg \in [PrgSlots -> {Open} \cup Pages(c)]
  <2>1. prg[6] \in {Open} \cup Pages(c)
    BY DEF Sound, Begun, PrgSlots
  <2>2. \A s \in PrgSlots : prg[s] \in {Open} \cup Pages(c)
    BY <1>6, <2>1
  <2> QED
    BY <2>2
<1>8. \A s \in PrgSlots \ {6} : prg[s] \in Pages(c)
  BY <1>6
<1>9. c.id \in KeepsVectors => prg[14] = c.pages - 1
  BY <1>6 DEF PrgSlots
<1> HIDE DEF prg
<1> QED
  BY <1>1, <1>3, <1>7, <1>8, <1>9, AllShown

LEMMA Keeps4 ==
  ASSUME NEW c, Sized(c), NEW b, Sound(c, b), b.reg \in Reg4,
         c.id \in {4, 118, 245}, Built(c),
         NEW a \in Nat, NEW v \in Nat, v < 256
  PROVE  Sound(c, Write4(b, a, v)) /\ Write4(b, a, v).reg \in Reg4
<1>1. ASSUME NEW r \in Reg4
      PROVE  Sound(c, With(b, r)) /\ With(b, r).reg = r
  BY WithKeeps
<1>2. CASE Digit(a) \in {8, 9} /\ Bit(a, 0) = 0
  <2> DEFINE r == [b.reg EXCEPT !.command = v]
  <2>1. [b EXCEPT !.reg.command = v] = With(b, r)
    BY DEF Sound, Begun, With
  <2>2. Write4(b, a, v) = With(b, r)
    BY <1>2, <2>1 DEF Write4
  <2>3. r \in Reg4
    BY DEF Reg4
  <2> HIDE DEF r
  <2> QED
    BY <1>1, <2>2, <2>3
<1>3. CASE Digit(a) \in {8, 9} /\ Bit(a, 0) = 1
  <2> DEFINE n == Bits(b.reg.command, 0, 3)
             even == v - (v % 2)
             pair == [b EXCEPT !.reg.chr[2 * n] = even, !.reg.chr[1 + (2 * n)] = even + 1]
             single == [b EXCEPT !.reg.chr[n + 2] = v]
             paged == [b EXCEPT !.reg.prg[n - 5] = Bits(v, 0, 6)]
             held == CASE n \in {0, 1} -> pair [] n \in 2..5 -> single [] OTHER -> paged
  <2>1. Write4(b, a, v) = Shown4(held)
    <3>1. Write4(b, a, v) = Data4(b, v)
      BY <1>3 DEF Write4
    <3> QED
      BY <3>1, Zenon DEF Data4
  <2>2. n \in 0..7
    <3>1. b.reg.command \in Nat
      BY DEF Reg4
    <3> QED
      BY <3>1, BitsAre
  <2> HIDE DEF n
  <2>3. /\ b.reg.chr \in [0..7 -> Byte] /\ b.reg.prg \in [1..2 -> Nat]
        /\ even \in Byte /\ even + 1 \in Byte /\ v \in Byte /\ Bits(v, 0, 6) \in Nat
    <3>1. even \in Byte /\ even + 1 \in Byte /\ v \in Byte
      BY DEF Byte
    <3>2. Bits(v, 0, 6) \in Nat
      BY BitsAre
    <3> QED
      BY <3>1, <3>2 DEF Reg4
  <2> DEFINE odd == even + 1
  <2>4. odd \in Byte
    BY <2>3
  <2> HIDE DEF even, odd
  <2>5. CASE n \in {0, 1}
    <3> DEFINE d == [b EXCEPT !.reg.chr[2 * n] = even]
               f == [b.reg.chr EXCEPT ![2 * n] = even]
               r == [b.reg EXCEPT !.chr = f]
    <3>1. d = With(b, r)
      BY DEF Sound, Begun, With
    <3>2. f \in [0..7 -> Byte]
      BY <2>3
    <3>3. held = [d EXCEPT !.reg.chr[1 + (2 * n)] = odd]
      BY <2>5 DEF odd
    <3> HIDE DEF d, f, held
    <3>4. r \in Reg4
      BY <3>2 DEF Reg4
    <3> HIDE DEF r
    <3>5. Sound(c, d) /\ d.reg \in Reg4
      BY <1>1, <3>1, <3>4
    <3> DEFINE g == [d.reg.chr EXCEPT ![1 + (2 * n)] = odd]
               q == [d.reg EXCEPT !.chr = g]
    <3>6. held = With(d, q)
      BY <3>3, <3>5 DEF Sound, Begun, With
    <3>7. g \in [0..7 -> Byte]
      BY <2>4, <3>5 DEF Reg4
    <3> HIDE DEF g
    <3>8. q \in Reg4
      BY <3>5, <3>7 DEF Reg4
    <3> HIDE DEF q
    <3>9. Sound(c, held) /\ held.reg \in Reg4
      BY <3>5, <3>6, <3>8, WithKeeps
    <3> QED
      BY <2>1, <3>9, Shown4Keeps
  <2>6. CASE n \in 2..5
    <3> DEFINE f == [b.reg.chr EXCEPT ![n + 2] = v]
               r == [b.reg EXCEPT !.chr = f]
    <3>1. held = With(b, r)
      BY <2>6 DEF Sound, Begun, With
    <3>2. f \in [0..7 -> Byte]
      BY <2>3
    <3> HIDE DEF f
    <3>3. r \in Reg4
      BY <3>2 DEF Reg4
    <3> HIDE DEF r, held
    <3>4. Sound(c, held) /\ held.reg \in Reg4
      BY <1>1, <3>1, <3>3
    <3> QED
      BY <2>1, <3>4, Shown4Keeps
  <2>7. CASE n \in 6..7
    <3> DEFINE f == [b.reg.prg EXCEPT ![n - 5] = Bits(v, 0, 6)]
               r == [b.reg EXCEPT !.prg = f]
    <3>1. held = With(b, r)
      BY <2>7 DEF Sound, Begun, With
    <3>2. f \in [1..2 -> Nat]
      BY <2>3
    <3> HIDE DEF f
    <3>3. r \in Reg4
      BY <3>2 DEF Reg4
    <3> HIDE DEF r, held
    <3>4. Sound(c, held) /\ held.reg \in Reg4
      BY <1>1, <3>1, <3>3
    <3> QED
      BY <2>1, <3>4, Shown4Keeps
  <2> QED
    BY <2>2, <2>5, <2>6, <2>7
<1>4. CASE Digit(a) \in {10, 11} /\ b.id # 118 /\ Bit(a, 0) = 0
  <2>1. Write4(b, a, v) = IF b.mir = FourScreen THEN b ELSE HorizontalIf(b, Bit(v, 0))
    BY <1>4 DEF Write4
  <2> QED
    BY <2>1, NamedMirrorsKeep
<1>5. CASE Digit(a) \in {10, 11} /\ b.id # 118 /\ Bit(a, 0) = 1
  <2> DEFINE e == [b.reg EXCEPT !.enabled = (Bit(v, 7) = 1)]
             r == [e EXCEPT !.writable = (Bit(v, 6) = 0)]
  <2>1. [b EXCEPT !.reg.enabled = (Bit(v, 7) = 1), !.reg.writable = (Bit(v, 6) = 0)]
          = With(b, r)
    BY DEF Sound, Begun, With
  <2>2. Write4(b, a, v) = With(b, r)
    BY <1>5, <2>1 DEF Write4
  <2>3. e \in Reg4
    BY DEF Reg4
  <2> HIDE DEF e
  <2>4. r \in Reg4
    BY <2>3 DEF Reg4
  <2> HIDE DEF r
  <2> QED
    BY <1>1, <2>2, <2>4
<1>6. CASE ~(Digit(a) \in {8, 9} /\ Bit(a, 0) \in {0, 1})
           /\ ~(Digit(a) \in {10, 11} /\ b.id # 118 /\ Bit(a, 0) \in {0, 1})
  BY <1>6 DEF Write4
<1> QED
  BY <1>2, <1>3, <1>4, <1>5, <1>6

LEMMA SyncPrg90Keeps ==
  ASSUME NEW c, Sized(c), NEW b, Sound(c, b), b.reg \in Reg90, c.id \notin KeepsVectors
  PROVE  Sound(c, SyncPrg90(b)) /\ SyncPrg90(b).reg = b.reg
<1> DEFINE p == b.reg.prg
           size == Bits(b.reg.banks, 0, 2)
           last == Bit(b.reg.banks, 2) = 0
           page(i) == IF size = 3 THEN Reversed7(p[i]) ELSE p[i]
           four == (4 * p[3]) + 3
           two == (2 * p[3]) + 1
           low == CASE size = 0 -> Prg(b, 6, 1, four)
                    [] size = 1 -> Prg(b, 6, 1, two)
                    [] OTHER -> Prg(b, 6, 1, page(3))
           end == IF last THEN -1 ELSE p[3]
           end3 == IF last THEN -1 ELSE page(3)
           high == CASE size = 0 -> Prg(low, 8, 4, end)
                     [] size = 1 -> Prg(Prg(low, 8, 2, p[1]), 12, 2, end)
                     [] OTHER -> Prg(Prg(Prg(Prg(low, 8, 1, page(0)), 10, 1, page(1)),
                                         12, 1, page(2)), 14, 1, end3)
           closed == [high EXCEPT !.prg[6] = Open]
<1>1. SyncPrg90(b) = IF Bit(b.reg.banks, 6) = 1 THEN high ELSE closed
  BY Zenon DEF SyncPrg90
<1>2. p \in [0..3 -> Nat]
  BY DEF Reg90
<1>3. ASSUME NEW n \in Nat PROVE Reversed7(n) \in Int
  <2>1. /\ Bit(n, 0) \in {0, 1} /\ Bit(n, 1) \in {0, 1} /\ Bit(n, 2) \in {0, 1}
        /\ Bit(n, 3) \in {0, 1} /\ Bit(n, 4) \in {0, 1} /\ Bit(n, 5) \in {0, 1}
        /\ Bit(n, 6) \in {0, 1}
    BY BitIs
  <2> QED
    BY <2>1 DEF Reversed7
<1>4. /\ page(0) \in Int /\ page(1) \in Int /\ page(2) \in Int /\ page(3) \in Int
      /\ p[1] \in Int /\ p[3] \in Int
  BY <1>2, <1>3
<1>5. end \in Int /\ end3 \in Int /\ four \in Int /\ two \in Int
  BY <1>4
<1> HIDE DEF page, end, end3, four, two, p, last
<1>6. ASSUME NEW d, Sound(c, d), NEW slot \in Int, NEW n \in Int, NEW m \in Int
      PROVE  Sound(c, Prg(d, slot, m, n)) /\ Prg(d, slot, m, n).reg = d.reg
  BY <1>6, PrgKeeps
<1>7. Sound(c, low) /\ low.reg = b.reg
  <2>1. /\ Sound(c, Prg(b, 6, 1, four)) /\ Prg(b, 6, 1, four).reg = b.reg
        /\ Sound(c, Prg(b, 6, 1, two)) /\ Prg(b, 6, 1, two).reg = b.reg
        /\ Sound(c, Prg(b, 6, 1, page(3))) /\ Prg(b, 6, 1, page(3)).reg = b.reg
    BY <1>4, <1>5, <1>6
  <2> HIDE DEF size
  <2>2. low \in {Prg(b, 6, 1, four), Prg(b, 6, 1, two), Prg(b, 6, 1, page(3))}
    OBVIOUS
  <2> HIDE DEF low
  <2> QED
    BY <2>1, <2>2, Zenon
<1> HIDE DEF low
<1>8. Sound(c, high) /\ high.reg = b.reg
  <2>1. CASE size = 0
    <3>1. high = Prg(low, 8, 4, end)
      BY <2>1
    <3> HIDE DEF high
    <3> QED
      BY <1>5, <1>6, <1>7, <3>1
  <2>2. CASE size = 1
    <3> DEFINE d == Prg(low, 8, 2, p[1])
    <3>1. Sound(c, d) /\ d.reg = b.reg
      BY <1>4, <1>6, <1>7
    <3>2. high = Prg(d, 12, 2, end)
      BY <2>2
    <3> HIDE DEF high, d
    <3> QED
      BY <1>5, <1>6, <3>1, <3>2
  <2>3. CASE size \notin {0, 1}
    <3> DEFINE d == Prg(low, 8, 1, page(0))
               e == Prg(d, 10, 1, page(1))
               f == Prg(e, 12, 1, page(2))
    <3>1. high = Prg(f, 14, 1, end3)
      BY <2>3
    <3>2. Sound(c, d) /\ d.reg = b.reg
      BY <1>4, <1>6, <1>7
    <3> HIDE DEF high, d
    <3>3. Sound(c, e) /\ e.reg = b.reg
      BY <1>4, <1>6, <3>2
    <3> HIDE DEF e
    <3>4. Sound(c, f) /\ f.reg = b.reg
      BY <1>4, <1>6, <3>3
    <3> HIDE DEF f
    <3> QED
      BY <1>5, <1>6, <3>1, <3>4
  <2> QED
    BY <2>1, <2>2, <2>3
<1> HIDE DEF high
<1>9. Sound(c, closed) /\ closed.reg = b.reg
  <2> DEFINE prg == [high.prg EXCEPT ![6] = Open]
  <2>1. closed = Replaced(high, prg, high.chr)
    BY <1>8 DEF Sound, Begun, Replaced
  <2>2. prg \in [PrgSlots -> {Open} \cup Pages(c)]
    BY <1>8 DEF Sound, Begun
  <2>3. \A s \in PrgSlots \ {6} : prg[s] \in Pages(c)
    BY <1>8 DEF Sound, Begun
  <2>4. \A s \in ChrSlots : high.chr[s][1] = "ram" => high.chr[s][2] < RamBanks(c.id)
    BY <1>8 DEF Sound, Begun
  <2> HIDE DEF prg, closed
  <2>5. /\ Sound(c, Replaced(high, prg, high.chr))
        /\ Replaced(high, prg, high.chr).reg = high.reg
    BY <1>8, <2>2, <2>3, <2>4, AllShown
  <2> QED
    BY <1>8, <2>1, <2>5
<1> HIDE DEF closed
<1> QED
  BY <1>1, <1>8, <1>9

LEMMA SyncChr90Keeps ==
  ASSUME NEW c, Sized(c), NEW b, Sound(c, b)
  PROVE  Sound(c, SyncChr90(b)) /\ SyncChr90(b).reg = b.reg
<1> DEFINE size == <<8, 4, 2, 1>>[1 + Bits(b.reg.banks, 3, 2)]
           repeats == CASE Bit(b.reg.mode, 7) = 0 -> {}
                        [] size = 2 -> {4} [] size = 1 -> {4, 5} [] OTHER -> {}
           register(s) == IF s \in repeats THEN s - 4 ELSE s
           bank(s) == b.reg.low[register(s)] + (256 * b.reg.high[register(s)])
           first(s) == s - (s % size)
           chr == [s \in ChrSlots |->
                     <<"rom", ((bank(first(s)) * size) + (s % size)) % b.banks>>]
           shown == [b EXCEPT !.chr = chr]
<1>1. SyncChr90(b) = IF b.banks = 0 THEN b ELSE shown
  BY Zenon DEF SyncChr90
<1>2. ASSUME NEW s \in ChrSlots PROVE chr[s][1] # "ram"
  <2> HIDE DEF size, bank, first
  <2> QED
    OBVIOUS
<1> HIDE DEF chr
<1>3. shown = Replaced(b, b.prg, chr)
  BY DEF Sound, Begun, Replaced
<1>4. /\ b.prg \in [PrgSlots -> {Open} \cup Pages(c)]
      /\ \A s \in PrgSlots \ {6} : b.prg[s] \in Pages(c)
      /\ c.id \in KeepsVectors => b.prg[14] = c.pages - 1
  BY DEF Sound, Begun
<1>5. Sound(c, Replaced(b, b.prg, chr)) /\ Replaced(b, b.prg, chr).reg = b.reg
  BY <1>2, <1>4, AllShown
<1> HIDE DEF shown
<1> QED
  BY <1>1, <1>3, <1>5

LEMMA Keeps90 ==
  ASSUME NEW c, Sized(c), NEW b, Sound(c, b), b.reg \in Reg90, c.id \notin KeepsVectors,
         NEW a \in Nat, NEW v \in Nat
  PROVE  Sound(c, Write90(b, a, v)) /\ Write90(b, a, v).reg \in Reg90
<1> DEFINE i == Bits(a, 0, 3)
           page == Bits(v, 0, 7)
           factors == [b.reg.factors EXCEPT ![1 + (a % 2)] = v]
           prg == [b.reg.prg EXCEPT ![i % 4] = page]
           low == [b.reg.low EXCEPT ![i] = v]
           high == [b.reg.high EXCEPT ![i] = v]
           banks == v - (32 * Bit(v, 5))
<1>1. ASSUME NEW r \in Reg90
      PROVE  /\ Sound(c, With(b, r)) /\ With(b, r).reg = r
             /\ Sound(c, SyncPrg90(With(b, r))) /\ SyncPrg90(With(b, r)).reg = r
             /\ Sound(c, SyncChr90(With(b, r))) /\ SyncChr90(With(b, r)).reg = r
  <2> DEFINE d == With(b, r)
  <2>1. Sound(c, d) /\ d.reg = r
    BY WithKeeps
  <2> HIDE DEF d
  <2>2. /\ Sound(c, SyncPrg90(d)) /\ SyncPrg90(d).reg = r
        /\ Sound(c, SyncChr90(d)) /\ SyncChr90(d).reg = r
    BY <2>1, SyncPrg90Keeps, SyncChr90Keeps
  <2> QED
    BY <2>1, <2>2 DEF d
<1>2. /\ factors \in [1..2 -> Nat] /\ prg \in [0..3 -> Nat] /\ low \in [0..7 -> Nat]
      /\ high \in [0..7 -> Nat] /\ banks \in Nat
  <2>1. page \in Nat
    BY DEF Bits
  <2>2. banks \in Nat
    BY DEF Bit, Bits
  <2> HIDE DEF page, banks, i
  <2> QED
    BY <2>1, <2>2 DEF Reg90
<1> HIDE DEF factors, prg, low, high, banks
<1>3. /\ [b.reg EXCEPT !.factors = factors] \in Reg90
      /\ [b.reg EXCEPT !.ram = v] \in Reg90
      /\ [b.reg EXCEPT !.prg = prg] \in Reg90
      /\ [b.reg EXCEPT !.low = low] \in Reg90
      /\ [b.reg EXCEPT !.high = high] \in Reg90
      /\ [b.reg EXCEPT !.banks = banks] \in Reg90
      /\ [b.reg EXCEPT !.mode = v] \in Reg90
  BY <1>2 DEF Reg90
<1>4. /\ [b EXCEPT !.reg.factors[1 + (a % 2)] = v] = With(b, [b.reg EXCEPT !.factors = factors])
      /\ [b EXCEPT !.reg.ram = v] = With(b, [b.reg EXCEPT !.ram = v])
      /\ [b EXCEPT !.reg.prg[i % 4] = page] = With(b, [b.reg EXCEPT !.prg = prg])
      /\ [b EXCEPT !.reg.low[i] = v] = With(b, [b.reg EXCEPT !.low = low])
      /\ [b EXCEPT !.reg.high[i] = v] = With(b, [b.reg EXCEPT !.high = high])
      /\ [b EXCEPT !.reg.banks = v - (32 * Bit(v, 5))] = With(b, [b.reg EXCEPT !.banks = banks])
      /\ [b EXCEPT !.reg.mode = v] = With(b, [b.reg EXCEPT !.mode = v])
  <2> HIDE DEF i, page
  <2> QED
    BY DEF Sound, Begun, With, factors, prg, low, high, banks
<1> DEFINE mirrored == MirrorCode(b, Bits(v, 0, 2))
<1>5. Sound(c, mirrored) /\ mirrored.reg = b.reg
  BY NamedMirrorsKeep
<1> HIDE DEF mirrored
<1>6. /\ Sound(c, SyncPrg90(mirrored)) /\ SyncPrg90(mirrored).reg \in Reg90
      /\ Sound(c, SyncPrg90(b)) /\ SyncPrg90(b).reg \in Reg90
  BY <1>5, SyncPrg90Keeps
<1>7. Write90(b, a, v) \in
        {b, With(b, [b.reg EXCEPT !.factors = factors]), With(b, [b.reg EXCEPT !.ram = v]),
         SyncPrg90(With(b, [b.reg EXCEPT !.prg = prg])),
         SyncChr90(With(b, [b.reg EXCEPT !.low = low])),
         SyncChr90(With(b, [b.reg EXCEPT !.high = high])),
         SyncPrg90(With(b, [b.reg EXCEPT !.banks = banks])),
         SyncPrg90(mirrored), SyncPrg90(b), SyncPrg90(With(b, [b.reg EXCEPT !.mode = v]))}
  <2> DEFINE i1 == [b EXCEPT !.reg.factors[1 + (a % 2)] = v]
             i2 == [b EXCEPT !.reg.ram = v]
             i3 == [b EXCEPT !.reg.prg[i % 4] = page]
             i4 == [b EXCEPT !.reg.low[i] = v]
             i5 == [b EXCEPT !.reg.high[i] = v]
             i6 == [b EXCEPT !.reg.banks = v - (32 * Bit(v, 5))]
             i7 == [b EXCEPT !.reg.mode = v]
  <2>1. Write90(b, a, v) =
          CASE Digit(a) = 5 /\ a \in {\h5800, \h5801} -> i1
            [] Digit(a) = 5 /\ a = \h5803 -> i2
            [] Digit(a) = 8 -> SyncPrg90(i3)
            [] Digit(a) = 9 -> SyncChr90(i4)
            [] Digit(a) = 10 -> SyncChr90(i5)
            [] Digit(a) = 13 /\ a % 4 = 0 -> SyncPrg90(i6)
            [] Digit(a) = 13 /\ a % 4 = 1 -> SyncPrg90(mirrored)
            [] Digit(a) = 13 /\ a % 4 = 2 -> SyncPrg90(b)
            [] Digit(a) = 13 /\ a % 4 = 3 -> SyncPrg90(i7)
            [] OTHER -> b
    BY DEF Write90, mirrored
  <2> HIDE DEF i1, i2, i3, i4, i5, i6, i7
  <2>2. Write90(b, a, v) \in {b, i1, i2, SyncPrg90(i3), SyncChr90(i4), SyncChr90(i5),
                              SyncPrg90(i6), SyncPrg90(mirrored), SyncPrg90(b), SyncPrg90(i7)}
    BY <2>1
  <2> QED
    BY <1>4, <2>2, Zenon DEF i1, i2, i3, i4, i5, i6, i7
<1>8. /\ Sound(c, With(b, [b.reg EXCEPT !.factors = factors]))
      /\ With(b, [b.reg EXCEPT !.factors = factors]).reg \in Reg90
      /\ Sound(c, With(b, [b.reg EXCEPT !.ram = v]))
      /\ With(b, [b.reg EXCEPT !.ram = v]).reg \in Reg90
      /\ Sound(c, SyncPrg90(With(b, [b.reg EXCEPT !.prg = prg])))
      /\ SyncPrg90(With(b, [b.reg EXCEPT !.prg = prg])).reg \in Reg90
      /\ Sound(c, SyncChr90(With(b, [b.reg EXCEPT !.low = low])))
      /\ SyncChr90(With(b, [b.reg EXCEPT !.low = low])).reg \in Reg90
      /\ Sound(c, SyncChr90(With(b, [b.reg EXCEPT !.high = high])))
      /\ SyncChr90(With(b, [b.reg EXCEPT !.high = high])).reg \in Reg90
      /\ Sound(c, SyncPrg90(With(b, [b.reg EXCEPT !.banks = banks])))
      /\ SyncPrg90(With(b, [b.reg EXCEPT !.banks = banks])).reg \in Reg90
      /\ Sound(c, SyncPrg90(With(b, [b.reg EXCEPT !.mode = v])))
      /\ SyncPrg90(With(b, [b.reg EXCEPT !.mode = v])).reg \in Reg90
  BY <1>1, <1>3, Zenon
<1> QED
  BY <1>6, <1>7, <1>8, Zenon

-----------------------------------------------------------------------------
(* MMC1: whatever its registers hold, all of it is shown.                  *)

LEMMA Shown1Keeps ==
  ASSUME NEW c, Sized(c), NEW b, Sound(c, b), b.reg \in Reg1, c.id \notin KeepsVectors
  PROVE  Sound(c, Shown1(b)) /\ Shown1(b).reg = b.reg
<1> DEFINE r == b.reg.r
           arranged ==
             Mirror(b, <<SingleLow, SingleHigh, Vertical, Horizontal>>[1 + Bits(r[0], 0, 2)])
           patterned ==
             CASE b.banks > 0 /\ Bit(r[0], 4) = 1 -> Chr(Chr(arranged, 0, 4, r[1]), 4, 4, r[2])
               [] b.banks > 0 /\ Bit(r[0], 4) = 0 -> Chr(arranged, 0, 8, r[1] \div 2)
               [] b.banks = 0 /\ Bit(r[0], 4) = 1 ->
                    ChrRam(ChrRam(arranged, 0, 4, r[1] % 2), 4, 4, r[2] % 2)
               [] OTHER -> arranged
           bank == Bits(r[3], 0, 4)
           mode == Bits(r[0], 2, 2)
<1>1. Shown1(b) =
        CASE mode = 2 -> Prg(Prg(patterned, 8, 2, 0), 12, 2, bank)
          [] mode = 3 -> Prg(Prg(patterned, 8, 2, bank), 12, 2, 15)
          [] OTHER -> Prg(patterned, 8, 4, bank \div 2)
  BY Zenon DEF Shown1
<1>2. r \in [0..3 -> Nat]
  BY DEF Reg1
<1>3. bank \in 0..15
  <2>1. r[3] \in Nat
    BY <1>2
  <2> QED
    BY <2>1, BitsAre
<1>4. Sound(c, arranged) /\ arranged.reg = b.reg
  BY MirrorKeeps, BoardFields
<1> HIDE DEF arranged
<1>5. Sound(c, patterned) /\ patterned.reg = b.reg
  <2> DEFINE x == Chr(arranged, 0, 4, r[1])
             y == ChrRam(arranged, 0, 4, r[1] % 2)
  <2>1. Sound(c, x) /\ x.reg = b.reg
    BY <1>4, ChrKeeps, BoardFields
  <2>2. /\ Sound(c, Chr(arranged, 0, 8, r[1] \div 2))
        /\ Chr(arranged, 0, 8, r[1] \div 2).reg = b.reg
    BY <1>4, ChrKeeps, BoardFields
  <2>3. r[1] % 2 \in {0, 1} /\ r[2] % 2 \in {0, 1}
    BY <1>2
  <2>4. (0 * 4) + 4 <= RamBanks(c.id) /\ (1 * 4) + 4 <= RamBanks(c.id)
    BY DEF RamBanks
  <2>5. Sound(c, y) /\ y.reg = b.reg
    BY <1>4, <2>3, <2>4, ChrRamKeeps, BoardFields
  <2> HIDE DEF x, y, r
  <2>6. Sound(c, Chr(x, 4, 4, r[2])) /\ Chr(x, 4, 4, r[2]).reg = b.reg
    BY <2>1, ChrKeeps, BoardFields
  <2>7. Sound(c, ChrRam(y, 4, 4, r[2] % 2)) /\ ChrRam(y, 4, 4, r[2] % 2).reg = b.reg
    BY <2>3, <2>4, <2>5, ChrRamKeeps, BoardFields
  <2>8. patterned \in {Chr(x, 4, 4, r[2]), Chr(arranged, 0, 8, r[1] \div 2),
                       ChrRam(y, 4, 4, r[2] % 2), arranged}
    BY DEF x, y
  <2> QED
    BY <1>4, <2>2, <2>6, <2>7, <2>8
<1> HIDE DEF patterned, bank, mode
<1>6. bank \div 2 \in Int /\ bank \in Int
  BY <1>3
<1>7. /\ Sound(c, Prg(patterned, 8, 2, 0)) /\ Prg(patterned, 8, 2, 0).reg = b.reg
      /\ Sound(c, Prg(patterned, 8, 2, bank)) /\ Prg(patterned, 8, 2, bank).reg = b.reg
      /\ Sound(c, Prg(patterned, 8, 4, bank \div 2))
      /\ Prg(patterned, 8, 4, bank \div 2).reg = b.reg
  BY <1>5, <1>6, PrgKeeps
<1>8. /\ Sound(c, Prg(Prg(patterned, 8, 2, 0), 12, 2, bank))
      /\ Prg(Prg(patterned, 8, 2, 0), 12, 2, bank).reg = b.reg
      /\ Sound(c, Prg(Prg(patterned, 8, 2, bank), 12, 2, 15))
      /\ Prg(Prg(patterned, 8, 2, bank), 12, 2, 15).reg = b.reg
  BY <1>6, <1>7, PrgKeeps
<1> QED
  BY <1>1, <1>7, <1>8

LEMMA Typed1 ==
  ASSUME NEW s \in Reg1, NEW f \in [0..3 -> Nat], NEW n \in Nat, NEW m \in 0..4
  PROVE  /\ [s EXCEPT !.latch = n, !.count = m, !.r = f] \in Reg1
         /\ [s EXCEPT !.r = f, !.latch = n, !.count = m] \in Reg1
         /\ [s EXCEPT !.latch = n, !.count = m] \in Reg1
  BY DEF Reg1

LEMMA Keeps1 ==
  ASSUME NEW c, Sized(c), NEW b, Sound(c, b), b.reg \in Reg1, c.id \notin KeepsVectors,
         NEW a \in Nat, NEW v \in Nat
  PROVE  Sound(c, Write1(b, a, v, LongGap)) /\ Write1(b, a, v, LongGap).reg \in Reg1
<1> DEFINE latch == b.reg.latch + (2^(b.reg.count) * Bit(v, 0))
           i == (Digit(a) - 8) \div 2
           first == b.reg.r[0] + (12 - (4 * Bits(b.reg.r[0], 2, 2)))
           cleared == [b EXCEPT !.reg.latch = 0, !.reg.count = 0, !.reg.r[0] = first]
           shifted == [b EXCEPT !.reg.latch = latch, !.reg.count = @ + 1]
           stored == [b EXCEPT !.reg.r[i] = latch, !.reg.latch = 0, !.reg.count = 0]
<1>1. Write1(b, a, v, LongGap) =
        IF Bit(v, 7) = 1 THEN Shown1(cleared)
        ELSE IF b.reg.count < 4 THEN shifted ELSE Shown1(stored)
  BY DEF Write1, LongGap
<1>2. /\ b.reg.r \in [0..3 -> Nat] /\ b.reg.latch \in Nat /\ b.reg.count \in 0..4
  BY DEF Reg1
<1>3. latch \in Nat
  <2>1. b.reg.count \in {0, 1, 2, 3, 4}
    BY <1>2
  <2>2. 2^(b.reg.count) \in {2^0, 2^1, 2^2, 2^3, 2^4}
    BY <2>1, Zenon
  <2>3. 2^(b.reg.count) \in Nat
    BY <2>2
  <2>4. Bit(v, 0) \in {0, 1}
    BY BitIs
  <2> QED
    BY <1>2, <2>3, <2>4
<1>4. first \in Nat
  <2>1. b.reg.r[0] \in Nat
    BY <1>2
  <2>2. Bits(b.reg.r[0], 2, 2) \in 0..3
    BY <2>1, BitsAre
  <2> QED
    BY <2>1, <2>2
<1> HIDE DEF first, latch, i
<1>5. ASSUME NEW r \in Reg1
      PROVE  /\ Sound(c, With(b, r)) /\ With(b, r).reg = r
             /\ Sound(c, Shown1(With(b, r))) /\ Shown1(With(b, r)).reg = r
  BY WithKeeps, Shown1Keeps
<1> DEFINE bottom == [b.reg.r EXCEPT ![0] = first]
           filled == [b.reg.r EXCEPT ![i] = latch]
<1>6. /\ cleared = With(b, [b.reg EXCEPT !.latch = 0, !.count = 0, !.r[0] = first])
      /\ shifted = With(b, [b.reg EXCEPT !.latch = latch, !.count = @ + 1])
      /\ stored = With(b, [b.reg EXCEPT !.r[i] = latch, !.latch = 0, !.count = 0])
  BY DEF Sound, Begun, With
<1>7. /\ cleared = With(b, [b.reg EXCEPT !.latch = 0, !.count = 0, !.r = bottom])
      /\ stored = With(b, [b.reg EXCEPT !.r = filled, !.latch = 0, !.count = 0])
  BY <1>6, <1>2
<1>8. bottom \in [0..3 -> Nat] /\ filled \in [0..3 -> Nat]
  BY <1>2, <1>3, <1>4
<1> HIDE DEF bottom, filled
<1>0. 0 \in Nat /\ 0 \in 0..4
  OBVIOUS
<1>9. [b.reg EXCEPT !.latch = 0, !.count = 0, !.r = bottom] \in Reg1
  BY <1>0, <1>8, Typed1, Zenon
<1>10. [b.reg EXCEPT !.r = filled, !.latch = 0, !.count = 0] \in Reg1
  BY <1>0, <1>8, Typed1, Zenon
<1>11. ASSUME b.reg.count < 4
       PROVE  [b.reg EXCEPT !.latch = latch, !.count = @ + 1] \in Reg1
  <2>1. b.reg.count + 1 \in 0..4
    BY <1>2, <1>11
  <2> QED
    BY <1>3, <2>1 DEF Reg1
<1> HIDE DEF cleared, shifted, stored
<1>12. Sound(c, Shown1(cleared)) /\ Shown1(cleared).reg \in Reg1
  BY <1>5, <1>7, <1>9
<1>13. Sound(c, Shown1(stored)) /\ Shown1(stored).reg \in Reg1
  BY <1>5, <1>7, <1>10
<1>14. b.reg.count < 4 => Sound(c, shifted) /\ shifted.reg \in Reg1
  BY <1>5, <1>6, <1>11
<1> QED
  BY <1>1, <1>12, <1>13, <1>14

LEMMA Power1Sound ==
  ASSUME NEW c, Sized(c)
  PROVE  Sound(c, Power1(c, NoGap)) /\ Power1(c, NoGap).reg \in Reg1
<1> DEFINE reg == [r |-> Zeros(0..3), latch |-> 0, count |-> 0]
<1>1. Power1(c, NoGap) = Patterns(FirstAndLast(Blank(c, reg)))
  BY DEF Power1, Write1, NoGap
<1>2. reg \in Reg1
  BY DEF Reg1, Zeros
<1> QED
  BY <1>1, <1>2, Powered

-----------------------------------------------------------------------------
(* MMC5: RAM over the ROM, block by block.                                 *)

Blocks == (0..1) \X (0..7)
Windows == {w \in [6..13 -> {NoWindow} \cup Blocks] :
              \A s \in {6, 8, 10, 12} : (w[s] = NoWindow) <=> (w[s + 1] = NoWindow)}
Reg5 == [prgMode : Nat, chrMode : Nat, upper : Nat, last : {"A", "B"},
         bg : [0..7 -> Nat], sp : [0..7 -> Nat], window : Windows]

LEMMA BlockIs ==
  ASSUME NEW n \in 0..1, NEW m \in 0..7
  PROVE  <<n, m>> \in Blocks /\ <<n, m>> # NoWindow
  BY DEF Blocks, NoWindow, Open

Showing(b, w) == [b EXCEPT !.reg.window = w]

LEMMA WindowKeeps ==
  ASSUME NEW c, NEW b, Sound(c, b), b.reg \in Reg5, NEW w \in Windows
  PROVE  Sound(c, Showing(b, w)) /\ Showing(b, w).reg \in Reg5
<1> DEFINE r == [b.reg EXCEPT !.window = w]
<1>1. Showing(b, w) = With(b, r)
  BY DEF Sound, Begun, With, Showing
<1>2. r \in Reg5
  BY DEF Reg5
<1> HIDE DEF r
<1> QED
  BY <1>1, <1>2, WithKeeps

\* The places a window can be: its first slot and its length.
Places == {<<6, 2>>, <<8, 2>>, <<8, 4>>, <<10, 2>>, <<12, 2>>}

LEMMA CoveredKeeps ==
  ASSUME NEW c, NEW b, Sound(c, b), b.reg \in Reg5, NEW slot, NEW blocks,
         <<slot, blocks>> \in Places, NEW v \in Nat
  PROVE  Sound(c, Covered(b, slot, blocks, v)) /\ Covered(b, slot, blocks, v).reg \in Reg5
<1> DEFINE start == ((v % 4) * blocks) % 8
           block(s) == <<Bit(v, 2), start + (IF blocks = 4 THEN s - slot ELSE 0)>>
           over == slot..(slot + blocks - 1)
           w == [s \in 6..13 |-> IF s \in over THEN block(s) ELSE b.reg.window[s]]
<1>1. Covered(b, slot, blocks, v) = Showing(b, w)
  BY Zenon DEF Covered, Showing
<1>2. slot \in {6, 8, 10, 12} /\ blocks \in {2, 4}
  BY DEF Places
<1>3. b.reg.window \in Windows
  BY DEF Reg5
<1>4. /\ b.reg.window \in [6..13 -> {NoWindow} \cup Blocks]
      /\ \A s \in {6, 8, 10, 12} :
           (b.reg.window[s] = NoWindow) <=> (b.reg.window[s + 1] = NoWindow)
  BY <1>3, Zenon DEF Windows
<1>5. ASSUME NEW s \in 6..13, s \in over
      PROVE  block(s) \in Blocks /\ block(s) # NoWindow
  <2>1. blocks = 2 => start \in 0..7
    BY <1>2
  <2>2. blocks = 4 => start \in {0, 4} /\ s - slot \in 0..3
    BY <1>2, <1>5
  <2>3. Bit(v, 2) \in 0..1
    BY BitIs
  <2> HIDE DEF start, over
  <2>4. start + (IF blocks = 4 THEN s - slot ELSE 0) \in 0..7
    BY <1>2, <2>1, <2>2
  <2> QED
    BY <2>3, <2>4, BlockIs
<1>6. ASSUME NEW s \in {6, 8, 10, 12}
      PROVE  (s \in over) <=> (s + 1 \in over)
  BY <1>2
<1> HIDE DEF block, over
<1>7. ASSUME NEW s \in 6..13
      PROVE  /\ w[s] \in {NoWindow} \cup Blocks
             /\ w[s] = NoWindow <=> s \notin over /\ b.reg.window[s] = NoWindow
  BY <1>4, <1>5
<1>8. w \in [6..13 -> {NoWindow} \cup Blocks]
  BY <1>7
<1> HIDE DEF w
<1>9. ASSUME NEW s \in {6, 8, 10, 12}
      PROVE  (w[s] = NoWindow) <=> (w[s + 1] = NoWindow)
  <2>1. s \in 6..13 /\ s + 1 \in 6..13
    OBVIOUS
  <2> QED
    BY <2>1, <1>4, <1>6, <1>7, Zenon
<1>10. w \in Windows
  BY <1>8, <1>9, Zenon DEF Windows
<1> QED
  BY <1>1, <1>10, WindowKeeps

LEMMA UncoveredKeeps ==
  ASSUME NEW c, NEW b, Sound(c, b), b.reg \in Reg5, NEW slots,
         \A s \in {6, 8, 10, 12} : (s \in slots) <=> (s + 1 \in slots)
  PROVE  Sound(c, Uncovered(b, slots)) /\ Uncovered(b, slots).reg \in Reg5
<1> DEFINE w == [s \in 6..13 |-> IF s \in slots THEN NoWindow ELSE b.reg.window[s]]
<1>1. Uncovered(b, slots) = Showing(b, w)
  BY Zenon DEF Uncovered, Showing
<1>2. b.reg.window \in Windows
  BY DEF Reg5
<1>3. /\ b.reg.window \in [6..13 -> {NoWindow} \cup Blocks]
      /\ \A s \in {6, 8, 10, 12} :
           (b.reg.window[s] = NoWindow) <=> (b.reg.window[s + 1] = NoWindow)
  BY <1>2, Zenon DEF Windows
<1>4. ASSUME NEW s \in 6..13
      PROVE  /\ w[s] \in {NoWindow} \cup Blocks
             /\ w[s] = NoWindow <=> s \in slots \/ b.reg.window[s] = NoWindow
  BY <1>3
<1>5. w \in [6..13 -> {NoWindow} \cup Blocks]
  BY <1>4
<1> HIDE DEF w
<1>6. ASSUME NEW s \in {6, 8, 10, 12}
      PROVE  (w[s] = NoWindow) <=> (w[s + 1] = NoWindow)
  <2>1. s \in 6..13 /\ s + 1 \in 6..13
    OBVIOUS
  <2> QED
    BY <2>1, <1>3, <1>4, Zenon
<1>7. w \in Windows
  BY <1>5, <1>6, Zenon DEF Windows
<1> QED
  BY <1>1, <1>7, WindowKeeps

LEMMA Shown5Keeps ==
  ASSUME NEW c, NEW b, Sound(c, b)
  PROVE  Sound(c, Shown5(b)) /\ Shown5(b).reg = b.reg
<1> DEFINE set == IF b.reg.last = "A" THEN b.reg.sp ELSE b.reg.bg
           size == 8 \div 2^(b.reg.chrMode)
           number(s) == set[s - (s % size) + size - 1] + b.reg.upper
           chr == [s \in ChrSlots |->
                     <<"rom", ((number(s) * size) + (s % size)) % b.banks>>]
           d == [b EXCEPT !.chr = chr]
<1>1. Shown5(b) = d
  BY Zenon DEF Shown5
<1>2. ASSUME NEW s \in ChrSlots PROVE chr[s][1] # "ram"
  <2> DEFINE n == ((number(s) * size) + (s % size)) % b.banks
  <2>1. chr[s] = <<"rom", n>>
    BY Zenon
  <2> HIDE DEF n, chr
  <2> QED
    BY <2>1
<1> HIDE DEF chr
<1>3. d = [id |-> c.id, pages |-> c.pages, banks |-> c.banks, prg |-> b.prg,
           chr |-> chr, mir |-> b.mir, reg |-> b.reg]
  BY DEF Sound, Begun
<1> HIDE DEF d
<1>4. Begun(c, d)
  BY <1>2, <1>3 DEF Sound, Begun
<1>5. Sound(c, d) /\ d.reg = b.reg
  BY <1>3, <1>4 DEF Sound
<1> QED
  BY <1>1, <1>5

LEMMA RomOrRamKeeps ==
  ASSUME NEW c, Sized(c), NEW b, Sound(c, b), b.reg \in Reg5, c.id \notin KeepsVectors,
         NEW slot, NEW blocks, <<slot, blocks>> \in Places, NEW v \in Nat
  PROVE  /\ Sound(c, RomOrRam(b, slot, blocks, v))
         /\ RomOrRam(b, slot, blocks, v).reg \in Reg5
<1> DEFINE slots == slot..(slot + blocks - 1)
           half == blocks \div 2
           d == Uncovered(b, slots)
           num == Bits(v, 0, 7) \div half
<1>1. RomOrRam(b, slot, blocks, v) =
        IF Bit(v, 7) = 0 THEN Covered(b, slot, blocks, v) ELSE Prg(d, slot, half, num)
  BY Zenon DEF RomOrRam
<1>2. slot \in {6, 8, 10, 12} /\ blocks \in {2, 4}
  BY DEF Places
<1>3. \A s \in {6, 8, 10, 12} : (s \in slots) <=> (s + 1 \in slots)
  BY <1>2
<1> HIDE DEF slots
<1>4. Sound(c, d) /\ d.reg \in Reg5
  BY <1>3, UncoveredKeeps
<1> HIDE DEF d
<1>5. half \in {1, 2} /\ Bits(v, 0, 7) \in Nat
  BY <1>2 DEF Bits
<1> HIDE DEF half
<1>6. num \in Int
  BY <1>5
<1> HIDE DEF num
<1>7. Sound(c, Prg(d, slot, half, num)) /\ Prg(d, slot, half, num).reg = d.reg
  BY <1>2, <1>4, <1>5, <1>6, PrgKeeps
<1> QED
  BY <1>1, <1>4, <1>7, CoveredKeeps

LEMMA WritePrg5Keeps ==
  ASSUME NEW c, Sized(c), NEW b, Sound(c, b), b.reg \in Reg5, c.id \notin KeepsVectors,
         NEW a, NEW v \in Nat
  PROVE  Sound(c, WritePrg5(b, a, v)) /\ WritePrg5(b, a, v).reg \in Reg5
<1> DEFINE d == Uncovered(b, 8..13)
           e == Uncovered(b, 12..13)
<1>1. WritePrg5(b, a, v) \in
        {RomOrRam(b, 8, 2, v), RomOrRam(b, 8, 4, v), RomOrRam(b, 10, 2, v),
         RomOrRam(b, 12, 2, v), Prg(d, 8, 4, Bits(v, 2, 5)), Prg(e, 12, 2, Bits(v, 1, 6)),
         Prg(b, 14, 1, Bits(v, 0, 7)), b}
  BY DEF WritePrg5
<1>2. /\ <<8, 2>> \in Places /\ <<8, 4>> \in Places /\ <<10, 2>> \in Places
      /\ <<12, 2>> \in Places
  BY DEF Places
<1>3. /\ Sound(c, RomOrRam(b, 8, 2, v)) /\ RomOrRam(b, 8, 2, v).reg \in Reg5
      /\ Sound(c, RomOrRam(b, 8, 4, v)) /\ RomOrRam(b, 8, 4, v).reg \in Reg5
      /\ Sound(c, RomOrRam(b, 10, 2, v)) /\ RomOrRam(b, 10, 2, v).reg \in Reg5
      /\ Sound(c, RomOrRam(b, 12, 2, v)) /\ RomOrRam(b, 12, 2, v).reg \in Reg5
  BY <1>2, RomOrRamKeeps
<1>4. /\ \A s \in {6, 8, 10, 12} : (s \in 8..13) <=> (s + 1 \in 8..13)
      /\ \A s \in {6, 8, 10, 12} : (s \in 12..13) <=> (s + 1 \in 12..13)
  OBVIOUS
<1>5. Sound(c, d) /\ d.reg \in Reg5 /\ Sound(c, e) /\ e.reg \in Reg5
  BY <1>4, UncoveredKeeps, Zenon
<1> HIDE DEF d, e
<1>6. Bits(v, 2, 5) \in Int /\ Bits(v, 1, 6) \in Int /\ Bits(v, 0, 7) \in Int
  BY DEF Bits
<1>7. /\ Sound(c, Prg(d, 8, 4, Bits(v, 2, 5))) /\ Prg(d, 8, 4, Bits(v, 2, 5)).reg = d.reg
      /\ Sound(c, Prg(e, 12, 2, Bits(v, 1, 6))) /\ Prg(e, 12, 2, Bits(v, 1, 6)).reg = e.reg
      /\ Sound(c, Prg(b, 14, 1, Bits(v, 0, 7))) /\ Prg(b, 14, 1, Bits(v, 0, 7)).reg = b.reg
  BY <1>5, <1>6, PrgKeeps
<1> QED
  BY <1>1, <1>3, <1>5, <1>7

LEMMA Reg5Keeps ==
  ASSUME NEW s \in Reg5, NEW n \in Nat, NEW i \in 0..7, NEW j \in 0..7
  PROVE  /\ [s EXCEPT !.prgMode = n] \in Reg5
         /\ [s EXCEPT !.chrMode = n] \in Reg5
         /\ [s EXCEPT !.upper = n] \in Reg5
         /\ [s EXCEPT !.last = "A", !.sp[i] = n] \in Reg5
         /\ [s EXCEPT !.last = "B", !.bg[i] = n, !.bg[j] = n] \in Reg5
<1> DEFINE sp == [s.sp EXCEPT ![i] = n]
           bg == [[s.bg EXCEPT ![i] = n] EXCEPT ![j] = n]
<1>1. sp \in [0..7 -> Nat] /\ bg \in [0..7 -> Nat]
  BY DEF Reg5
<1>2. /\ [s EXCEPT !.last = "A", !.sp[i] = n] = [s EXCEPT !.last = "A", !.sp = sp]
      /\ [s EXCEPT !.last = "B", !.bg[i] = n, !.bg[j] = n]
           = [s EXCEPT !.last = "B", !.bg = bg]
  BY DEF Reg5
<1> HIDE DEF sp, bg
<1>3. [s EXCEPT !.last = "A", !.sp = sp] \in Reg5
  BY <1>1 DEF Reg5
<1>4. [s EXCEPT !.last = "B", !.bg = bg] \in Reg5
  BY <1>1 DEF Reg5
<1>5. /\ [s EXCEPT !.prgMode = n] \in Reg5
      /\ [s EXCEPT !.chrMode = n] \in Reg5
      /\ [s EXCEPT !.upper = n] \in Reg5
  BY DEF Reg5
<1> QED
  BY <1>2, <1>3, <1>4, <1>5

LEMMA Keeps5 ==
  ASSUME NEW c, Sized(c), NEW b, Sound(c, b), b.reg \in Reg5, c.id \notin KeepsVectors,
         NEW a \in Nat, NEW v \in Nat
  PROVE  Sound(c, Write5(b, a, v)) /\ Write5(b, a, v).reg \in Reg5
<1> DEFINE i == a % 8
           j == (i + 4) % 8
           d0 == [b EXCEPT !.reg.prgMode = v % 4]
           d1 == [b EXCEPT !.reg.chrMode = v % 4]
           d2 == [b EXCEPT !.reg.last = "A", !.reg.sp[i] = v]
           d3 == [b EXCEPT !.reg.last = "B", !.reg.bg[i] = v, !.reg.bg[j] = v]
           d4 == [b EXCEPT !.reg.upper = 256 * v]
<1>1. Write5(b, a, v) \in
        {d0, Shown5(d1), Mirror(b, v), Covered(b, 6, 2, v), WritePrg5(b, a, v),
         Shown5(d2), Shown5(d3), Shown5(d4), b}
  BY DEF Write5
<1>2. i \in 0..7 /\ j \in 0..7 /\ v % 4 \in Nat /\ 256 * v \in Nat
  OBVIOUS
<1> HIDE DEF i, j
<1>3. /\ d0 = With(b, [b.reg EXCEPT !.prgMode = v % 4])
      /\ d1 = With(b, [b.reg EXCEPT !.chrMode = v % 4])
      /\ d2 = With(b, [b.reg EXCEPT !.last = "A", !.sp[i] = v])
      /\ d4 = With(b, [b.reg EXCEPT !.upper = 256 * v])
  BY DEF Sound, Begun, With
<1>4. d3 = With(b, [b.reg EXCEPT !.last = "B", !.bg[i] = v, !.bg[j] = v])
  BY DEF Sound, Begun, With
<1>5. ASSUME NEW r \in Reg5
      PROVE  Sound(c, With(b, r)) /\ With(b, r).reg \in Reg5
  BY WithKeeps
<1>6. /\ [b.reg EXCEPT !.prgMode = v % 4] \in Reg5
      /\ [b.reg EXCEPT !.chrMode = v % 4] \in Reg5
      /\ [b.reg EXCEPT !.last = "A", !.sp[i] = v] \in Reg5
      /\ [b.reg EXCEPT !.last = "B", !.bg[i] = v, !.bg[j] = v] \in Reg5
      /\ [b.reg EXCEPT !.upper = 256 * v] \in Reg5
  BY <1>2, Reg5Keeps, Zenon
<1> HIDE DEF d0, d1, d2, d3, d4
<1>7. /\ Sound(c, d0) /\ d0.reg \in Reg5 /\ Sound(c, d1) /\ d1.reg \in Reg5
      /\ Sound(c, d2) /\ d2.reg \in Reg5 /\ Sound(c, d3) /\ d3.reg \in Reg5
      /\ Sound(c, d4) /\ d4.reg \in Reg5
  BY <1>3, <1>4, <1>5, <1>6, Zenon
<1>8. /\ Sound(c, Shown5(d1)) /\ Shown5(d1).reg \in Reg5
      /\ Sound(c, Shown5(d2)) /\ Shown5(d2).reg \in Reg5
      /\ Sound(c, Shown5(d3)) /\ Shown5(d3).reg \in Reg5
      /\ Sound(c, Shown5(d4)) /\ Shown5(d4).reg \in Reg5
  BY <1>7, Shown5Keeps
<1>9. Sound(c, Mirror(b, v)) /\ Mirror(b, v).reg \in Reg5
  BY MirrorKeeps, BoardFields
<1>10. <<6, 2>> \in Places
  BY DEF Places
<1>11. Sound(c, Covered(b, 6, 2, v)) /\ Covered(b, 6, 2, v).reg \in Reg5
  BY <1>10, CoveredKeeps
<1> QED
  BY <1>1, <1>7, <1>8, <1>9, <1>11, WritePrg5Keeps

LEMMA Power5Sound ==
  ASSUME NEW c, Sized(c)
  PROVE  Sound(c, Power5(c)) /\ Power5(c).reg \in Reg5
<1> DEFINE bank == Zeros(0..7)
           window == [s \in 6..13 |-> NoWindow]
           reg == [prgMode |-> 3, chrMode |-> 0, upper |-> 0, last |-> "A",
                   bg |-> bank, sp |-> bank, window |-> window]
           d == Blank(c, reg)
           f == Prg(Prg(Prg(Prg(d, 8, 1, -1), 10, 1, -1), 12, 1, -1), 14, 1, -1)
<1>1. Begun(c, d) /\ d.reg = reg
  BY BlankBegun
<1>2. Power5(c) = f
  BY Zenon DEF Power5
<1> HIDE DEF d
<1>3. Filled(c, d, f, -1)
  BY <1>1, FilledSingly
<1> HIDE DEF f
<1>4. Sound(c, f) /\ f.reg = reg
  BY <1>1, <1>3, FilledIsSound
<1>5. bank \in [0..7 -> Nat]
  BY DEF Zeros
<1>6. window \in Windows
  BY DEF Windows
<1> HIDE DEF bank, window
<1>7. reg \in Reg5
  BY <1>5, <1>6 DEF Reg5
<1> QED
  BY <1>2, <1>4, <1>7

-----------------------------------------------------------------------------
(* What the constructors of the chips leave.                               *)

LEMMA ChipPowers ==
  ASSUME NEW c, Sized(c)
  PROVE  /\ Sound(c, Power4(c)) /\ Power4(c).reg \in Reg4
         /\ Sound(c, PowerVrc(c)) /\ PowerVrc(c).reg \in RegVrc
         /\ Sound(c, PowerBandai(c))
         /\ Sound(c, Power18(c)) /\ Power18(c).reg \in Reg18
         /\ Sound(c, Power19(c))
         /\ Sound(c, Power90(c)) /\ Power90(c).reg \in Reg90
<1> DEFINE reg4 == [command |-> 0, chr |-> Zeros(0..7), prg |-> <<0, 0>>,
                    enabled |-> FALSE, writable |-> FALSE]
           vrc == [chr |-> [i \in 0..7 |-> i], prg |-> 0, mode |-> 0, latch |-> 0]
           reg18 == [prg |-> Zeros(0..7), chr |-> Zeros(0..15)]
           reg90 == [prg |-> Zeros(0..3), low |-> Zeros(0..7), high |-> Zeros(0..7),
                     banks |-> 0, mode |-> 0, factors |-> <<0, 0>>, ram |-> 0]
<1>1. reg4 \in Reg4
  <2>1. Zeros(0..7) \in [0..7 -> Byte]
    BY DEF Zeros, Byte
  <2> QED
    BY <2>1 DEF Reg4
<1>2. vrc \in RegVrc
  BY DEF RegVrc
<1>3. reg18 \in Reg18
  BY DEF Reg18, Zeros
<1>4. reg90 \in Reg90
  <2>1. /\ Zeros(0..3) \in [0..3 -> Nat] /\ Zeros(0..7) \in [0..7 -> Nat]
        /\ <<0, 0>> \in [1..2 -> Nat]
    BY DEF Zeros
  <2> QED
    BY <2>1 DEF Reg90
<1>5. /\ Power4(c) = Patterns(FirstAndLast(Blank(c, reg4)))
      /\ PowerVrc(c) = RomPatterns(FirstAndLast(Blank(c, vrc)))
      /\ PowerBandai(c) = RamPatterns(FirstAndLast(Blank(c, [none |-> 0])))
      /\ Power18(c) = Patterns(FirstAndLast(Blank(c, reg18)))
      /\ Power90(c) = RomPatterns(FirstAndLast(Blank(c, reg90)))
  BY Zenon DEF Power4, PowerVrc, PowerBandai, Power18, Power90
<1> HIDE DEF reg4, vrc, reg18, reg90
<1>6. Sound(c, Power4(c)) /\ Power4(c).reg \in Reg4
  BY <1>1, <1>5, Powered
<1>7. Sound(c, PowerVrc(c)) /\ PowerVrc(c).reg \in RegVrc
  BY <1>2, <1>5, Powered
<1>8. Sound(c, PowerBandai(c))
  BY <1>5, Powered
<1>9. Sound(c, Power18(c)) /\ Power18(c).reg \in Reg18
  BY <1>3, <1>5, Powered
<1>10. Sound(c, Power19(c))
  BY VectorsPower, Zenon DEF Power19
<1>11. Sound(c, Power90(c)) /\ Power90(c).reg \in Reg90
  BY <1>4, <1>5, Powered
<1> QED
  BY <1>6, <1>7, <1>8, <1>9, <1>10, <1>11

LEMMA Power64Sound ==
  ASSUME NEW c, Sized(c)
  PROVE  Sound(c, Power64(c)) /\ Power64(c).reg \in Reg64
<1> DEFINE r == [i \in (0..9) \cup {15} |->
                   CASE i < 6 -> i [] i \in {6, 7} -> i - 6 [] i \in {8, 9} -> i - 2
                     [] OTHER -> 254]
           reg == [command |-> 0, r |-> r]
<1>1. Power64(c) = RomPatterns(FirstAndLast(Blank(c, reg)))
  BY Zenon DEF Power64
<1>2. r \in [(0..9) \cup {15} -> Nat]
  OBVIOUS
<1> HIDE DEF r
<1>3. reg \in Reg64
  BY <1>2 DEF Reg64
<1> HIDE DEF reg
<1> QED
  BY <1>1, <1>3, Powered

LEMMA Power69Sound ==
  ASSUME NEW c, Sized(c)
  PROVE  Sound(c, Power69(c))
<1> DEFINE d == Blank(c, [command |-> 0, mode |-> 0])
           f == Prg(d, 6, 1, 0)
<1>1. Begun(c, d)
  BY BlankBegun
<1>2. Power69(c) = Patterns(FirstAndLast(f))
  BY Zenon DEF Power69
<1> HIDE DEF d
<1>3. Begun(c, f)
  BY <1>1, PrgIs
<1> HIDE DEF f
<1> QED
  BY <1>2, <1>3, FirstAndLastSound, PatternsKeep

-----------------------------------------------------------------------------
(* What is known of a board with a chip all the time.                      *)

AsicTyped(c, b) ==
  /\ c.id = 1 => b.reg \in Reg1
  /\ c.id \in {4, 118, 245} => b.reg \in Reg4
  /\ c.id = 5 => b.reg \in Reg5
  /\ c.id \in {21, 27} => b.reg \in RegVrc
  /\ c.id = 18 => b.reg \in Reg18
  /\ c.id = 64 => b.reg \in Reg64
  /\ c.id = 90 => b.reg \in Reg90

ChipRegisters == {1, 4, 118, 245, 5, 21, 27, 18, 64, 90}

LEMMA ChipUntyped ==
  ASSUME NEW c, NEW b, c.id \notin ChipRegisters
  PROVE  AsicTyped(c, b)
  BY DEF AsicTyped, ChipRegisters

LEMMA AsicPowerSound ==
  ASSUME NEW c, Sized(c), c.id \in AsicBoards
  PROVE  Sound(c, AsicPower(c, NoGap)) /\ AsicTyped(c, AsicPower(c, NoGap))
<1>1. CASE c.id \in {1}
  <2>1. AsicPower(c, NoGap) = Power1(c, NoGap)
    BY <1>1 DEF AsicPower
  <2>2. Sound(c, Power1(c, NoGap)) /\ Power1(c, NoGap).reg \in Reg1
    BY Power1Sound
  <2> QED
    BY <1>1, <2>1, <2>2 DEF AsicTyped
<1>2. CASE c.id \in {4, 118, 245}
  <2>1. AsicPower(c, NoGap) = Power4(c)
    BY <1>2 DEF AsicPower
  <2>2. Sound(c, Power4(c)) /\ Power4(c).reg \in Reg4
    BY ChipPowers
  <2> QED
    BY <1>2, <2>1, <2>2 DEF AsicTyped
<1>3. CASE c.id \in {5}
  <2>1. AsicPower(c, NoGap) = Power5(c)
    BY <1>3 DEF AsicPower
  <2>2. Sound(c, Power5(c)) /\ Power5(c).reg \in Reg5
    BY Power5Sound
  <2> QED
    BY <1>3, <2>1, <2>2 DEF AsicTyped
<1>4. CASE c.id \in {21, 27}
  <2>1. AsicPower(c, NoGap) = PowerVrc(c)
    BY <1>4 DEF AsicPower
  <2>2. Sound(c, PowerVrc(c)) /\ PowerVrc(c).reg \in RegVrc
    BY ChipPowers
  <2> QED
    BY <1>4, <2>1, <2>2 DEF AsicTyped
<1>5. CASE c.id \in {22, 23, 24, 25, 26}
  <2>1. AsicPower(c, NoGap) = PowerVrc(c)
    BY <1>5 DEF AsicPower
  <2>2. Sound(c, PowerVrc(c))
    BY ChipPowers
  <2>3. c.id \notin ChipRegisters
    BY <1>5 DEF ChipRegisters
  <2> QED
    BY <2>1, <2>2, <2>3, ChipUntyped
<1>6. CASE c.id \in {16, 159}
  <2>1. AsicPower(c, NoGap) = PowerBandai(c)
    BY <1>6 DEF AsicPower
  <2>2. Sound(c, PowerBandai(c))
    BY ChipPowers
  <2>3. c.id \notin ChipRegisters
    BY <1>6 DEF ChipRegisters
  <2> QED
    BY <2>1, <2>2, <2>3, ChipUntyped
<1>7. CASE c.id \in {18}
  <2>1. AsicPower(c, NoGap) = Power18(c)
    BY <1>7 DEF AsicPower
  <2>2. Sound(c, Power18(c)) /\ Power18(c).reg \in Reg18
    BY ChipPowers
  <2> QED
    BY <1>7, <2>1, <2>2 DEF AsicTyped
<1>8. CASE c.id \in {19}
  <2>1. AsicPower(c, NoGap) = Power19(c)
    BY <1>8 DEF AsicPower
  <2>2. Sound(c, Power19(c))
    BY ChipPowers
  <2>3. c.id \notin ChipRegisters
    BY <1>8 DEF ChipRegisters
  <2> QED
    BY <2>1, <2>2, <2>3, ChipUntyped
<1>9. CASE c.id \in {64}
  <2>1. AsicPower(c, NoGap) = Power64(c)
    BY <1>9 DEF AsicPower
  <2>2. Sound(c, Power64(c)) /\ Power64(c).reg \in Reg64
    BY Power64Sound
  <2> QED
    BY <1>9, <2>1, <2>2 DEF AsicTyped
<1>10. CASE c.id \in {69}
  <2>1. AsicPower(c, NoGap) = Power69(c)
    BY <1>10 DEF AsicPower
  <2>2. Sound(c, Power69(c))
    BY Power69Sound
  <2>3. c.id \notin ChipRegisters
    BY <1>10 DEF ChipRegisters
  <2> QED
    BY <2>1, <2>2, <2>3, ChipUntyped
<1>11. CASE c.id \in {90}
  <2>1. AsicPower(c, NoGap) = Power90(c)
    BY <1>11 DEF AsicPower
  <2>2. Sound(c, Power90(c)) /\ Power90(c).reg \in Reg90
    BY ChipPowers
  <2> QED
    BY <1>11, <2>1, <2>2 DEF AsicTyped
<1> QED
  BY <1>1, <1>2, <1>3, <1>4, <1>5, <1>6, <1>7, <1>8, <1>9, <1>10, <1>11
     DEF AsicBoards

LEMMA AsicWriteKeeps ==
  ASSUME NEW c, Sized(c), Built(c), c.id \in AsicBoards, NEW b, Sound(c, b),
         AsicTyped(c, b), NEW a \in Nat, NEW v \in Nat, v < 256
  PROVE  /\ Sound(c, AsicWrite(b, a, v, LongGap))
         /\ AsicTyped(c, AsicWrite(b, a, v, LongGap))
<1>0. b.id = c.id
  BY BoardFields
<1>1. CASE c.id \in {1}
  <2>1. AsicWrite(b, a, v, LongGap) =
          IF a >= \h8000 THEN Write1(b, a, v, LongGap) ELSE b
    BY <1>0, <1>1 DEF AsicWrite
  <2>2. b.reg \in Reg1
    BY <1>1 DEF AsicTyped
  <2>3. c.id \notin KeepsVectors
    BY <1>1 DEF KeepsVectors
  <2>4. /\ Sound(c, AsicWrite(b, a, v, LongGap))
        /\ AsicWrite(b, a, v, LongGap).reg \in Reg1
    BY <2>1, <2>2, <2>3, Keeps1
  <2> QED
    BY <1>1, <2>4 DEF AsicTyped
<1>2. CASE c.id \in {4, 118, 245}
  <2>1. AsicWrite(b, a, v, LongGap) =
          Write4(b, a, v)
    BY <1>0, <1>2 DEF AsicWrite
  <2>2. b.reg \in Reg4
    BY <1>2 DEF AsicTyped
  <2>3. /\ Sound(c, AsicWrite(b, a, v, LongGap))
        /\ AsicWrite(b, a, v, LongGap).reg \in Reg4
    BY <2>1, <2>2, <1>2, Keeps4
  <2> QED
    BY <1>2, <2>3 DEF AsicTyped
<1>3. CASE c.id \in {5}
  <2>1. AsicWrite(b, a, v, LongGap) =
          Write5(b, a, v)
    BY <1>0, <1>3 DEF AsicWrite
  <2>2. b.reg \in Reg5
    BY <1>3 DEF AsicTyped
  <2>3. c.id \notin KeepsVectors
    BY <1>3 DEF KeepsVectors
  <2>4. /\ Sound(c, AsicWrite(b, a, v, LongGap))
        /\ AsicWrite(b, a, v, LongGap).reg \in Reg5
    BY <2>1, <2>2, <2>3, Keeps5
  <2> QED
    BY <1>3, <2>4 DEF AsicTyped
<1>4. CASE c.id \in {22, 23, 25}
  <2>1. AsicWrite(b, a, v, LongGap) =
          WriteVrc2(b, a, v)
    BY <1>0, <1>4 DEF AsicWrite
  <2>2. Sound(c, AsicWrite(b, a, v, LongGap))
    BY <2>1, Vrc2Keeps
  <2>3. c.id \notin ChipRegisters
    BY <1>4 DEF ChipRegisters
  <2> QED
    BY <2>2, <2>3, ChipUntyped
<1>5. CASE c.id \in {21, 27}
  <2>1. AsicWrite(b, a, v, LongGap) =
          IF a >= \h8000 THEN WriteVrc4(b, a, v) ELSE b
    BY <1>0, <1>5 DEF AsicWrite
  <2>2. b.reg \in RegVrc
    BY <1>5 DEF AsicTyped
  <2>3. /\ Sound(c, AsicWrite(b, a, v, LongGap))
        /\ AsicWrite(b, a, v, LongGap).reg \in RegVrc
    BY <2>1, <2>2, Vrc4Keeps
  <2> QED
    BY <1>5, <2>3 DEF AsicTyped
<1>6. CASE c.id \in {24, 26}
  <2>1. AsicWrite(b, a, v, LongGap) =
          IF a >= \h8000 THEN WriteVrc6(b, a, v) ELSE b
    BY <1>0, <1>6 DEF AsicWrite
  <2>2. Sound(c, AsicWrite(b, a, v, LongGap))
    BY <2>1, Vrc6Keeps
  <2>3. c.id \notin ChipRegisters
    BY <1>6 DEF ChipRegisters
  <2> QED
    BY <2>2, <2>3, ChipUntyped
<1>7. CASE c.id \in {16, 159}
  <2>1. AsicWrite(b, a, v, LongGap) =
          WriteBandai(b, a, v)
    BY <1>0, <1>7 DEF AsicWrite
  <2>2. Sound(c, AsicWrite(b, a, v, LongGap))
    BY <2>1, BandaiKeeps
  <2>3. c.id \notin ChipRegisters
    BY <1>7 DEF ChipRegisters
  <2> QED
    BY <2>2, <2>3, ChipUntyped
<1>8. CASE c.id \in {18}
  <2>1. AsicWrite(b, a, v, LongGap) =
          IF a >= \h8000 THEN Write18(b, a, v) ELSE b
    BY <1>0, <1>8 DEF AsicWrite
  <2>2. b.reg \in Reg18
    BY <1>8 DEF AsicTyped
  <2>3. /\ Sound(c, AsicWrite(b, a, v, LongGap))
        /\ AsicWrite(b, a, v, LongGap).reg \in Reg18
    BY <2>1, <2>2, Keeps18
  <2> QED
    BY <1>8, <2>3 DEF AsicTyped
<1>9. CASE c.id \in {19}
  <2>1. AsicWrite(b, a, v, LongGap) =
          IF a >= \h8000 THEN Write19(b, a, v) ELSE b
    BY <1>0, <1>9 DEF AsicWrite
  <2>2. Sound(c, AsicWrite(b, a, v, LongGap))
    BY <2>1, Keeps19
  <2>3. c.id \notin ChipRegisters
    BY <1>9 DEF ChipRegisters
  <2> QED
    BY <2>2, <2>3, ChipUntyped
<1>10. CASE c.id \in {64}
  <2>1. AsicWrite(b, a, v, LongGap) =
          IF a >= \h8000 THEN Write64(b, a, v) ELSE b
    BY <1>0, <1>10 DEF AsicWrite
  <2>2. b.reg \in Reg64
    BY <1>10 DEF AsicTyped
  <2>3. c.id \notin KeepsVectors
    BY <1>10 DEF KeepsVectors
  <2>4. /\ Sound(c, AsicWrite(b, a, v, LongGap))
        /\ AsicWrite(b, a, v, LongGap).reg \in Reg64
    BY <2>1, <2>2, <2>3, Keeps64
  <2> QED
    BY <1>10, <2>4 DEF AsicTyped
<1>11. CASE c.id \in {69}
  <2>1. AsicWrite(b, a, v, LongGap) =
          IF a >= \h8000 THEN Write69(b, a, v) ELSE b
    BY <1>0, <1>11 DEF AsicWrite
  <2>2. Sound(c, AsicWrite(b, a, v, LongGap))
    BY <2>1, Keeps69
  <2>3. c.id \notin ChipRegisters
    BY <1>11 DEF ChipRegisters
  <2> QED
    BY <2>2, <2>3, ChipUntyped
<1>12. CASE c.id \in {90}
  <2>1. AsicWrite(b, a, v, LongGap) =
          Write90(b, a, v)
    BY <1>0, <1>12 DEF AsicWrite
  <2>2. b.reg \in Reg90
    BY <1>12 DEF AsicTyped
  <2>3. c.id \notin KeepsVectors
    BY <1>12 DEF KeepsVectors
  <2>4. /\ Sound(c, AsicWrite(b, a, v, LongGap))
        /\ AsicWrite(b, a, v, LongGap).reg \in Reg90
    BY <2>1, <2>2, <2>3, Keeps90
  <2> QED
    BY <1>12, <2>4 DEF AsicTyped
<1> QED
  BY <1>1, <1>2, <1>3, <1>4, <1>5, <1>6, <1>7, <1>8, <1>9, <1>10, <1>11, <1>12
     DEF AsicBoards

-----------------------------------------------------------------------------
(* The cartridge under the accesses: the inductive invariant, and what     *)
(* follows from it.                                                        *)

Typed(c, b) == IF c.id \in DiscreteBoards THEN DiscreteTyped(c, b) ELSE AsicTyped(c, b)

Mapped ==
  /\ cart \in Carts
  /\ Sound(cart, board)
  /\ Typed(cart, board)

LEMMA CartIs ==
  ASSUME NEW c \in Carts
  PROVE  Sized(c) /\ Built(c) /\ c.id \in DiscreteBoards \cup AsicBoards
  BY CartsAssumption, BuiltAssumption DEF Sized, Built

LEMMA PowerMaps ==
  ASSUME NEW c \in Carts
  PROVE  Sound(c, Power(c)) /\ Typed(c, Power(c))
<1>1. Sized(c) /\ Built(c)
  BY CartIs
<1>2. CASE c.id \in DiscreteBoards
  <2>1. Power(c) = DiscretePower(c)
    BY <1>2 DEF Power
  <2> QED
    BY <1>1, <1>2, <2>1, DiscretePowerSound DEF Typed
<1>3. CASE c.id \notin DiscreteBoards
  <2>1. Power(c) = AsicPower(c, NoGap)
    BY <1>3 DEF Power
  <2>2. c.id \in AsicBoards
    BY <1>3, CartIs
  <2> QED
    BY <1>1, <1>3, <2>1, <2>2, AsicPowerSound DEF Typed
<1> QED
  BY <1>2, <1>3

LEMMA AccessMaps ==
  ASSUME NEW c \in Carts, NEW e \in Accesses(c.id), NEW b, Sound(c, b), Typed(c, b)
  PROVE  Sound(c, Accessed(b, e)) /\ Typed(c, Accessed(b, e))
<1>1. /\ Sized(c) /\ Built(c)
      /\ e.a \in Nat /\ e.v \in Nat /\ e.v < 256
      /\ e.read \in BOOLEAN /\ (e.read => c.id \in {9, 10})
  BY CartIs, AccessesAssumption
<1>2. b.id = c.id
  BY BoardFields
<1>3. CASE e.read
  <2>1. Accessed(b, e) = ReadPattern(b, e.a)
    BY <1>3 DEF Accessed
  <2>2. Sound(c, Accessed(b, e))
    BY <1>1, <2>1, LatchedKeeps
  <2>3. c.id \in DiscreteBoards /\ c.id \notin Registers
    BY <1>1, <1>3 DEF DiscreteBoards, Registers
  <2> QED
    BY <2>2, <2>3, Untyped DEF Typed
<1>4. CASE ~e.read /\ ~CartSees(e.a)
  <2>1. Accessed(b, e) = b
    BY <1>4 DEF Accessed
  <2> QED
    BY <2>1
<1>5. CASE ~e.read /\ CartSees(e.a) /\ c.id \in DiscreteBoards
  <2>1. Accessed(b, e) = DiscreteWrite(b, e.a, e.v)
    BY <1>2, <1>5 DEF Accessed
  <2> QED
    BY <1>1, <1>5, <2>1, DiscreteWriteKeeps DEF Typed
<1>6. CASE ~e.read /\ CartSees(e.a) /\ c.id \notin DiscreteBoards
  <2>1. Accessed(b, e) = AsicWrite(b, e.a, e.v, LongGap)
    BY <1>2, <1>6 DEF Accessed
  <2>2. c.id \in AsicBoards
    BY <1>6, CartIs
  <2> QED
    BY <1>1, <1>6, <2>1, <2>2, AsicWriteKeeps DEF Typed
<1> QED
  BY <1>3, <1>4, <1>5, <1>6

\* Whatever game writes to whatever registers, and whatever the PPU reads:
\* the map every board shows is one its cartridge has memory for, and what
\* its registers hold keeps it so at the next write.
THEOREM CartridgesMapped == BoardSpec => []Mapped
<1>1. BoardInit => Mapped
  BY PowerMaps DEF BoardInit, Mapped
<1>2. Mapped /\ [BoardNext]_boardVars => Mapped'
  <2> SUFFICES ASSUME Mapped, [BoardNext]_boardVars
               PROVE  Mapped'
    OBVIOUS
  <2>1. ASSUME NEW e \in Accesses(cart.id), BoardAccess(e)
        PROVE  Mapped'
    <3>1. board' = Accessed(board, e) /\ cart' = cart
      BY <2>1 DEF BoardAccess
    <3>2. Sound(cart, Accessed(board, e)) /\ Typed(cart, Accessed(board, e))
      BY AccessMaps DEF Mapped
    <3> QED
      BY <3>1, <3>2 DEF Mapped
  <2>2. CASE UNCHANGED boardVars
    BY <2>2 DEF boardVars, Mapped
  <2> QED
    BY <2>1, <2>2 DEF BoardNext
<1> QED
  BY <1>1, <1>2, PTL DEF BoardSpec

LEMMA NametablesInRom ==
  ASSUME NEW c, Sized(c), NEW b, Sound(c, b), b.reg \in Reg68, c.banks > 0,
         NEW q \in 0..3, Nametable68(b, q)[1] = "rom"
  PROVE  Nametable68(b, q)[2] \in 0..(c.banks - 1)
<1> DEFINE pick == IF Bit(b.reg.ctl, 0) = 1 THEN q \div 2 ELSE q % 2
           n == b.reg.table[1 + pick]
<1>1. Nametable68(b, q) = IF Bit(b.reg.ctl, 4) = 0 THEN <<"ram", Nametable(b, q)>>
                          ELSE <<"rom", n % b.banks>>
  BY Zenon DEF Nametable68
<1>2. 1 + pick \in 1..2
  BY DEF Bit
<1> HIDE DEF pick
<1>3. n \in Int
  BY <1>2 DEF Reg68
<1> HIDE DEF n
<1>4. b.banks = c.banks
  BY BoardFields
<1>5. n % c.banks \in 0..(c.banks - 1)
  <2>1. c.banks \in Nat \ {0}
    BY DEF Sized
  <2> QED
    BY <1>3, <2>1, Remainder
<1> QED
  BY <1>1, <1>4, <1>5

\* For every cartridge there is a board for, after any accesses: ROM in every
\* slot from $8000 on, the vectors where they belong, no pattern behind the
\* RAM, and the windows of MMC5, FME-7 and Sunsoft-4 on memory they have.
THEOREM CartsStayMapped == BoardSpec => []CartStaysMapped
<1>1. Mapped => CartStaysMapped
  <2> SUFFICES ASSUME Mapped PROVE CartStaysMapped
    OBVIOUS
  <2>1. Sound(cart, board) /\ Begun(cart, board) /\ Sized(cart) /\ Built(cart)
    BY CartIs DEF Mapped, Sound
  <2>2. /\ \A s \in PrgSlots \ {6} : board.prg[s] \in 0..(cart.pages - 1)
        /\ cart.id \in KeepsVectors => board.prg[14] = cart.pages - 1
        /\ \A s \in ChrSlots : board.chr[s][1] = "ram" => board.chr[s][2] < RamBanks(cart.id)
    BY <2>1 DEF Sound, Begun, Pages
  <2>3. ASSUME cart.id = 5
        PROVE  /\ \A s \in DOMAIN board.reg.window :
                    board.reg.window[s] # NoWindow => board.reg.window[s] \in (0..1) \X (0..7)
               /\ \A s \in {6, 8, 10, 12} :
                    (board.reg.window[s] = NoWindow) = (board.reg.window[s + 1] = NoWindow)
    <3>1. board.reg \in Reg5
      BY <2>3 DEF Mapped, Typed, AsicTyped, DiscreteBoards
    <3>2. board.reg.window \in Windows
      BY <3>1 DEF Reg5
    <3> QED
      BY <3>2 DEF Windows, Blocks
  <2>4. ASSUME cart.id = 69, Window69(board)[1] = "rom"
        PROVE  Window69(board)[2] \in {Open} \cup 0..(cart.pages - 1)
    <3>1. Window69(board) = <<"rom", board.prg[6]>>
      BY <2>4 DEF Window69, Nothing
    <3>2. board.prg[6] \in {Open} \cup 0..(cart.pages - 1)
      BY <2>1 DEF Begun, PrgSlots, Pages
    <3> QED
      BY <3>1, <3>2
  <2>5. ASSUME cart.id = 68, NEW q \in 0..3, Nametable68(board, q)[1] = "rom"
        PROVE  Nametable68(board, q)[2] \in 0..(cart.banks - 1)
    <3>1. board.reg \in Reg68 /\ cart.banks > 0
      BY <2>1, <2>5 DEF Mapped, Typed, DiscreteTyped, DiscreteBoards, Built
    <3> QED
      BY <2>1, <2>5, <3>1, NametablesInRom
  <2> QED
    BY <2>2, <2>3, <2>4, <2>5, Zenon DEF CartStaysMapped
<1> QED
  BY <1>1, CartridgesMapped, PTL
=============================================================================
