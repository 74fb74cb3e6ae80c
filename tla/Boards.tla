------------------------------- MODULE Boards -------------------------------
(***************************************************************************)
(* A cartridge under the accesses of the CPU and the PPU: the mapper that  *)
(* create_mapper makes for the iNES number, and the writes (and, on MMC2   *)
(* and MMC4, the pattern reads) that page its memories.                    *)
(*                                                                         *)
(* `kept' is history: for each register of the board the access that set   *)
(* it last. On the boards with a command port, a register behind the data  *)
(* port is kept with the command that selected it.                         *)
(***************************************************************************)
EXTENDS DiscreteBoards, AsicBoards, Bus, SequencesExt

CONSTANTS
  Carts,            \* the cartridges put in: [id, pages, banks, mir]
  Accesses(_),      \* the accesses enumerated for a mapper: [a, v, read]
  MaxBoardAccesses  \* accesses after power on

\* What Cart::load and create_mapper let in; the sizes are those of the
\* address masks of the cartridge.
ASSUME CartsAssumption ==
  \A c \in Carts :
    /\ c.id \in DiscreteBoards \cup AsicBoards
    /\ c.pages \in Nat \ {0} /\ c.banks \in Nat

\* Cartridges as they were built: an MMC3 numbers 256 pages, the three chips
\* of an Action 52 are there, a Sunsoft-4 has CHR ROM. The code checks none
\* of this.
ASSUME BuiltAssumption ==
  \A c \in Carts :
    /\ c.id \in {4, 118, 245} => c.pages \in {2^n : n \in 0..8}
    /\ c.id = 228 => c.pages >= 3 * ChipPages
    /\ c.id = 68 => c.banks > 0

\* Addresses are 16 bits wide and values 8; only MMC2 and MMC4 watch what
\* the PPU reads.
ASSUME AccessesAssumption ==
  \A c \in Carts : \A e \in Accesses(c.id) :
    /\ e.a \in Nat /\ e.a < 65536
    /\ e.v \in Nat /\ e.v < 256
    /\ e.read \in BOOLEAN /\ (e.read => c.id \in {9, 10})

VARIABLES cart, board, kept, board_accesses
boardVars == <<cart, board, kept, board_accesses>>

\* create_mapper; NoGap is what MMC1 sees at power on: see Write1.
NoGap == 1
LongGap == 2
Power(c) == IF c.id \in DiscreteBoards THEN DiscretePower(c) ELSE AsicPower(c, NoGap)

\* The virtual handler of the address, write_4 to write_f, or read_vram. The
\* bus keeps the writes to RAM from the board.
Accessed(b, e) ==
  CASE e.read -> ReadPattern(b, e.a)
    [] ~e.read /\ ~CartSees(e.a) -> b
    [] ~e.read /\ CartSees(e.a) /\ b.id \in DiscreteBoards -> DiscreteWrite(b, e.a, e.v)
    [] OTHER -> AsicWrite(b, e.a, e.v, LongGap)

(* ------------------------------------------- the register an access sets *)

Commanded == {64, 69, 76, 243}
IsCommand(b, a) ==
  CASE b.id = 64 -> Digit(a) \in {8, 9} /\ Bit(a, 0) = 0
    [] b.id = 69 -> Digit(a) = 8
    [] OTHER -> b.id \in Commanded /\ Bit(a, 0) = 0
IsData(b, a) ==
  CASE b.id = 64 -> Digit(a) \in {8, 9} /\ Bit(a, 0) = 1
    [] b.id = 69 -> Digit(a) = 10
    [] OTHER -> b.id \in Commanded /\ Bit(a, 0) = 1
Selected(b) ==
  CASE b.id = 243 -> b.reg.address
    [] b.id = 76 -> Bits(b.reg.command, 0, 3)
    [] OTHER -> Bits(b.reg.command, 0, 4)

\* Registers are numbered; a command counts as written after all the others.
CommandRegister == 1000
OneLatch == {2, 3, 7, 11, 13, 15, 40, 43, 50, 58, 61, 66, 71, 79, 86, 113, 180, 201,
             228, 231, 232, 240, 241, 242}

\* Boards whose one latch is not at every address written.
Decodes(id, a) ==
  CASE id = 40 -> Digit(a) >= 14
    [] id \in {71, 232} -> Digit(a) >= 12
    [] id = 50 -> Bits(a, 5, 2) = 1 /\ Bit(a, 8) = 0
    [] id \in {79, 113} -> Bit(a, 8) = 1
    [] id = 86 -> Digit(a) = 6
    [] id = 240 -> a > \h4020
    [] id = 69 -> Digit(a) \in {8, 10}
    [] OTHER -> TRUE
NoRegister == 999

RegisterOf(b, e) ==
  LET a == e.a IN
  CASE ~e.read /\ (~CartSees(a) \/ ~Decodes(b.id, a)) -> NoRegister
    [] e.read -> IF Latches(b, a) THEN 100 + Bit(a, 12) ELSE NoRegister
    [] b.id \in Commanded /\ IsCommand(b, a) -> CommandRegister
    [] b.id \in Commanded /\ IsData(b, a) -> Selected(b)
    [] b.id \in OneLatch -> 0
    [] b.id = 34 -> a % 4
    [] b.id = 64 -> 16 + (2 * Digit(a)) + (a % 2)
    [] b.id \in {33, 48} -> IF Digit(a) >= 14 THEN 8 ELSE (4 * ((Digit(a) \div 2) % 2)) + (a % 4)
    [] b.id \in {16, 159} -> Bits(a, 0, 4)
    [] b.id = 46 -> IF Digit(a) < 8 THEN 0 ELSE 1
    [] b.id = 57 -> Bit(a, 11)
    [] b.id = 226 -> a % 2
    [] b.id \in {22, 23, 25} -> (4 * Digit(a)) + Pin2(b, a)
    [] b.id \in {21, 27} -> (16 * Digit(a)) + Port4(b, a)
    [] b.id \in {24, 26} -> (4 * Digit(a)) + (a % 4)
    [] b.id = 32 -> IF Digit(a) = 11 THEN 16 + (a % 8) ELSE Digit(a)
    [] b.id = 18 -> (16 * Digit(a)) + (a % 16)
    [] b.id = 19 -> (2 * Digit(a)) + Bit(a, 11)
    [] OTHER -> Digit(a)

Command(b) ==
  [a |-> CASE b.id = 243 -> \h4100 [] OTHER -> \h8000,
   v |-> IF b.id = 243 THEN b.reg.address ELSE b.reg.command, read |-> FALSE]

AsKept(b, e) ==
  IF b.id \in Commanded /\ IsData(b, e.a) THEN <<Command(b), e>> ELSE <<e>>

(* ---------------------------------------------------------------- actions *)

BoardInit ==
  /\ cart \in Carts
  /\ board = Power(cart)
  /\ kept = << >> /\ board_accesses = 0

BoardAccess(e) ==
  /\ board_accesses < MaxBoardAccesses
  /\ board' = Accessed(board, e)
  /\ kept' = [r \in DOMAIN kept \cup {RegisterOf(board, e)} |->
                IF r = RegisterOf(board, e) THEN AsKept(board, e) ELSE kept[r]]
  /\ board_accesses' = board_accesses + 1
  /\ UNCHANGED cart

BoardNext == \E e \in Accesses(cart.id) : BoardAccess(e)

BoardSpec == BoardInit /\ [][BoardNext]_boardVars

(* ------------------------------------------------------------- properties *)

\* Power on, and then what is kept, register by register in the order of
\* their numbers instead of the order in which the game wrote them.
Replayed ==
  LET registers == SetToSortSeq(DOMAIN kept, LAMBDA p, q : p < q)
  IN  FoldLeft(LAMBDA b, r : FoldLeft(Accessed, b, kept[r]), Power(cart), registers)

\* Not on these: the serial port, an outer bank that hides a write of the
\* inner one, ROM that answers with the latch, a half page number another
\* port overrides, and boards whose mode bits wait for a data write.
OrderMatters == {1, 41, 144, 163, 4, 118, 245, 90, 5}

\* What a board shows is decided by what its registers hold, so by the last
\* write of each, and not by the order of the writes or by those before.
LastWritesDecide == cart.id \notin OrderMatters => board = Replayed

\* The RAM behind a pattern table, in 1K banks.
RamBanks(id) == CASE id \in {4, 118, 245} -> 256 [] id = 13 -> 16 [] OTHER -> 8

\* The boards that keep the last page, with the vectors of the CPU, in place.
KeepsVectors ==
  {2, 4, 9, 10, 16, 18, 19, 21, 22, 23, 24, 25, 26, 27, 32, 33, 48, 68, 69, 71, 75, 76,
   118, 159, 232}

\* After any writes the CPU finds ROM in every slot from $8000 on, the
\* vectors where the board promises them, and the pattern tables never
\* reach behind the RAM of the board. The RAM an MMC5 puts over its ROM is
\* one of the board's 64K, and covers whole slots of 8K; the window of the
\* FME-7 shows a page of ROM, RAM or nothing; the nametables Sunsoft-4 takes
\* from ROM are pages of that ROM.
CartStaysMapped ==
  /\ \A s \in PrgSlots \ {6} : board.prg[s] \in 0..(cart.pages - 1)
  /\ cart.id \in KeepsVectors => board.prg[14] = cart.pages - 1
  /\ \A s \in ChrSlots : board.chr[s][1] = "ram" => board.chr[s][2] < RamBanks(cart.id)
  /\ cart.id = 5 =>
       LET w == board.reg.window
       IN  /\ \A s \in DOMAIN w : w[s] # NoWindow => w[s] \in (0..1) \X (0..7)
           /\ \A s \in {6, 8, 10, 12} : (w[s] = NoWindow) = (w[s + 1] = NoWindow)
  /\ cart.id = 69 =>
       LET w == Window69(board) IN w[1] = "rom" => w[2] \in {Open} \cup 0..(cart.pages - 1)
  /\ cart.id = 68 =>
       \A q \in 0..3 :
         LET n == Nametable68(board, q) IN n[1] = "rom" => n[2] \in 0..(cart.banks - 1)

\* The PRG table of doc/mappers/004.txt: the last page but one stands at
\* $C000 in mode 0 and at $8000 in mode 1. The code shows a change of mode
\* only at the next write of the data port.
FixedPageInPlace ==
  cart.id = 4 =>
    board.prg[IF Bit(board.reg.command, 6) = 1 THEN 8 ELSE 12] = cart.pages - 2
==============================================================================
