----------------------------- MODULE SerialPort -----------------------------
(***************************************************************************)
(* What the port of the MMC1 promises a game, as a port of five bits: the  *)
(* fifth bit sent commits all five, to the register its address names, and *)
(* bit 7 empties the port and locks the last page.  The second write of a  *)
(* read-modify-write instruction, one cycle after the first, is not seen.  *)
(* `serial' is the board as Mapper001.cpp runs it, `sent' and `registers'  *)
(* what the promise says.                                                  *)
(***************************************************************************)
EXTENDS AsicBoards

CONSTANTS
  SerialCarts,      \* cartridges of mapper 1 put in
  PortAddresses,    \* addresses of its writes
  Gaps,             \* cycles between two writes, 1 or more
  MaxWords          \* words committed

\* The addresses a cartridge answers with its port: the upper half of them all.
PortSpace == \h8000..\hffff

ASSUME SerialAssumption ==
  /\ SerialCarts \subseteq [id : {1}, pages : Nat \ {0}, banks : Nat, mir : Nat]
  /\ PortAddresses \subseteq PortSpace
  /\ Gaps \subseteq Nat \ {0} /\ MaxWords \in Nat

VARIABLES serial, sent, registers, expected, words
serialVars == <<serial, sent, registers, expected, words>>

\* The gap at power on is what the CPU had counted: 1 for the first cartridge.
SerialInit ==
  \E c \in SerialCarts, gap \in Gaps :
    /\ serial = Power1(c, gap)
    /\ sent = << >>
    /\ registers = [r \in 0..3 |-> IF r = 0 /\ gap > 1 THEN 12 ELSE 0]
    /\ expected = (gap > 1) /\ words = 0

FiveBits(s) == s[1] + (2 * s[2]) + (4 * s[3]) + (8 * s[4]) + (16 * s[5])

\* A reset keeps the arrangement and the CHR mode.
Promised(a, v) ==
  IF Bit(v, 7) = 1
  THEN /\ sent' = << >> /\ expected' = TRUE /\ UNCHANGED words
       /\ registers' = [registers EXCEPT
            ![0] = (@ % 4) + 12 + (16 * Bit(@, 4))]
  ELSE LET now == Append(sent, Bit(v, 0))
       IN  IF Len(now) < 5 THEN sent' = now /\ UNCHANGED <<registers, expected, words>>
           ELSE /\ sent' = << >> /\ expected' = TRUE /\ words' = words + 1
                /\ registers' = [registers EXCEPT ![(Digit(a) - 8) \div 2] = FiveBits(now)]

SerialWrite(a, v, gap) ==
  /\ words < MaxWords
  /\ serial' = Write1(serial, a, v, gap)
  /\ IF gap = 1 THEN UNCHANGED <<sent, registers, expected, words>> ELSE Promised(a, v)

SerialNext ==
  \E a \in PortAddresses, v \in {0, 1, \h80}, gap \in Gaps : SerialWrite(a, v, gap)

SerialSpec == SerialInit /\ [][SerialNext]_serialVars

\* However the game interleaves bits, resets and double writes, the board
\* shows exactly what the registers of a parallel port would; until the
\* first commit or reset it shows what the constructor mapped.
SerialIsParallel ==
  /\ serial.reg.r = registers
  /\ serial.reg.count = Len(sent)
  /\ expected => Shown1(serial) = serial
==============================================================================
