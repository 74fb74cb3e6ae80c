------------------------------ MODULE MCBoards ------------------------------
(***************************************************************************)
(* The boards of the cartridges for TLC, as parts that share no state: the *)
(* PPU's fetches that clock an MMC3 or an MMC5, the banks of every board,  *)
(* the serial port of MMC1, the timers and the battery RAM.  A behaviour   *)
(* runs one of them.                                                       *)
(***************************************************************************)
EXTENDS Mmc3, Mmc5, Boards, SerialPort, BoardTimers, SaveRam

CONSTANT Parts          \* those of an instance
VARIABLE part

allVars == <<part, mmc3Vars, mmc5Vars, boardVars, serialVars, timerVars, saveVars>>

(* ------------------------------------------------------------------ tiles *)

MCTileRows  == {[i \in 0..7 |-> i < 2], [i \in 0..7 |-> i % 2 = 0]}
MCTableBits ==
    {[background |-> TRUE, sprites |-> FALSE, large |-> FALSE],
     [background |-> FALSE, sprites |-> TRUE, large |-> FALSE],
     [background |-> TRUE, sprites |-> TRUE, large |-> FALSE],
     [background |-> FALSE, sprites |-> FALSE, large |-> TRUE]}

(* ------------------------------------------------------------- cartridges *)

MCRomByte(page, a) == (37 * page + a) % 256

Cartridge(id) ==
  [id |-> id,
   pages |-> IF id = 228 THEN 256 ELSE 32,
   banks |-> IF id \in {2, 7, 13, 15, 34, 163, 180, 218, 226, 231, 241, 242} THEN 0 ELSE 128,
   mir |-> IF id % 2 = 0 THEN Vertical ELSE Horizontal]
\* Boards that come with and without CHR ROM.
WithoutRom == {[Cartridge(id) EXCEPT !.banks = 0] : id \in {1, 4, 18, 19, 69}}
WithRom == {[Cartridge(id) EXCEPT !.banks = 128] : id \in {15, 34}}
MCCarts ==
  {Cartridge(id) : id \in (DiscreteBoards \cup AsicBoards) \ {1}} \cup WithRom
    \cup {c \in WithoutRom : c.id # 1}
MCSerialCarts == {Cartridge(1), [Cartridge(1) EXCEPT !.banks = 0]}
ModeCarts == {Cartridge(4)}

(* --------------------------------------------------------------- accesses *)

Above == {4096 * d : d \in 8..15}

\* Addresses at which the game writes, and what it writes there.
BoardAddresses(id) ==
  CASE id \in {43, 58, 61, 201, 231, 242, 228} ->
         {\h8000, \h8013, \h8065, \h80bf, \ha83a, \hbf87}
    [] id = 15 -> {\h8000, \h8001, \h8002, \h8003}
    [] id = 34 -> {\h7ffd, \h7ffe, \h7fff, \h8000}
    [] id \in {33, 48, 76, 64} -> {\h8000, \h8001, \h8002, \h8003, \ha000, \ha001, \he000}
    [] id \in {4, 118, 245} -> {\h8000, \h8001, \ha000, \ha001}
    [] id = 5 -> {\h5100, \h5101, \h5113, \h5114, \h5115, \h5116, \h5117, \h5123, \h512f, \h5130}
    [] id \in {41, 46} -> {\h6000, \h6815, \h601f, \h8000}
    [] id = 50 -> {\h4020, \h4120, \h5021}
    [] id \in {57, 226} -> {\h8000, \h8001, \h8800}
    [] id \in {79, 113} -> {\h4100, \h5fff, \h4020}
    [] id = 86 -> {\h6000, \h7000}
    [] id = 163 -> {\h5000, \h5100, \h5101, \h5200, \h5300}
    [] id = 240 -> {\h4020, \h4021, \h5000}
    [] id = 243 -> {\h4100, \h4101}
    [] id \in {16, 159} -> {\h6000 + i : i \in {0, 5, 8, 9, 10}} \cup {\h8001}
    [] id \in {22, 23, 25} -> {\h6000, \h8000, \h9001, \ha003, \hb000, \hb001, \hb002, \hb003, \he003}
    [] id \in {21, 27} -> {\h8000, \h9000, \h9002, \h9004, \ha000, \hb000, \hb002, \hb004, \he002}
    [] id \in {24, 26} -> {\h8000, \hb003, \hc000, \hd000, \hd001, \hd002, \he003}
    [] id = 18 -> {\h8000, \h8001, \h8002, \h9001, \ha000, \ha001, \hb002, \hd003, \hf002}
    [] id = 19 -> {\h8000, \h8800, \hb800, \hc000, \hc800, \hd800, \he000, \he800, \hf000}
    [] id = 32 -> {\h8000, \h9000, \ha000, \hb000, \hb007}
    [] id = 90 -> {\h5803, \h8000, \h8003, \h9000, \h9004, \ha004, \hd000, \hd001, \hd003}
    [] id \in {2, 40} -> Above \cup {\h0800}
    [] OTHER -> Above

Values(id) ==
  CASE id \in {64} -> {0, 6, \h0f, \h20, \h45, \h82}
    [] id \in {76, 69} -> {0, 3, 6, 9, 12, \h47}
    [] id = 243 -> {2, 5, 7, 3}   \* of R:7 only the bits the board has
    [] id \in {4, 118, 245} -> {0, 6, \h42, \h86}
    [] id = 90 -> {0, \h1d, \h43, \h9a}
    [] id = 163 -> {0, 6, \h15}
    [] OTHER -> {0, \h0b, \h56, \hed}

PatternReads(id) ==
  IF id \in {9, 10}
  THEN {\h0fd8, \h0fdc, \h0fe8, \h1fd9, \h1fe8, \h0123} ELSE {}

MCAccesses(id) ==
  {[a |-> a, v |-> v, read |-> FALSE] : a \in BoardAddresses(id), v \in Values(id)}
    \cup {[a |-> a, v |-> 0, read |-> TRUE] : a \in PatternReads(id)}

(* ------------------------------------------------------------------ saves *)

\* Two cartridges, the second also with a header that claims four screens
\* on an MMC3, which then has no RAM.
MCGames ==
    {[hash |-> 1, board |-> 1, four_screen |-> FALSE], [hash |-> 2, board |-> 163, four_screen |-> FALSE],
     [hash |-> 2, board |-> 4, four_screen |-> TRUE]}
MCFiles == {<<>>, <<1, 1, 1>>}

(* ------------------------------------------------------------------- spec *)

\* The other parts stand still in one of their initial states.
Init ==
    /\ part \in Parts
    /\ Mmc3Init   /\ (part # "mmc3"   => mode_a /\ tiles[1])
    /\ Mmc5Init   /\ (part # "mmc5"   => cycle = 0 /\ irq_target = 0)
    /\ BoardInit  /\ (part # "boards" => cart = CHOOSE c \in Carts : TRUE)
    /\ SerialInit /\ (part # "serial" => serial.banks = 128 /\ expected)
    /\ TimerInit  /\ (part # "timers" => chip = CHOOSE c \in Chips : TRUE)
    /\ SaveInit   /\ (part # "saves"  => system = "posix" /\ \A h \in Hashes : save[h] = CHOOSE f \in Files : TRUE)

Runs(p) ==
    /\ part = p /\ UNCHANGED part
    /\ p # "mmc3"   => UNCHANGED mmc3Vars
    /\ p # "mmc5"   => UNCHANGED mmc5Vars
    /\ p # "boards" => UNCHANGED boardVars
    /\ p # "serial" => UNCHANGED serialVars
    /\ p # "timers" => UNCHANGED timerVars
    /\ p # "saves"  => UNCHANGED saveVars

Next ==
    \/ part = "mmc3"   /\ Mmc3Next   /\ Runs("mmc3")
    \/ part = "mmc5"   /\ Mmc5Next   /\ Runs("mmc5")
    \/ part = "boards" /\ BoardNext  /\ Runs("boards")
    \/ part = "serial" /\ SerialNext /\ Runs("serial")
    \/ part = "timers" /\ TimerNext  /\ Runs("timers")
    \/ part = "saves"  /\ SaveNext   /\ Runs("saves")

Spec == Init /\ [][Next]_allVars
=============================================================================
