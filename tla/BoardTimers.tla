---------------------------- MODULE BoardTimers ----------------------------
(***************************************************************************)
(* The interrupt timers of the boards that count CPU cycles: cpu_sync of   *)
(* their mappers, called in every cycle, and the ports that set them.      *)
(* A timer is a record; `irq_line' is the mapper's bit of the CPU's irq_.  *)
(* (MMC3 and its relatives count rises of the PPU's A12: see Mmc3.)        *)
(***************************************************************************)
EXTENDS Integers

CONSTANTS
  Chips,        \* the timers of an instance, a subset of Timers
  Byte,         \* 256: values of an eight-bit register
  Nibble,       \* 16
  Long,         \* 4096: values of the counters of 40 and 50
  LineThirds    \* 341: thirds of a CPU cycle in a line of the picture

Timers == {"counter12", "bandai", "ss88006", "n163", "fme7", "vrc4", "vrc6", "rambo"}

ASSUME TimerSizes ==
  /\ Chips \subseteq Timers
  /\ Byte \in Nat /\ Byte > 1 /\ Byte % 2 = 0
  /\ Nibble \in Nat /\ Nibble > 1 /\ Nibble <= Byte
  /\ Long \in Nat /\ Long > 1
  /\ LineThirds \in Nat /\ LineThirds > 3

VARIABLES chip, timer, irq_line, fired
timerVars == <<chip, timer, irq_line, fired>>

(* -------------------------------------------------------- power on, ports *)

PowerTimer(c) ==
  CASE c \in {"counter12", "bandai", "n163"} -> [enabled |-> FALSE, counter |-> 0]
    [] c = "ss88006" -> [enabled |-> FALSE, digits |-> 4, latch |-> 0, counter |-> 0]
    [] c = "fme7" -> [enabled |-> FALSE, counting |-> FALSE, counter |-> 0]
    [] c \in {"vrc4", "vrc6"} -> [enabled |-> FALSE, again |-> FALSE, byCycle |-> FALSE,
                                  latch |-> 0, counter |-> 0, prescaler |-> LineThirds]
    [] c = "rambo" -> [enabled |-> FALSE, byCycle |-> FALSE, latch |-> 0,
                       counter |-> 0, cycles |-> 0]

SetLowByte(word, v) == word - (word % Byte) + v
SetHighByte(word, v) == (word % Byte) + (Byte * v)

\* The weight of digit n, which is the number of values of the n below it.
Weight(n) ==
  CASE n = 0 -> 1 [] n = 1 -> Nibble [] n = 2 -> Nibble * Nibble
    [] n = 3 -> Nibble * Nibble * Nibble [] n = 4 -> Nibble * Nibble * Nibble * Nibble

\* Writing digit i of the latch of 18 writes the field from there upwards:
\* the digits above it that the field holds become zero. (The fields are 4,
\* 8, 12 and 16 bits wide.)
SetDigit(latch, i, v) ==
  LET above == Weight(IF 2 * i + 1 > 4 THEN 4 ELSE 2 * i + 1)
  IN  (latch % Weight(i)) + (v * Weight(i)) + (above * (latch \div above))

\* A write w is a record: its port and what it carries. The VRC timers are
\* set by one operator; the port that reads them again is not reached on
\* VRC4, nor is the other half of its latch.
WriteVrcTimer(t, w) ==
  CASE w.port = "latch" -> [t EXCEPT !.latch = w.value]
    [] w.port = "control" ->
         LET set == [t EXCEPT !.enabled = w.on, !.again = w.again, !.byCycle = w.mode]
         IN  IF w.on THEN [set EXCEPT !.counter = t.latch, !.prescaler = LineThirds]
             ELSE set
    [] w.port = "again" -> [t EXCEPT !.enabled = t.again]

Write12(t, w) ==
  IF w.on THEN [t EXCEPT !.enabled = TRUE] ELSE [t EXCEPT !.enabled = FALSE, !.counter = 0]

\* Both halves of the counter of a Bandai board or an FME-7.
WriteHalf(t, w) ==
  [t EXCEPT !.counter = IF w.port = "low" THEN SetLowByte(@, w.value)
                        ELSE SetHighByte(@, w.value)]
WriteBandaiTimer(t, w) ==
  IF w.port = "control" THEN [t EXCEPT !.enabled = w.on] ELSE WriteHalf(t, w)
WriteTimer69(t, w) ==
  IF w.port = "control" THEN [t EXCEPT !.enabled = w.on, !.counting = w.counting]
  ELSE WriteHalf(t, w)

WriteTimer18(t, w) ==
  CASE w.port = "digit" -> [t EXCEPT !.latch = SetDigit(@, w.digit, w.value)]
    [] w.port = "reload" -> [t EXCEPT !.counter = t.latch]
    [] w.port = "control" -> [t EXCEPT !.enabled = w.on, !.digits = w.digits]

\* Both ports of 19 are given to the high byte and its enable bit; reading
\* one is an access too.
WriteTimer19(t, w) ==
  IF w.port = "read" THEN t
  ELSE [t EXCEPT !.enabled = w.on, !.counter = SetHighByte(@, w.value)]

WriteTimer64(t, w) ==
  CASE w.port = "latch" -> [t EXCEPT !.latch = w.value]
    [] w.port = "mode" -> [t EXCEPT !.counter = 0, !.byCycle = w.mode]
    [] w.port = "enable" -> [t EXCEPT !.enabled = w.on]

WriteTimer(t, w) ==
  CASE chip = "counter12" -> Write12(t, w)    [] chip = "bandai" -> WriteBandaiTimer(t, w)
    [] chip = "ss88006" -> WriteTimer18(t, w) [] chip = "n163" -> WriteTimer19(t, w)
    [] chip = "fme7" -> WriteTimer69(t, w)    [] chip = "rambo" -> WriteTimer64(t, w)
    [] chip \in {"vrc4", "vrc6"} -> WriteVrcTimer(t, w)

\* clear_irq(MAPPER_IRQ).
Acknowledges(w) ==
  CASE chip \in {"counter12", "rambo"} -> w.port \in {"control", "enable"} /\ ~w.on
    [] chip = "fme7" -> w.port = "control" /\ ~w.on
    [] chip = "n163" -> TRUE
    [] OTHER -> w.port \in {"control", "reload", "again"}

(* ------------------------------------------------- cpu_sync, chip by chip *)

\* Each is a pair: the timer after a cycle and whether it calls irq().
Unmoved(t) == <<t, FALSE>>

Sync12(t) ==
  LET next == (t.counter + 1) % Long
  IN  IF t.enabled THEN <<[t EXCEPT !.counter = next], next = 0>> ELSE Unmoved(t)

SyncBandai(t) ==
  LET next == (t.counter - 1) % (Byte * Byte)
  IN  IF t.enabled THEN <<[t EXCEPT !.counter = next], next = 0>> ELSE Unmoved(t)

\* The counter of 18 counts whether or not it may interrupt, and only as
\* many of its digits as the mode says.
Sync18(t) ==
  LET size == Weight(t.digits)
      low == (t.counter - 1) % size
  IN  <<[t EXCEPT !.counter = @ - (@ % size) + low], low = 0 /\ t.enabled>>

\* At its top the counter of 19 stops, and asks in every cycle.
TopOf19 == ((Byte \div 2) * Byte) - 1
Sync19(t) ==
  CASE ~t.enabled -> Unmoved(t)
    [] t.enabled /\ t.counter = TopOf19 -> <<t, TRUE>>
    [] OTHER -> <<[t EXCEPT !.counter = @ + 1], FALSE>>

Sync69(t) ==
  LET next == (t.counter - 1) % (Byte * Byte)
  IN  IF t.counting
      THEN <<[t EXCEPT !.counter = next], next = (Byte * Byte) - 1 /\ t.enabled>>
      ELSE Unmoved(t)

\* clock_irq of VRC4 and VRC6.
ClockVrc(t) ==
  IF t.counter = Byte - 1 THEN <<[t EXCEPT !.counter = t.latch], TRUE>>
  ELSE Unmoved([t EXCEPT !.counter = @ + 1])

\* Every line starts with a whole one: the third of a cycle is lost.
SyncVrcRestarts(t) ==
  LET less == [t EXCEPT !.prescaler = @ - 3]
  IN  CASE ~t.enabled -> Unmoved(t)
        [] t.enabled /\ t.byCycle -> ClockVrc(t)
        [] t.enabled /\ ~t.byCycle /\ less.prescaler <= 0 ->
             ClockVrc([t EXCEPT !.prescaler = LineThirds])
        [] OTHER -> Unmoved(less)

\* The prescaler carries what is left of a line into the next one.
SyncVrc(t) ==
  LET less == [t EXCEPT !.prescaler = @ - 3]
  IN  CASE ~t.enabled -> Unmoved(t)
        [] t.enabled /\ t.byCycle -> ClockVrc(t)
        [] t.enabled /\ ~t.byCycle /\ less.prescaler <= 0 ->
             ClockVrc([less EXCEPT !.prescaler = @ + LineThirds])
        [] OTHER -> Unmoved(less)

\* clock_irq of 64: a cleared counter is loaded with one more than the latch.
Clock64(t) ==
  LET next == IF t.counter = 0 THEN (t.latch + 1) % Byte ELSE t.counter - 1
  IN  <<[t EXCEPT !.counter = next], t.enabled /\ next = 0>>

Sync64(t) ==
  LET later == [t EXCEPT !.cycles = (@ + 1) % 4]
  IN  CASE ~t.byCycle -> Unmoved(t)
        [] t.byCycle /\ later.cycles = 0 -> Clock64(later)
        [] OTHER -> Unmoved(later)

Synced(t) ==
  CASE chip = "counter12" -> Sync12(t) [] chip = "bandai" -> SyncBandai(t)
    [] chip = "ss88006" -> Sync18(t)   [] chip = "n163" -> Sync19(t)
    [] chip = "fme7" -> Sync69(t)      [] chip = "rambo" -> Sync64(t)
    [] chip \in {"vrc4", "vrc6"} -> SyncVrc(t)

(* ---------------------------------------------------------------- actions *)

TimerInit == /\ chip \in Chips
        /\ timer = PowerTimer(chip)
        /\ irq_line = FALSE /\ fired = FALSE

Elapse(outcome) ==
  /\ timer' = outcome[1] /\ fired' = outcome[2]
  /\ irq_line' = (irq_line \/ outcome[2])
  /\ UNCHANGED chip

\* One CPU cycle.
Cycle == Elapse(Synced(timer))

\* A filtered rise of A12 on a board of mapper 64 that does not count cycles.
LineRise == chip = "rambo" /\ ~timer.byCycle /\ Elapse(Clock64(timer))

WritePort(w) ==
  /\ timer' = WriteTimer(timer, w) /\ fired' = FALSE
  /\ irq_line' = (irq_line /\ ~Acknowledges(w))
  /\ UNCHANGED chip

\* What a game can write to the ports of a board: every value of a register.
TimerWrites ==
  LET byte == 0..(Byte - 1)
      halves == [port : {"low", "high"}, value : byte]
      control == [port : {"control"}, on : BOOLEAN, again : BOOLEAN, mode : BOOLEAN]
  IN  CASE chip = "counter12" -> [port : {"control"}, on : BOOLEAN]
        [] chip = "bandai" -> halves \cup [port : {"control"}, on : BOOLEAN]
        [] chip = "fme7" -> halves \cup [port : {"control"}, on : BOOLEAN, counting : BOOLEAN]
        [] chip = "ss88006" ->
             [port : {"digit"}, digit : 0..3, value : 0..(Nibble - 1)]
               \cup [port : {"reload"}]
               \cup [port : {"control"}, on : BOOLEAN, digits : 1..4]
        [] chip = "n163" ->
             [port : {"low", "high"}, on : BOOLEAN, value : 0..((Byte \div 2) - 1)]
               \cup [port : {"read"}]
        [] chip = "vrc4" -> [port : {"latch"}, value : 0..(Nibble - 1)] \cup control
        [] chip = "vrc6" -> [port : {"latch"}, value : byte] \cup [port : {"again"}] \cup control
        [] chip = "rambo" ->
             [port : {"latch"}, value : byte]
               \cup [port : {"mode"}, mode : BOOLEAN]
               \cup [port : {"enable"}, on : BOOLEAN]

TimerNext == Cycle \/ LineRise \/ \E w \in TimerWrites : WritePort(w)

TimerSpec == TimerInit /\ [][TimerNext]_timerVars

(* ------------------------------------------------------------- properties *)

Never == 0

\* The clocks of its prescaler a VRC counter is away from an interrupt, and
\* the cycles these take: 341 thirds of a cycle each, less what has passed.
ClocksVrc(t) == Byte - t.counter
DueVrc(t) ==
  IF t.byCycle THEN ClocksVrc(t)
  ELSE (t.prescaler + ((ClocksVrc(t) - 1) * LineThirds) + 2) \div 3

Due64(t) ==
  LET loaded == (t.latch + 1) % Byte
      clocks == IF t.counter > 0 THEN t.counter
                ELSE IF loaded = 0 THEN 1 ELSE loaded + 1
  IN  (4 * clocks) - t.cycles

\* In how many cycles the timer interrupts if nobody writes to it.
Due(t) ==
  LET word == Byte * Byte
      low == t.counter % Weight(t.digits)
  IN  IF ~t.enabled THEN Never ELSE
      CASE chip = "counter12" -> Long - t.counter
        [] chip = "bandai" -> IF t.counter = 0 THEN word ELSE t.counter
        [] chip = "ss88006" -> IF low = 0 THEN Weight(t.digits) ELSE low
        [] chip = "n163" -> TopOf19 - t.counter + 1
        [] chip = "fme7" -> IF t.counting THEN t.counter + 1 ELSE Never
        [] chip \in {"vrc4", "vrc6"} -> DueVrc(t)
        [] chip = "rambo" -> IF t.byCycle THEN Due64(t) ELSE Never

\* A timer interrupts in the cycle its registers promised and in no other,
\* whatever was written before: left alone, it is one cycle nearer to its
\* interrupt after every cycle, whatever the remainder its prescaler carries
\* from one line to the next.
OneCycleNearer ==
  /\ fired' <=> (Due(timer) = 1)
  /\ Due(timer) > 1 => Due(timer') = Due(timer) - 1
  /\ Due(timer) = Never => Due(timer') = Never
TimerOnTime == [][Cycle => OneCycleNearer]_timerVars
==============================================================================
