---------------------------- MODULE Boards_proof ----------------------------
(***************************************************************************)
(* Theorems about the boards of the cartridges, part by part: the battery  *)
(* RAM, the scanline counter of the MMC3, the serial port of the MMC1, the *)
(* timers and the MMC5, each for every behaviour of its own module.        *)
(***************************************************************************)
EXTENDS Mmc3, Mmc5, SaveRam, SerialPort, BoardTimers, SequenceTheorems, TLAPS

(***************************************************************************)
(* The battery RAM.                                                        *)
(***************************************************************************)
Memory == [1..SaveSize -> 0..255]

\* What the variables of SaveRam may be.
SaveTypes ==
    /\ system \in {"posix", "windows"}
    /\ save \in [Hashes -> Seq(0..255)] /\ written \in [Hashes -> Seq(0..255)]
    /\ game \in [Emulators -> Games \cup {NoGame}]
    /\ kind \in [Emulators -> {"Mapped", "Heap"}]
    /\ heap \in [Emulators -> Memory]

\* A mapped emulator runs a game, whose file has been given its size.
MappedIsSized ==
    \A p \in Emulators : kind[p] = "Mapped" =>
        game[p] # NoGame /\ save[game[p].hash] = Resized(save[game[p].hash])

\* Cut or grown to its size, a file holds what players believe it to hold.
FilesAsWritten == \A h \in Hashes : Resized(save[h]) = Resized(written[h])

SaveInv == SaveTypes /\ MappedIsSized /\ FilesAsWritten /\ OneWriter

-----------------------------------------------------------------------------
LEMMA SaveConstants ==
    /\ SaveSize \in Nat \ {0} /\ 0 \in 0..255
    /\ NoGame \notin Games
    /\ \A g \in Games : g # NoGame /\ g.hash \in Hashes
<1>1. SaveSize \in Nat \ {0} /\ 0 \in 0..255
  BY SaveAssumption
<1>2. ASSUME NEW g \in Games
      PROVE  g # NoGame /\ g.hash \in Hashes
  <2>1. g.board # 0
    BY SaveAssumption
  <2>2. NoGame.board = 0
    BY DEF NoGame
  <2>3. g.hash \in Hashes
    BY DEF Hashes
  <2>4. QED
    BY <2>1, <2>2, <2>3
<1>3. QED
  BY <1>1, <1>2

\* A function on 1..SaveSize is a sequence of that length.
LEMMA MemoryIsSeq ==
    ASSUME NEW m \in Memory
    PROVE  m \in Seq(0..255) /\ Len(m) = SaveSize /\ Resized(m) = m
<1>1. SaveSize \in Nat
  BY SaveConstants
<1>2. m \in Seq(0..255)
  BY <1>1, SeqDef DEF Memory
<1>3. Len(m) = SaveSize
  BY <1>1, <1>2, LenProperties DEF Memory
<1>4. Resized(m) = m
  BY <1>3 DEF Resized, Memory
<1>5. QED
  BY <1>2, <1>3, <1>4

LEMMA ResizedIsMemory ==
    ASSUME NEW s \in Seq(0..255)
    PROVE  Resized(s) \in Memory
<1>1. SUFFICES ASSUME NEW c \in 1..SaveSize
               PROVE  (IF c <= Len(s) THEN s[c] ELSE 0) \in 0..255
  BY DEF Resized, Memory
<1>2. CASE c <= Len(s)
  <2>1. c \in 1..Len(s)
    BY <1>2, SaveConstants, LenProperties
  <2>2. QED
    BY <1>2, <2>1, ElementOfSeq
<1>3. CASE ~(c <= Len(s))
  BY <1>3
<1>4. QED
  BY <1>2, <1>3

LEMMA ResizedTwice ==
    ASSUME NEW s \in Seq(0..255)
    PROVE  Resized(s) \in Seq(0..255) /\ Resized(Resized(s)) = Resized(s)
BY ResizedIsMemory, MemoryIsSeq

-----------------------------------------------------------------------------
LEMMA SaveInitInv == SaveInit => SaveInv
<1> SUFFICES ASSUME SaveInit
             PROVE  SaveInv
  OBVIOUS
<1>1. [c \in 1..SaveSize |-> 0] \in Memory
  BY SaveConstants DEF Memory
<1>2. SaveTypes
  BY <1>1, SaveAssumption DEF SaveInit, SaveTypes, Zeroed
<1>3. MappedIsSized /\ FilesAsWritten
  BY DEF SaveInit, MappedIsSized, FilesAsWritten
<1>4. OneWriter
  <2>1. \A p \in Emulators : kind[p] = "Heap"
    BY DEF SaveInit
  <2>2. \A p, q \in Emulators : {kind[p], kind[q]} # {"Mapped"}
    BY <2>1
  <2>3. QED
    BY <2>2 DEF OneWriter
<1>5. QED
  BY <1>2, <1>3, <1>4 DEF SaveInv

\* On Windows two mapped emulators have different files, without the set.
OneWriterPairs ==
    system = "windows" =>
        \A p, q \in Emulators : p # q /\ kind[p] = "Mapped" /\ kind[q] = "Mapped" =>
            game[p].hash # game[q].hash

LEMMA PairsAreEnough == OneWriter <=> OneWriterPairs
<1>1. \A x, y : {x, y} = {"Mapped"} <=> x = "Mapped" /\ y = "Mapped"
  OBVIOUS
<1>2. QED
  BY <1>1 DEF OneWriter, OneWriterPairs

LEMMA PairsAreEnoughNext == OneWriter' <=> OneWriterPairs'
BY PairsAreEnough, PTL

\* Opening a file changes its size only, and takes it for one emulator on
\* Windows: every call that may fail is covered.
LEMMA LoadGameSaves ==
    ASSUME SaveInv, NEW p \in Emulators, LoadGame(p)
    PROVE  SaveInv'
<1>1. PICK g \in Games, fails \in {"open", "resize", "map", "nothing"} :
          /\ TryMap(p, g.hash, fails)
          /\ game' = [game EXCEPT ![p] = g]
          /\ gate' = [gate EXCEPT ![p] = PowerGate(g)]
  BY DEF LoadGame
<1> DEFINE h      == g.hash
           opened == fails # "open" /\ ~Taken(p, h)
           sized  == opened /\ fails # "resize"
<1>2. g # NoGame /\ h \in Hashes
  BY SaveConstants
<1>3. /\ save' = IF sized THEN [save EXCEPT ![h] = Resized(@)] ELSE save
      /\ kind' = [kind EXCEPT ![p] = IF sized /\ fails # "map" THEN "Mapped" ELSE "Heap"]
      /\ heap' = [heap EXCEPT ![p] = Zeroed]
      /\ system' = system /\ written' = written
  BY <1>1 DEF TryMap, LoadGame
<1>4. SaveTypes
  BY DEF SaveInv
<1>5. \A k \in Hashes : save'[k] = save[k] \/ (k = h /\ sized /\ save'[k] = Resized(save[k]))
  BY <1>3, <1>4 DEF SaveTypes
<1>6. save'[h] = Resized(save[h]) \/ ~sized
  BY <1>2, <1>3, <1>4 DEF SaveTypes
<1>7. \A k \in Hashes : Resized(save'[k]) = Resized(save[k]) /\ save'[k] \in Seq(0..255)
  <2>1. SUFFICES ASSUME NEW k \in Hashes
                 PROVE  Resized(save'[k]) = Resized(save[k]) /\ save'[k] \in Seq(0..255)
    OBVIOUS
  <2>2. save[k] \in Seq(0..255)
    BY <1>4 DEF SaveTypes
  <2>3. Resized(save[k]) \in Seq(0..255) /\ Resized(Resized(save[k])) = Resized(save[k])
    BY <2>2, ResizedTwice
  <2>4. save'[k] = save[k] \/ save'[k] = Resized(save[k])
    BY <1>5
  <2>5. QED
    BY <2>2, <2>3, <2>4
<1>8. SaveTypes'
  <2>1. save' \in [Hashes -> Seq(0..255)]
    <3>1. DOMAIN save' = Hashes /\ save' = [k \in Hashes |-> save'[k]]
      BY <1>3, <1>4 DEF SaveTypes
    <3>2. QED
      BY <3>1, <1>7
  <2>2. [c \in 1..SaveSize |-> 0] \in Memory
    BY SaveConstants DEF Memory
  <2>3. heap' \in [Emulators -> Memory]
    BY <2>2, <1>3, <1>4 DEF SaveTypes, Zeroed
  <2>4. game' \in [Emulators -> Games \cup {NoGame}]
    BY <1>1, <1>4 DEF SaveTypes
  <2>5. kind' \in [Emulators -> {"Mapped", "Heap"}]
    BY <1>3, <1>4 DEF SaveTypes
  <2>6. QED
    BY <2>1, <2>3, <2>4, <2>5, <1>3, <1>4 DEF SaveTypes
<1>9. MappedIsSized'
  <2>1. SUFFICES ASSUME NEW q \in Emulators, kind'[q] = "Mapped"
                 PROVE  game'[q] # NoGame /\ save'[game'[q].hash] = Resized(save'[game'[q].hash])
    BY DEF MappedIsSized
  <2>2. CASE q = p
    <3>1. sized /\ game'[q] = g
      BY <2>1, <2>2, <1>1, <1>3, <1>4 DEF SaveTypes
    <3>2. save'[h] = Resized(save[h])
      BY <3>1, <1>6
    <3>3. Resized(save'[h]) = save'[h]
      BY <3>2, <1>2, <1>7
    <3>4. QED
      BY <3>1, <3>3, <1>2
  <2>3. CASE q # p
    <3>1. kind[q] = "Mapped" /\ game'[q] = game[q]
      BY <2>1, <2>3, <1>1, <1>3, <1>4 DEF SaveTypes
    <3>2. game[q] # NoGame /\ save[game[q].hash] = Resized(save[game[q].hash])
      BY <3>1 DEF SaveInv, MappedIsSized
    <3>3. game[q].hash \in Hashes
      BY <3>2, <1>4, SaveConstants DEF SaveTypes
    <3>4. save'[game[q].hash] = save[game[q].hash]
      BY <3>2, <3>3, <1>5
    <3>5. QED
      BY <3>1, <3>2, <3>4
  <2>4. QED
    BY <2>2, <2>3
<1>10. FilesAsWritten'
  BY <1>3, <1>7 DEF FilesAsWritten, SaveInv
<1>11. OneWriter'
  <2>1. SUFFICES ASSUME system' = "windows", NEW a \in Emulators, NEW b \in Emulators, a # b,
                        kind'[a] = "Mapped", kind'[b] = "Mapped"
                 PROVE  game'[a].hash # game'[b].hash
    BY PairsAreEnoughNext DEF OneWriterPairs
  <2>2. ASSUME NEW q \in Emulators, q # p, kind'[q] = "Mapped", kind'[p] = "Mapped"
        PROVE  game'[q].hash # h
    <3>1. kind[q] = "Mapped" /\ game'[q] = game[q]
      BY <2>2, <1>1, <1>3, <1>4 DEF SaveTypes
    <3>2. game[q] # NoGame
      BY <3>1 DEF SaveInv, MappedIsSized
    <3>3. ~Taken(p, h)
      BY <2>2, <1>3, <1>4 DEF SaveTypes
    <3>4. QED
      BY <3>1, <3>2, <3>3, <2>1, <2>2, <1>3 DEF Taken
  <2>3. game'[p].hash = h
    BY <1>1, <1>4 DEF SaveTypes
  <2>4. CASE a # p /\ b # p
    <3>1. kind[a] = "Mapped" /\ kind[b] = "Mapped" /\ game'[a] = game[a] /\ game'[b] = game[b]
      BY <2>1, <2>4, <1>1, <1>3, <1>4 DEF SaveTypes
    <3>2. QED
      BY <3>1, <2>1, <1>3, PairsAreEnough DEF SaveInv, OneWriterPairs
  <2>5. CASE a = p
    BY <2>1, <2>2, <2>3, <2>5
  <2>6. CASE b = p
    BY <2>1, <2>2, <2>3, <2>6
  <2>7. QED
    BY <2>4, <2>5, <2>6
<1>12. QED
  BY <1>8, <1>9, <1>10, <1>11 DEF SaveInv

\* An emulator that ends, however it ends, leaves the files alone.
LEMMA ReleaseSaves ==
    ASSUME SaveInv, NEW p \in Emulators, Release(p)
    PROVE  SaveInv'
<1>1. /\ system' = system /\ save' = save /\ written' = written
      /\ game' = [game EXCEPT ![p] = NoGame] /\ kind' = [kind EXCEPT ![p] = "Heap"]
      /\ heap' = [heap EXCEPT ![p] = Zeroed]
  BY DEF Release
<1>2. SaveTypes
  BY DEF SaveInv
<1>3. \A q \in Emulators : kind'[q] = "Mapped" => kind[q] = "Mapped" /\ game'[q] = game[q]
  BY <1>1, <1>2 DEF SaveTypes
<1>4. SaveTypes'
  <2>1. [c \in 1..SaveSize |-> 0] \in Memory
    BY SaveConstants DEF Memory
  <2>2. QED
    BY <2>1, <1>1, <1>2 DEF SaveTypes, Zeroed
<1>5. MappedIsSized'
  BY <1>1, <1>3 DEF SaveInv, MappedIsSized
<1>6. FilesAsWritten'
  BY <1>1 DEF SaveInv, FilesAsWritten
<1>7. OneWriter'
  BY <1>1, <1>3, PairsAreEnough, PairsAreEnoughNext DEF SaveInv, OneWriterPairs
<1>8. QED
  BY <1>4, <1>5, <1>6, <1>7 DEF SaveInv

\* A byte written to a mapped file is the byte players believe there.
LEMMA WriteSaves ==
    ASSUME SaveInv, NEW p \in Emulators, NEW c \in 1..SaveSize, NEW v \in SaveBytes,
           WriteSave(p, c, v)
    PROVE  SaveInv'
<1>1. SaveTypes
  BY DEF SaveInv
<1>2. v \in 0..255
  BY SaveAssumption
<1>3. system' = system /\ game' = game /\ kind' = kind
  BY DEF WriteSave
<1>4. OneWriter'
  BY <1>3, PairsAreEnough, PairsAreEnoughNext DEF SaveInv, OneWriterPairs
<1>5. CASE kind[p] = "Mapped"
  <2> DEFINE h == game[p].hash
  <2>1. game[p] # NoGame /\ save[h] = Resized(save[h])
    BY <1>5 DEF SaveInv, MappedIsSized
  <2>2. h \in Hashes
    BY <2>1, <1>1, SaveConstants DEF SaveTypes
  <2>3. /\ save' = [save EXCEPT ![h] = [save[h] EXCEPT ![c] = v]]
        /\ written' = [written EXCEPT ![h] = [Resized(written[h]) EXCEPT ![c] = v]]
        /\ heap' = heap
    BY <1>5, <1>1, <2>2 DEF WriteSave, SaveTypes
  <2>4. save[h] = Resized(written[h])
    BY <2>1, <2>2 DEF SaveInv, FilesAsWritten
  <2>5. [save[h] EXCEPT ![c] = v] \in Memory
    <3>1. save[h] \in Memory
      BY <2>1, <2>2, <1>1, ResizedIsMemory DEF SaveTypes
    <3>2. QED
      BY <3>1, <1>2 DEF Memory
  <2>6. save'[h] = [save[h] EXCEPT ![c] = v] /\ written'[h] = save'[h]
    BY <2>2, <2>3, <2>4, <1>1 DEF SaveTypes
  <2>7. save'[h] \in Seq(0..255) /\ Resized(save'[h]) = save'[h]
    BY <2>5, <2>6, MemoryIsSeq
  <2>8. \A k \in Hashes : k # h => save'[k] = save[k] /\ written'[k] = written[k]
    BY <2>3, <1>1 DEF SaveTypes
  <2>9. SaveTypes'
    <3>1. [save[h] EXCEPT ![c] = v] \in Seq(0..255)
      BY <2>6, <2>7
    <3>2. [Resized(written[h]) EXCEPT ![c] = v] \in Seq(0..255)
      BY <3>1, <2>4
    <3>3. save' \in [Hashes -> Seq(0..255)] /\ written' \in [Hashes -> Seq(0..255)]
      BY <3>1, <3>2, <2>2, <2>3, <1>1 DEF SaveTypes
    <3>4. QED
      BY <3>3, <1>1, <1>3, <2>3 DEF SaveTypes
  <2>10. MappedIsSized'
    <3>1. SUFFICES ASSUME NEW q \in Emulators, kind[q] = "Mapped"
                   PROVE  game[q] # NoGame /\ save'[game[q].hash] = Resized(save'[game[q].hash])
      BY <1>3 DEF MappedIsSized
    <3>2. game[q] # NoGame /\ save[game[q].hash] = Resized(save[game[q].hash])
      BY <3>1 DEF SaveInv, MappedIsSized
    <3>3. game[q].hash \in Hashes
      BY <3>2, <1>1, SaveConstants DEF SaveTypes
    <3>4. QED
      BY <3>2, <3>3, <2>7, <2>8
  <2>11. FilesAsWritten'
    BY <2>6, <2>8 DEF SaveInv, FilesAsWritten
  <2>12. QED
    BY <2>9, <2>10, <2>11, <1>4 DEF SaveInv
<1>6. CASE kind[p] # "Mapped"
  <2>1. heap' = [heap EXCEPT ![p] = [heap[p] EXCEPT ![c] = v]] /\ save' = save /\ written' = written
    BY <1>6, <1>1 DEF WriteSave, SaveTypes
  <2>2. [heap[p] EXCEPT ![c] = v] \in Memory
    BY <1>1, <1>2 DEF SaveTypes, Memory
  <2>3. SaveTypes'
    BY <2>1, <2>2, <1>1, <1>3 DEF SaveTypes
  <2>4. MappedIsSized' /\ FilesAsWritten'
    BY <2>1, <1>3 DEF SaveInv, MappedIsSized, FilesAsWritten
  <2>5. QED
    BY <2>3, <2>4, <1>4 DEF SaveInv
<1>7. QED
  BY <1>5, <1>6

LEMMA SaveNextInv == SaveInv /\ [SaveNext]_saveVars => SaveInv'
<1> SUFFICES ASSUME SaveInv, [SaveNext]_saveVars
             PROVE  SaveInv'
  OBVIOUS
<1>1. CASE UNCHANGED <<system, save, game, kind, heap, written>>
  BY <1>1, PairsAreEnough, PairsAreEnoughNext
     DEF OneWriterPairs, SaveInv, SaveTypes, MappedIsSized, FilesAsWritten
<1>2. ASSUME NEW p \in Emulators, LoadGame(p)
      PROVE  SaveInv'
  BY <1>2, LoadGameSaves
<1>3. ASSUME NEW p \in Emulators, Release(p)
      PROVE  SaveInv'
  BY <1>3, ReleaseSaves
<1>4. ASSUME NEW p \in Emulators, SetGate(p)
      PROVE  SaveInv'
  BY <1>1, <1>4 DEF SetGate
<1>5. ASSUME NEW p \in Emulators, NEW c \in 1..SaveSize, NEW v \in SaveBytes, WriteSave(p, c, v)
      PROVE  SaveInv'
  BY <1>5, WriteSaves
<1>6. ASSUME NEW p \in Emulators, NEW c \in 1..SaveSize, ReadSave(p, c)
      PROVE  SaveInv'
  BY <1>1, <1>6 DEF ReadSave
<1>7. QED
  BY <1>1, <1>2, <1>3, <1>4, <1>5, <1>6 DEF SaveNext, saveVars

\* What is read from a mapped file is what was written there.
LEMMA ReadsWhatWasWritten ==
    SaveInv => \A p \in Emulators, c \in 1..SaveSize :
        ReadSave(p, c) /\ Readable(p) /\ kind[p] = "Mapped" =>
            answer' = Resized(written[game[p].hash])[c]
<1> SUFFICES ASSUME SaveInv, NEW p \in Emulators, NEW c \in 1..SaveSize,
                    ReadSave(p, c), Readable(p), kind[p] = "Mapped"
             PROVE  answer' = Resized(written[game[p].hash])[c]
  OBVIOUS
<1>1. answer' = save[game[p].hash][c]
  BY DEF ReadSave
<1>2. game[p] # NoGame /\ save[game[p].hash] = Resized(save[game[p].hash])
  BY DEF SaveInv, MappedIsSized
<1>3. game[p].hash \in Hashes
  BY <1>2, SaveConstants DEF SaveInv, SaveTypes
<1>4. QED
  BY <1>1, <1>2, <1>3 DEF SaveInv, FilesAsWritten

(* However emulators start, end and fail, each mapped file has its size    *)
(* and the bytes players believe it to have.                               *)
THEOREM SaveInvariant == SaveSpec => []SaveInv
<1>1. SaveInit => SaveInv
  BY SaveInitInv
<1>2. QED
  BY <1>1, SaveNextInv, PTL DEF SaveSpec

(* SavesKept: for any number of emulators, games and bytes, a save is safe *)
(* from everything but the writes of its own game.                         *)
THEOREM SavesKeptHolds == SaveSpec => SavesKept
<1>1. SaveInv => OneWriter
  BY DEF SaveInv
<1>2. QED
  BY <1>1, SaveInvariant, ReadsWhatWasWritten, PTL DEF SavesKept, SaveSurvives

(***************************************************************************)
(* The scanline counter of the MMC3.                                       *)
(***************************************************************************)
LEMMA MinOfTwo ==
    ASSUME NEW a \in Int, NEW b \in Int
    PROVE  Min({a, b}) = IF a <= b THEN a ELSE b
<1> DEFINE m == IF a <= b THEN a ELSE b
<1>1. m \in {a, b} /\ \A y \in {a, b} : m <= y
  OBVIOUS
<1>2. \A x \in {a, b} : (\A y \in {a, b} : x <= y) => x = m
  OBVIOUS
<1>3. QED
  BY <1>1, <1>2 DEF Min

CounterTypes ==
    /\ irq_latch \in Nat /\ irq_counter \in Nat /\ quiet \in Nat
    /\ mode_a \in BOOLEAN /\ irq_reload \in BOOLEAN /\ irq_enabled \in BOOLEAN
    /\ mapper_irq \in BOOLEAN /\ steady \in BOOLEAN

\* Between two zeros the counter stands where the clocks since the last one
\* have brought it from the latch, unless the latch was written meanwhile.
CounterStands ==
    /\ quiet = 0 <=> irq_counter = 0
    /\ steady /\ quiet > 0 => irq_counter + quiet = irq_latch + 1

CounterInv == CounterTypes /\ CounterStands

\* One clock, and where the counter then stands since it was last reloaded.
LEMMA ClockIrqCounts ==
    ASSUME CounterInv, ClockIrq
    PROVE  /\ quiet' \in Nat /\ irq_counter' \in Nat
           /\ CounterStands'
           /\ steady => (irq_counter' = 0 <=> quiet = irq_latch)
           /\ steady => (irq_counter = 0 <=> quiet = 0)
<1>1. irq_counter' = (IF irq_counter = 0 THEN irq_latch ELSE irq_counter - 1)
  BY DEF ClockIrq
<1>2. irq_counter' \in Nat /\ quiet' = (IF irq_counter' = 0 THEN 0 ELSE quiet + 1)
  BY <1>1 DEF ClockIrq, CounterInv, CounterTypes
<1>3. steady' <=> (irq_counter' = 0 \/ steady)
  BY DEF ClockIrq
<1>4. irq_latch' = irq_latch
  BY DEF ClockIrq
<1>5. quiet \in Nat /\ irq_latch \in Nat /\ irq_counter \in Nat
  BY DEF CounterInv, CounterTypes
<1>6. (quiet = 0 <=> irq_counter = 0) /\ (steady /\ quiet > 0 => irq_counter + quiet = irq_latch + 1)
  BY DEF CounterInv, CounterStands
<1>7. quiet' \in Nat
  BY <1>2, <1>5
<1>8. quiet' = 0 <=> irq_counter' = 0
  BY <1>2, <1>5
<1>9. steady' /\ quiet' > 0 => irq_counter' + quiet' = irq_latch + 1
  BY <1>1, <1>2, <1>3, <1>5, <1>6
<1>10. steady => (irq_counter' = 0 <=> quiet = irq_latch)
  BY <1>1, <1>5, <1>6
<1>11. QED
  BY <1>2, <1>4, <1>6, <1>7, <1>8, <1>9, <1>10 DEF CounterStands

\* The interrupt of a clock, in terms of the promise.
LEMMA FiresAsPromised ==
    ASSUME CounterInv, ClockIrq, steady
    PROVE  mapper_irq' <=> \/ mapper_irq
                           \/ /\ irq_enabled /\ quiet = irq_latch
                              /\ mode_a /\ irq_latch = 0 => irq_reload
<1>1. mapper_irq' <=> (mapper_irq \/ Fires(irq_counter'))
  BY DEF ClockIrq
<1>2. (irq_counter' = 0 <=> quiet = irq_latch) /\ (irq_counter = 0 <=> quiet = 0)
  BY ClockIrqCounts
<1>3. Fires(irq_counter') <=>
        (irq_enabled /\ quiet = irq_latch /\ (mode_a => irq_latch # 0 \/ irq_reload))
  BY <1>2 DEF Fires
<1>4. QED
  BY <1>1, <1>3

LEMMA CounterTypesNext ==
    ASSUME CounterInv, [Mmc3Next]_mmc3Vars
    PROVE  CounterInv'
<1>1. CASE ClockIrq /\ mode_a' = mode_a
  <2>1. quiet' \in Nat /\ irq_counter' \in Nat /\ CounterStands'
    BY <1>1, ClockIrqCounts
  <2>2. irq_latch' \in Nat /\ mode_a' \in BOOLEAN
    BY <1>1 DEF ClockIrq, CounterInv, CounterTypes
  <2>3. irq_reload' \in BOOLEAN /\ irq_enabled' \in BOOLEAN /\ mapper_irq' \in BOOLEAN /\ steady' \in BOOLEAN
    BY <1>1, Zenon DEF ClockIrq, CounterInv, CounterTypes
  <2>4. QED
    BY <2>1, <2>2, <2>3 DEF CounterInv, CounterTypes
<1>2. CASE UNCHANGED irqVars /\ mode_a' = mode_a
  BY <1>2 DEF irqVars, CounterInv, CounterTypes, CounterStands
<1>3. ASSUME NEW r, NEW d, Hook(r, d), mode_a' = mode_a
      PROVE  CounterInv'
  BY <1>1, <1>2, <1>3 DEF Hook
<1>4. CASE Fetch
  BY <1>3, <1>4 DEF Fetch
<1>5. CASE WriteAddress
  BY <1>3, <1>5 DEF WriteAddress
<1>6. CASE IdleFetch \/ NextScan \/ EnterVblankScan \/ StartOfFrame \/ ResetPpu
           \/ WriteTables \/ WriteMask
  BY <1>2, <1>6 DEF IdleFetch, NextScan, EnterVblankScan, StartOfFrame, ResetPpu, WriteTables, WriteMask
<1>7. CASE WriteC000
  <2>1. irq_latch' \in Nat
    BY <1>7, Mmc3Assumption DEF WriteC000
  <2>2. QED
    BY <1>7, <2>1 DEF WriteC000, CounterInv, CounterTypes, CounterStands
<1>8. CASE WriteC001
  BY <1>8 DEF WriteC001, CounterInv, CounterTypes, CounterStands
<1>9. CASE WriteE000
  BY <1>9 DEF WriteE000, CounterInv, CounterTypes, CounterStands
<1>10. CASE UNCHANGED mmc3Vars
  BY <1>2, <1>10 DEF mmc3Vars
<1>11. QED
  BY <1>4, <1>5, <1>6, <1>7, <1>8, <1>9, <1>10 DEF Mmc3Next

LEMMA IrqOnTheLineStep ==
    CounterInv /\ [Mmc3Next]_mmc3Vars =>
        (clocks' # clocks /\ steady /\ ~StartOfFrame /\ ~NextScan =>
            (mapper_irq' <=> \/ mapper_irq
                             \/ /\ irq_enabled /\ quiet = irq_latch
                                /\ mode_a /\ irq_latch = 0 => irq_reload))
<1> SUFFICES ASSUME CounterInv, Mmc3Next, clocks' # clocks, steady, ~StartOfFrame, ~NextScan
             PROVE  mapper_irq' <=> \/ mapper_irq
                                    \/ /\ irq_enabled /\ quiet = irq_latch
                                       /\ mode_a /\ irq_latch = 0 => irq_reload
  BY DEF mmc3Vars
<1>1. \/ \E r : \E d : Hook(r, d)
      \/ clocks' = clocks
  BY DEF Mmc3Next, Fetch, IdleFetch, EnterVblankScan, WriteTables, WriteMask, WriteAddress,
         WriteC000, WriteC001, WriteE000, ResetPpu
<1>2. ClockIrq
  BY <1>1 DEF Hook
<1>3. QED
  BY <1>2, FiresAsPromised

-----------------------------------------------------------------------------
LineTypes ==
    /\ scan \in 0..VblankScan /\ fetch \in 0..42 /\ gap \in 0..16
    /\ calm \in -1..1 /\ clocks \in Nat

LineFlags ==
    /\ tables \in [background : BOOLEAN, sprites : BOOLEAN, large : BOOLEAN]
    /\ tiles \in [0..7 -> BOOLEAN]
    /\ show \in BOOLEAN /\ high \in BOOLEAN

\* While the PPU is left alone, a rise behind a rise is too near to count,
\* and one behind a fetch of the lower table is far enough.
LastPattern == PatternBit(fetch - 1)
GapTellsLastFetch ==
    scan < VblankScan /\ calm >= 0 /\ show =>
        /\ gap >= 2
        /\ fetch > 0 /\ LastPattern => gap = 2
        /\ fetch > 0 /\ ~LastPattern => gap >= 10

\* A calm line follows one that was shown, whose end is too near for the
\* rise of its first fetch to count.
CalmStart ==
    scan < VblankScan /\ calm = 1 =>
        /\ show
        /\ fetch = 0 /\ tables.background => gap < 10

\* The clocks of a calm line so far.
ClocksSoFar ==
    scan < VblankScan /\ calm = 1 =>
        /\ ~tables.large =>
             clocks = CASE fetch <= 32       -> 0
                        [] fetch \in 33..40  -> IF tables.sprites /\ ~tables.background THEN 1 ELSE 0
                        [] OTHER             -> IF tables.background # tables.sprites THEN 1 ELSE 0
        /\ tables.large /\ ~tables.background /\ Unbroken =>
             clocks = IF \E i \in 0..7 : i + 32 < fetch /\ tiles[i] THEN 1 ELSE 0

LineInv == LineTypes /\ LineFlags /\ GapTellsLastFetch /\ CalmStart /\ ClocksSoFar

\* The gap between two rises of A12, which stops at sixteen.
LEMMA LaterIs ==
    ASSUME NEW n \in Nat, gap \in 0..16
    PROVE  Later(n) = IF gap + n <= 16 THEN gap + n ELSE 16
BY MinOfTwo DEF Later, MinGap

\* The pattern line is a bit, whatever the dot.
LEMMA PatternBitIs ==
    ASSUME LineFlags
    PROVE  \A f \in 0..42 : PatternBit(f) \in BOOLEAN
<1> SUFFICES ASSUME NEW f \in 0..42
             PROVE  PatternBit(f) \in BOOLEAN
  OBVIOUS
<1>1. CASE f \notin 32..39
  <2>1. PatternBit(f) = tables.background
    BY <1>1, Zenon DEF PatternBit
  <2>2. QED
    BY <2>1 DEF LineFlags
<1>2. CASE f \in 32..39 /\ tables.large
  <2>1. f - 32 \in 0..7
    BY <1>2
  <2>2. PatternBit(f) = tiles[f - 32]
    BY <1>2 DEF PatternBit
  <2>3. QED
    BY <2>1, <2>2 DEF LineFlags
<1>3. CASE f \in 32..39 /\ ~tables.large
  BY <1>3 DEF PatternBit, LineFlags
<1>4. QED
  BY <1>1, <1>2, <1>3

\* What a fetch does to the filter and to the clocks of its line.
LEMMA FetchFilters ==
    ASSUME LineInv, Fetch
    PROVE  /\ gap' = IF PatternBit(fetch) THEN 2 ELSE IF gap + 8 <= 16 THEN gap + 8 ELSE 16
           /\ clocks' = IF PatternBit(fetch) /\ gap >= 10 THEN clocks + 1 ELSE clocks
<1>1. gap \in 0..16 /\ clocks \in Nat /\ scan # VblankScan
  BY DEF LineInv, LineTypes, Fetch, VblankScan
<1>2. Later(6) = IF gap + 6 <= 16 THEN gap + 6 ELSE 16
  BY <1>1, LaterIs
<1>3. Later(6) = MinGap <=> gap >= 10
  BY <1>1, <1>2 DEF MinGap
<1>4. CASE PatternBit(fetch)
  <2>1. gap' = Min({0 + 2, MinGap})
    BY <1>4 DEF Fetch, Stamp
  <2>2. gap' = 2
    BY <2>1, MinOfTwo DEF MinGap
  <2>3. clocks' = IF gap >= 10 THEN clocks + 1 ELSE clocks
    BY <1>1, <1>3, <1>4 DEF Fetch, Hook
  <2>4. QED
    BY <1>4, <2>2, <2>3
<1>5. CASE ~PatternBit(fetch)
  <2>1. gap' = Min({Later(6) + 2, MinGap})
    BY <1>5 DEF Fetch, Stamp
  <2>2. gap' = IF Later(6) + 2 <= 16 THEN Later(6) + 2 ELSE 16
    BY <2>1, <1>1, <1>2, MinOfTwo DEF MinGap
  <2>3. gap' = IF gap + 8 <= 16 THEN gap + 8 ELSE 16
    BY <2>2, <1>1, <1>2
  <2>4. clocks' = clocks
    BY <1>5 DEF Fetch, Hook
  <2>5. QED
    BY <1>5, <2>3, <2>4
<1>6. QED
  BY <1>4, <1>5

\* No rise is counted before the first fetch of a calm line, and from the
\* second one on exactly those behind a fetch of the lower table.
LEMMA CalmRises ==
    ASSUME LineInv, Fetch, calm = 1
    PROVE  clocks' = IF PatternBit(fetch) /\ fetch > 0 /\ ~PatternBit(fetch - 1)
                     THEN clocks + 1 ELSE clocks
<1>1. scan < VblankScan /\ show /\ fetch \in 0..41 /\ gap \in 0..16
  BY DEF LineInv, LineTypes, Fetch
<1>2. clocks' = IF PatternBit(fetch) /\ gap >= 10 THEN clocks + 1 ELSE clocks
  BY FetchFilters
<1>3. CASE fetch = 0
  <2>0. fetch \notin 32..39
    BY <1>3
  <2>1. PatternBit(fetch) = tables.background
    BY <2>0, Zenon DEF PatternBit
  <2>2. PatternBit(fetch) => ~(gap >= 10)
    BY <2>1, <1>1, <1>3 DEF LineInv, CalmStart
  <2>3. QED
    BY <2>2, <1>2, <1>3
<1>4. CASE fetch > 0
  <2>1. gap >= 10 <=> ~PatternBit(fetch - 1)
    BY <1>1, <1>4 DEF LineInv, GapTellsLastFetch, LastPattern
  <2>2. QED
    BY <2>1, <1>2, <1>4
<1>5. QED
  BY <1>1, <1>3, <1>4

LEMMA FetchKeepsGap ==
    ASSUME LineInv, Fetch
    PROVE  GapTellsLastFetch'
<1>1. /\ fetch' - 1 = fetch /\ fetch \in 0..41 /\ gap \in 0..16
      /\ tables' = tables /\ tiles' = tiles /\ scan' = scan /\ calm' = calm /\ show' = show
  BY DEF LineInv, LineTypes, Fetch, ppuVars
<1>2. LastPattern' = PatternBit(fetch)
  BY <1>1, Zenon DEF LastPattern, PatternBit
<1>3. scan < VblankScan /\ calm >= 0 /\ show => gap >= 2
  BY DEF LineInv, GapTellsLastFetch
<1>4. gap' = IF PatternBit(fetch) THEN 2 ELSE IF gap + 8 <= 16 THEN gap + 8 ELSE 16
  BY FetchFilters
<1>5. CASE PatternBit(fetch)
  BY <1>1, <1>2, <1>4, <1>5 DEF GapTellsLastFetch
<1>6. CASE ~PatternBit(fetch)
  BY <1>1, <1>2, <1>3, <1>4, <1>6 DEF GapTellsLastFetch, VblankScan
<1>7. QED
  BY <1>5, <1>6

\* The bits of the patterns of a line, tile by tile and sprite by sprite.
LEMMA PatternBits ==
    ASSUME LineFlags, NEW f \in 0..41
    PROVE  /\ f \notin 32..39 => (PatternBit(f) <=> tables.background)
           /\ f \in 32..39 /\ ~tables.large => (PatternBit(f) <=> tables.sprites)
           /\ f \in 32..39 /\ tables.large => (PatternBit(f) <=> tiles[f - 32])
BY Zenon DEF PatternBit

\* With 8x8 sprites the counter is clocked once a line, where the tables differ.
LEMMA FetchCountsSmall ==
    ASSUME LineInv, Fetch, calm = 1, ~tables.large
    PROVE  clocks' = CASE fetch' <= 32       -> 0
                       [] fetch' \in 33..40  -> IF tables.sprites /\ ~tables.background THEN 1 ELSE 0
                       [] OTHER              -> IF tables.background # tables.sprites THEN 1 ELSE 0
<1>1. fetch \in 0..41 /\ fetch' = fetch + 1 /\ scan < VblankScan
  BY DEF LineInv, LineTypes, Fetch
<1>2. clocks = CASE fetch <= 32       -> 0
                 [] fetch \in 33..40  -> IF tables.sprites /\ ~tables.background THEN 1 ELSE 0
                 [] OTHER             -> IF tables.background # tables.sprites THEN 1 ELSE 0
  BY <1>1 DEF LineInv, ClocksSoFar
<1>3. clocks' = IF PatternBit(fetch) /\ fetch > 0 /\ ~PatternBit(fetch - 1)
                THEN clocks + 1 ELSE clocks
  BY CalmRises
<1>4. tables.background \in BOOLEAN /\ tables.sprites \in BOOLEAN
  BY DEF LineInv, LineFlags
<1>5. CASE fetch < 32
  <2>1. fetch > 0 => (PatternBit(fetch) <=> PatternBit(fetch - 1))
    <3>1. SUFFICES ASSUME fetch > 0
                   PROVE  PatternBit(fetch) <=> PatternBit(fetch - 1)
      OBVIOUS
    <3>2. fetch - 1 \in 0..41 /\ fetch \notin 32..39 /\ fetch - 1 \notin 32..39
      BY <3>1, <1>1, <1>5
    <3>3. QED
      BY <3>2, <1>1, PatternBits DEF LineInv
  <2>2. clocks' = clocks
    BY <2>1, <1>3
  <2>3. QED
    BY <2>2, <1>1, <1>2, <1>5
<1>6. CASE fetch = 32
  <2>1. (PatternBit(32) <=> tables.sprites) /\ (PatternBit(31) <=> tables.background)
    <3>1. 32 \in 0..41 /\ 31 \in 0..41 /\ 32 \in 32..39 /\ 31 \notin 32..39
      OBVIOUS
    <3>2. QED
      BY <3>1, PatternBits DEF LineInv
  <2>2. clocks = 0
    BY <1>2, <1>6
  <2>3. clocks' = IF PatternBit(32) /\ ~PatternBit(31) THEN 1 ELSE 0
    BY <2>2, <1>3, <1>6
  <2>4. QED
    BY <2>1, <2>3, <1>1, <1>6
<1>7. CASE fetch \in 33..39
  <2>1. fetch \in 32..39 /\ fetch - 1 \in 32..39 /\ fetch - 1 \in 0..41
    BY <1>7
  <2>2. PatternBit(fetch) <=> PatternBit(fetch - 1)
    BY <2>1, <1>1, PatternBits DEF LineInv
  <2>3. clocks' = clocks
    BY <2>2, <1>3
  <2>4. QED
    BY <2>3, <1>1, <1>2, <1>7
<1>8. CASE fetch = 40
  <2>1. (PatternBit(40) <=> tables.background) /\ (PatternBit(39) <=> tables.sprites)
    <3>1. 40 \in 0..41 /\ 39 \in 0..41 /\ 39 \in 32..39 /\ 40 \notin 32..39
      OBVIOUS
    <3>2. QED
      BY <3>1, PatternBits DEF LineInv
  <2>2. clocks = IF tables.sprites /\ ~tables.background THEN 1 ELSE 0
    BY <1>2, <1>8
  <2>3. clocks' = IF PatternBit(40) /\ ~PatternBit(39) THEN clocks + 1 ELSE clocks
    BY <1>3, <1>8
  <2>4. clocks' = IF tables.background # tables.sprites THEN 1 ELSE 0
    BY <2>1, <2>2, <2>3, <1>4
  <2>5. QED
    BY <2>4, <1>1, <1>8
<1>9. CASE fetch = 41
  <2>1. 40 \in 0..41 /\ 41 \in 0..41 /\ 40 \notin 32..39 /\ 41 \notin 32..39
    OBVIOUS
  <2>2. PatternBit(41) <=> PatternBit(40)
    BY <2>1, PatternBits DEF LineInv
  <2>3. clocks' = clocks
    BY <2>2, <1>3, <1>9
  <2>4. QED
    BY <2>3, <1>1, <1>2, <1>9
<1>10. QED
  BY <1>1, <1>5, <1>6, <1>7, <1>8, <1>9

\* With 8x16 sprites it is clocked by the first sprite of the other table.
LEMMA FetchCountsLarge ==
    ASSUME LineInv, Fetch, calm = 1, tables.large, ~tables.background, Unbroken
    PROVE  clocks' = IF \E i \in 0..7 : i + 32 < fetch' /\ tiles[i] THEN 1 ELSE 0
<1>1. fetch \in 0..41 /\ fetch' = fetch + 1 /\ scan < VblankScan
  BY DEF LineInv, LineTypes, Fetch
<1>2. clocks = IF \E i \in 0..7 : i + 32 < fetch /\ tiles[i] THEN 1 ELSE 0
  BY <1>1 DEF LineInv, ClocksSoFar
<1>3. clocks' = IF PatternBit(fetch) /\ fetch > 0 /\ ~PatternBit(fetch - 1)
                THEN clocks + 1 ELSE clocks
  BY CalmRises
<1>4. \A f \in 0..41 : PatternBit(f) <=> f \in 32..39 /\ tiles[f - 32]
  BY PatternBits DEF LineInv
<1>5. CASE ~PatternBit(fetch)
  <2>1. \A i \in 0..7 : tiles[i] => i + 32 # fetch
    BY <1>1, <1>4, <1>5
  <2>2. \A i \in 0..7 : tiles[i] => (i + 32 < fetch' <=> i + 32 < fetch)
    BY <2>1, <1>1
  <2>3. QED
    BY <2>2, <1>2, <1>3, <1>5
<1>6. CASE PatternBit(fetch)
  <2>1. PICK n \in 0..7 : fetch = n + 32 /\ tiles[n]
    <3>1. fetch \in 32..39 /\ tiles[fetch - 32]
      BY <1>1, <1>4, <1>6
    <3>2. fetch - 32 \in 0..7 /\ fetch = (fetch - 32) + 32
      BY <3>1
    <3>3. QED
      BY <3>1, <3>2
  <2>2. \E i \in 0..7 : i + 32 < fetch' /\ tiles[i]
    BY <2>1, <1>1
  <2>3. CASE \E i \in 0..7 : i + 32 < fetch /\ tiles[i]
    <3>1. PICK i \in 0..7 : i + 32 < fetch /\ tiles[i]
      BY <2>3
    <3>2. n - 1 \in 0..7 /\ fetch - 1 \in 0..41 /\ fetch - 1 \in 32..39 /\ (fetch - 1) - 32 = n - 1
      BY <3>1, <2>1
    <3>3. tiles[n - 1]
      <4>1. CASE i = n - 1
        BY <4>1, <3>1
      <4>2. CASE i < n - 1
        BY <4>2, <3>1, <3>2, <2>1 DEF Unbroken
      <4>3. QED
        BY <4>1, <4>2, <3>1, <2>1
    <3>4. PatternBit(fetch - 1)
      BY <3>2, <3>3, <1>4
    <3>5. QED
      BY <3>4, <2>2, <2>3, <1>2, <1>3
  <2>4. CASE ~\E i \in 0..7 : i + 32 < fetch /\ tiles[i]
    <3>1. ~PatternBit(fetch - 1)
      <4>1. SUFFICES ASSUME PatternBit(fetch - 1)
                     PROVE  FALSE
        OBVIOUS
      <4>2. fetch - 1 \in 0..41
        BY <2>1
      <4>3. fetch - 1 \in 32..39 /\ tiles[(fetch - 1) - 32]
        BY <4>1, <4>2, <1>4
      <4>4. (fetch - 1) - 32 \in 0..7 /\ ((fetch - 1) - 32) + 32 < fetch
        BY <4>3, <2>1
      <4>5. QED
        BY <4>3, <4>4, <2>4
    <3>2. fetch > 0
      BY <2>1
    <3>3. QED
      BY <3>1, <3>2, <2>2, <2>4, <1>2, <1>3, <1>6
  <2>5. QED
    BY <2>3, <2>4
<1>7. QED
  BY <1>5, <1>6

LEMMA FetchKeepsLine ==
    ASSUME LineInv, Fetch
    PROVE  LineInv'
<1>1. /\ fetch \in 0..41 /\ fetch' = fetch + 1 /\ show
      /\ scan' = scan /\ calm' = calm /\ show' = show /\ tables' = tables /\ tiles' = tiles
  BY DEF LineInv, LineTypes, Fetch, ppuVars
<1>2. LineTypes'
  <2>1. gap' \in 0..16 /\ clocks' \in Nat
    BY FetchFilters DEF LineInv, LineTypes
  <2>2. scan' \in 0..VblankScan'
    BY <1>1 DEF LineInv, LineTypes, VblankScan
  <2>3. calm' \in -1..1
    BY <1>1 DEF LineInv, LineTypes
  <2>4. QED
    BY <2>1, <2>2, <2>3, <1>1 DEF LineTypes
<1>3. LineFlags'
  <2>1. high' \in BOOLEAN
    BY <1>1, PatternBitIs DEF Fetch, LineInv
  <2>2. QED
    BY <2>1, <1>1 DEF LineInv, LineFlags
<1>4. CalmStart'
  BY <1>1 DEF CalmStart
<1>5. ClocksSoFar'
  <2>1. SUFFICES ASSUME calm = 1
                 PROVE  ClocksSoFar'
    BY <1>1 DEF ClocksSoFar
  <2>2. Unbroken' <=> Unbroken
    BY <1>1 DEF Unbroken
  <2>3. QED
    BY <2>1, <2>2, <1>1, FetchCountsSmall, FetchCountsLarge DEF ClocksSoFar
<1>6. QED
  BY <1>2, <1>3, <1>4, <1>5, FetchKeepsGap DEF LineInv

LEMMA NextScanKeepsLine ==
    ASSUME LineInv, NextScan
    PROVE  LineInv'
<1>1. /\ scan \in 0..(RenderedLines - 1) /\ scan' = scan + 1 /\ fetch = 42 /\ fetch' = 0
      /\ clocks' = 0 /\ show' = show /\ tables' = tables
  BY Mmc3Assumption DEF LineInv, LineTypes, VblankScan, NextScan, ppuVars
<1>2. gap \in 0..16 /\ calm \in -1..1
  BY DEF LineInv, LineTypes
<1>3. Later(5) = (IF gap + 5 <= 16 THEN gap + 5 ELSE 16)
      /\ Later(4) = (IF gap + 4 <= 16 THEN gap + 4 ELSE 16)
  BY <1>2, LaterIs
<1>4. gap' \in {Later(4), Later(5)}
  BY DEF NextScan
<1>5. gap' \in 4..16 /\ (gap = 2 => gap' < 10)
  BY <1>2, <1>3, <1>4
<1>6. calm' = IF show THEN (IF calm + 1 <= 1 THEN calm + 1 ELSE 1) ELSE -1
  BY <1>2, MinOfTwo DEF NextScan
<1>7. calm' \in -1..1 /\ (calm' = 1 => show /\ calm >= 0)
  BY <1>2, <1>6
<1>8. LineTypes'
  <2>1. scan' \in 0..VblankScan'
    BY <1>1, Mmc3Assumption DEF VblankScan
  <2>2. QED
    BY <2>1, <1>1, <1>5, <1>7 DEF LineTypes
<1>9. LineFlags'
  <2>1. tiles' \in [0..7 -> BOOLEAN]
    BY Mmc3Assumption DEF NextScan
  <2>2. high' \in BOOLEAN
    <3>1. high' = (high /\ ~show)
      BY DEF NextScan
    <3>2. QED
      BY <3>1, Zenon DEF LineInv, LineFlags
  <2>3. QED
    BY <2>1, <2>2, <1>1 DEF LineInv, LineFlags
<1>10. GapTellsLastFetch'
  BY <1>1, <1>5 DEF GapTellsLastFetch
<1>11. CalmStart'
  <2>1. SUFFICES ASSUME calm' = 1
                 PROVE  show /\ (tables.background => gap' < 10)
    BY <1>1 DEF CalmStart
  <2>2. show /\ calm >= 0 /\ scan < VblankScan
    BY <2>1, <1>1, <1>7, Mmc3Assumption DEF VblankScan
  <2>3. LastPattern <=> tables.background
    <3>1. 41 \in 0..41 /\ 41 \notin 32..39 /\ 42 - 1 = 41
      OBVIOUS
    <3>2. QED
      BY <3>1, <1>1, PatternBits DEF LineInv, LastPattern
  <2>4. tables.background => gap = 2
    BY <2>2, <2>3, <1>1 DEF LineInv, GapTellsLastFetch
  <2>5. QED
    BY <2>2, <2>4, <1>5
<1>12. ClocksSoFar'
  <2>1. ~\E i \in 0..7 : i + 32 < fetch' /\ tiles'[i]
    BY <1>1
  <2>2. QED
    BY <2>1, <1>1 DEF ClocksSoFar
<1>13. QED
  BY <1>8, <1>9, <1>10, <1>11, <1>12 DEF LineInv

\* A step of the vertical blank, which promises nothing of the lines.
LEMMA BlankKeepsLine ==
    ASSUME scan' = VblankScan, VblankScan' = VblankScan, LineTypes', LineFlags'
    PROVE  LineInv'
BY Mmc3Assumption DEF LineInv, GapTellsLastFetch, CalmStart, ClocksSoFar, VblankScan

\* The game disturbs the line: nothing is promised of it.
LEMMA DisturbedKeepsLine ==
    ASSUME calm' = -1, LineTypes', LineFlags'
    PROVE  LineInv'
BY DEF LineInv, GapTellsLastFetch, CalmStart, ClocksSoFar

LEMMA StartKeepsLine ==
    ASSUME LineInv, StartOfFrame
    PROVE  LineInv'
<1>1. /\ scan' = 0 /\ fetch' = 0 /\ gap' = 16 /\ calm' = 0 /\ clocks' = 0
      /\ tiles' \in TileRows /\ tables' = tables /\ show' = show /\ high' = high
  BY DEF StartOfFrame, MinGap, ppuVars
<1>2. LineTypes'
  BY <1>1, Mmc3Assumption DEF LineTypes, VblankScan
<1>3. LineFlags'
  <2>1. tiles' \in [0..7 -> BOOLEAN]
    BY <1>1, Mmc3Assumption
  <2>2. QED
    BY <2>1, <1>1 DEF LineInv, LineFlags
<1>4. QED
  BY <1>1, <1>2, <1>3 DEF LineInv, GapTellsLastFetch, CalmStart, ClocksSoFar

\* A line that is not shown is never calm.
LEMMA IdleKeepsLine ==
    ASSUME LineInv, IdleFetch
    PROVE  LineInv'
<1>1. /\ ~show /\ show' = show /\ calm' = calm /\ scan' = scan /\ scan < VblankScan
      /\ fetch \in 0..41 /\ fetch' = fetch + 1 /\ clocks' = clocks
      /\ tables' = tables /\ tiles' = tiles /\ high' = high
  BY DEF LineInv, LineTypes, IdleFetch, ppuVars
<1>2. gap' \in 0..16
  <2>1. gap \in 0..16 /\ gap' = Later(8)
    BY DEF LineInv, LineTypes, IdleFetch
  <2>2. QED
    BY <2>1, LaterIs
<1>3. LineTypes'
  BY <1>1, <1>2 DEF LineInv, LineTypes, VblankScan
<1>4. LineFlags'
  BY <1>1 DEF LineInv, LineFlags
<1>5. calm # 1
  BY <1>1 DEF LineInv, CalmStart
<1>6. QED
  BY <1>1, <1>3, <1>4, <1>5 DEF LineInv, GapTellsLastFetch, CalmStart, ClocksSoFar

LEMMA WriteAddressKeepsLine ==
    ASSUME LineInv, WriteAddress
    PROVE  LineInv'
<1> DEFINE rises == high' /\ ~high
<1>1. /\ calm' = -1 /\ tables' = tables /\ show' = show /\ high' \in BOOLEAN
      /\ gap' = Stamp(rises, gap) /\ Hook(rises, 0)
  BY DEF WriteAddress, ppuVars
<1>2. scan' = scan /\ fetch' = fetch /\ tiles' = tiles
  BY DEF WriteAddress, Write, beamVars
<1>3. gap' \in 0..16
  BY <1>1 DEF LineInv, LineTypes, Stamp
<1>4. clocks' \in Nat
  <2>1. clocks \in Nat /\ (Min({clocks, 1}) = IF clocks <= 1 THEN clocks ELSE 1)
    BY MinOfTwo DEF LineInv, LineTypes
  <2>2. \/ clocks' = clocks
        \/ clocks' = clocks + 1
        \/ clocks' = 1 - Min({clocks, 1})
    BY <1>1 DEF Hook
  <2>3. QED
    BY <2>1, <2>2
<1>5. LineTypes'
  BY <1>1, <1>2, <1>3, <1>4 DEF LineInv, LineTypes, VblankScan
<1>6. LineFlags'
  BY <1>1, <1>2 DEF LineInv, LineFlags
<1>7. QED
  BY <1>1, <1>5, <1>6, DisturbedKeepsLine

LEMMA LineNext == LineInv /\ [Mmc3Next]_mmc3Vars => LineInv'
<1> SUFFICES ASSUME LineInv, [Mmc3Next]_mmc3Vars
             PROVE  LineInv'
  OBVIOUS
<1>1. CASE UNCHANGED <<scan, fetch, tiles, ppuVars, high, gap, calm, clocks>>
  <2>1. UNCHANGED <<scan, fetch, tiles, tables, show, high, gap, calm, clocks>>
    BY <1>1 DEF ppuVars
  <2>2. QED
    BY <2>1 DEF LineInv, LineTypes, LineFlags, GapTellsLastFetch, CalmStart, ClocksSoFar,
                LastPattern, PatternBit, Unbroken, VblankScan
<1>2. CASE EnterVblankScan
  <2>1. scan' = VblankScan /\ VblankScan' = VblankScan
    BY <1>2 DEF EnterVblankScan, VblankScan
  <2>2. LineTypes'
    BY <1>2, Mmc3Assumption DEF EnterVblankScan, LineInv, LineTypes, VblankScan, MinGap
  <2>3. LineFlags'
    <3>1. high' \in BOOLEAN
      <4>1. high' = (high /\ ~show)
        BY <1>2 DEF EnterVblankScan
      <4>2. QED
        BY <4>1, Zenon DEF LineInv, LineFlags
    <3>2. QED
      BY <3>1, <1>2 DEF EnterVblankScan, ppuVars, LineInv, LineFlags
  <2>4. QED
    BY <2>1, <2>2, <2>3, BlankKeepsLine
<1>3. CASE WriteTables
  <2>1. LineTypes' /\ calm' = -1
    BY <1>3 DEF WriteTables, Write, beamVars, LineInv, LineTypes, VblankScan
  <2>2. LineFlags'
    <3>1. tables' \in [background : BOOLEAN, sprites : BOOLEAN, large : BOOLEAN]
      BY <1>3, Mmc3Assumption DEF WriteTables
    <3>2. QED
      BY <3>1, <1>3 DEF WriteTables, Write, beamVars, LineInv, LineFlags
  <2>3. QED
    BY <2>1, <2>2, DisturbedKeepsLine
<1>4. CASE WriteMask
  <2>1. LineTypes' /\ calm' = -1
    BY <1>4 DEF WriteMask, Write, beamVars, LineInv, LineTypes, VblankScan
  <2>2. LineFlags'
    <3>1. show' \in BOOLEAN
      <4>1. show' = ~show
        BY <1>4 DEF WriteMask
      <4>2. QED
        BY <4>1, Zenon
    <3>2. QED
      BY <3>1, <1>4 DEF WriteMask, Write, beamVars, LineInv, LineFlags
  <2>3. QED
    BY <2>1, <2>2, DisturbedKeepsLine
<1>5. CASE ResetPpu
  <2>1. scan' = VblankScan /\ VblankScan' = VblankScan
    BY <1>5 DEF ResetPpu, beamVars, VblankScan
  <2>2. LineTypes'
    BY <1>5 DEF ResetPpu, beamVars, LineInv, LineTypes, VblankScan, MinGap
  <2>3. LineFlags'
    <3>1. [background |-> FALSE, sprites |-> FALSE, large |-> FALSE]
            \in [background : BOOLEAN, sprites : BOOLEAN, large : BOOLEAN]
      BY Zenon
    <3>2. tables' \in [background : BOOLEAN, sprites : BOOLEAN, large : BOOLEAN]
      BY <3>1, <1>5 DEF ResetPpu
    <3>3. show' \in BOOLEAN
      BY <1>5 DEF ResetPpu
    <3>4. QED
      BY <3>2, <3>3, <1>5 DEF ResetPpu, beamVars, LineInv, LineFlags
  <2>4. QED
    BY <2>1, <2>2, <2>3, BlankKeepsLine
<1>6. CASE WriteC000 \/ WriteC001 \/ WriteE000
  BY <1>1, <1>6 DEF WriteC000, WriteC001, WriteE000, Write, beamVars
<1>7. CASE UNCHANGED mmc3Vars
  BY <1>1, <1>7 DEF mmc3Vars, beamVars
<1>8. QED
  BY <1>2, <1>3, <1>4, <1>5, <1>6, <1>7, FetchKeepsLine, IdleKeepsLine, NextScanKeepsLine,
     StartKeepsLine, WriteAddressKeepsLine DEF Mmc3Next

LEMMA LineInit == Mmc3Init => LineInv /\ CounterInv
<1> SUFFICES ASSUME Mmc3Init
             PROVE  LineInv /\ CounterInv
  OBVIOUS
<1>1. LineTypes
  BY Mmc3Assumption DEF Mmc3Init, LineTypes, VblankScan
<1>2. LineFlags
  BY Mmc3Assumption DEF Mmc3Init, LineFlags
<1>3. GapTellsLastFetch /\ CalmStart /\ ClocksSoFar
  BY Mmc3Assumption DEF Mmc3Init, GapTellsLastFetch, CalmStart, ClocksSoFar, VblankScan
<1>4. CounterInv
  <2>1. irq_latch \in Nat /\ irq_counter \in Nat /\ quiet \in Nat /\ CounterStands
    BY DEF Mmc3Init, CounterStands
  <2>2. /\ mode_a \in BOOLEAN /\ irq_reload \in BOOLEAN /\ irq_enabled \in BOOLEAN
        /\ mapper_irq \in BOOLEAN /\ steady \in BOOLEAN
    BY Zenon DEF Mmc3Init
  <2>3. QED
    BY <2>1, <2>2 DEF CounterInv, CounterTypes
<1>5. QED
  BY <1>1, <1>2, <1>3, <1>4 DEF LineInv

LEMMA LineOneClock == LineInv => OneClockPerLine
<1> SUFFICES ASSUME LineInv, scan < VblankScan, fetch = 42, calm >= 1
             PROVE  /\ ~tables.large =>
                         clocks = IF tables.background # tables.sprites THEN 1 ELSE 0
                    /\ tables.large /\ ~tables.background /\ Unbroken =>
                         clocks = IF \E i \in 0..7 : tiles[i] THEN 1 ELSE 0
  BY DEF OneClockPerLine
<1>1. calm = 1
  BY DEF LineInv, LineTypes
<1>2. \A i \in 0..7 : i + 32 < 42
  OBVIOUS
<1>3. QED
  BY <1>1, <1>2 DEF LineInv, ClocksSoFar

(* The counter, the filter and the clocks of a line stay related however   *)
(* the game disturbs them.                                                 *)
THEOREM Mmc3Invariant == Mmc3Spec => [](LineInv /\ CounterInv)
<1>1. LineInv /\ CounterInv /\ [Mmc3Next]_mmc3Vars => (LineInv /\ CounterInv)'
  BY LineNext, CounterTypesNext
<1>2. QED
  BY <1>1, LineInit, PTL DEF Mmc3Spec

(* LineInterrupts: whatever the tables, the sprites and the writes, one    *)
(* edge of a calm line passes the filter, and the interrupt comes with the *)
(* clock its latch asked for.                                              *)
THEOREM LineInterruptsHolds == Mmc3Spec => LineInterrupts
BY Mmc3Invariant, LineOneClock, IrqOnTheLineStep, PTL DEF LineInterrupts, IrqOnTheLine, Mmc3Spec

(***************************************************************************)
(* The serial port of the MMC1: the operators that map pages and patterns, *)
(* each by the fields it changes and those it keeps; what Shown1 makes of  *)
(* a board; the writes of the port; the power on.                          *)
(***************************************************************************)
Shown == {"open", "rom", "ram"} \X Int
RegisterFile == [0..3 -> 0..31]
BoardRecords ==
    [id : Nat, pages : Nat \ {0}, banks : Nat, prg : [PrgSlots -> Int],
     chr : [ChrSlots -> Shown], mir : Int,
     reg : [r : RegisterFile, latch : Nat, count : 0..4]]

LEMMA MirrorIs ==
  ASSUME NEW b \in BoardRecords, NEW m \in Int
  PROVE  /\ Mirror(b, m) \in BoardRecords
         /\ Mirror(b, m).mir = m
         /\ \A f \in {"id", "pages", "banks", "prg", "chr", "reg"} : Mirror(b, m)[f] = b[f]
BY DEF Mirror, BoardRecords

\* Prg(), field by field.
LEMMA PrgIs ==
  ASSUME NEW b \in BoardRecords, NEW slot \in Int, NEW size \in Int, NEW num \in Int
  PROVE  /\ Prg(b, slot, size, num) \in BoardRecords
         /\ \A f \in {"id", "pages", "banks", "mir", "chr", "reg"} : Prg(b, slot, size, num)[f] = b[f]
         /\ \A s \in PrgSlots : Prg(b, slot, size, num).prg[s] =
              IF s \in slot..(slot + 2 * size - 1)
              THEN ((num * size) + ((s - slot) \div 2)) % b.pages ELSE b.prg[s]
<1> DEFINE q == [s \in PrgSlots |->
     IF s \in slot..(slot + 2 * size - 1)
     THEN ((num * size) + ((s - slot) \div 2)) % b.pages
     ELSE b.prg[s]]
<1>1. q \in [PrgSlots -> Int]
  <2>1. SUFFICES ASSUME NEW s \in PrgSlots
                 PROVE  (IF s \in slot..(slot + 2 * size - 1)
                         THEN ((num * size) + ((s - slot) \div 2)) % b.pages ELSE b.prg[s]) \in Int
     OBVIOUS
  <2>2. s \in Int /\ b.prg[s] \in Int /\ b.pages \in Nat \ {0}
     BY DEF PrgSlots, BoardRecords
  <2>3. \A x \in Int : x % b.pages \in Int
     BY <2>2
  <2>4. num * size \in Int /\ (s - slot) \div 2 \in Int
     BY <2>2
  <2>5. QED
     BY <2>2, <2>3, <2>4
<1>2. Prg(b, slot, size, num) = [b EXCEPT !.prg = q]
  BY DEF Prg
<1> HIDE DEF q
<1>3. [b EXCEPT !.prg = q] \in BoardRecords
  BY <1>1 DEF BoardRecords
<1>4. \A s \in PrgSlots : Prg(b, slot, size, num).prg[s] = q[s]
  BY <1>1, <1>2 DEF BoardRecords
<1>5. \A f \in {"id", "pages", "banks", "mir", "chr", "reg"} : Prg(b, slot, size, num)[f] = b[f]
  BY <1>2 DEF BoardRecords
<1>6. \A s \in PrgSlots : q[s] = IF s \in slot..(slot + 2 * size - 1)
              THEN ((num * size) + ((s - slot) \div 2)) % b.pages ELSE b.prg[s]
  BY DEF q
<1>7. QED
  BY <1>2, <1>3, <1>4, <1>5, <1>6

LEMMA ChrIs ==
  ASSUME NEW b \in BoardRecords, NEW slot \in Int, NEW size \in Int, NEW num \in Int, b.banks > 0
  PROVE  /\ Chr(b, slot, size, num) \in BoardRecords
         /\ \A f \in {"id", "pages", "banks", "mir", "prg", "reg"} : Chr(b, slot, size, num)[f] = b[f]
         /\ \A s \in ChrSlots : Chr(b, slot, size, num).chr[s] =
              IF s \in slot..(slot + size - 1)
              THEN <<"rom", ((num * size) + (s - slot)) % b.banks>> ELSE b.chr[s]
<1> DEFINE q == [s \in ChrSlots |->
     IF s \in slot..(slot + size - 1)
     THEN <<"rom", ((num * size) + (s - slot)) % b.banks>>
     ELSE b.chr[s]]
<1>1. q \in [ChrSlots -> Shown]
  <2>1. SUFFICES ASSUME NEW s \in ChrSlots
                 PROVE  (IF s \in slot..(slot + size - 1)
                         THEN <<"rom", ((num * size) + (s - slot)) % b.banks>> ELSE b.chr[s]) \in Shown
     OBVIOUS
  <2>2. s \in Int /\ b.chr[s] \in Shown /\ b.banks \in Nat \ {0}
     BY DEF ChrSlots, BoardRecords
  <2>3. \A x \in Int : x % b.banks \in Int
     BY <2>2
  <2>4. (num * size) + (s - slot) \in Int
     BY <2>2
  <2>5. <<"rom", ((num * size) + (s - slot)) % b.banks>> \in Shown
     BY <2>3, <2>4 DEF Shown
  <2>6. QED
     BY <2>2, <2>5
<1>2. Chr(b, slot, size, num) = [b EXCEPT !.chr = q]
  BY DEF Chr, BoardRecords
<1> HIDE DEF q
<1>3. [b EXCEPT !.chr = q] \in BoardRecords
  BY <1>1 DEF BoardRecords
<1>4. \A s \in ChrSlots : Chr(b, slot, size, num).chr[s] = q[s]
  BY <1>1, <1>2 DEF BoardRecords
<1>5. \A f \in {"id", "pages", "banks", "mir", "prg", "reg"} : Chr(b, slot, size, num)[f] = b[f]
  BY <1>2 DEF BoardRecords
<1>6. \A s \in ChrSlots : q[s] = IF s \in slot..(slot + size - 1)
              THEN <<"rom", ((num * size) + (s - slot)) % b.banks>> ELSE b.chr[s]
  BY DEF q
<1>7. QED
  BY <1>2, <1>3, <1>4, <1>5, <1>6

LEMMA ChrRamIs ==
  ASSUME NEW b \in BoardRecords, NEW slot \in Int, NEW size \in Int, NEW num \in Int
  PROVE  /\ ChrRam(b, slot, size, num) \in BoardRecords
         /\ \A f \in {"id", "pages", "banks", "mir", "prg", "reg"} : ChrRam(b, slot, size, num)[f] = b[f]
         /\ \A s \in ChrSlots : ChrRam(b, slot, size, num).chr[s] =
              IF s \in slot..(slot + size - 1)
              THEN <<"ram", (num * size) + (s - slot)>> ELSE b.chr[s]
<1> DEFINE q == [s \in ChrSlots |->
     IF s \in slot..(slot + size - 1) THEN <<"ram", (num * size) + (s - slot)>> ELSE b.chr[s]]
<1>1. q \in [ChrSlots -> Shown]
  <2>1. SUFFICES ASSUME NEW s \in ChrSlots
                 PROVE  (IF s \in slot..(slot + size - 1)
                         THEN <<"ram", (num * size) + (s - slot)>> ELSE b.chr[s]) \in Shown
     OBVIOUS
  <2>2. s \in Int /\ b.chr[s] \in Shown
     BY DEF ChrSlots, BoardRecords
  <2>3. (num * size) + (s - slot) \in Int
     BY <2>2
  <2>4. <<"ram", (num * size) + (s - slot)>> \in Shown
     BY <2>3 DEF Shown
  <2>5. QED
     BY <2>2, <2>4
<1>2. ChrRam(b, slot, size, num) = [b EXCEPT !.chr = q]
  BY DEF ChrRam
<1> HIDE DEF q
<1>3. [b EXCEPT !.chr = q] \in BoardRecords
  BY <1>1 DEF BoardRecords
<1>4. \A s \in ChrSlots : ChrRam(b, slot, size, num).chr[s] = q[s]
  BY <1>1, <1>2 DEF BoardRecords
<1>5. \A f \in {"id", "pages", "banks", "mir", "prg", "reg"} : ChrRam(b, slot, size, num)[f] = b[f]
  BY <1>2 DEF BoardRecords
<1>6. \A s \in ChrSlots : q[s] = IF s \in slot..(slot + size - 1)
              THEN <<"ram", (num * size) + (s - slot)>> ELSE b.chr[s]
  BY DEF q
<1>7. QED
  BY <1>2, <1>3, <1>4, <1>5, <1>6

\* c is b with pages moved, with pattern tables moved from ROM, from RAM.
PrgMoved(b, c, slot, size, num) ==
  /\ \A f \in {"id", "pages", "banks", "mir", "chr", "reg"} : c[f] = b[f]
  /\ \A s \in PrgSlots : c.prg[s] =
       IF s \in slot..(slot + 2 * size - 1)
       THEN ((num * size) + ((s - slot) \div 2)) % b.pages ELSE b.prg[s]
RomMoved(b, c, slot, size, num) ==
  /\ \A f \in {"id", "pages", "banks", "mir", "prg", "reg"} : c[f] = b[f]
  /\ \A s \in ChrSlots : c.chr[s] =
       IF s \in slot..(slot + size - 1)
       THEN <<"rom", ((num * size) + (s - slot)) % b.banks>> ELSE b.chr[s]
RamMoved(b, c, slot, size, num) ==
  /\ \A f \in {"id", "pages", "banks", "mir", "prg", "reg"} : c[f] = b[f]
  /\ \A s \in ChrSlots : c.chr[s] =
       IF s \in slot..(slot + size - 1)
       THEN <<"ram", (num * size) + (s - slot)>> ELSE b.chr[s]

\* Prg() moves the pages of one slot and nothing else.
LEMMA PrgMoves ==
  \A b \in BoardRecords, slot \in Int, size \in Int, num \in Int :
    \E c \in BoardRecords : c = Prg(b, slot, size, num) /\ PrgMoved(b, c, slot, size, num)
BY PrgIs DEF PrgMoved

LEMMA ChrMoves ==
  \A b \in BoardRecords, slot \in Int, size \in Int, num \in Int : b.banks > 0 =>
    \E c \in BoardRecords : c = Chr(b, slot, size, num) /\ RomMoved(b, c, slot, size, num)
BY ChrIs DEF RomMoved

LEMMA ChrRamMoves ==
  \A b \in BoardRecords, slot \in Int, size \in Int, num \in Int :
    \E c \in BoardRecords : c = ChrRam(b, slot, size, num) /\ RamMoved(b, c, slot, size, num)
BY ChrRamIs DEF RamMoved

\* Boards that agree field by field are the same.
LEMMA Same ==
  ASSUME NEW b \in BoardRecords, NEW c \in BoardRecords,
         \A f \in {"id", "pages", "banks", "prg", "chr", "mir", "reg"} : b[f] = c[f]
  PROVE  b = c
BY DEF BoardRecords

Arrangement(r) == <<SingleLow, SingleHigh, Vertical, Horizontal>>[1 + Bits(r[0], 0, 2)]
Bank1(r) == Bits(r[3], 0, 4)
Page1(r, pages, s) ==
    CASE Bits(r[0], 2, 2) = 2 /\ s < 12 -> ((0 * 2) + ((s - 8) \div 2)) % pages
      [] Bits(r[0], 2, 2) = 2 /\ s >= 12 -> ((Bank1(r) * 2) + ((s - 12) \div 2)) % pages
      [] Bits(r[0], 2, 2) = 3 /\ s < 12 -> ((Bank1(r) * 2) + ((s - 8) \div 2)) % pages
      [] Bits(r[0], 2, 2) = 3 /\ s >= 12 -> ((15 * 2) + ((s - 12) \div 2)) % pages
      [] OTHER -> (((Bank1(r) \div 2) * 4) + ((s - 8) \div 2)) % pages
MovesPatterns(r, banks) == banks > 0 \/ Bit(r[0], 4) = 1
Pattern1(r, banks, s) ==
    CASE banks > 0 /\ Bit(r[0], 4) = 1 /\ s < 4  -> <<"rom", ((r[1] * 4) + (s - 0)) % banks>>
      [] banks > 0 /\ Bit(r[0], 4) = 1 /\ s >= 4 -> <<"rom", ((r[2] * 4) + (s - 4)) % banks>>
      [] banks > 0 /\ Bit(r[0], 4) = 0 -> <<"rom", (((r[1] \div 2) * 8) + (s - 0)) % banks>>
      [] banks = 0 /\ s < 4  -> <<"ram", ((r[1] % 2) * 4) + (s - 0)>>
      [] banks = 0 /\ s >= 4 -> <<"ram", ((r[2] % 2) * 4) + (s - 4)>>

ShowsRegisters(b) ==
    /\ b.mir = Arrangement(b.reg.r)
    /\ \A s \in PrgSlots : s # 6 => b.prg[s] = Page1(b.reg.r, b.pages, s)
    /\ MovesPatterns(b.reg.r, b.banks) =>
         \A s \in ChrSlots : b.chr[s] = Pattern1(b.reg.r, b.banks, s)

\* The two halves of Shown1: the pattern tables, then the pages.
Patterned1(a, banks, r) ==
  CASE banks > 0 /\ Bit(r[0], 4) = 1 -> Chr(Chr(a, 0, 4, r[1]), 4, 4, r[2])
    [] banks > 0 /\ Bit(r[0], 4) = 0 -> Chr(a, 0, 8, r[1] \div 2)
    [] banks = 0 /\ Bit(r[0], 4) = 1 ->
         ChrRam(ChrRam(a, 0, 4, r[1] % 2), 4, 4, r[2] % 2)
    [] OTHER -> a
Paged1(p, r) ==
  CASE Bits(r[0], 2, 2) = 2 -> Prg(Prg(p, 8, 2, 0), 12, 2, Bank1(r))
    [] Bits(r[0], 2, 2) = 3 -> Prg(Prg(p, 8, 2, Bank1(r)), 12, 2, 15)
    [] OTHER -> Prg(p, 8, 4, Bank1(r) \div 2)

LEMMA ShownInHalves ==
  ASSUME NEW b
  PROVE  Shown1(b) = Paged1(Patterned1(Mirror(b, Arrangement(b.reg.r)), b.banks, b.reg.r), b.reg.r)
BY Zenon DEF Shown1, Paged1, Patterned1, Arrangement, Bank1

LEMMA BitIs ==
  ASSUME NEW r \in RegisterFile
  PROVE  /\ Bit(r[0], 4) \in {0, 1} /\ Bits(r[0], 2, 2) \in 0..3
         /\ Bank1(r) \in Int /\ Arrangement(r) \in Int
         /\ \A i \in 0..3 : r[i] \in Int /\ r[i] % 2 \in Int /\ r[i] \div 2 \in Int
<1>1. \A i \in 0..3 : r[i] \in 0..31
  BY DEF RegisterFile
<1>2. r[0] \in 0..31 /\ r[3] \in 0..31
  BY <1>1
<1>3. Bit(r[0], 4) \in {0, 1} /\ Bits(r[0], 2, 2) \in 0..3 /\ Bank1(r) \in Int
  BY <1>2 DEF Bit, Bits, Bank1
<1>4. Bits(r[0], 0, 2) \in 0..3
  BY <1>2 DEF Bits
<1>5. Arrangement(r) \in Int
  <2>1. \A i \in 0..3 : <<SingleLow, SingleHigh, Vertical, Horizontal>>[1 + i] \in Int
    BY DEF SingleLow, SingleHigh, Vertical, Horizontal
  <2>2. QED
    BY <2>1, <1>4 DEF Arrangement
<1>6. QED
  BY <1>1, <1>3, <1>5

\* The board after a write of the first pattern register.
LEMMA PatternedIs ==
  ASSUME NEW a \in BoardRecords, NEW r \in RegisterFile
  PROVE  /\ Patterned1(a, a.banks, r) \in BoardRecords
         /\ \A f \in {"id", "pages", "banks", "mir", "prg", "reg"} : Patterned1(a, a.banks, r)[f] = a[f]
         /\ \A s \in ChrSlots : Patterned1(a, a.banks, r).chr[s] =
              IF MovesPatterns(r, a.banks) THEN Pattern1(r, a.banks, s) ELSE a.chr[s]
<1>0. PICK z \in Int : z = 0
  OBVIOUS
<1>1. /\ Bit(r[0], 4) \in {0, 1}
      /\ \A i \in 0..3 : r[i] \in Int /\ r[i] % 2 \in Int /\ r[i] \div 2 \in Int
  BY BitIs
<1>2. a.banks \in Nat /\ (a.banks > 0 <=> a.banks # 0)
  BY DEF BoardRecords
<1>3. CASE a.banks > 0 /\ Bit(r[0], 4) = 1
  <2>0. PICK x \in Int : x = r[1]
    BY <1>1
  <2>1. PICK c \in BoardRecords : c = Chr(a, z, 4, x) /\ RomMoved(a, c, z, 4, x)
    BY <1>3, ChrMoves
  <2>2. PICK y \in Int : y = r[2]
    BY <1>1
  <2>3. c.banks = a.banks /\ c.banks > 0
    BY <2>1, <1>3 DEF RomMoved
  <2>31. PICK d \in BoardRecords : d = Chr(c, 4, 4, y) /\ RomMoved(c, d, 4, 4, y)
    BY <2>3, ChrMoves
  <2>4. Patterned1(a, a.banks, r) = d
    BY <1>0, <1>3, <2>0, <2>1, <2>2, <2>31 DEF Patterned1
  <2>5. \A s \in ChrSlots : d.chr[s] = Pattern1(r, a.banks, s)
    <3>1. SUFFICES ASSUME NEW s \in ChrSlots
                   PROVE  d.chr[s] = Pattern1(r, a.banks, s)
      OBVIOUS
    <3>2. CASE s < 4
      <4>1. s \in 0..(0 + 4 - 1) /\ s \notin 4..(4 + 4 - 1)
        BY <3>2 DEF ChrSlots
      <4>2. d.chr[s] = <<"rom", ((r[1] * 4) + (s - 0)) % a.banks>>
        BY <4>1, <1>0, <2>0, <2>1, <2>31 DEF RomMoved
      <4>3. Pattern1(r, a.banks, s) = <<"rom", ((r[1] * 4) + (s - 0)) % a.banks>>
        BY <3>2, <1>2, <1>3 DEF Pattern1, ChrSlots
      <4>4. QED
        BY <4>2, <4>3
    <3>3. CASE s >= 4
      <4>1. s \in 4..(4 + 4 - 1)
        BY <3>3 DEF ChrSlots
      <4>2. d.chr[s] = <<"rom", ((r[2] * 4) + (s - 4)) % a.banks>>
        BY <4>1, <2>2, <2>3, <2>31 DEF RomMoved
      <4>3. Pattern1(r, a.banks, s) = <<"rom", ((r[2] * 4) + (s - 4)) % a.banks>>
        BY <3>3, <1>2, <1>3 DEF Pattern1, ChrSlots
      <4>4. QED
        BY <4>2, <4>3
    <3>4. QED
      BY <3>2, <3>3 DEF ChrSlots
  <2>6. QED
    BY <2>1, <2>31, <2>4, <2>5, <1>3 DEF MovesPatterns, RomMoved
<1>4. CASE a.banks > 0 /\ Bit(r[0], 4) = 0
  <2>0. PICK y \in Int : y = r[1] \div 2
    BY <1>1
  <2>1. PICK d \in BoardRecords : d = Chr(a, z, 8, y) /\ RomMoved(a, d, z, 8, y)
    BY <1>4, ChrMoves
  <2>2. Patterned1(a, a.banks, r) = d
    BY <1>0, <1>4, <2>0, <2>1 DEF Patterned1
  <2>3. \A s \in ChrSlots : d.chr[s] = Pattern1(r, a.banks, s)
    <3>1. SUFFICES ASSUME NEW s \in ChrSlots
                   PROVE  d.chr[s] = Pattern1(r, a.banks, s)
      OBVIOUS
    <3>2. s \in z..(z + 8 - 1) /\ s - z = s
      BY <1>0 DEF ChrSlots
    <3>3. d.chr[s] = <<"rom", ((y * 8) + s) % a.banks>>
      BY <2>1, <3>2 DEF RomMoved
    <3>4. Pattern1(r, a.banks, s) = <<"rom", ((y * 8) + (s - 0)) % a.banks>>
      BY <2>0, <1>2, <1>4 DEF Pattern1
    <3>5. s - 0 = s
      BY DEF ChrSlots
    <3>6. QED
      BY <3>3, <3>4, <3>5
  <2>4. QED
    BY <2>1, <2>2, <2>3, <1>4 DEF MovesPatterns, RomMoved
<1>5. CASE a.banks = 0 /\ Bit(r[0], 4) = 1
  <2>0. PICK x \in Int : x = r[1] % 2
    BY <1>1
  <2>1. PICK c \in BoardRecords : c = ChrRam(a, z, 4, x) /\ RamMoved(a, c, z, 4, x)
    BY ChrRamMoves
  <2>2. PICK y \in Int : y = r[2] % 2
    BY <1>1
  <2>3. PICK d \in BoardRecords : d = ChrRam(c, 4, 4, y) /\ RamMoved(c, d, 4, 4, y)
    BY ChrRamMoves
  <2>4. Patterned1(a, a.banks, r) = d
    BY <1>0, <1>5, <1>2, <2>0, <2>1, <2>2, <2>3 DEF Patterned1
  <2>5. \A s \in ChrSlots : d.chr[s] = Pattern1(r, a.banks, s)
    <3>1. SUFFICES ASSUME NEW s \in ChrSlots
                   PROVE  d.chr[s] = Pattern1(r, a.banks, s)
      OBVIOUS
    <3>2. CASE s < 4
      <4>1. s \in 0..(0 + 4 - 1) /\ s \notin 4..(4 + 4 - 1)
        BY <3>2 DEF ChrSlots
      <4>2. d.chr[s] = <<"ram", ((r[1] % 2) * 4) + (s - 0)>>
        BY <4>1, <1>0, <2>0, <2>1, <2>3 DEF RamMoved
      <4>3. Pattern1(r, a.banks, s) = <<"ram", ((r[1] % 2) * 4) + (s - 0)>>
        BY <3>2, <1>2, <1>5 DEF Pattern1, ChrSlots
      <4>4. QED
        BY <4>2, <4>3
    <3>3. CASE s >= 4
      <4>1. s \in 4..(4 + 4 - 1)
        BY <3>3 DEF ChrSlots
      <4>2. d.chr[s] = <<"ram", ((r[2] % 2) * 4) + (s - 4)>>
        BY <4>1, <2>2, <2>3 DEF RamMoved
      <4>3. Pattern1(r, a.banks, s) = <<"ram", ((r[2] % 2) * 4) + (s - 4)>>
        BY <3>3, <1>2, <1>5 DEF Pattern1, ChrSlots
      <4>4. QED
        BY <4>2, <4>3
    <3>4. QED
      BY <3>2, <3>3 DEF ChrSlots
  <2>6. QED
    BY <2>1, <2>3, <2>4, <2>5, <1>5 DEF MovesPatterns, RamMoved
<1>6. CASE a.banks = 0 /\ Bit(r[0], 4) = 0
  <2>1. Patterned1(a, a.banks, r) = a
    BY <1>6, <1>2 DEF Patterned1
  <2>2. ~MovesPatterns(r, a.banks)
    BY <1>6 DEF MovesPatterns
  <2>3. QED
    BY <2>1, <2>2
<1>7. QED
  BY <1>1, <1>2, <1>3, <1>4, <1>5, <1>6

LEMMA PagedIs ==
  ASSUME NEW p \in BoardRecords, NEW r \in RegisterFile
  PROVE  /\ Paged1(p, r) \in BoardRecords
         /\ \A f \in {"id", "pages", "banks", "mir", "chr", "reg"} : Paged1(p, r)[f] = p[f]
         /\ \A s \in PrgSlots : Paged1(p, r).prg[s] =
              IF s = 6 THEN p.prg[s] ELSE Page1(r, p.pages, s)
<1>1. Bits(r[0], 2, 2) \in 0..3 /\ Bank1(r) \in Int /\ Bank1(r) \div 2 \in Int
  BY BitIs
<1>2. ASSUME NEW x \in Int, NEW y \in Int
      PROVE  LET c == Prg(p, 8, 2, x)
                 d == Prg(c, 12, 2, y)
             IN  /\ d \in BoardRecords
                 /\ \A f \in {"id", "pages", "banks", "mir", "chr", "reg"} : d[f] = p[f]
                 /\ \A s \in PrgSlots : d.prg[s] =
                      IF s = 6 THEN p.prg[s]
                      ELSE IF s < 12 THEN ((x * 2) + ((s - 8) \div 2)) % p.pages
                      ELSE ((y * 2) + ((s - 12) \div 2)) % p.pages
  <2>1. PICK c \in BoardRecords : c = Prg(p, 8, 2, x) /\ PrgMoved(p, c, 8, 2, x)
    BY <1>2, PrgMoves
  <2>2. PICK d \in BoardRecords : d = Prg(c, 12, 2, y) /\ PrgMoved(c, d, 12, 2, y)
    BY <1>2, PrgMoves
  <2>3. c.pages = p.pages
    BY <2>1 DEF PrgMoved
  <2>4. ASSUME NEW s \in PrgSlots
        PROVE  d.prg[s] = IF s = 6 THEN p.prg[s]
                          ELSE IF s < 12 THEN ((x * 2) + ((s - 8) \div 2)) % p.pages
                          ELSE ((y * 2) + ((s - 12) \div 2)) % p.pages
    <3>1. /\ (s \in 8..(8 + 2 * 2 - 1) <=> s # 6 /\ s < 12)
          /\ (s \in 12..(12 + 2 * 2 - 1) <=> s >= 12)
          /\ (s < 12 <=> ~(s >= 12))
      BY DEF PrgSlots
    <3>2. QED
      BY <3>1, <2>1, <2>2, <2>3 DEF PrgMoved
  <2>5. QED
    BY <2>1, <2>2, <2>4 DEF PrgMoved
<1>3. CASE Bits(r[0], 2, 2) = 2
  <2> DEFINE d == Prg(Prg(p, 8, 2, 0), 12, 2, Bank1(r))
  <2>1. Paged1(p, r) = d
    BY <1>3 DEF Paged1
  <2>2. /\ d \in BoardRecords
        /\ \A f \in {"id", "pages", "banks", "mir", "chr", "reg"} : d[f] = p[f]
        /\ \A s \in PrgSlots : d.prg[s] =
             IF s = 6 THEN p.prg[s]
             ELSE IF s < 12 THEN ((0 * 2) + ((s - 8) \div 2)) % p.pages
             ELSE ((Bank1(r) * 2) + ((s - 12) \div 2)) % p.pages
    <3>1. 0 \in Int /\ 15 \in Int /\ Bank1(r) \in Int
      BY <1>1
    <3>2. QED
      BY <3>1, <1>2, Zenon
  <2> HIDE DEF d
  <2>3. \A s \in PrgSlots : Page1(r, p.pages, s) =
             IF s < 12 THEN ((0 * 2) + ((s - 8) \div 2)) % p.pages
             ELSE ((Bank1(r) * 2) + ((s - 12) \div 2)) % p.pages
    BY <1>3 DEF Page1, PrgSlots
  <2>4. QED
    BY <2>1, <2>2, <2>3
<1>4. CASE Bits(r[0], 2, 2) = 3
  <2> DEFINE d == Prg(Prg(p, 8, 2, Bank1(r)), 12, 2, 15)
  <2>1. Paged1(p, r) = d
    BY <1>4 DEF Paged1
  <2>2. /\ d \in BoardRecords
        /\ \A f \in {"id", "pages", "banks", "mir", "chr", "reg"} : d[f] = p[f]
        /\ \A s \in PrgSlots : d.prg[s] =
             IF s = 6 THEN p.prg[s]
             ELSE IF s < 12 THEN ((Bank1(r) * 2) + ((s - 8) \div 2)) % p.pages
             ELSE ((15 * 2) + ((s - 12) \div 2)) % p.pages
    <3>1. 0 \in Int /\ 15 \in Int /\ Bank1(r) \in Int
      BY <1>1
    <3>2. QED
      BY <3>1, <1>2, Zenon
  <2> HIDE DEF d
  <2>3. \A s \in PrgSlots : Page1(r, p.pages, s) =
             IF s < 12 THEN ((Bank1(r) * 2) + ((s - 8) \div 2)) % p.pages
             ELSE ((15 * 2) + ((s - 12) \div 2)) % p.pages
    BY <1>4 DEF Page1, PrgSlots
  <2>4. QED
    BY <2>1, <2>2, <2>3
<1>5. CASE Bits(r[0], 2, 2) \notin {2, 3}
  <2> DEFINE d == Prg(p, 8, 4, Bank1(r) \div 2)
  <2>1. Paged1(p, r) = d
    BY <1>5 DEF Paged1
  <2>2. /\ d \in BoardRecords
        /\ \A f \in {"id", "pages", "banks", "mir", "chr", "reg"} : d[f] = p[f]
        /\ \A s \in PrgSlots : d.prg[s] =
             IF s \in 8..(8 + 2 * 4 - 1)
             THEN (((Bank1(r) \div 2) * 4) + ((s - 8) \div 2)) % p.pages ELSE p.prg[s]
    BY <1>1, PrgIs
  <2> HIDE DEF d
  <2>3. \A s \in PrgSlots : Page1(r, p.pages, s) =
             (((Bank1(r) \div 2) * 4) + ((s - 8) \div 2)) % p.pages
    BY <1>5 DEF Page1
  <2>4. \A s \in PrgSlots : s \in 8..(8 + 2 * 4 - 1) <=> s # 6
    BY DEF PrgSlots
  <2>5. QED
    BY <2>1, <2>2, <2>3, <2>4
<1>6. QED
  BY <1>1, <1>3, <1>4, <1>5


\* The board that shows what its registers say, field by field.
LEMMA ShownIs ==
  ASSUME NEW b \in BoardRecords
  PROVE  /\ Shown1(b) \in BoardRecords
         /\ \A f \in {"id", "pages", "banks", "reg"} : Shown1(b)[f] = b[f]
         /\ Shown1(b).mir = Arrangement(b.reg.r)
         /\ \A s \in PrgSlots : Shown1(b).prg[s] =
              IF s = 6 THEN b.prg[s] ELSE Page1(b.reg.r, b.pages, s)
         /\ \A s \in ChrSlots : Shown1(b).chr[s] =
              IF MovesPatterns(b.reg.r, b.banks) THEN Pattern1(b.reg.r, b.banks, s) ELSE b.chr[s]
<1>0. PICK r \in RegisterFile : r = b.reg.r
  BY DEF BoardRecords
<1>1. PICK m \in Int : m = Arrangement(r)
  BY BitIs
<1>2. PICK a \in BoardRecords :
        /\ a = Mirror(b, m) /\ a.mir = m
        /\ \A f \in {"id", "pages", "banks", "prg", "chr", "reg"} : a[f] = b[f]
  BY MirrorIs
<1>3. PICK p \in BoardRecords :
        /\ p = Patterned1(a, a.banks, r)
        /\ \A f \in {"id", "pages", "banks", "mir", "prg", "reg"} : p[f] = a[f]
        /\ \A s \in ChrSlots : p.chr[s] =
              IF MovesPatterns(r, a.banks) THEN Pattern1(r, a.banks, s) ELSE a.chr[s]
  BY PatternedIs
<1>4. PICK d \in BoardRecords :
        /\ d = Paged1(p, r)
        /\ \A f \in {"id", "pages", "banks", "mir", "chr", "reg"} : d[f] = p[f]
        /\ \A s \in PrgSlots : d.prg[s] = IF s = 6 THEN p.prg[s] ELSE Page1(r, p.pages, s)
  BY PagedIs
<1>5. a.banks = b.banks /\ p.pages = b.pages
  BY <1>2, <1>3
<1>6. Shown1(b) = d
  BY <1>0, <1>1, <1>2, <1>3, <1>4, <1>5, ShownInHalves
<1>7. \A f \in {"id", "pages", "banks", "reg"} : d[f] = b[f]
  BY <1>2, <1>3, <1>4
<1>8. d.mir = Arrangement(r)
  BY <1>1, <1>2, <1>3, <1>4
<1>9. \A s \in PrgSlots : d.prg[s] = IF s = 6 THEN b.prg[s] ELSE Page1(r, b.pages, s)
  <2>1. p.prg = b.prg
    BY <1>2, <1>3
  <2>2. QED
    BY <2>1, <1>4, <1>5
<1>10. \A s \in ChrSlots : d.chr[s] =
         IF MovesPatterns(r, b.banks) THEN Pattern1(r, b.banks, s) ELSE b.chr[s]
  <2>1. d.chr = p.chr /\ a.chr = b.chr
    BY <1>2, <1>4
  <2>2. QED
    BY <2>1, <1>3, <1>5
<1>11. QED
  BY <1>0, <1>6, <1>7, <1>8, <1>9, <1>10

LEMMA ShownShows ==
  ASSUME NEW b \in BoardRecords
  PROVE  ShowsRegisters(Shown1(b))
<1>1. PICK d \in BoardRecords :
        /\ d = Shown1(b)
        /\ \A f \in {"id", "pages", "banks", "reg"} : d[f] = b[f]
        /\ d.mir = Arrangement(b.reg.r)
        /\ \A s \in PrgSlots : d.prg[s] = IF s = 6 THEN b.prg[s] ELSE Page1(b.reg.r, b.pages, s)
        /\ \A s \in ChrSlots : d.chr[s] =
             IF MovesPatterns(b.reg.r, b.banks) THEN Pattern1(b.reg.r, b.banks, s) ELSE b.chr[s]
  BY ShownIs
<1>2. d.reg = b.reg /\ d.pages = b.pages /\ d.banks = b.banks
  BY <1>1
<1>3. ShowsRegisters(d)
  BY <1>1, <1>2 DEF ShowsRegisters
<1>4. QED
  BY <1>1, <1>3

LEMMA ShownFixed ==
  ASSUME NEW b \in BoardRecords, ShowsRegisters(b)
  PROVE  Shown1(b) = b
<1>1. PICK d \in BoardRecords :
        /\ d = Shown1(b)
        /\ \A f \in {"id", "pages", "banks", "reg"} : d[f] = b[f]
        /\ d.mir = Arrangement(b.reg.r)
        /\ \A s \in PrgSlots : d.prg[s] = IF s = 6 THEN b.prg[s] ELSE Page1(b.reg.r, b.pages, s)
        /\ \A s \in ChrSlots : d.chr[s] =
             IF MovesPatterns(b.reg.r, b.banks) THEN Pattern1(b.reg.r, b.banks, s) ELSE b.chr[s]
  BY ShownIs
<1>2. \A s \in PrgSlots : d.prg[s] = b.prg[s]
  BY <1>1 DEF ShowsRegisters
<1>3. d.prg = b.prg
  BY <1>2 DEF BoardRecords
<1>4. \A s \in ChrSlots : d.chr[s] = b.chr[s]
  BY <1>1 DEF ShowsRegisters
<1>5. d.chr = b.chr
  BY <1>4 DEF BoardRecords
<1>6. d.mir = b.mir
  BY <1>1 DEF ShowsRegisters
<1>7. \A f \in {"id", "pages", "banks", "prg", "chr", "mir", "reg"} : b[f] = d[f]
  BY <1>1, <1>3, <1>5, <1>6
<1>8. b = d
  BY <1>7, Same
<1>9. QED
  BY <1>1, <1>8

\* The board with other registers.
Registers1 == [r : RegisterFile, latch : Nat, count : 0..4]
WithRegisters(b, r, latch, count) == [b EXCEPT !.reg = [r |-> r, latch |-> latch, count |-> count]]

\* The three ways a write changes them.
BitTaken(b, l, n)  == [b EXCEPT !.reg.latch = l, !.reg.count = n]
Committed(b, k, e) == [b EXCEPT !.reg.r[k] = e, !.reg.latch = 0, !.reg.count = 0]
PortReset(b, e)    == [b EXCEPT !.reg.latch = 0, !.reg.count = 0, !.reg.r[0] = e]

LEMMA SameRegisters ==
  ASSUME NEW c \in Registers1, NEW d \in Registers1, \A f \in {"r", "latch", "count"} : c[f] = d[f]
  PROVE  c = d
BY DEF Registers1

\* Other registers in the same board.
LEMMA WithRegistersIs ==
  ASSUME NEW b \in BoardRecords, NEW r \in RegisterFile, NEW l \in Nat, NEW n \in 0..4
  PROVE  LET c == WithRegisters(b, r, l, n)
         IN  /\ c \in BoardRecords
             /\ c.reg.r = r /\ c.reg.latch = l /\ c.reg.count = n
             /\ c.pages = b.pages /\ c.banks = b.banks /\ c.mir = b.mir
             /\ c.prg = b.prg /\ c.chr = b.chr
BY DEF WithRegisters, BoardRecords

\* c is b with registers r, l and n.
HasRegisters(b, c, r, l, n) ==
  /\ c.reg.r = r /\ c.reg.latch = l /\ c.reg.count = n
  /\ c.pages = b.pages /\ c.banks = b.banks /\ c.mir = b.mir
  /\ c.prg = b.prg /\ c.chr = b.chr

LEMMA WithRegistersStays ==
  \A b \in BoardRecords, r \in RegisterFile, l \in Nat, n \in 0..4 :
    \E c \in BoardRecords : c = WithRegisters(b, r, l, n) /\ HasRegisters(b, c, r, l, n)
<1> SUFFICES ASSUME NEW b \in BoardRecords, NEW r \in RegisterFile, NEW l \in Nat, NEW n \in 0..4
             PROVE  WithRegisters(b, r, l, n) \in BoardRecords
                    /\ HasRegisters(b, WithRegisters(b, r, l, n), r, l, n)
  BY Zenon
<1>1. WithRegisters(b, r, l, n) \in BoardRecords
  BY WithRegistersIs
<1>2. HasRegisters(b, WithRegisters(b, r, l, n), r, l, n)
  BY DEF WithRegisters, BoardRecords, HasRegisters
<1>3. QED
  BY <1>1, <1>2

\* One bit more leaves all but the latch and the count.
LEMMA WriteBit ==
  ASSUME NEW b \in BoardRecords, NEW l \in Nat, NEW n \in 0..4
  PROVE  BitTaken(b, l, n) = WithRegisters(b, b.reg.r, l, n)
<1>0. PICK g \in Registers1 : g = b.reg
  BY DEF BoardRecords, Registers1
<1> DEFINE c == [g EXCEPT !.latch = l, !.count = n]
           d == [r |-> g.r, latch |-> l, count |-> n]
<1>1. c \in Registers1 /\ c.r = g.r /\ c.latch = l /\ c.count = n
  BY DEF Registers1
<1>2. d \in Registers1 /\ d.r = g.r /\ d.latch = l /\ d.count = n
  BY DEF Registers1
<1>3. BitTaken(b, l, n) = [b EXCEPT !.reg = c]
  BY <1>0 DEF BitTaken, BoardRecords
<1> HIDE DEF c
<1>4. WithRegisters(b, b.reg.r, l, n) = [b EXCEPT !.reg = d]
  BY <1>0 DEF WithRegisters
<1> HIDE DEF d
<1>5. \A f \in {"r", "latch", "count"} : c[f] = d[f]
  BY <1>1, <1>2
<1>6. c = d
  BY <1>1, <1>2, <1>5, SameRegisters
<1>7. QED
  BY <1>3, <1>4, <1>6

LEMMA WriteCommit ==
  ASSUME NEW b \in BoardRecords, NEW e \in 0..31, NEW k \in 0..3
  PROVE  /\ Committed(b, k, e) = WithRegisters(b, [b.reg.r EXCEPT ![k] = e], 0, 0)
         /\ k = 0 => PortReset(b, e) = WithRegisters(b, [b.reg.r EXCEPT ![k] = e], 0, 0)
<1>0. PICK g \in Registers1 : g = b.reg
  BY DEF BoardRecords, Registers1
<1>a. PICK l \in Nat : l = 0
  OBVIOUS
<1>b. PICK n \in 0..4 : n = 0
  OBVIOUS
<1> DEFINE c == [g EXCEPT !.r[k] = e, !.latch = l, !.count = n]
           a == [g EXCEPT !.latch = l, !.count = n, !.r[k] = e]
           d == [r |-> [g.r EXCEPT ![k] = e], latch |-> l, count |-> n]
<1>1. c \in Registers1 /\ c.r = [g.r EXCEPT ![k] = e] /\ c.latch = l /\ c.count = n
  BY DEF Registers1, RegisterFile
<1>2. a \in Registers1 /\ a.r = [g.r EXCEPT ![k] = e] /\ a.latch = l /\ a.count = n
  BY DEF Registers1, RegisterFile
<1>3. d \in Registers1 /\ d.r = [g.r EXCEPT ![k] = e] /\ d.latch = l /\ d.count = n
  BY DEF Registers1, RegisterFile
<1>4. Committed(b, k, e) = [b EXCEPT !.reg = c]
  BY <1>0, <1>a, <1>b DEF Committed, BoardRecords
<1>5. k = 0 => PortReset(b, e) = [b EXCEPT !.reg = a]
  BY <1>0, <1>a, <1>b DEF PortReset, BoardRecords
<1> HIDE DEF c, a
<1>6. WithRegisters(b, [b.reg.r EXCEPT ![k] = e], 0, 0) = [b EXCEPT !.reg = d]
  BY <1>0, <1>a, <1>b DEF WithRegisters
<1> HIDE DEF d
<1>7. (\A f \in {"r", "latch", "count"} : c[f] = d[f]) /\ (\A f \in {"r", "latch", "count"} : a[f] = d[f])
  BY <1>1, <1>2, <1>3
<1>8. c = d /\ a = d
  BY <1>1, <1>2, <1>3, <1>7, SameRegisters
<1>9. QED
  BY <1>4, <1>5, <1>6, <1>8

-----------------------------------------------------------------------------
\* The number the bits sent so far stand for: the first one is bit 0.
SentBit(s, i) == IF i <= Len(s) THEN s[i] ELSE 0
Gathered(s) == SentBit(s, 1) + (2 * SentBit(s, 2)) + (4 * SentBit(s, 3)) + (8 * SentBit(s, 4))

SerialInv ==
    /\ serial \in BoardRecords
    /\ sent \in Seq({0, 1}) /\ Len(sent) <= 4
    /\ registers = serial.reg.r
    /\ serial.reg.count = Len(sent) /\ serial.reg.latch = Gathered(sent)
    /\ expected \in BOOLEAN
    /\ expected => ShowsRegisters(serial)

LEMMA PortBits ==
    Bit(\h80, 7) = 1 /\ Bit(0, 7) = 0 /\ Bit(1, 7) = 0 /\ Bit(0, 0) = 0 /\ Bit(1, 0) = 1
BY DEF Bit, Bits

\* A reset keeps the arrangement and the CHR mode, and locks the last page.
LEMMA ResetMode ==
    \A x \in 0..31 : /\ x + (12 - (4 * Bits(x, 2, 2))) = (x % 4) + 12 + (16 * Bit(x, 4))
                     /\ x + (12 - (4 * Bits(x, 2, 2))) \in 0..31
BY DEF Bit, Bits

LEMMA AddressedRegister == \A a \in PortAddresses : \E k \in 0..3 : k = (Digit(a) - 8) \div 2
<1>1. \A a \in PortSpace : \E k \in 0..3 : k = (Digit(a) - 8) \div 2
  BY DEF Digit, Bits, PortSpace
<1>2. \A a \in PortAddresses : a \in PortSpace
  BY SerialAssumption, Zenon
<1>3. QED
  BY <1>1, <1>2, Zenon

\* Writes that are apart by more than the port ignores.
LEMMA GapsApart == \A apart \in Gaps : apart # 1 => ~(apart <= 1)
<1>1. \A n \in Nat \ {0} : n # 1 => ~(n <= 1)
  OBVIOUS
<1>2. Gaps \subseteq Nat \ {0}
  BY SerialAssumption
<1>3. QED
  BY <1>1, <1>2

LEMMA UpToFour == \A n \in Nat : n <= 4 => n \in 0..4 /\ (n < 4 \/ n = 4)
OBVIOUS

LEMMA PlacesOfBits == \A n \in Nat : n <= 4 => 2^n \in 1..16
<1> SUFFICES ASSUME NEW n \in Nat, n <= 4
             PROVE  2^n \in 1..16
  OBVIOUS
<1>1. CASE n = 0
  BY <1>1
<1>2. CASE n = 1
  BY <1>2
<1>3. CASE n = 2
  BY <1>3
<1>4. CASE n = 3
  BY <1>4
<1>5. CASE n = 4
  BY <1>5
<1>6. QED
  BY <1>1, <1>2, <1>3, <1>4, <1>5

\* One more bit, at its place.
LEMMA OneMoreBit ==
  ASSUME NEW s \in Seq({0, 1}), Len(s) <= 4, NEW x \in {0, 1}
  PROVE  /\ Append(s, x) \in Seq({0, 1}) /\ Len(Append(s, x)) = Len(s) + 1
         /\ Len(s) < 4 => Gathered(Append(s, x)) = Gathered(s) + (2^Len(s) * x)
         /\ Len(s) = 4 => FiveBits(Append(s, x)) = Gathered(s) + (2^Len(s) * x)
         /\ Gathered(s) \in 0..15 /\ (Len(s) < 4 => Gathered(s) <= 7)
<1> DEFINE t == Append(s, x)
<1>1. Len(s) \in 0..4 /\ t \in Seq({0, 1}) /\ Len(t) = Len(s) + 1 /\ t[Len(s) + 1] = x
  <2>1. Len(s) \in 0..4
    <3>1. Len(s) \in Nat
      BY LenProperties, Zenon
    <3>2. QED
      BY <3>1, UpToFour, Zenon
  <2>2. t \in Seq({0, 1}) /\ Len(t) = Len(s) + 1 /\ t[Len(s) + 1] = x
    BY AppendProperties, Zenon
  <2>3. QED
    BY <2>1, <2>2
<1>2. \A i \in 1..4 : i <= Len(s) => t[i] = s[i] /\ s[i] \in {0, 1}
  <2>1. SUFFICES ASSUME NEW i \in 1..4, i <= Len(s)
                 PROVE  t[i] = s[i] /\ s[i] \in {0, 1}
    OBVIOUS
  <2>2. i \in 1..Len(s)
    BY <2>1, LenProperties
  <2>3. QED
    BY <2>2, AppendProperties, ElementOfSeq
<1> HIDE DEF t
<1>3. \A i \in 1..4 : SentBit(s, i) \in {0, 1}
  BY <1>1, <1>2 DEF SentBit
<1>4. Gathered(s) \in 0..15 /\ (Len(s) < 4 => Gathered(s) <= 7)
  <2>1. Len(s) < 4 => SentBit(s, 4) = 0
    BY <1>1 DEF SentBit
  <2>2. QED
    BY <2>1, <1>3 DEF Gathered
<1>5. /\ Len(s) < 4 => Gathered(t) = Gathered(s) + (2^Len(s) * x)
      /\ Len(s) = 4 => FiveBits(t) = Gathered(s) + (2^Len(s) * x)
  <2>1. CASE Len(s) = 0
    BY <1>1, <1>2, <2>1 DEF Gathered, SentBit
  <2>2. CASE Len(s) = 1
    BY <1>1, <1>2, <2>2 DEF Gathered, SentBit
  <2>3. CASE Len(s) = 2
    BY <1>1, <1>2, <2>3 DEF Gathered, SentBit
  <2>4. CASE Len(s) = 3
    BY <1>1, <1>2, <2>4 DEF Gathered, SentBit
  <2>5. CASE Len(s) = 4
    BY <1>1, <1>2, <2>5 DEF Gathered, SentBit, FiveBits
  <2>6. QED
    BY <1>1, <2>1, <2>2, <2>3, <2>4, <2>5
<1>6. QED
  BY <1>1, <1>4, <1>5 DEF t

-----------------------------------------------------------------------------
\* After a commit or a reset the board shows its registers.
LEMMA CommitShows ==
  ASSUME NEW b \in BoardRecords, NEW r \in RegisterFile
  PROVE  LET c == Shown1(WithRegisters(b, r, 0, 0))
         IN  /\ c \in BoardRecords /\ ShowsRegisters(c)
             /\ c.reg.r = r /\ c.reg.latch = 0 /\ c.reg.count = 0
<1>1. PICK w \in BoardRecords :
        w = WithRegisters(b, r, 0, 0) /\ w.reg.r = r /\ w.reg.latch = 0 /\ w.reg.count = 0
  <2>1. 0 \in Nat /\ 0 \in 0..4
    OBVIOUS
  <2>2. QED
    BY <2>1, WithRegistersIs
<1>2. Shown1(w) \in BoardRecords /\ ShowsRegisters(Shown1(w)) /\ Shown1(w).reg = w.reg
  BY ShownIs, ShownShows
<1>3. QED
  BY <1>1, <1>2

\* No bits gathered is the number zero.
LEMMA NothingGathered == << >> \in Seq({0, 1}) /\ Len(<< >>) = 0 /\ Gathered(<< >>) = 0
<1>1. << >> \in Seq({0, 1}) /\ Len(<< >>) = 0
  BY EmptySeq
<1>2. QED
  BY <1>1 DEF Gathered, SentBit

LEMMA SerialWriteParallel ==
  ASSUME SerialInv, NEW a \in PortAddresses, NEW v \in {0, 1, \h80}, NEW apart \in Gaps,
         SerialWrite(a, v, apart)
  PROVE  SerialInv'
<1>1. serial \in BoardRecords /\ serial.reg.r = registers /\ registers \in RegisterFile
  BY DEF SerialInv, BoardRecords
<1>2. CASE apart = 1
  <2>1. serial' = serial /\ UNCHANGED <<sent, registers, expected>>
    BY <1>2 DEF SerialWrite, Write1
  <2>2. QED
    BY <2>1 DEF SerialInv, ShowsRegisters
<1>3. CASE apart # 1
  <2>1. ~(apart <= 1)
    BY <1>3, GapsApart
  <2>2. Promised(a, v) /\ serial' = Write1(serial, a, v, apart)
    BY <1>3 DEF SerialWrite
  <2>3. CASE Bit(v, 7) = 1
    <3>1. PICK e \in 0..31 : e = registers[0] + (12 - (4 * Bits(registers[0], 2, 2)))
                             /\ e = (registers[0] % 4) + 12 + (16 * Bit(registers[0], 4))
      <4>1. registers[0] \in 0..31
        BY <1>1 DEF RegisterFile
      <4>2. QED
        BY <4>1, ResetMode
    <3>2. serial' = Shown1(PortReset(serial, e))
      BY <2>1, <2>2, <2>3, <3>1, <1>1 DEF Write1, PortReset
    <3>3. serial' = Shown1(WithRegisters(serial, [registers EXCEPT ![0] = e], 0, 0))
      <4>1. 0 \in 0..3
        OBVIOUS
      <4>2. PortReset(serial, e) = WithRegisters(serial, [serial.reg.r EXCEPT ![0] = e], 0, 0)
        BY <4>1, <1>1, WriteCommit
      <4>3. QED
        BY <4>2, <3>2, <1>1
    <3>4. [registers EXCEPT ![0] = e] \in RegisterFile
      BY <1>1 DEF RegisterFile
    <3>5. /\ serial' \in BoardRecords /\ ShowsRegisters(serial')
          /\ serial'.reg.r = [registers EXCEPT ![0] = e]
          /\ serial'.reg.latch = 0 /\ serial'.reg.count = 0
      BY <3>3, <3>4, <1>1, CommitShows
    <3>6. sent' = << >> /\ expected' = TRUE /\ registers' = [registers EXCEPT ![0] = e]
      BY <2>2, <2>3, <3>1 DEF Promised
    <3>7. QED
      BY <3>5, <3>6, NothingGathered DEF SerialInv, ShowsRegisters
  <2>4. CASE Bit(v, 7) # 1
    <3>1. PICK x \in {0, 1} : x = Bit(v, 0)
      BY <2>4, PortBits
    <3>2. sent \in Seq({0, 1}) /\ Len(sent) <= 4 /\ Len(sent) \in Nat
      BY LenProperties DEF SerialInv
    <3>3. PICK now \in Seq({0, 1}) :
            /\ now = Append(sent, x) /\ Len(now) = Len(sent) + 1
            /\ Len(sent) < 4 => Gathered(now) = Gathered(sent) + (2^Len(sent) * x)
            /\ Len(sent) = 4 => FiveBits(now) = Gathered(sent) + (2^Len(sent) * x)
      BY <3>2, OneMoreBit
    <3>4. Gathered(sent) \in 0..15 /\ (Len(sent) < 4 => Gathered(sent) <= 7)
      BY <3>1, <3>2, OneMoreBit
    <3>5. PICK l \in 0..31 : l = Gathered(sent) + (2^Len(sent) * x)
      <4>1. PICK p \in 1..16 : p = 2^Len(sent)
        BY <3>2, PlacesOfBits
      <4>2. \A g \in 0..15, q \in 1..16, y \in {0, 1} : g + (q * y) \in 0..31
        OBVIOUS
      <4>3. Gathered(sent) + (p * x) \in 0..31
        BY <4>2, <3>4, Zenon
      <4>4. QED
        BY <4>1, <4>3
    <3>6. l = serial.reg.latch + (2^(serial.reg.count) * Bit(v, 0))
      BY <3>1, <3>5 DEF SerialInv
    <3>7. CASE Len(sent) < 4
      <4>1. serial' = BitTaken(serial, l, Len(sent) + 1)
        BY <2>1, <2>2, <2>4, <3>6, <3>7 DEF Write1, SerialInv, BitTaken
      <4>2. Len(sent) + 1 \in 0..4 /\ l \in Nat
        BY <3>2, <3>7
      <4>3. PICK n \in 0..4 : n = Len(sent) + 1
        BY <4>2
      <4>4. serial' = WithRegisters(serial, registers, l, n)
        BY <4>1, <4>2, <4>3, <1>1, WriteBit
      <4>5. /\ serial' \in BoardRecords /\ serial'.reg.r = registers
            /\ serial'.reg.latch = l /\ serial'.reg.count = n
            /\ serial'.pages = serial.pages /\ serial'.banks = serial.banks
            /\ serial'.mir = serial.mir /\ serial'.prg = serial.prg /\ serial'.chr = serial.chr
        <5>1. \E c \in BoardRecords :
                c = WithRegisters(serial, registers, l, n) /\ HasRegisters(serial, c, registers, l, n)
          BY <4>2, <1>1, WithRegistersStays, Zenon
        <5>2. QED
          BY <5>1, <4>4 DEF HasRegisters
      <4>6. sent' = now /\ UNCHANGED <<registers, expected>>
        BY <2>2, <2>4, <3>1, <3>2, <3>3, <3>7 DEF Promised
      <4>7. ShowsRegisters(serial) => ShowsRegisters(serial')
        BY <4>5, <1>1 DEF ShowsRegisters
      <4>8. QED
        BY <3>3, <3>5, <3>7, <4>2, <4>3, <4>5, <4>6, <4>7 DEF SerialInv, ShowsRegisters
    <3>8. CASE Len(sent) = 4
      <4>1. PICK k \in 0..3 : k = (Digit(a) - 8) \div 2
        BY AddressedRegister
      <4>2. serial' = Shown1(Committed(serial, k, l))
        BY <2>1, <2>2, <2>4, <3>6, <3>8, <4>1 DEF Write1, SerialInv, Committed
      <4>3. serial' = Shown1(WithRegisters(serial, [registers EXCEPT ![k] = l], 0, 0))
        BY <4>2, <1>1, WriteCommit
      <4>4. [registers EXCEPT ![k] = l] \in RegisterFile
        BY <1>1 DEF RegisterFile
      <4>5. /\ serial' \in BoardRecords /\ ShowsRegisters(serial')
            /\ serial'.reg.r = [registers EXCEPT ![k] = l]
            /\ serial'.reg.latch = 0 /\ serial'.reg.count = 0
        BY <4>3, <4>4, <1>1, CommitShows
      <4>6. sent' = << >> /\ expected' = TRUE /\ registers' = [registers EXCEPT ![k] = FiveBits(now)]
        BY <2>2, <2>4, <3>1, <3>3, <3>8, <4>1 DEF Promised
      <4>7. FiveBits(now) = l
        BY <3>3, <3>5, <3>8
      <4>8. registers' = serial'.reg.r
        BY <4>5, <4>6, <4>7
      <4>9. sent' \in Seq({0, 1}) /\ Len(sent') = 0 /\ Gathered(sent') = 0
        BY <4>6, NothingGathered
      <4>10. Len(sent') <= 4
        BY <4>9
      <4>11. ShowsRegisters(serial)'
        BY <4>5 DEF ShowsRegisters
      <4>12. QED
        BY <4>5, <4>6, <4>8, <4>9, <4>10, <4>11 DEF SerialInv
    <3>9. Len(sent) < 4 \/ Len(sent) = 4
      BY <3>2, UpToFour, Zenon
    <3>10. QED
      BY <3>7, <3>8, <3>9
  <2>5. QED
    BY <2>3, <2>4
<1>4. QED
  BY <1>2, <1>3

-----------------------------------------------------------------------------
\* A board before its mapper's constructor has run, with all registers 0.
AllZero == [r |-> Zeros(0..3), latch |-> 0, count |-> 0]
RegistersZero(b) == b.reg.r = [k \in 0..3 |-> 0] /\ b.reg.latch = 0 /\ b.reg.count = 0

\* A blank board is a board, with its registers zero.
LEMMA BlankIs ==
  ASSUME NEW c \in SerialCarts
  PROVE  Blank(c, AllZero) \in BoardRecords /\ RegistersZero(Blank(c, AllZero))
<1>1. PICK k \in [id : {1}, pages : Nat \ {0}, banks : Nat, mir : Nat] : k = c
  BY SerialAssumption
<1> DEFINE z == [i \in 0..3 |-> 0]
           g == [r |-> z, latch |-> 0, count |-> 0]
           q == [s \in PrgSlots |-> Open]
           t == [s \in ChrSlots |-> Nothing]
<1>2. z \in RegisterFile /\ AllZero = g
  BY DEF AllZero, Zeros, RegisterFile
<1>3. q \in [PrgSlots -> Int]
  BY DEF Open
<1>4. t \in [ChrSlots -> Shown]
  BY DEF Nothing, Shown
<1> HIDE DEF z, q, t
<1>a. g \in [r : RegisterFile, latch : Nat, count : 0..4] /\ g.r = z /\ g.latch = 0 /\ g.count = 0
  BY <1>2
<1> HIDE DEF g
<1> DEFINE b == [id |-> k.id, pages |-> k.pages, banks |-> k.banks, prg |-> q, chr |-> t,
                 mir |-> k.mir, reg |-> g]
<1>5. Blank(k, g) = b
  BY DEF Blank, q, t
<1>6. b.id = k.id /\ b.reg = g
  OBVIOUS
<1>7. b \in BoardRecords
  BY <1>3, <1>4, <1>a DEF BoardRecords
<1> HIDE DEF b
<1>8. QED
  BY <1>1, <1>2, <1>a, <1>5, <1>6, <1>7 DEF RegistersZero, z

LEMMA BuiltIs ==
  ASSUME NEW c \in SerialCarts
  PROVE  LET w == Patterns(FirstAndLast(Blank(c, AllZero)))
         IN  w \in BoardRecords /\ RegistersZero(w)
<1>1. PICK b \in BoardRecords : b = Blank(c, AllZero) /\ RegistersZero(b)
  BY BlankIs
<1>2. PICK x \in BoardRecords : x = Prg(b, 8, 2, 0) /\ PrgMoved(b, x, 8, 2, 0)
  BY PrgMoves
<1>3. PICK y \in BoardRecords : y = Prg(x, 12, 2, -1) /\ PrgMoved(x, y, 12, 2, -1)
  BY PrgMoves
<1>4. y = FirstAndLast(b)
  BY <1>2, <1>3 DEF FirstAndLast
<1>5. PICK w \in BoardRecords : w = Patterns(y) /\ w.reg = y.reg
  <2>1. CASE y.banks > 0
    <3>1. PICK w \in BoardRecords : w = Chr(y, 0, 8, 0) /\ RomMoved(y, w, 0, 8, 0)
      BY <2>1, ChrMoves
    <3>2. QED
      BY <3>1, <2>1 DEF Patterns, RomPatterns, RomMoved
  <2>2. CASE ~(y.banks > 0)
    <3>1. PICK w \in BoardRecords : w = ChrRam(y, 0, 8, 0) /\ RamMoved(y, w, 0, 8, 0)
      BY ChrRamMoves
    <3>2. QED
      BY <3>1, <2>2 DEF Patterns, RamPatterns, RamMoved
  <2>3. QED
    BY <2>1, <2>2
<1>6. RegistersZero(w)
  BY <1>1, <1>2, <1>3, <1>5 DEF RegistersZero, PrgMoved
<1>7. QED
  BY <1>1, <1>4, <1>5, <1>6

LEMMA SerialStarts ==
  ASSUME SerialInit
  PROVE  SerialInv
<1>1. PICK c \in SerialCarts, apart \in Gaps :
        /\ serial = Power1(c, apart)
        /\ sent = << >>
        /\ registers = [r \in 0..3 |-> IF r = 0 /\ apart > 1 THEN 12 ELSE 0]
        /\ expected = (apart > 1)
  BY DEF SerialInit
<1>2. PICK w \in BoardRecords :
        w = Patterns(FirstAndLast(Blank(c, AllZero))) /\ RegistersZero(w)
  BY BuiltIs
<1>3. serial = Write1(w, \h8000, \h80, apart)
  BY <1>1, <1>2 DEF Power1, AllZero
<1>4. apart \in Nat
  BY SerialAssumption
<1>5. CASE apart <= 1
  <2>1. serial = w
    BY <1>3, <1>5 DEF Write1
  <2>2. expected = FALSE /\ registers = [r \in 0..3 |-> 0]
    <3>1. ~(apart > 1) /\ (apart > 1) = FALSE
      BY <1>4, <1>5
    <3>2. expected = FALSE
      BY <3>1, <1>1, Zenon
    <3>3. \A r \in 0..3 : (IF r = 0 /\ apart > 1 THEN 12 ELSE 0) = 0
      BY <3>1
    <3>4. registers = [r \in 0..3 |-> 0]
      BY <3>3, <1>1
    <3>5. QED
      BY <3>2, <3>4
  <2>3. QED
    BY <2>1, <2>2, <1>1, <1>2, NothingGathered DEF SerialInv, RegistersZero
<1>6. CASE ~(apart <= 1)
  <2>1. PICK r \in RegisterFile : r = w.reg.r /\ r[0] = 0
    BY <1>2 DEF BoardRecords, RegistersZero
  <2>2. PICK e \in 0..31 : e = 12 /\ e = r[0] + (12 - (4 * Bits(r[0], 2, 2)))
    BY <2>1 DEF Bits
  <2>3. serial = Shown1(PortReset(w, e))
    <3>1. \A a, v : Bit(v, 7) = 1 => Write1(w, a, v, apart) = Shown1(PortReset(w, e))
      BY <1>6, <2>1, <2>2 DEF Write1, PortReset
    <3>2. PICK a, v : Bit(v, 7) = 1 /\ serial = Write1(w, a, v, apart)
      BY <1>3, PortBits
    <3>3. QED
      BY <3>1, <3>2
  <2>4. 0 \in 0..3
    OBVIOUS
  <2>5. PortReset(w, e) = WithRegisters(w, [w.reg.r EXCEPT ![0] = e], 0, 0)
    BY <2>4, WriteCommit
  <2>6. [r EXCEPT ![0] = e] \in RegisterFile
    BY DEF RegisterFile
  <2>7. /\ serial \in BoardRecords /\ ShowsRegisters(serial)
        /\ serial.reg.r = [r EXCEPT ![0] = e]
        /\ serial.reg.latch = 0 /\ serial.reg.count = 0
    BY <2>1, <2>3, <2>5, <2>6, CommitShows
  <2>8. registers = [r EXCEPT ![0] = e] /\ expected = TRUE
    <3>1. apart > 1 /\ (apart > 1) = TRUE
      BY <1>4, <1>6
    <3>2. expected = TRUE /\ registers = [k \in 0..3 |-> IF k = 0 THEN e ELSE 0]
      BY <3>1, <1>1, <2>2
    <3>3. r = [k \in 0..3 |-> 0]
      BY <1>2, <2>1 DEF RegistersZero
    <3>4. [r EXCEPT ![0] = e] = [k \in 0..3 |-> IF k = 0 THEN e ELSE 0]
      BY <3>3
    <3>5. QED
      BY <3>2, <3>4
  <2>9. QED
    BY <2>7, <2>8, <1>1, NothingGathered DEF SerialInv
<1>7. QED
  BY <1>5, <1>6

\* Every step is a write of the port.
LEMMA SerialStepKeeps == SerialInv /\ [SerialNext]_serialVars => SerialInv'
<1>1. SerialInv /\ SerialNext => SerialInv'
  BY SerialWriteParallel DEF SerialNext
<1>2. SerialInv /\ UNCHANGED serialVars => SerialInv'
  BY DEF SerialInv, ShowsRegisters, serialVars
<1>3. QED
  BY <1>1, <1>2

\* A board that shows its registers is what Shown1 makes of it.
LEMMA SerialShown == SerialInv => SerialIsParallel
BY ShownFixed DEF SerialInv, SerialIsParallel

\* However bits, resets and double writes are interleaved, the MMC1 shows what
\* the registers of a five-bit parallel port would (Mapper001::write).
THEOREM SerialIsParallelHolds == SerialSpec => []SerialIsParallel
<1>1. SerialInit => SerialInv
  BY SerialStarts
<1>2. QED
  BY <1>1, SerialStepKeeps, SerialShown, PTL DEF SerialSpec

-----------------------------------------------------------------------------
(***************************************************************************)
(* The timers, for counters, latches and lines of any size: whatever is    *)
(* written to their ports, a timer interrupts in the cycle its registers   *)
(* promised.  The invariant is the range of every register, chip by chip:  *)
(* with a counter beyond its width, or a prescaler that has run out, the   *)
(* promise would be of a cycle that never comes.                           *)
(***************************************************************************)
Registers12 == [enabled : BOOLEAN, counter : 0..(Long - 1)]
RegistersBandai == [enabled : BOOLEAN, counter : 0..(Byte * Byte - 1)]
Registers18 == [enabled : BOOLEAN, digits : 1..4, latch : Nat, counter : Nat]
Registers19 == [enabled : BOOLEAN, counter : 0..TopOf19]
Registers69 == [enabled : BOOLEAN, counting : BOOLEAN, counter : 0..(Byte * Byte - 1)]
RegistersVrc ==
  [enabled : BOOLEAN, again : BOOLEAN, byCycle : BOOLEAN, latch : 0..(Byte - 1),
   counter : 0..(Byte - 1), prescaler : 1..LineThirds]
Registers64 ==
  [enabled : BOOLEAN, byCycle : BOOLEAN, latch : 0..(Byte - 1),
   counter : 0..(Byte - 1), cycles : 0..3]

Registers ==
  CASE chip = "counter12" -> Registers12  [] chip = "bandai" -> RegistersBandai
    [] chip = "ss88006" -> Registers18    [] chip = "n163" -> Registers19
    [] chip = "fme7" -> Registers69       [] chip = "rambo" -> Registers64
    [] chip \in {"vrc4", "vrc6"} -> RegistersVrc

TimerInv ==
  /\ chip \in Timers /\ timer \in Registers
  /\ irq_line \in BOOLEAN /\ fired \in BOOLEAN

(* ------------------------------------------------- remainders and halves *)

\* A word is its low part and a multiple of the size of that part.
LEMMA Parted ==
  ASSUME NEW n \in Nat \ {0}, NEW x \in Nat
  PROVE  /\ x % n \in 0..(n - 1) /\ x \div n \in Nat
         /\ x = n * (x \div n) + (x % n)
BY SMT

\* What is left over of a multiple.
LEMMA Remainder ==
  ASSUME NEW n \in Nat \ {0}, NEW q \in Int, NEW r \in 0..(n - 1)
  PROVE  (n * q + r) % n = r
OBVIOUS

\* One less than a counter whose low part has n values.
LEMMA LowPartDown ==
  ASSUME NEW n \in Nat \ {0}, NEW x \in Nat
  PROVE  (x - 1) % n = IF x % n = 0 THEN n - 1 ELSE (x % n) - 1
<1>1. PICK q \in Nat, r \in 0..(n - 1) : x = n * q + r /\ r = x % n
  BY Parted
<1>2. CASE r = 0
  <2>1. x - 1 = n * (q - 1) + (n - 1)
    BY <1>1, <1>2, SMT
  <2>2. \A p \in Int : (n * p + (n - 1)) % n = n - 1
    <3>1. n - 1 \in 0..(n - 1)
      OBVIOUS
    <3> QED
      BY <3>1, Remainder, Zenon
  <2> QED
    BY <1>1, <1>2, <2>1, <2>2
<1>3. CASE r # 0
  <2>1. x - 1 = n * q + (r - 1) /\ r - 1 \in 0..(n - 1)
    BY <1>1, <1>3, SMT
  <2>2. (n * q + (r - 1)) % n = r - 1
    BY <2>1, Remainder
  <2> QED
    BY <1>1, <1>3, <2>1, <2>2
<1> QED
  BY <1>2, <1>3

\* Replacing the low part of a word leaves the new one as its remainder.
LEMMA NewLowPart ==
  ASSUME NEW n \in Nat \ {0}, NEW x \in Nat, NEW y \in 0..(n - 1)
  PROVE  /\ x - (x % n) + y \in Nat
         /\ (x - (x % n) + y) % n = y
<1>1. PICK q \in Nat : x = n * q + (x % n)
  BY Parted
<1>2. x % n \in 0..(n - 1)
  BY Parted
<1>3. x - (x % n) + y = n * q + y
  BY <1>1, <1>2, SMT
<1>4. n * q \in Nat
  BY SMT
<1>5. (n * q + y) % n = y
  BY SMT
<1> QED
  BY <1>3, <1>4, <1>5, SMT

\* One step down from a counter of n values.
LEMMA OneDown ==
  ASSUME NEW n \in Nat \ {0}, n > 1, NEW x \in 0..(n - 1)
  PROVE  (x - 1) % n = IF x = 0 THEN n - 1 ELSE x - 1
<1>1. CASE x = 0
  BY <1>1, SMT
<1>2. CASE x # 0
  BY <1>2, SMT
<1> QED
  BY <1>1, <1>2

LEMMA OneUp ==
  ASSUME NEW n \in Nat \ {0}, n > 1, NEW x \in 0..(n - 1)
  PROVE  (x + 1) % n = IF x = n - 1 THEN 0 ELSE x + 1
<1>1. CASE x = n - 1
  BY <1>1, SMT
<1>2. CASE x # n - 1
  BY <1>2, SMT
<1> QED
  BY <1>1, <1>2

LEMMA Squared == Byte * Byte \in Nat /\ Byte * Byte > Byte /\ Byte \in Nat /\ Byte > 1
BY TimerSizes, SMT

\* Both halves of a word hold a byte.
LEMMA HalfWritten ==
  ASSUME NEW x \in 0..(Byte * Byte - 1), NEW v \in 0..(Byte - 1)
  PROVE  SetLowByte(x, v) \in 0..(Byte * Byte - 1) /\ SetHighByte(x, v) \in 0..(Byte * Byte - 1)
<1>1. PICK q \in Nat : x = Byte * q + (x % Byte)
  <2>1. x \in Nat /\ Byte \in Nat \ {0}
    BY Squared, SMT
  <2> QED
    BY <2>1, Parted
<1>2. x % Byte \in 0..(Byte - 1)
  BY Parted, Squared
<1>3. q <= Byte - 1
  <2>1. SUFFICES ASSUME q >= Byte PROVE FALSE
    BY Squared
  <2>2. Byte * q >= Byte * Byte
    BY <2>1, Squared, SMT
  <2> QED
    BY <1>1, <1>2, <2>2, Squared, SMT
<1>4. Byte * q + Byte <= Byte * Byte /\ Byte * q \in Nat
  BY <1>3, Squared, SMT
<1>5. Byte * v + Byte <= Byte * Byte /\ Byte * v \in Nat
  BY Squared, SMT
<1>6. SetLowByte(x, v) = Byte * q + v
  BY <1>1, <1>2, Squared, SMT DEF SetLowByte
<1> QED
  BY <1>2, <1>4, <1>5, <1>6, Squared, SMT DEF SetHighByte

\* The half of a word of 19, whose highest bit enables the counter.
LEMMA HalfOf19Written ==
  ASSUME NEW x \in 0..TopOf19, NEW v \in 0..((Byte \div 2) - 1)
  PROVE  SetHighByte(x, v) \in 0..TopOf19
<1>1. PICK h \in Nat : h = Byte \div 2
  BY Squared, SMT
<1>2. TopOf19 = (h * Byte) - 1 /\ v \in 0..(h - 1)
  BY <1>1 DEF TopOf19
<1>3. x % Byte \in 0..(Byte - 1)
  <2>1. h * Byte \in Nat
    BY Squared, SMT
  <2>2. x \in Nat
    BY <1>2, <2>1, SMT
  <2> QED
    BY <2>2, Squared, Parted
<1>4. Byte * v + Byte <= h * Byte /\ Byte * v \in Nat
  BY <1>2, Squared, SMT
<1> QED
  BY <1>2, <1>3, <1>4, Squared, SMT DEF SetHighByte

(* --------------------------------------------------------------- one cycle *)

\* What a cycle makes of a timer t: it stays among its registers R, and
\* asks as promised.
TimelySync(t, outcome, R) ==
  /\ outcome[1] \in R /\ outcome[2] \in BOOLEAN
  /\ outcome[2] <=> (Due(t) = 1)
  /\ Due(t) > 1 => Due(outcome[1]) = Due(t) - 1
  /\ Due(t) = Never => Due(outcome[1]) = Never

LEMMA Kept ==
  ASSUME NEW R, NEW t, NEW u \in R, NEW asks \in BOOLEAN,
         asks <=> (Due(t) = 1), Due(t) > 1 => Due(u) = Due(t) - 1,
         Due(t) = Never => Due(u) = Never
  PROVE  TimelySync(t, <<u, asks>>, R)
BY Zenon DEF TimelySync

\* A timer that is off is left as it is.
LEMMA KeptOff ==
  ASSUME NEW R, NEW t \in R, ~t.enabled
  PROVE  TimelySync(t, Unmoved(t), R)
<1>1. Due(t) = 0
  BY DEF Due, Never
<1>2. ~(Due(t) > 1) /\ ~(Due(t) = 1)
  BY <1>1
<1> QED
  BY <1>2, Kept, Zenon DEF Unmoved

\* A timer that asks did so as promised if this was its last cycle.
LEMMA KeptAsking ==
  ASSUME NEW R, NEW t, NEW u \in R, Due(t) = 1
  PROVE  TimelySync(t, <<u, TRUE>>, R)
<1>1. ~(Due(t) > 1) /\ Due(t) # Never
  BY DEF Never
<1> QED
  BY <1>1, Kept, Zenon

\* Each board's timer raises its interrupt when its promise is due.
LEMMA Promised12 ==
  ASSUME chip = "counter12", NEW t \in Registers12 PROVE TimelySync(t, Sync12(t), Registers12)
<1>1. \A r \in Registers12 : Due(r) = IF r.enabled THEN Long - r.counter ELSE 0
  BY DEF Due, Never, Registers12
<1>2. CASE t.enabled
  <2>1. PICK next \in 0..(Long - 1) :
           /\ next = (t.counter + 1) % Long
           /\ next = IF t.counter = Long - 1 THEN 0 ELSE t.counter + 1
    BY OneUp, TimerSizes, SMT DEF Registers12
  <2>2. Sync12(t) = <<[t EXCEPT !.counter = next], next = 0>>
    BY <1>2, <2>1 DEF Sync12
  <2>3. /\ [t EXCEPT !.counter = next] \in Registers12
        /\ [t EXCEPT !.counter = next].counter = next
        /\ [t EXCEPT !.counter = next].enabled = t.enabled
    BY <2>1 DEF Registers12
  <2>4. PICK u \in Registers12 : u = [t EXCEPT !.counter = next] /\ u.counter = next /\ u.enabled
    BY <1>2, <2>2, <2>3
  <2>5. PICK asks \in BOOLEAN : asks = (next = 0)
    OBVIOUS
  <2>6. /\ (next = 0) <=> Due(t) = 1
        /\ Due(t) > 1 => Due(u) = Due(t) - 1
        /\ Due(t) # 0
    BY <1>1, <1>2, <2>1, <2>4, TimerSizes DEF Registers12
  <2>7. Sync12(t) = <<u, asks>>
    BY <2>2, <2>4, <2>5, Zenon
  <2> QED
    BY <2>5, <2>6, <2>7, Kept, Zenon DEF Never
<1>3. CASE ~t.enabled
  BY <1>3, KeptOff DEF Sync12
<1> QED
  BY <1>2, <1>3

LEMMA PromisedBandai ==
  ASSUME chip = "bandai", NEW t \in RegistersBandai
  PROVE  TimelySync(t, SyncBandai(t), RegistersBandai)
<1> PICK word \in Nat : word = Byte * Byte /\ word > 1
  BY Squared
<1>1. \A r \in RegistersBandai :
         Due(r) = IF r.enabled THEN IF r.counter = 0 THEN word ELSE r.counter ELSE 0
  BY DEF Due, Never, RegistersBandai
<1>2. CASE t.enabled
  <2>1. PICK next \in 0..(word - 1) :
           /\ next = (t.counter - 1) % word
           /\ next = IF t.counter = 0 THEN word - 1 ELSE t.counter - 1
    BY OneDown, SMT DEF RegistersBandai
  <2>2. SyncBandai(t) = <<[t EXCEPT !.counter = next], next = 0>>
    BY <1>2, <2>1 DEF SyncBandai
  <2>3. /\ [t EXCEPT !.counter = next] \in RegistersBandai
        /\ [t EXCEPT !.counter = next].counter = next
        /\ [t EXCEPT !.counter = next].enabled = t.enabled
    BY <2>1 DEF RegistersBandai
  <2>4. PICK u \in RegistersBandai : u = [t EXCEPT !.counter = next] /\ u.counter = next /\ u.enabled
    BY <1>2, <2>2, <2>3
  <2>5. PICK asks \in BOOLEAN : asks = (next = 0)
    OBVIOUS
  <2>6. /\ (next = 0) <=> Due(t) = 1
        /\ Due(t) > 1 => Due(u) = Due(t) - 1
        /\ Due(t) # 0
    BY <1>1, <1>2, <2>1, <2>4 DEF RegistersBandai
  <2>7. SyncBandai(t) = <<u, asks>>
    BY <2>2, <2>4, <2>5, Zenon
  <2> QED
    BY <2>5, <2>6, <2>7, Kept, Zenon DEF Never
<1>3. CASE ~t.enabled
  BY <1>3, KeptOff DEF SyncBandai
<1> QED
  BY <1>2, <1>3

LEMMA Promised69 ==
  ASSUME chip = "fme7", NEW t \in Registers69 PROVE TimelySync(t, Sync69(t), Registers69)
<1> PICK word \in Nat : word = Byte * Byte /\ word > 1
  BY Squared
<1>1. \A r \in Registers69 :
         Due(r) = IF r.enabled THEN IF r.counting THEN r.counter + 1 ELSE 0 ELSE 0
  BY DEF Due, Never, Registers69
<1>2. CASE t.counting
  <2>1. PICK next \in 0..(word - 1) :
           /\ next = (t.counter - 1) % word
           /\ next = IF t.counter = 0 THEN word - 1 ELSE t.counter - 1
    BY OneDown, SMT DEF Registers69
  <2>2. Sync69(t) = <<[t EXCEPT !.counter = next], next = word - 1 /\ t.enabled>>
    BY <1>2, <2>1 DEF Sync69
  <2>3. /\ [t EXCEPT !.counter = next] \in Registers69
        /\ [t EXCEPT !.counter = next].counter = next
        /\ [t EXCEPT !.counter = next].enabled = t.enabled
        /\ [t EXCEPT !.counter = next].counting = t.counting
    BY <2>1 DEF Registers69
  <2>4. PICK u \in Registers69 : u = [t EXCEPT !.counter = next] /\ u.counter = next
                                 /\ u.enabled = t.enabled /\ u.counting
    BY <1>2, <2>2, <2>3
  <2>5. PICK asks \in BOOLEAN : asks = (next = word - 1 /\ t.enabled)
    OBVIOUS
  <2>6. /\ (next = word - 1 /\ t.enabled) <=> Due(t) = 1
        /\ Due(t) > 1 => Due(u) = Due(t) - 1
        /\ Due(t) = 0 => Due(u) = 0
    BY <1>1, <1>2, <2>1, <2>4 DEF Registers69
  <2>7. Sync69(t) = <<u, asks>>
    BY <2>2, <2>4, <2>5, Zenon
  <2> QED
    BY <2>5, <2>6, <2>7, Kept, Zenon DEF Never
<1>3. CASE ~t.counting
  <2>1. Due(t) = 0
    BY <1>1, <1>3
  <2>2. ~(Due(t) > 1) /\ ~(Due(t) = 1)
    BY <2>1
  <2> QED
    BY <1>3, <2>2, Kept, Zenon DEF Unmoved, Sync69
<1> QED
  BY <1>2, <1>3

LEMMA Promised19 ==
  ASSUME chip = "n163", NEW t \in Registers19 PROVE TimelySync(t, Sync19(t), Registers19)
<1>0. TopOf19 \in Int
  BY Squared, SMT DEF TopOf19
<1>1. \A r \in Registers19 : Due(r) = IF r.enabled THEN TopOf19 - r.counter + 1 ELSE 0
  BY DEF Due, Never, Registers19
<1>2. CASE t.enabled /\ t.counter = TopOf19
  <2>1. Due(t) = 1 /\ ~(Due(t) > 1)
    BY <1>0, <1>1, <1>2
  <2>2. Sync19(t) = <<t, TRUE>>
    BY <1>2 DEF Sync19
  <2> QED
    BY <2>1, <2>2, Kept, Zenon DEF Never
<1>3. CASE t.enabled /\ t.counter # TopOf19
  <2>1. Sync19(t) = <<[t EXCEPT !.counter = @ + 1], FALSE>>
    BY <1>3 DEF Sync19
  <2>2. PICK next \in 0..TopOf19 : next = t.counter + 1
    BY <1>0, <1>3 DEF Registers19
  <2>3. /\ [t EXCEPT !.counter = next] \in Registers19
        /\ [t EXCEPT !.counter = next].counter = next
        /\ [t EXCEPT !.counter = next].enabled = t.enabled
    BY <2>2 DEF Registers19
  <2>4. PICK u \in Registers19 : u = [t EXCEPT !.counter = next] /\ u.counter = next /\ u.enabled
    BY <1>3, <2>3
  <2>5. /\ ~(Due(t) = 1) /\ Due(t) # 0
        /\ Due(t) > 1 => Due(u) = Due(t) - 1
    BY <1>0, <1>1, <1>3, <2>2, <2>4 DEF Registers19
  <2>6. Sync19(t) = <<u, FALSE>>
    BY <2>1, <2>2, <2>4
  <2> QED
    BY <2>5, <2>6, Kept, Zenon DEF Never
<1>4. CASE ~t.enabled
  BY <1>4, KeptOff DEF Sync19
<1> QED
  BY <1>2, <1>3, <1>4

\* The place values of a counter of nibbles.
LEMMA WeightIs == \A n \in 0..4 : Weight(n) \in Nat \ {0} /\ (n > 0 => Weight(n) > 1)
<1>1. Nibble \in Nat /\ Nibble > 1
  BY TimerSizes
<1>2. Nibble * Nibble \in Nat /\ Nibble * Nibble > 1
  BY <1>1
<1>3. Nibble * Nibble * Nibble \in Nat /\ Nibble * Nibble * Nibble > 1
  BY <1>1, <1>2
<1>4. Nibble * Nibble * Nibble * Nibble \in Nat /\ Nibble * Nibble * Nibble * Nibble > 1
  BY <1>1, <1>3
<1>5. /\ Weight(0) = 1 /\ Weight(1) = Nibble /\ Weight(2) = Nibble * Nibble
      /\ Weight(3) = Nibble * Nibble * Nibble
      /\ Weight(4) = Nibble * Nibble * Nibble * Nibble
  BY DEF Weight
<1>6. \A n \in 0..4 : n = 0 \/ n = 1 \/ n = 2 \/ n = 3 \/ n = 4
  OBVIOUS
<1> QED
  BY <1>1, <1>2, <1>3, <1>4, <1>5, <1>6

LEMMA Promised18 ==
  ASSUME chip = "ss88006", NEW t \in Registers18 PROVE TimelySync(t, Sync18(t), Registers18)
<1>0. PICK size \in Nat \ {0} : size = Weight(t.digits) /\ size > 1
  BY WeightIs DEF Registers18
<1> PICK low \in 0..(size - 1) : low = t.counter % size
  BY <1>0, Parted DEF Registers18
<1>1. Due(t) = IF t.enabled THEN IF low = 0 THEN size ELSE low ELSE 0
  BY <1>0 DEF Due, Never, Registers18
<1>2. \A r \in Registers18 : r.digits = t.digits =>
        Due(r) = IF r.enabled THEN IF r.counter % size = 0 THEN size ELSE r.counter % size ELSE 0
  BY <1>0 DEF Due, Never, Registers18
<1>3. PICK less \in 0..(size - 1) :
        less = (t.counter - 1) % size /\ less = IF low = 0 THEN size - 1 ELSE low - 1
  <2>1. t.counter \in Nat
    BY DEF Registers18
  <2>2. (t.counter - 1) % size = IF low = 0 THEN size - 1 ELSE low - 1
    BY <2>1, LowPartDown, Zenon
  <2> QED
    BY <1>0, <2>2
<1>4. PICK next \in Nat : next = t.counter - (t.counter % size) + less /\ next % size = less
  <2>1. t.counter \in Nat
    BY DEF Registers18
  <2> QED
    BY <2>1, NewLowPart, Zenon
<1>5. Sync18(t) = <<[t EXCEPT !.counter = next], less = 0 /\ t.enabled>>
  BY <1>0, <1>3, <1>4 DEF Sync18, Registers18
<1>6. /\ [t EXCEPT !.counter = next] \in Registers18
      /\ [t EXCEPT !.counter = next].counter = next
      /\ [t EXCEPT !.counter = next].enabled = t.enabled
      /\ [t EXCEPT !.counter = next].digits = t.digits
  BY <1>4 DEF Registers18
<1>7. PICK u \in Registers18 : u = [t EXCEPT !.counter = next] /\ u.counter = next
                               /\ u.enabled = t.enabled /\ u.digits = t.digits
  BY <1>6
<1>8. PICK asks \in BOOLEAN : asks = (less = 0 /\ t.enabled)
  OBVIOUS
<1>9. Due(u) = IF t.enabled THEN IF less = 0 THEN size ELSE less ELSE 0
  BY <1>2, <1>4, <1>7
<1>10. /\ (less = 0 /\ t.enabled) <=> Due(t) = 1
       /\ Due(t) > 1 => Due(u) = Due(t) - 1
       /\ Due(t) = 0 => Due(u) = 0
  BY <1>0, <1>1, <1>3, <1>9
<1>11. Sync18(t) = <<u, asks>>
  BY <1>5, <1>7, <1>8, Zenon
<1> QED
  BY <1>8, <1>10, <1>11, Kept, Zenon DEF Never

(* A VRC counter that counts lines: x is one of the thirds of a cycle that *)
(* are left, the two that make the last cycle whole added.                 *)
LEMMA Thirds ==
  ASSUME NEW x \in Int
  PROVE  /\ (x - 3) \div 3 = (x \div 3) - 1
         /\ x \div 3 = 1 <=> x \in 3..5
         /\ x >= 3 => x \div 3 >= 1
BY SMT

\* The thirds left before the clock a counter asks with, for a counter c of
\* its Byte values and a prescaler p.
Left(c, p) == p + ((Byte - c - 1) * LineThirds) + 2

\* What is left of a scanline timer before it is due.
LEMMA LeftIs ==
  ASSUME NEW c \in 0..(Byte - 1), NEW p \in 1..LineThirds
  PROVE  /\ Left(c, p) \in Int /\ Left(c, p) >= 3
         /\ Left(c, p) \in 3..5 <=> c = Byte - 1 /\ p <= 3
         /\ p > 3 => p - 3 \in 1..LineThirds /\ Left(c, p - 3) = Left(c, p) - 3
         /\ p <= 3 => p - 3 + LineThirds \in 1..LineThirds
         /\ p <= 3 /\ c # Byte - 1 =>
              c + 1 \in 0..(Byte - 1) /\ Left(c + 1, p - 3 + LineThirds) = Left(c, p) - 3
<1>1. LineThirds \in Nat /\ LineThirds > 3 /\ Byte \in Nat
  BY TimerSizes
<1>2. PICK k \in Nat : k = Byte - c - 1
  BY <1>1
<1>3. PICK all \in Nat : all = k * LineThirds /\ (k > 0 => all >= LineThirds) /\ (k = 0 => all = 0)
  <2>1. k * LineThirds \in Nat /\ (k = 0 => k * LineThirds = 0)
    BY <1>1, <1>2, SMT
  <2>2. k > 0 => k * LineThirds >= LineThirds
    BY <1>1, <1>2, SMT
  <2> QED
    BY <2>1, <2>2
<1>4. Left(c, p) = p + all + 2 /\ Left(c, p - 3) = p - 3 + all + 2
  BY <1>2, <1>3 DEF Left
<1>5. Left(c + 1, p - 3 + LineThirds) = p - 3 + all + 2
  <2>1. (Byte - (c + 1) - 1) * LineThirds = (k - 1) * LineThirds
    BY <1>1, <1>2
  <2>2. (k - 1) * LineThirds = all - LineThirds
    BY <1>1, <1>2, <1>3, SMT
  <2>3. Left(c + 1, p - 3 + LineThirds) = p - 3 + LineThirds + (all - LineThirds) + 2
    BY <2>1, <2>2 DEF Left
  <2> QED
    BY <1>1, <1>3, <2>3
<1> QED
  BY <1>1, <1>2, <1>3, <1>4, <1>5

LEMMA PromisedVrc ==
  ASSUME chip \in {"vrc4", "vrc6"}, NEW t \in RegistersVrc
  PROVE  TimelySync(t, SyncVrc(t), RegistersVrc)
<1>0. Byte \in Nat /\ Byte > 1 /\ LineThirds \in Nat /\ LineThirds > 3
  BY TimerSizes
<1>1. \A r \in RegistersVrc :
         Due(r) = IF ~r.enabled THEN 0 ELSE IF r.byCycle THEN Byte - r.counter
                  ELSE Left(r.counter, r.prescaler) \div 3
  <2>1. TAKE r \in RegistersVrc
  <2>2. Byte - r.counter - 1 = (Byte - r.counter) - 1
    BY <1>0 DEF RegistersVrc
  <2> QED
    BY <2>2 DEF Due, Never, DueVrc, ClocksVrc, Left, RegistersVrc
<1>2. CASE ~t.enabled
  BY <1>2, KeptOff DEF SyncVrc
<1>3. CASE t.enabled /\ t.byCycle
  <2>1. SyncVrc(t) = ClockVrc(t)
    BY <1>3 DEF SyncVrc
  <2>2. CASE t.counter = Byte - 1
    <3>1. SyncVrc(t) = <<[t EXCEPT !.counter = t.latch], TRUE>>
      BY <2>1, <2>2 DEF ClockVrc
    <3>2. [t EXCEPT !.counter = t.latch] \in RegistersVrc
      BY DEF RegistersVrc
    <3>3. Due(t) = 1
      BY <1>0, <1>1, <1>3, <2>2
    <3> QED
      BY <3>1, <3>2, <3>3, KeptAsking, Zenon
  <2>3. CASE t.counter # Byte - 1
    <3>1. SyncVrc(t) = <<[t EXCEPT !.counter = @ + 1], FALSE>>
      BY <2>1, <2>3 DEF ClockVrc, Unmoved
    <3>2. PICK next \in 0..(Byte - 1) : next = t.counter + 1
      BY <1>0, <2>3 DEF RegistersVrc
    <3>3. /\ [t EXCEPT !.counter = next] \in RegistersVrc
          /\ [t EXCEPT !.counter = next].counter = next
          /\ [t EXCEPT !.counter = next].enabled = t.enabled
          /\ [t EXCEPT !.counter = next].byCycle = t.byCycle
      BY <3>2 DEF RegistersVrc
    <3>4. PICK u \in RegistersVrc : u = [t EXCEPT !.counter = next] /\ u.counter = next
                                    /\ u.enabled /\ u.byCycle
      BY <1>3, <3>3
    <3>5. /\ ~(Due(t) = 1) /\ Due(t) # 0
          /\ Due(t) > 1 => Due(u) = Due(t) - 1
      BY <1>0, <1>1, <1>3, <2>3, <3>2, <3>4 DEF RegistersVrc
    <3>6. SyncVrc(t) = <<u, FALSE>>
      BY <3>1, <3>2, <3>4
    <3> QED
      BY <3>5, <3>6, Kept, Zenon DEF Never
  <2> QED
    BY <2>2, <2>3
<1>4. CASE t.enabled /\ ~t.byCycle
  <2> PICK c \in 0..(Byte - 1), p \in 1..LineThirds : c = t.counter /\ p = t.prescaler
    BY DEF RegistersVrc
  <2>1. Due(t) = Left(c, p) \div 3
    BY <1>1, <1>4
  <2>2. /\ Due(t) = 1 <=> c = Byte - 1 /\ p <= 3
        /\ Due(t) # 0
        /\ (Left(c, p) - 3) \div 3 = Due(t) - 1
    BY <2>1, LeftIs, Thirds
  <2>3. [t EXCEPT !.prescaler = @ - 3].prescaler = p - 3
    BY DEF RegistersVrc
  <2>4. CASE p > 3
    <3>1. SyncVrc(t) = <<[t EXCEPT !.prescaler = @ - 3], FALSE>>
      <4>1. ~([t EXCEPT !.prescaler = @ - 3].prescaler <= 0)
        BY <2>3, <2>4
      <4>2. SyncVrc(t) = Unmoved([t EXCEPT !.prescaler = @ - 3])
        BY <1>4, <4>1, Zenon DEF SyncVrc
      <4> QED
        BY <4>2 DEF Unmoved
    <3>2. PICK q \in 1..LineThirds : q = p - 3 /\ Left(c, q) = Left(c, p) - 3
      BY <2>4, LeftIs
    <3>3. /\ [t EXCEPT !.prescaler = q] \in RegistersVrc
          /\ [t EXCEPT !.prescaler = q].prescaler = q
          /\ [t EXCEPT !.prescaler = q].counter = t.counter
          /\ [t EXCEPT !.prescaler = q].enabled = t.enabled
          /\ [t EXCEPT !.prescaler = q].byCycle = t.byCycle
      BY <3>2 DEF RegistersVrc
    <3>4. PICK u \in RegistersVrc : /\ u = [t EXCEPT !.prescaler = q]
                                    /\ u.prescaler = q /\ u.counter = c
                                    /\ u.enabled /\ ~u.byCycle
      BY <1>4, <3>3
    <3>5. Due(u) = Due(t) - 1
      BY <1>1, <2>2, <3>2, <3>4
    <3>6. SyncVrc(t) = <<u, FALSE>>
      BY <3>1, <3>2, <3>4
    <3>7. ~(Due(t) = 1)
      BY <2>2, <2>4
    <3> QED
      BY <2>2, <3>5, <3>6, <3>7, Kept, Zenon DEF Never
  <2>5. CASE p <= 3
    <3>1. PICK q \in 1..LineThirds :
            /\ q = p - 3 + LineThirds
            /\ c # Byte - 1 => c + 1 \in 0..(Byte - 1) /\ Left(c + 1, q) = Left(c, p) - 3
      BY <2>5, LeftIs
    <3>2. /\ [t EXCEPT !.prescaler = q] \in RegistersVrc
          /\ [[t EXCEPT !.prescaler = @ - 3] EXCEPT !.prescaler = @ + LineThirds]
               = [t EXCEPT !.prescaler = q]
      BY <3>1 DEF RegistersVrc
    <3>3. PICK w \in RegistersVrc :
            /\ w = [t EXCEPT !.prescaler = q] /\ w.prescaler = q /\ w.counter = c
            /\ w.enabled /\ ~w.byCycle
      BY <1>4, <3>2 DEF RegistersVrc
    <3>4. SyncVrc(t) = ClockVrc(w)
      BY <1>4, <2>3, <2>5, <3>2, <3>3 DEF SyncVrc
    <3>5. CASE c = Byte - 1
      <4>1. SyncVrc(t) = <<[w EXCEPT !.counter = w.latch], TRUE>>
        BY <3>3, <3>4, <3>5 DEF ClockVrc
      <4>2. [w EXCEPT !.counter = w.latch] \in RegistersVrc
        BY DEF RegistersVrc
      <4>3. Due(t) = 1
        BY <2>2, <2>5, <3>5
      <4> QED
        BY <4>1, <4>2, <4>3, KeptAsking, Zenon
    <3>6. CASE c # Byte - 1
      <4>1. SyncVrc(t) = <<[w EXCEPT !.counter = @ + 1], FALSE>>
        BY <3>3, <3>4, <3>6 DEF ClockVrc, Unmoved
      <4>2. PICK next \in 0..(Byte - 1) : next = c + 1 /\ Left(next, q) = Left(c, p) - 3
        BY <3>1, <3>6
      <4>3. /\ [w EXCEPT !.counter = next] \in RegistersVrc
            /\ [w EXCEPT !.counter = next].counter = next
            /\ [w EXCEPT !.counter = next].prescaler = w.prescaler
            /\ [w EXCEPT !.counter = next].enabled = w.enabled
            /\ [w EXCEPT !.counter = next].byCycle = w.byCycle
        BY <4>2 DEF RegistersVrc
      <4>4. PICK u \in RegistersVrc : /\ u = [w EXCEPT !.counter = next]
                                      /\ u.prescaler = q /\ u.counter = next
                                      /\ u.enabled /\ ~u.byCycle
        BY <3>3, <4>3
      <4>5. Due(u) = Due(t) - 1
        BY <1>1, <2>2, <4>2, <4>4
      <4>6. SyncVrc(t) = <<u, FALSE>>
        BY <3>3, <4>1, <4>2, <4>4
      <4>7. ~(Due(t) = 1)
        BY <2>2, <3>6
      <4> QED
        BY <2>2, <4>5, <4>6, <4>7, Kept, Zenon DEF Never
    <3> QED
      BY <3>5, <3>6
  <2> QED
    BY <2>4, <2>5
<1> QED
  BY <1>2, <1>3, <1>4

(* The clocks of a RAMBO-1 until it asks, for a counter c and the value l  *)
(* that a cleared counter is loaded with.                                  *)
Clocks64(c, l) == IF c > 0 THEN c ELSE IF l = 0 THEN 1 ELSE l + 1

LEMMA Promised64 ==
  ASSUME chip = "rambo", NEW t \in Registers64 PROVE TimelySync(t, Sync64(t), Registers64)
<1>0. Byte \in Nat /\ Byte > 1
  BY TimerSizes
<1> PICK l \in 0..(Byte - 1) : l = (t.latch + 1) % Byte
  BY <1>0, SMT DEF Registers64
<1> PICK c \in 0..(Byte - 1), n \in 0..3 : c = t.counter /\ n = t.cycles
  BY DEF Registers64
<1>1. \A r \in Registers64 : r.latch = t.latch =>
         Due(r) = IF ~r.enabled THEN 0 ELSE IF ~r.byCycle THEN 0
                  ELSE (4 * Clocks64(r.counter, l)) - r.cycles
  BY DEF Due, Never, Due64, Clocks64, Registers64
<1>2. CASE ~t.byCycle
  <2>1. Due(t) = 0
    BY <1>1, <1>2
  <2>2. ~(Due(t) > 1) /\ ~(Due(t) = 1)
    BY <2>1
  <2> QED
    BY <1>2, <2>2, Kept, Zenon DEF Unmoved, Sync64
<1>3. CASE t.byCycle /\ n # 3
  <2>1. PICK m \in 0..3 : m = (n + 1) % 4 /\ m = n + 1
    BY <1>3
  <2>2. /\ [t EXCEPT !.cycles = m] \in Registers64
        /\ [t EXCEPT !.cycles = m].cycles = m
        /\ [t EXCEPT !.cycles = m].counter = t.counter
        /\ [t EXCEPT !.cycles = m].latch = t.latch
        /\ [t EXCEPT !.cycles = m].enabled = t.enabled
        /\ [t EXCEPT !.cycles = m].byCycle = t.byCycle
    BY <2>1 DEF Registers64
  <2>3. PICK u \in Registers64 :
          /\ u = [t EXCEPT !.cycles = m] /\ u.cycles = m /\ u.counter = c
          /\ u.latch = t.latch /\ u.enabled = t.enabled /\ u.byCycle
    BY <1>3, <2>2
  <2>4. m # 0
    BY <2>1
  <2>5. Sync64(t) = <<u, FALSE>>
    BY <1>3, <2>1, <2>3, <2>4, Zenon DEF Sync64, Unmoved
  <2>6. Clocks64(c, l) \in Nat /\ Clocks64(c, l) >= 1
    BY <1>0 DEF Clocks64
  <2>7. /\ Due(t) = IF t.enabled THEN (4 * Clocks64(c, l)) - n ELSE 0
        /\ Due(u) = IF t.enabled THEN (4 * Clocks64(c, l)) - m ELSE 0
    BY <1>1, <1>3, <2>3, Zenon
  <2>8. /\ ~(Due(t) = 1)
        /\ Due(t) > 1 => Due(u) = Due(t) - 1
        /\ Due(t) = 0 => Due(u) = 0
    BY <1>3, <2>1, <2>6, <2>7
  <2> QED
    BY <2>5, <2>8, Kept, Zenon DEF Never
<1>4. CASE t.byCycle /\ n = 3
  <2>1. (n + 1) % 4 = 0
    BY <1>4
  <2>2. PICK r \in Registers64 :
          /\ r = [t EXCEPT !.cycles = (@ + 1) % 4] /\ r.cycles = 0 /\ r.counter = c
          /\ r.latch = t.latch /\ r.enabled = t.enabled /\ r.byCycle
    <3>1. /\ [t EXCEPT !.cycles = 0] \in Registers64
          /\ [t EXCEPT !.cycles = 0].cycles = 0
          /\ [t EXCEPT !.cycles = 0].counter = t.counter
          /\ [t EXCEPT !.cycles = 0].latch = t.latch
          /\ [t EXCEPT !.cycles = 0].enabled = t.enabled
          /\ [t EXCEPT !.cycles = 0].byCycle = t.byCycle
      BY DEF Registers64
    <3> QED
      BY <1>4, <2>1, <3>1
  <2>3. Sync64(t) = Clock64(r)
    BY <1>4, <2>2, Zenon DEF Sync64
  <2>4. PICK next \in 0..(Byte - 1) : next = IF c = 0 THEN l ELSE c - 1
    BY <1>0
  <2>5. Clock64(r) = <<[r EXCEPT !.counter = next], r.enabled /\ next = 0>>
    BY <2>2, <2>4 DEF Clock64
  <2>6. /\ [r EXCEPT !.counter = next] \in Registers64
        /\ [r EXCEPT !.counter = next].cycles = r.cycles
        /\ [r EXCEPT !.counter = next].counter = next
        /\ [r EXCEPT !.counter = next].latch = r.latch
        /\ [r EXCEPT !.counter = next].enabled = r.enabled
        /\ [r EXCEPT !.counter = next].byCycle = r.byCycle
    BY <2>4 DEF Registers64
  <2>7. PICK u \in Registers64 :
          /\ u = [r EXCEPT !.counter = next] /\ u.cycles = 0 /\ u.counter = next
          /\ u.latch = t.latch /\ u.enabled = t.enabled /\ u.byCycle
    BY <2>2, <2>6
  <2>8. PICK asks \in BOOLEAN : asks = (t.enabled /\ next = 0)
    OBVIOUS
  <2>9. Sync64(t) = <<u, asks>>
    BY <2>2, <2>3, <2>5, <2>7, <2>8, Zenon
  <2>10. /\ Clocks64(c, l) \in Nat /\ Clocks64(c, l) >= 1
         /\ next = 0 <=> Clocks64(c, l) = 1
         /\ next # 0 => Clocks64(next, l) = Clocks64(c, l) - 1
    BY <1>0, <2>4 DEF Clocks64
  <2>11. /\ Due(t) = IF t.enabled THEN (4 * Clocks64(c, l)) - 3 ELSE 0
         /\ Due(u) = IF t.enabled THEN 4 * Clocks64(next, l) ELSE 0
    <3>1. 4 * Clocks64(next, l) - 0 = 4 * Clocks64(next, l)
      BY <1>0 DEF Clocks64
    <3>2. /\ Due(t) = IF t.enabled THEN (4 * Clocks64(c, l)) - n ELSE 0
          /\ Due(u) = IF t.enabled THEN (4 * Clocks64(next, l)) - 0 ELSE 0
      BY <1>1, <1>4, <2>7, Zenon
    <3> QED
      BY <1>4, <3>1, <3>2
  <2>12. /\ (t.enabled /\ next = 0) <=> Due(t) = 1
         /\ Due(t) > 1 => Due(u) = Due(t) - 1
         /\ Due(t) = 0 => Due(u) = 0
    BY <2>10, <2>11
  <2> QED
    BY <2>8, <2>9, <2>12, Kept, Zenon DEF Never
<1> QED
  BY <1>2, <1>3, <1>4

\* Every timer is as its cycle promised.
LEMMA EveryTimerPromised ==
  ASSUME chip \in Timers, NEW t \in Registers PROVE TimelySync(t, Synced(t), Registers)
<1>1. CASE chip = "counter12"
  <2>1. Registers = Registers12 /\ Synced(t) = Sync12(t)
    BY <1>1 DEF Registers, Synced
  <2> QED
    BY <1>1, <2>1, Promised12, Zenon
<1>2. CASE chip = "bandai"
  <2>1. Registers = RegistersBandai /\ Synced(t) = SyncBandai(t)
    BY <1>2 DEF Registers, Synced
  <2> QED
    BY <1>2, <2>1, PromisedBandai, Zenon
<1>3. CASE chip = "ss88006"
  <2>1. Registers = Registers18 /\ Synced(t) = Sync18(t)
    BY <1>3 DEF Registers, Synced
  <2> QED
    BY <1>3, <2>1, Promised18, Zenon
<1>4. CASE chip = "n163"
  <2>1. Registers = Registers19 /\ Synced(t) = Sync19(t)
    BY <1>4 DEF Registers, Synced
  <2> QED
    BY <1>4, <2>1, Promised19, Zenon
<1>5. CASE chip = "fme7"
  <2>1. Registers = Registers69 /\ Synced(t) = Sync69(t)
    BY <1>5 DEF Registers, Synced
  <2> QED
    BY <1>5, <2>1, Promised69, Zenon
<1>6. CASE chip \in {"vrc4", "vrc6"}
  <2>1. Registers = RegistersVrc /\ Synced(t) = SyncVrc(t)
    BY <1>6 DEF Registers, Synced
  <2> QED
    BY <1>6, <2>1, PromisedVrc, Zenon
<1>7. CASE chip = "rambo"
  <2>1. Registers = Registers64 /\ Synced(t) = Sync64(t)
    BY <1>7 DEF Registers, Synced
  <2> QED
    BY <1>7, <2>1, Promised64, Zenon
<1> QED
  BY <1>1, <1>2, <1>3, <1>4, <1>5, <1>6, <1>7 DEF Timers

(* ----------------------------------------------------------------- writes *)

\* Whatever is written, the registers stay within their widths.
LEMMA Typed12 ==
  ASSUME chip = "counter12", NEW t \in Registers12, NEW w \in TimerWrites
  PROVE  Write12(t, w) \in Registers12
<1>1. w \in [port : {"control"}, on : BOOLEAN]
  BY DEF TimerWrites
<1>2. 0 \in 0..(Long - 1)
  BY TimerSizes
<1> QED
  BY <1>1, <1>2 DEF Write12, Registers12

\* Each board's timer stays in its range.
LEMMA TypedBandai ==
  ASSUME chip = "bandai", NEW t \in RegistersBandai, NEW w \in TimerWrites
  PROVE  WriteBandaiTimer(t, w) \in RegistersBandai
<1>1. w \in [port : {"low", "high"}, value : 0..(Byte - 1)] \cup [port : {"control"}, on : BOOLEAN]
  BY DEF TimerWrites
<1>2. CASE w \in [port : {"low", "high"}, value : 0..(Byte - 1)]
  <2>1. /\ w.port # "control"
        /\ SetLowByte(t.counter, w.value) \in 0..(Byte * Byte - 1)
        /\ SetHighByte(t.counter, w.value) \in 0..(Byte * Byte - 1)
    BY <1>2, HalfWritten DEF RegistersBandai
  <2> QED
    BY <2>1 DEF WriteBandaiTimer, WriteHalf, RegistersBandai
<1>3. CASE w \in [port : {"control"}, on : BOOLEAN]
  BY <1>3 DEF WriteBandaiTimer, RegistersBandai
<1> QED
  BY <1>1, <1>2, <1>3

LEMMA Typed69 ==
  ASSUME chip = "fme7", NEW t \in Registers69, NEW w \in TimerWrites
  PROVE  WriteTimer69(t, w) \in Registers69
<1>1. w \in [port : {"low", "high"}, value : 0..(Byte - 1)]
             \cup [port : {"control"}, on : BOOLEAN, counting : BOOLEAN]
  BY DEF TimerWrites
<1>2. CASE w \in [port : {"low", "high"}, value : 0..(Byte - 1)]
  <2>1. /\ w.port # "control"
        /\ SetLowByte(t.counter, w.value) \in 0..(Byte * Byte - 1)
        /\ SetHighByte(t.counter, w.value) \in 0..(Byte * Byte - 1)
    BY <1>2, HalfWritten DEF Registers69
  <2> QED
    BY <2>1 DEF WriteTimer69, WriteHalf, Registers69
<1>3. CASE w \in [port : {"control"}, on : BOOLEAN, counting : BOOLEAN]
  BY <1>3 DEF WriteTimer69, Registers69
<1> QED
  BY <1>1, <1>2, <1>3

LEMMA Typed18 ==
  ASSUME chip = "ss88006", NEW t \in Registers18, NEW w \in TimerWrites
  PROVE  WriteTimer18(t, w) \in Registers18
<1>1. w \in [port : {"digit"}, digit : 0..3, value : 0..(Nibble - 1)]
             \cup [port : {"reload"}] \cup [port : {"control"}, on : BOOLEAN, digits : 1..4]
  BY DEF TimerWrites
<1>2. CASE w \in [port : {"digit"}, digit : 0..3, value : 0..(Nibble - 1)]
  <2> PICK latch \in Nat, i \in 0..3, v \in Nat : latch = t.latch /\ i = w.digit /\ v = w.value
    BY <1>2 DEF Registers18
  <2>1. PICK below \in Nat \ {0} : below = Weight(i)
    BY WeightIs
  <2>2. (IF 2 * i + 1 > 4 THEN 4 ELSE 2 * i + 1) \in 0..4
    OBVIOUS
  <2>3. PICK above \in Nat \ {0} : above = Weight(IF 2 * i + 1 > 4 THEN 4 ELSE 2 * i + 1)
    BY <2>2, WeightIs, Zenon
  <2>4. latch % below \in Nat /\ latch \div above \in Nat
    BY Parted
  <2>5. (latch % below) + (v * below) + (above * (latch \div above)) \in Nat
    BY <2>4, SMT
  <2>6. SetDigit(latch, i, v) \in Nat
    BY <2>1, <2>3, <2>5, Zenon DEF SetDigit
  <2>7. WriteTimer18(t, w) = [t EXCEPT !.latch = SetDigit(latch, i, v)]
    BY <1>2 DEF WriteTimer18, Registers18
  <2> QED
    BY <2>6, <2>7 DEF Registers18
<1>3. CASE w \in [port : {"reload"}]
  BY <1>3 DEF WriteTimer18, Registers18
<1>4. CASE w \in [port : {"control"}, on : BOOLEAN, digits : 1..4]
  BY <1>4 DEF WriteTimer18, Registers18
<1> QED
  BY <1>1, <1>2, <1>3, <1>4

LEMMA Typed19 ==
  ASSUME chip = "n163", NEW t \in Registers19, NEW w \in TimerWrites
  PROVE  WriteTimer19(t, w) \in Registers19
<1>1. w \in [port : {"low", "high"}, on : BOOLEAN, value : 0..((Byte \div 2) - 1)]
             \cup [port : {"read"}]
  BY DEF TimerWrites
<1>2. CASE w \in [port : {"low", "high"}, on : BOOLEAN, value : 0..((Byte \div 2) - 1)]
  <2>1. w.port # "read" /\ SetHighByte(t.counter, w.value) \in 0..TopOf19
    BY <1>2, HalfOf19Written DEF Registers19
  <2> QED
    BY <1>2, <2>1 DEF WriteTimer19, Registers19
<1>3. CASE w \in [port : {"read"}]
  BY <1>3 DEF WriteTimer19
<1> QED
  BY <1>1, <1>2, <1>3

LEMMA TypedVrc ==
  ASSUME chip \in {"vrc4", "vrc6"}, NEW t \in RegistersVrc, NEW w \in TimerWrites
  PROVE  WriteVrcTimer(t, w) \in RegistersVrc
<1>0. LineThirds \in 1..LineThirds /\ 0..(Nibble - 1) \subseteq 0..(Byte - 1)
  BY TimerSizes
<1>1. w \in [port : {"latch"}, value : 0..(Byte - 1)] \cup [port : {"again"}]
             \cup [port : {"control"}, on : BOOLEAN, again : BOOLEAN, mode : BOOLEAN]
  BY <1>0 DEF TimerWrites
<1>2. CASE w \in [port : {"latch"}, value : 0..(Byte - 1)]
  BY <1>2 DEF WriteVrcTimer, RegistersVrc
<1>3. CASE w \in [port : {"again"}]
  BY <1>3 DEF WriteVrcTimer, RegistersVrc
<1>4. CASE w \in [port : {"control"}, on : BOOLEAN, again : BOOLEAN, mode : BOOLEAN]
  BY <1>0, <1>4 DEF WriteVrcTimer, RegistersVrc
<1> QED
  BY <1>1, <1>2, <1>3, <1>4

LEMMA Typed64 ==
  ASSUME chip = "rambo", NEW t \in Registers64, NEW w \in TimerWrites
  PROVE  WriteTimer64(t, w) \in Registers64
<1>0. 0 \in 0..(Byte - 1)
  BY TimerSizes
<1>1. w \in [port : {"latch"}, value : 0..(Byte - 1)] \cup [port : {"mode"}, mode : BOOLEAN]
             \cup [port : {"enable"}, on : BOOLEAN]
  BY DEF TimerWrites
<1>2. CASE w \in [port : {"latch"}, value : 0..(Byte - 1)]
  BY <1>2 DEF WriteTimer64, Registers64
<1>3. CASE w \in [port : {"mode"}, mode : BOOLEAN]
  BY <1>0, <1>3 DEF WriteTimer64, Registers64
<1>4. CASE w \in [port : {"enable"}, on : BOOLEAN]
  BY <1>4 DEF WriteTimer64, Registers64
<1> QED
  BY <1>1, <1>2, <1>3, <1>4

LEMMA EveryTimerTyped ==
  ASSUME chip \in Timers, NEW t \in Registers, NEW w \in TimerWrites
  PROVE  WriteTimer(t, w) \in Registers
<1>1. CASE chip = "counter12"
  <2>1. Registers = Registers12 /\ WriteTimer(t, w) = Write12(t, w)
    BY <1>1 DEF Registers, WriteTimer
  <2> QED
    BY <1>1, <2>1, Typed12, Zenon
<1>2. CASE chip = "bandai"
  <2>1. Registers = RegistersBandai /\ WriteTimer(t, w) = WriteBandaiTimer(t, w)
    BY <1>2 DEF Registers, WriteTimer
  <2> QED
    BY <1>2, <2>1, TypedBandai, Zenon
<1>3. CASE chip = "ss88006"
  <2>1. Registers = Registers18 /\ WriteTimer(t, w) = WriteTimer18(t, w)
    BY <1>3 DEF Registers, WriteTimer
  <2> QED
    BY <1>3, <2>1, Typed18, Zenon
<1>4. CASE chip = "n163"
  <2>1. Registers = Registers19 /\ WriteTimer(t, w) = WriteTimer19(t, w)
    BY <1>4 DEF Registers, WriteTimer
  <2> QED
    BY <1>4, <2>1, Typed19, Zenon
<1>5. CASE chip = "fme7"
  <2>1. Registers = Registers69 /\ WriteTimer(t, w) = WriteTimer69(t, w)
    BY <1>5 DEF Registers, WriteTimer
  <2> QED
    BY <1>5, <2>1, Typed69, Zenon
<1>6. CASE chip \in {"vrc4", "vrc6"}
  <2>1. Registers = RegistersVrc /\ WriteTimer(t, w) = WriteVrcTimer(t, w)
    BY <1>6 DEF Registers, WriteTimer
  <2> QED
    BY <1>6, <2>1, TypedVrc, Zenon
<1>7. CASE chip = "rambo"
  <2>1. Registers = Registers64 /\ WriteTimer(t, w) = WriteTimer64(t, w)
    BY <1>7 DEF Registers, WriteTimer
  <2> QED
    BY <1>7, <2>1, Typed64, Zenon
<1> QED
  BY <1>1, <1>2, <1>3, <1>4, <1>5, <1>6, <1>7 DEF Timers

\* The clock of a RAMBO-1 by a rise of A12 leaves its registers in range, too.
LEMMA RiseTyped ==
  ASSUME chip = "rambo", NEW t \in Registers
  PROVE  Clock64(t)[1] \in Registers /\ Clock64(t)[2] \in BOOLEAN
<1>1. Registers = Registers64
  BY DEF Registers
<1>2. t \in Registers64 /\ Byte \in Nat /\ Byte > 1
  BY <1>1, TimerSizes
<1>3. (t.latch + 1) % Byte \in 0..(Byte - 1)
  BY <1>2, SMT DEF Registers64
<1>4. PICK next \in 0..(Byte - 1) : next = IF t.counter = 0 THEN (t.latch + 1) % Byte ELSE t.counter - 1
  BY <1>2, <1>3 DEF Registers64
<1>5. Clock64(t) = <<[t EXCEPT !.counter = next], t.enabled /\ next = 0>>
  BY <1>4, Zenon DEF Clock64
<1>6. [t EXCEPT !.counter = next] \in Registers64
  BY <1>2, <1>4 DEF Registers64
<1>7. PICK asks \in BOOLEAN : asks = (t.enabled /\ next = 0)
  OBVIOUS
<1>8. PICK u \in Registers64 : u = [t EXCEPT !.counter = next]
  BY <1>6
<1>9. Clock64(t) = <<u, asks>>
  BY <1>5, <1>7, <1>8, Zenon
<1> QED
  BY <1>1, <1>9

(* -------------------------------------------------------------- invariant *)

LEMMA TimerStarts == TimerInit => TimerInv
<1> SUFFICES ASSUME TimerInit PROVE TimerInv
  OBVIOUS
<1>1. chip \in Timers /\ timer = PowerTimer(chip) /\ irq_line = FALSE /\ fired = FALSE
  BY TimerSizes DEF TimerInit
<1>2. /\ 0 \in 0..(Long - 1) /\ 0 \in 0..(Byte - 1) /\ 0 \in 0..(Byte * Byte - 1)
      /\ LineThirds \in 1..LineThirds
  BY TimerSizes, Squared
<1>3. 0 \in 0..TopOf19
  <2>1. PICK h \in Nat : h = Byte \div 2 /\ h >= 1
    BY Squared, SMT
  <2>2. h * Byte >= 1 /\ h * Byte \in Nat
    BY <2>1, Squared, SMT
  <2> QED
    BY <2>1, <2>2 DEF TopOf19
<1>4. PowerTimer(chip) \in Registers
  <2>1. CASE chip = "counter12"
    BY <1>2, <2>1 DEF PowerTimer, Registers, Registers12
  <2>2. CASE chip = "bandai"
    BY <1>2, <2>2 DEF PowerTimer, Registers, RegistersBandai
  <2>3. CASE chip = "ss88006"
    BY <2>3 DEF PowerTimer, Registers, Registers18
  <2>4. CASE chip = "n163"
    BY <1>3, <2>4 DEF PowerTimer, Registers, Registers19
  <2>5. CASE chip = "fme7"
    BY <1>2, <2>5 DEF PowerTimer, Registers, Registers69
  <2>6. CASE chip \in {"vrc4", "vrc6"}
    BY <1>2, <2>6 DEF PowerTimer, Registers, RegistersVrc
  <2>7. CASE chip = "rambo"
    BY <1>2, <2>7 DEF PowerTimer, Registers, Registers64
  <2> QED
    BY <1>1, <2>1, <2>2, <2>3, <2>4, <2>5, <2>6, <2>7 DEF Timers
<1> QED
  BY <1>1, <1>4 DEF TimerInv

LEMMA ElapseTyped ==
  ASSUME TimerInv, NEW outcome, outcome[1] \in Registers, outcome[2] \in BOOLEAN, Elapse(outcome)
  PROVE  TimerInv'
<1>1. chip' = chip /\ timer' = outcome[1] /\ fired' = outcome[2]
  BY DEF Elapse
<1>2. irq_line' \in BOOLEAN
  BY Zenon DEF Elapse
<1>3. Registers' = Registers
  BY <1>1 DEF Registers, Registers12, RegistersBandai, Registers18, Registers19, Registers69,
              Registers64, RegistersVrc, TopOf19
<1> QED
  BY <1>1, <1>2, <1>3, Zenon DEF TimerInv

LEMMA TimerNextInv == TimerInv /\ [TimerNext]_timerVars => TimerInv'
<1> SUFFICES ASSUME TimerInv, [TimerNext]_timerVars PROVE TimerInv'
  OBVIOUS
<1>1. CASE Cycle
  <2>1. TimelySync(timer, Synced(timer), Registers)
    BY EveryTimerPromised DEF TimerInv
  <2> QED
    BY <1>1, <2>1, ElapseTyped DEF Cycle, TimelySync
<1>2. CASE LineRise
  BY <1>2, RiseTyped, ElapseTyped DEF LineRise, TimerInv
<1>3. CASE \E w \in TimerWrites : WritePort(w)
  <2> PICK w \in TimerWrites : WritePort(w)
    BY <1>3
  <2>1. chip' = chip /\ timer' = WriteTimer(timer, w) /\ fired' = FALSE
    BY DEF WritePort
  <2>2. irq_line' \in BOOLEAN
    BY Zenon DEF WritePort
  <2>3. Registers' = Registers
    BY <2>1 DEF Registers, Registers12, RegistersBandai, Registers18, Registers19, Registers69,
                Registers64, RegistersVrc, TopOf19
  <2>4. WriteTimer(timer, w) \in Registers
    BY EveryTimerTyped DEF TimerInv
  <2> QED
    BY <2>1, <2>2, <2>3, <2>4, Zenon DEF TimerInv
<1>4. CASE UNCHANGED timerVars
  <2>1. chip' = chip /\ timer' = timer /\ irq_line' = irq_line /\ fired' = fired
    BY <1>4 DEF timerVars
  <2>2. Registers' = Registers
    BY <2>1 DEF Registers, Registers12, RegistersBandai, Registers18, Registers19, Registers69,
                Registers64, RegistersVrc, TopOf19
  <2> QED
    BY <2>1, <2>2, Zenon DEF TimerInv
<1> QED
  BY <1>1, <1>2, <1>3, <1>4 DEF TimerNext

\* The registers of every board stay within their widths, and a prescaler
\* never runs out, whatever the game writes to them and when.
THEOREM TimerInvariant == TimerSpec => []TimerInv
BY TimerStarts, TimerNextInv, PTL DEF TimerSpec

\* A timer interrupts in the cycle its registers promised and in no other:
\* cpu_sync of eight boards, with their wraps, stops, loads and remainders.
THEOREM TimerOnTimeHolds == TimerSpec => TimerOnTime
<1>1. ASSUME TimerInv, Cycle PROVE OneCycleNearer
  <2>1. TimelySync(timer, Synced(timer), Registers)
    BY <1>1, EveryTimerPromised DEF TimerInv
  <2>2. timer' = Synced(timer)[1] /\ fired' = Synced(timer)[2]
    BY <1>1 DEF Cycle, Elapse
  <2> QED
    BY <2>1, <2>2, Zenon DEF TimelySync, OneCycleNearer
<1>2. TimerInv => (Cycle => OneCycleNearer)
  BY <1>1
<1> QED
  BY TimerInvariant, <1>2, PTL DEF TimerOnTime, TimerSpec

(***************************************************************************)
(* The MMC5 behind the PPU's reads, for lines of any length, any number of *)
(* lines the chip's counter can hold and any accesses of the CPU.          *)
(*                                                                         *)
(* Neither half of LinesAndSprites is inductive.  Mmc5Inv adds what the    *)
(* last two reads were, wherever the beam is, so that three equal ones in  *)
(* a row can only be where a line starts; where a frame left over from the *)
(* picture before can still be counted on; and, for a picture that is      *)
(* followed, that the reads come often enough for the frame to go on, and  *)
(* how many of them were counted.                                          *)
(***************************************************************************)
Addresses5 == [kind : {"none", "name", "attribute", "pattern"}, column : Nat, row : 0..1]

CountType ==
    /\ vpos5 \in 0..LastLine /\ hpos5 \in 0..LastDot /\ cycle \in 0..2 /\ row5 \in 0..1
    /\ ppu_read_idle_cycles \in 0..3 /\ irq_counter5 \in 0..255 /\ fetch_count \in Nat
    /\ prev \in Addresses5 \X Addresses5

CountFlags ==
    /\ odd5 \in BOOLEAN /\ enabled5 \in BOOLEAN /\ in_frame \in BOOLEAN /\ pending \in BOOLEAN
    /\ irq_enabled5 \in BOOLEAN /\ asserted \in BOOLEAN /\ frame_seeded \in BOOLEAN
    /\ saw_ppu_read \in BOOLEAN /\ scanline_pending \in BOOLEAN /\ large_sprites \in BOOLEAN
    /\ moved5 \in BOOLEAN /\ clean \in BOOLEAN

\* The interrupt line and the frame.
LineHasReason ==
    /\ asserted = (pending /\ irq_enabled5)
    /\ pending => in_frame
    /\ frame_seeded => in_frame

Drawn == vpos5 \in 1..Lines5

\* Three reads of one address are seen in the first reads of a line only.
ScanBrief == scanline_pending => Drawn /\ hpos5 \in 1..4

\* The read before this one, of this line, or none since the detector was reset.
KindNow ==
    /\ ~enabled5 => prev = <<Nothing5, Nothing5>> /\ ~scanline_pending
    /\ Drawn /\ hpos5 > 2 => prev[1].kind \in {"none", Part((hpos5 - 1) \div 2)}
    /\ Drawn /\ hpos5 \in {LastDot - 1, LastDot} => prev[2].kind \in {"none", "pattern"}

\* Where the last frame ended.
LastRow == IF moved5 THEN row5 ELSE RowBelow
OldRow ==
    /\ vpos5 = Lines5 /\ hpos5 > 2 * BgReads + 2 => prev[1] = Nothing5 \/ prev[1].row = RowBelow
    /\ vpos5 > Lines5 \/ vpos5 = 0 \/ (vpos5 = 1 /\ hpos5 = 0) =>
          prev[1] = Nothing5 \/ prev[1].row = LastRow

\* Between the pictures the frame is over after three cycles without a read.
Forgotten ==
    /\ vpos5 > Lines5 + 1 \/ vpos5 = 0 \/ (vpos5 = 1 /\ hpos5 = 0) => ~in_frame
    /\ vpos5 = Lines5 + 1 /\ in_frame =>
         IF saw_ppu_read THEN hpos5 <= cycle
         ELSE hpos5 <= 3 * ppu_read_idle_cycles + cycle + 3

\* The address that ends a line and starts the next.
Edge == [kind |-> "name", column |-> 2, row |-> row5]

\* A frame that is followed from its first dot.
FirstLine ==
    /\ ~scanline_pending
    /\ hpos5 > 0
    /\ in_frame => irq_counter5 = 0
    /\ hpos5 < 3 => prev # <<Edge, Edge>>
    /\ hpos5 >= 3 => in_frame
LaterLine ==
    /\ in_frame
    /\ irq_counter5 = IF hpos5 <= 4 THEN vpos5 - 2 ELSE vpos5 - 1
    /\ scanline_pending <=> hpos5 \in 3..4
    /\ hpos5 < 3 => prev = <<Edge, Edge>>
    /\ hpos5 > 4 => fetch_count = ((hpos5 - 1) \div 2) - 2
\* No three cycles pass without a read.
ReadsInTime ==
    in_frame /\ ~saw_ppu_read =>
        /\ ppu_read_idle_cycles = 0
        /\ cycle = 1 => hpos5 = 1 \/ (hpos5 % 2 = 0 /\ hpos5 > 0)
        /\ cycle = 2 => hpos5 % 2 = 0 /\ hpos5 > 0
Followed ==
    clean /\ Drawn =>
        /\ enabled5 /\ ReadsInTime
        /\ vpos5 = 1 => FirstLine
        /\ vpos5 > 1 => LaterLine
        /\ vpos5 < Lines5 /\ hpos5 \in {LastDot - 1, LastDot} => prev[1] = Edge

Mmc5Inv == CountType /\ CountFlags /\ LineHasReason /\ ScanBrief /\ KindNow /\ OldRow /\ Forgotten /\ Followed

(* ------------------------------------------------------------- arithmetic *)
LEMMA Sizes5 ==
    /\ Tiles5 \in Nat /\ Sprites5 \in Nat /\ Tiles5 >= 1 /\ Sprites5 >= 1
    /\ BgReads \in Nat /\ BgReads = 4 * Tiles5 /\ SpriteReads \in Nat /\ SpriteReads = 4 * Sprites5
    /\ Reads \in Nat /\ Reads = BgReads + SpriteReads + 10
    /\ LastDot \in Nat /\ LastDot = 2 * Reads /\ LastDot >= 36
    /\ Lines5 \in 1..256 /\ LastLine \in Nat /\ LastLine >= Lines5 + 1
  BY Mmc5Assumption DEF BgReads, SpriteReads, Reads, LastDot, LastLine

\* The reads of a line come in fours.
LEMMA PartIs ==
  ASSUME NEW n \in Nat
  PROVE  /\ Part(n) \in {"name", "attribute", "pattern"}
         /\ Part(n + 1) = Part(n) => Part(n) = "pattern"
         /\ Part(n) = "pattern" <=> n % 4 \in {0, 3}
<1>1. n % 4 \in 0..3 /\ (n + 1) % 4 = (IF n % 4 = 3 THEN 0 ELSE (n % 4) + 1)
  OBVIOUS
<1> QED
  BY <1>1 DEF Part

\* Where the last reads of a line stand in their four.
LEMMA LastParts ==
  /\ Part(1) = "name" /\ Part(Reads - 1) = "name" /\ Part(Reads - 2) = "pattern"
<1>1. 1 % 4 = 1
  OBVIOUS
<1>2. (Reads - 1) % 4 = 1 /\ (Reads - 2) % 4 = 0
  <2>1. Reads = 4 * (Tiles5 + Sprites5) + 10
    BY Sizes5
  <2> QED
    BY <2>1, Sizes5
<1> QED
  BY <1>1, <1>2 DEF Part

\* Two dots for each read.
LEMMA Halves ==
  ASSUME NEW h \in Nat
  PROVE  /\ h % 2 \in 0..1 /\ h \div 2 \in Nat /\ h = 2 * (h \div 2) + (h % 2)
         /\ (h + 1) % 2 = 1 - (h % 2)
         /\ h > 0 => (h - 1) \div 2 = (h \div 2) - (IF h % 2 = 0 THEN 1 ELSE 0)
         /\ (h + 1) - 1 = h
  OBVIOUS

(* ------------------------------------------------------- what the PPU reads *)
LEMMA AddressIs ==
  ASSUME CountType, NEW k \in {"name", "attribute", "pattern"}, NEW c \in Nat
  PROVE  /\ Address5(k, c) \in Addresses5 /\ Address5(k, c) # Nothing5
         /\ Address5(k, c).kind = k
         /\ Address5(k, c).row = IF vpos5 = Lines5 /\ hpos5 > 2 * BgReads THEN RowBelow ELSE row5
         /\ vpos5 < Lines5 \/ hpos5 <= 2 * BgReads =>
              Address5(k, c) = [kind |-> k, column |-> c, row |-> row5]
<1>1. RowBelow \in 0..1 /\ row5 \in 0..1 /\ vpos5 \in Nat /\ hpos5 \in Nat
  BY DEF CountType, RowBelow
<1>2. Address5(k, c) \in Addresses5
  BY <1>1 DEF Address5, Addresses5
<1>3. Address5(k, c).kind = k
  BY DEF Address5
<1>4. k # "none"
  OBVIOUS
<1>5. Address5(k, c) # Nothing5
  BY <1>3, <1>4 DEF Nothing5
<1>6. Address5(k, c).row = IF vpos5 = Lines5 /\ hpos5 > 2 * BgReads THEN RowBelow ELSE row5
  BY DEF Address5
<1>7. vpos5 < Lines5 \/ hpos5 <= 2 * BgReads => ~(vpos5 = Lines5 /\ hpos5 > 2 * BgReads)
  BY <1>1, Sizes5
<1>8. vpos5 < Lines5 \/ hpos5 <= 2 * BgReads =>
              Address5(k, c) = [kind |-> k, column |-> c, row |-> row5]
  BY <1>7, Zenon DEF Address5
<1> QED
  BY <1>2, <1>3, <1>5, <1>6, <1>8

\* What the n-th read is for, and that the first and the last two that matter
\* read one address.
LEMMA FetchIs ==
  ASSUME CountType, NEW n \in 1..Reads
  PROVE  /\ \E k \in {"name", "attribute", "pattern"}, c \in Nat : Fetch5(n) = Address5(k, c)
         /\ n < Reads => Fetch5(n).kind = Part(n)
         /\ n \in {1, Reads - 1, Reads} => Fetch5(n) = Address5("name", 2)
         /\ Fetch5(n).kind = "pattern" => Part(n) = "pattern" /\ n < Reads
<1>1. n \in Nat /\ BgReads + SpriteReads + 10 = Reads /\ BgReads >= 4 /\ SpriteReads >= 4
      /\ BgReads \in Nat /\ SpriteReads \in Nat /\ Reads \in Nat
  BY Sizes5
<1>2. Part(n) \in {"name", "attribute", "pattern"}
  BY <1>1, PartIs
<1>3. CASE n <= BgReads
  <2>1. Fetch5(n) = Address5(Part(n), 2 + (n - 1) \div 4)
    BY <1>1, <1>3 DEF Fetch5
  <2>2. 2 + (n - 1) \div 4 \in Nat /\ (n = 1 => 2 + (n - 1) \div 4 = 2)
        /\ n # Reads - 1 /\ n # Reads /\ n < Reads
    BY <1>1, <1>3
  <2>3. n = 1 => Part(n) = "name"
    BY LastParts
  <2>4. Fetch5(n).kind = Part(n)
    BY <1>2, <2>1, <2>2, AddressIs
  <2> QED
    BY <1>2, <2>1, <2>2, <2>3, <2>4
<1>4. CASE n \in (BgReads + 1)..(BgReads + SpriteReads)
  <2>1. Fetch5(n) = Address5(Part(n), 0)
    BY <1>1, <1>4 DEF Fetch5
  <2>2. n # 1 /\ n # Reads - 1 /\ n # Reads /\ n < Reads
    BY <1>1, <1>4
  <2>4. Fetch5(n).kind = Part(n)
    BY <1>2, <2>1, AddressIs
  <2> QED
    BY <1>2, <2>1, <2>2, <2>4
<1>5. CASE n = Reads
  <2>1. Fetch5(n) = Address5("name", 2)
    BY <1>1, <1>5 DEF Fetch5
  <2>2. Fetch5(n).kind = "name"
    BY <2>1, AddressIs
  <2> QED
    BY <1>1, <1>5, <2>1, <2>2
<1>6. CASE n > BgReads + SpriteReads /\ n # Reads
  <2>1. Fetch5(n) = Address5(Part(n), (n - BgReads - SpriteReads - 1) \div 4)
    BY <1>1, <1>6 DEF Fetch5
  <2>2. /\ (n - BgReads - SpriteReads - 1) \div 4 \in Nat /\ n # 1 /\ n < Reads
        /\ n = Reads - 1 => (n - BgReads - SpriteReads - 1) = 8
    BY <1>1, <1>6
  <2>3. n = Reads - 1 => Part(n) = "name"
    BY LastParts
  <2>4. Fetch5(n).kind = Part(n)
    BY <1>2, <2>1, <2>2, AddressIs
  <2>5. 8 \div 4 = 2
    OBVIOUS
  <2>6. n = Reads - 1 => (n - BgReads - SpriteReads - 1) \div 4 = 2
    BY <2>2, <2>5
  <2> QED
    BY <1>1, <1>2, <2>1, <2>2, <2>3, <2>4, <2>6
<1> QED
  BY <1>1, <1>3, <1>4, <1>5, <1>6

\* Whether this dot reads.
Reading == enabled5 /\ vpos5 <= Lines5
           /\ ((hpos5 > 0 /\ hpos5 % 2 = 0) \/ (hpos5 = 0 /\ vpos5 = 1 /\ odd5))

\* What a dot reads, if it reads at all.
LEMMA ReadIs ==
  ASSUME CountType, CountFlags
  PROVE  /\ ReadNow \in Addresses5
         /\ ReadNow # Nothing5 <=> Reading
         /\ Reading => ReadNow = Fetch5(IF hpos5 = 0 THEN Reads ELSE hpos5 \div 2)
         /\ Reading => ReadNow.row = IF vpos5 = Lines5 /\ hpos5 > 2 * BgReads THEN RowBelow ELSE row5
         /\ hpos5 > 0 => hpos5 \div 2 \in 0..Reads /\ (hpos5 % 2 = 0 => hpos5 \div 2 \in 1..Reads)
<1>1. hpos5 \in Nat /\ vpos5 \in Nat /\ Reads \in Nat /\ hpos5 <= 2 * Reads /\ Reads >= 18
  BY Sizes5 DEF CountType
<1>2. hpos5 > 0 => hpos5 \div 2 \in 0..Reads /\ (hpos5 % 2 = 0 => hpos5 \div 2 \in 1..Reads)
  BY <1>1
<1> DEFINE n == IF hpos5 = 0 THEN Reads ELSE hpos5 \div 2
<1>3. CASE Reading
  <2>1. ReadNow = Fetch5(n)
    <3>1. CASE hpos5 = 0
      BY <1>1, <1>3, <3>1 DEF Reading, ReadNow, CountFlags
    <3>2. CASE hpos5 > 0
      BY <1>1, <1>3, <3>2 DEF Reading, ReadNow, CountFlags
    <3> QED
      BY <1>1, <3>1, <3>2
  <2>2. n \in 1..Reads
    BY <1>1, <1>2, <1>3 DEF Reading
  <2>3. PICK k \in {"name", "attribute", "pattern"}, c \in Nat : Fetch5(n) = Address5(k, c)
    BY <2>2, FetchIs
  <2>4. /\ ReadNow \in Addresses5 /\ ReadNow # Nothing5
        /\ ReadNow.row = IF vpos5 = Lines5 /\ hpos5 > 2 * BgReads THEN RowBelow ELSE row5
    BY <2>1, <2>3, AddressIs
  <2> QED
    BY <1>2, <1>3, <2>1, <2>4
<1>4. CASE ~Reading
  <2>1. ReadNow = Nothing5
    BY <1>1, <1>4 DEF Reading, ReadNow, CountFlags
  <2>2. Nothing5 \in Addresses5
    BY DEF Nothing5, Addresses5
  <2> QED
    BY <1>2, <1>4, <2>1, <2>2
<1> QED
  BY <1>3, <1>4

(* -------------------------------------------------------------- the chip *)
\* The chip as it is, and after a read that it counts.
ChipNow(r) ==
    /\ r.in_frame = in_frame /\ r.pending = pending /\ r.counter = irq_counter5
    /\ r.line = asserted /\ r.seeded = frame_seeded /\ r.idle = ppu_read_idle_cycles
    /\ r.prev = prev /\ r.scan = scanline_pending /\ r.count = fetch_count

ChipReads(r, a) ==
    /\ r.idle = ppu_read_idle_cycles
    /\ r.prev = <<a, prev[1]>>
    /\ r.scan <=> a.kind # "pattern" /\ prev = <<a, a>>
    /\ r.count = IF scanline_pending THEN 0 ELSE fetch_count + 1
    /\ r.in_frame <=> in_frame \/ scanline_pending \/ vpos5 = 1
    /\ ~in_frame /\ ~scanline_pending /\ vpos5 = 1 => r.counter = 0
    /\ in_frame => r.counter = IF scanline_pending THEN (irq_counter5 + 1) % 256 ELSE irq_counter5

ChipFields == {"in_frame", "pending", "counter", "line", "seeded", "saw", "idle",
               "prev", "scan", "count"}
ChipSound(r) ==
    /\ DOMAIN r = ChipFields
    /\ r.idle \in 0..3 /\ r.counter \in 0..255 /\ r.count \in Nat
    /\ r.prev \in Addresses5 \X Addresses5
ChipFlags(r) ==
    /\ r.in_frame \in BOOLEAN /\ r.pending \in BOOLEAN /\ r.line \in BOOLEAN
    /\ r.seeded \in BOOLEAN /\ r.saw \in BOOLEAN /\ r.scan \in BOOLEAN
ChipReason(r) ==
    /\ r.line = (r.pending /\ irq_enabled5)
    /\ r.pending => r.in_frame
    /\ r.seeded => r.in_frame

\* The chip as a record has what the variables have.
LEMMA ChipIs ==
  ASSUME CountType, CountFlags, LineHasReason
  PROVE  /\ ChipNow(Chip5) /\ Chip5.saw = saw_ppu_read
         /\ ChipSound(Chip5) /\ ChipFlags(Chip5) /\ ChipReason(Chip5)
<1>1. ChipNow(Chip5) /\ Chip5.saw = saw_ppu_read
  BY DEF Chip5, ChipNow
<1>2. DOMAIN Chip5 = ChipFields
  BY DEF Chip5, ChipFields
<1> QED
  BY <1>1, <1>2 DEF ChipNow, ChipSound, ChipFlags, ChipReason, CountType, CountFlags, LineHasReason

\* With the first read of a picture the frame starts.
LEMMA SeededIs ==
  ASSUME CountType, CountFlags, LineHasReason, NEW c, c = [Chip5 EXCEPT !.saw = TRUE],
         NEW s, s = Seeded(c)
  PROVE  /\ s.idle = ppu_read_idle_cycles /\ s.prev = prev /\ s.scan = scanline_pending
         /\ s.count = fetch_count /\ s.saw = TRUE
         /\ s.in_frame <=> in_frame \/ vpos5 = 1
         /\ s.counter = IF in_frame \/ vpos5 # 1 THEN irq_counter5 ELSE 0
         /\ ChipSound(s) /\ ChipFlags(s) /\ ChipReason(s)
         /\ c.prev = prev
<1>1. /\ c.in_frame = in_frame /\ c.pending = pending /\ c.counter = irq_counter5
      /\ c.line = asserted /\ c.seeded = frame_seeded /\ c.idle = ppu_read_idle_cycles
      /\ c.prev = prev /\ c.scan = scanline_pending /\ c.count = fetch_count /\ c.saw = TRUE
      /\ DOMAIN c = ChipFields
  BY DEF Chip5, ChipFields
<1>2. CASE in_frame \/ vpos5 # 1
  <2>1. s = c
    BY <1>1, <1>2 DEF Seeded
  <2> QED
    BY <1>1, <1>2, <2>1 DEF ChipSound, ChipFlags, ChipReason, CountType, CountFlags, LineHasReason
<1>3. CASE ~in_frame /\ vpos5 = 1
  <2>1. s = [Entered(c) EXCEPT !.seeded = TRUE]
    BY <1>1, <1>3 DEF Seeded, LineHasReason
  <2>2. /\ s.idle = ppu_read_idle_cycles /\ s.prev = prev /\ s.scan = scanline_pending
        /\ s.count = fetch_count /\ s.saw = TRUE /\ s.in_frame = TRUE /\ s.counter = 0
        /\ s.pending = FALSE /\ s.seeded = TRUE /\ s.line = asserted
        /\ DOMAIN s = ChipFields
    BY <1>1, <2>1 DEF Entered, ChipFields
  <2>3. asserted = FALSE
    BY <1>3 DEF LineHasReason, CountFlags
  <2>4. ChipSound(s)
    BY <2>2 DEF ChipSound, CountType
  <2>5. ChipFlags(s) /\ ChipReason(s)
    BY <2>2, <2>3, Zenon DEF ChipFlags, ChipReason, CountFlags
  <2> QED
    BY <1>1, <1>3, <2>2, <2>4, <2>5
<1> QED
  BY <1>2, <1>3

\* read_vram(): in the pre-render line nothing is counted, in the picture the
\* read is, and after it the detector is reset.
LEMMA SeenIs ==
  ASSUME CountType, CountFlags, LineHasReason, NEW a \in Addresses5,
         NEW r, r = SeenRead(Chip5, a)
  PROVE  /\ vpos5 = 0 => ChipNow(r) /\ r.saw = TRUE
         /\ Drawn => ChipReads(r, a) /\ r.saw = TRUE
         /\ vpos5 > Lines5 => r = ResetScanlineDetector([Chip5 EXCEPT !.saw = TRUE])
         /\ vpos5 \in 0..Lines5 => ChipSound(r) /\ ChipFlags(r) /\ ChipReason(r)
<1> DEFINE c == [Chip5 EXCEPT !.saw = TRUE]
<1>0. /\ Drawn <=> ~(vpos5 = 0) /\ ~(vpos5 > Lines5)
      /\ vpos5 \in 0..Lines5 <=> ~(vpos5 > Lines5)
      /\ vpos5 = 0 => ~(vpos5 > Lines5)
  BY Sizes5 DEF Drawn, CountType
<1>1. CASE vpos5 = 0
  <2>1. r = c
    BY <1>1, Sizes5 DEF SeenRead, CountType
  <2>2. ChipNow(r) /\ r.saw = TRUE /\ DOMAIN r = ChipFields
    BY <2>1 DEF Chip5, ChipNow, ChipFields
  <2>3. ChipSound(r) /\ ChipFlags(r) /\ ChipReason(r)
    BY <2>2 DEF ChipNow, ChipSound, ChipFlags, ChipReason, CountType, CountFlags, LineHasReason
  <2> QED
    BY <1>0, <1>1, <2>2, <2>3, Zenon
<1>2. CASE vpos5 > Lines5
  <2>1. r = ResetScanlineDetector(c)
    BY <1>2, Sizes5 DEF SeenRead, CountType
  <2> QED
    BY <1>0, <1>2, <2>1, Zenon
<1>3. CASE Drawn
  <2> DEFINE s == Seeded(c)
  <2>1. /\ s.idle = ppu_read_idle_cycles /\ s.prev = prev /\ s.scan = scanline_pending
        /\ s.count = fetch_count /\ s.saw = TRUE
        /\ s.in_frame <=> in_frame \/ vpos5 = 1
        /\ s.counter = IF in_frame \/ vpos5 # 1 THEN irq_counter5 ELSE 0
        /\ ChipSound(s) /\ ChipFlags(s) /\ ChipReason(s)
        /\ c.prev = prev
    BY SeededIs
  <2>2. r = [Counted(s, a) EXCEPT !.prev = <<a, c.prev[1]>>]
    BY <1>3, Sizes5 DEF SeenRead, CountType, Drawn
  <2>9. DOMAIN s = {"in_frame", "pending", "counter", "line", "seeded", "saw", "idle",
                    "prev", "scan", "count"}
    BY <2>1 DEF ChipSound, ChipFields
  <2> HIDE DEF c, s
  <2> DEFINE d == IF s.scan THEN [ClockIrq5(s) EXCEPT !.count = 0, !.scan = FALSE]
                  ELSE [s EXCEPT !.count = @ + 1]
             third == a.kind # "pattern" /\ s.prev = <<a, a>>
  <2>3. /\ d.idle = s.idle /\ d.saw = TRUE /\ d.scan = FALSE
        /\ d.count = IF s.scan THEN 0 ELSE s.count + 1
        /\ d.in_frame <=> s.in_frame \/ s.scan
        /\ s.in_frame => d.counter = IF s.scan THEN (s.counter + 1) % 256 ELSE s.counter
        /\ ~s.in_frame => d.counter \in {0, s.counter}
        /\ d.line = (d.pending /\ irq_enabled5)
        /\ d.pending => d.in_frame
        /\ d.seeded => d.in_frame
        /\ d.pending \in BOOLEAN /\ d.seeded \in BOOLEAN
        /\ DOMAIN d = DOMAIN s
    <3>1. CASE ~s.scan
      <4>1. d = [s EXCEPT !.count = @ + 1]
        BY <3>1
      <4> QED
        BY <2>1, <2>9, <3>1, <4>1 DEF ChipFlags, ChipReason
    <3>2. CASE s.scan /\ ~s.in_frame
      <4>1. d = [Entered(s) EXCEPT !.count = 0, !.scan = FALSE]
        BY <3>2 DEF ClockIrq5
      <4>2. s.line = FALSE
        BY <2>1, <3>2 DEF ChipFlags, ChipReason
      <4>3. /\ d.in_frame = TRUE /\ d.pending = FALSE /\ d.counter = 0 /\ d.line = s.line
            /\ d.seeded = s.seeded /\ d.saw = s.saw /\ d.idle = s.idle /\ d.scan = FALSE
            /\ d.count = 0 /\ DOMAIN d = DOMAIN s
        BY <2>9, <4>1 DEF Entered
      <4> QED
        BY <2>1, <3>2, <4>2, <4>3 DEF ChipFlags, ChipReason
    <3>3. CASE s.scan /\ s.in_frame
      <4> DEFINE m == (s.counter + 1) % 256
      <4>1. PICK e : /\ d = [e EXCEPT !.count = 0, !.scan = FALSE]
                     /\ e = ClockIrq5(s)
        BY <3>3
      <4> HIDE DEF d
      <4>2. e = IF m = irq_target
                THEN [s EXCEPT !.counter = m, !.pending = TRUE, !.line = @ \/ irq_enabled5]
                ELSE [s EXCEPT !.counter = m]
        BY <3>3, <4>1 DEF ClockIrq5
      <4>3. /\ e.in_frame = s.in_frame /\ e.counter = m /\ e.seeded = s.seeded /\ e.saw = s.saw
            /\ e.idle = s.idle /\ DOMAIN e = DOMAIN s
            /\ e.pending = (s.pending \/ m = irq_target)
            /\ e.line = (s.line \/ (m = irq_target /\ irq_enabled5))
        <5>1. CASE m = irq_target
          <6>1. e = [s EXCEPT !.counter = m, !.pending = TRUE, !.line = @ \/ irq_enabled5]
            BY <4>2, <5>1, Zenon
          <6> QED
            BY <2>1, <2>9, <5>1, <6>1 DEF ChipFlags, CountFlags
        <5>2. CASE m # irq_target
          <6>1. e = [s EXCEPT !.counter = m]
            BY <4>2, <5>2, Zenon
          <6> QED
            BY <2>1, <2>9, <5>2, <6>1 DEF ChipFlags
        <5> QED
          BY <5>1, <5>2
      <4>4. /\ d.in_frame = e.in_frame /\ d.counter = e.counter /\ d.seeded = e.seeded
            /\ d.saw = e.saw /\ d.idle = e.idle /\ d.pending = e.pending /\ d.line = e.line
            /\ d.count = 0 /\ d.scan = FALSE /\ DOMAIN d = DOMAIN e
        BY <2>9, <4>1, <4>3
      <4>5. /\ d.idle = s.idle /\ d.saw = TRUE /\ d.scan = FALSE
            /\ d.count = IF s.scan THEN 0 ELSE s.count + 1
            /\ d.in_frame <=> s.in_frame \/ s.scan
            /\ s.in_frame => d.counter = IF s.scan THEN (s.counter + 1) % 256 ELSE s.counter
            /\ ~s.in_frame => d.counter \in {0, s.counter}
            /\ DOMAIN d = DOMAIN s
        BY <2>1, <3>3, <4>3, <4>4
      <4>6. s.pending \in BOOLEAN /\ s.seeded \in BOOLEAN /\ s.line = (s.pending /\ irq_enabled5)
        BY <2>1, Zenon DEF ChipFlags, ChipReason
      <4>7. /\ d.line = (d.pending /\ irq_enabled5)
            /\ d.pending \in BOOLEAN /\ d.seeded \in BOOLEAN
        <5>1. CASE m = irq_target
          BY <4>3, <4>4, <4>6, <5>1, Zenon
        <5>2. CASE m # irq_target
          BY <4>3, <4>4, <4>6, <5>2, Zenon
        <5> QED
          BY <5>1, <5>2
      <4>8. (d.pending => d.in_frame) /\ (d.seeded => d.in_frame)
        BY <3>3, <4>3, <4>4
      <4> QED
        BY <4>5, <4>7, <4>8, Zenon
    <3> QED
      BY <2>1, <3>1, <3>2, <3>3 DEF ChipFlags
  <2>4. Counted(s, a) = IF third THEN [d EXCEPT !.scan = TRUE] ELSE d
    BY DEF Counted
  <2>10. d.in_frame \in BOOLEAN
    <3>1. CASE s.scan
      <4>1. d = [ClockIrq5(s) EXCEPT !.count = 0, !.scan = FALSE]
        BY <3>1
      <4>2. d.in_frame = ClockIrq5(s).in_frame
        BY <2>3, <2>9, <4>1
      <4> QED
        BY <2>1, <2>9, <4>2 DEF ClockIrq5, Entered, ChipFlags
    <3>2. CASE ~s.scan
      BY <2>1, <2>9, <3>2 DEF ChipFlags
    <3> QED
      BY <3>1, <3>2
  <2> HIDE DEF d, third
  <2>5. /\ r.in_frame = d.in_frame /\ r.pending = d.pending /\ r.counter = d.counter
        /\ r.line = d.line /\ r.seeded = d.seeded /\ r.saw = d.saw /\ r.idle = d.idle
        /\ r.prev = <<a, prev[1]>> /\ r.scan = third /\ r.count = d.count
        /\ DOMAIN r = DOMAIN s
    <3>1. third \in BOOLEAN
      BY DEF third
    <3>2. PICK e : e = Counted(s, a)
      OBVIOUS
    <3>3. /\ r.in_frame = e.in_frame /\ r.pending = e.pending /\ r.counter = e.counter
          /\ r.line = e.line /\ r.seeded = e.seeded /\ r.saw = e.saw /\ r.idle = e.idle
          /\ r.prev = <<a, prev[1]>> /\ r.scan = e.scan /\ r.count = e.count
          /\ DOMAIN r = DOMAIN s
      <4>1. DOMAIN e = DOMAIN s
        BY <2>3, <2>4, <3>2
      <4> QED
        BY <2>1, <2>2, <2>9, <3>2, <4>1
    <3>4. CASE third
      <4>1. e = [d EXCEPT !.scan = TRUE]
        BY <2>4, <3>2, <3>4
      <4> QED
        BY <2>3, <2>9, <3>3, <3>4, <4>1
    <3>5. CASE ~third
      <4>1. e = d
        BY <2>4, <3>2, <3>5
      <4>2. d.scan = third
        BY <2>3, <3>1, <3>5
      <4> QED
        BY <3>3, <4>1, <4>2, Zenon
    <3> QED
      BY <3>4, <3>5
  <2>6. ChipReads(r, a)
    BY <2>1, <2>3, <2>5 DEF ChipReads, third, CountFlags
  <2>7. ChipSound(r)
    BY <2>1, <2>3, <2>5 DEF ChipSound, CountType
  <2>8. ChipFlags(r) /\ ChipReason(r)
    <3>1. d.in_frame \in BOOLEAN /\ d.line \in BOOLEAN /\ third \in BOOLEAN /\ d.saw \in BOOLEAN
      <4>1. d.in_frame \in BOOLEAN
        BY <2>3, <2>10
      <4>2. d.line \in BOOLEAN
        BY <2>3, Zenon
      <4>3. third \in BOOLEAN
        BY Zenon DEF third
      <4> QED
        BY <2>3, <4>1, <4>2, <4>3, Zenon
    <3> QED
      BY <2>3, <2>5, <3>1, Zenon DEF ChipFlags, ChipReason
  <2>11. r.saw = TRUE
    BY <2>3, <2>5
  <2> QED
    BY <1>0, <1>3, <2>11, <2>6, <2>7, <2>8, Zenon
<1> QED
  BY <1>0, <1>1, <1>2, <1>3, Zenon

\* ResetScanlineDetector and ClearInFrame, field by field.
LEMMA ResetIs ==
  ASSUME NEW c, ChipSound(c), NEW d, d = ResetScanlineDetector(c)
  PROVE  /\ d.in_frame = c.in_frame /\ d.pending = c.pending /\ d.counter = c.counter
         /\ d.line = c.line /\ d.seeded = c.seeded /\ d.idle = c.idle /\ d.saw = FALSE
         /\ d.prev = <<Nothing5, Nothing5>> /\ d.scan = FALSE /\ d.count = 0
         /\ DOMAIN d = ChipFields
  BY DEF ResetScanlineDetector, ChipSound, ChipFields

LEMMA ClearIs ==
  ASSUME NEW c, ChipSound(c), NEW d, d = ClearInFrame(c)
  PROVE  /\ d.in_frame = FALSE /\ d.pending = FALSE /\ d.counter = 0
         /\ d.line = FALSE /\ d.seeded = FALSE /\ d.idle = 0 /\ d.saw = FALSE
         /\ d.prev = <<Nothing5, Nothing5>> /\ d.scan = FALSE /\ d.count = 0
         /\ DOMAIN d = ChipFields
  BY DEF ClearInFrame, ResetScanlineDetector, ChipSound, ChipFields

\* After a dot: the frame is given up, or everything stays but the idle cycles.
GivesUp(r) == cycle = 2 /\ ~r.saw /\ r.idle >= 2 /\ r.in_frame
GivenUp ==
    /\ in_frame' = FALSE /\ pending' = FALSE /\ irq_counter5' = 0 /\ asserted' = FALSE
    /\ frame_seeded' = FALSE /\ saw_ppu_read' = FALSE /\ ppu_read_idle_cycles' = 0
    /\ prev' = <<Nothing5, Nothing5>> /\ scanline_pending' = FALSE /\ fetch_count' = 0
Carries(r) ==
    /\ in_frame' = r.in_frame /\ pending' = r.pending /\ irq_counter5' = r.counter
    /\ asserted' = r.line /\ frame_seeded' = r.seeded
    /\ prev' = r.prev /\ scanline_pending' = r.scan /\ fetch_count' = r.count
    /\ saw_ppu_read' = IF cycle = 2 THEN FALSE ELSE r.saw
    /\ ppu_read_idle_cycles' = IF cycle # 2 THEN r.idle
                               ELSE IF r.saw THEN 0 ELSE IF r.idle < 3 THEN r.idle + 1 ELSE 3
ReadBy(r) ==
    /\ ~Reading => ChipNow(r) /\ r.saw = saw_ppu_read
    /\ Reading /\ vpos5 = 0 => ChipNow(r) /\ r.saw = TRUE
    /\ Reading /\ Drawn => ChipReads(r, ReadNow) /\ r.saw = TRUE

\* cpu_sync() gives the frame up after three cycles without a read, or keeps
\* everything but its count of them.
LEMMA SyncedIs ==
  ASSUME NEW r, ChipSound(r), ChipFlags(r), CountType,
         Becomes(IF cycle = 2 THEN Synced5(r) ELSE r)
  PROVE  IF GivesUp(r) THEN GivenUp ELSE Carries(r)
<1>0. r.idle \in 0..3 /\ r.saw \in BOOLEAN /\ r.in_frame \in BOOLEAN /\ DOMAIN r = ChipFields
  BY DEF ChipSound, ChipFlags
<1>1. CASE cycle # 2
  <2>1. Becomes(r) /\ ~GivesUp(r)
    BY <1>1 DEF GivesUp
  <2> QED
    BY <1>1, <2>1 DEF Becomes, Carries
<1>2. CASE cycle = 2
  <2>1. Becomes(Synced5(r))
    BY <1>2
  <2> DEFINE idle == IF r.saw THEN 0 ELSE IF r.idle < 3 THEN r.idle + 1 ELSE r.idle
             d == [r EXCEPT !.idle = idle]
             e == IF idle >= 3 /\ r.in_frame THEN ClearInFrame(d) ELSE d
  <2>2. Synced5(r) = [e EXCEPT !.saw = FALSE]
    BY DEF Synced5
  <2>3. idle \in 0..3 /\ (GivesUp(r) <=> idle >= 3 /\ r.in_frame)
    BY <1>0, <1>2 DEF GivesUp
  <2>4. /\ d.in_frame = r.in_frame /\ d.pending = r.pending /\ d.counter = r.counter
        /\ d.line = r.line /\ d.seeded = r.seeded /\ d.saw = r.saw /\ d.idle = idle
        /\ d.prev = r.prev /\ d.scan = r.scan /\ d.count = r.count /\ DOMAIN d = ChipFields
    BY <1>0 DEF ChipFields
  <2>5. ChipSound(d)
    BY <2>3, <2>4 DEF ChipSound
  <2> HIDE DEF d
  <2>6. PICK f : f = [e EXCEPT !.saw = FALSE] /\ Becomes(f)
    BY <2>1, <2>2
  <2>7. CASE GivesUp(r)
    <3>1. PICK g : g = ClearInFrame(d)
      OBVIOUS
    <3>2. f = [g EXCEPT !.saw = FALSE]
      BY <2>3, <2>6, <2>7, <3>1
    <3>3. /\ g.in_frame = FALSE /\ g.pending = FALSE /\ g.counter = 0
          /\ g.line = FALSE /\ g.seeded = FALSE /\ g.idle = 0 /\ g.saw = FALSE
          /\ g.prev = <<Nothing5, Nothing5>> /\ g.scan = FALSE /\ g.count = 0
          /\ DOMAIN g = ChipFields
      BY <2>5, <3>1, ClearIs
    <3>4. /\ f.in_frame = FALSE /\ f.pending = FALSE /\ f.counter = 0
          /\ f.line = FALSE /\ f.seeded = FALSE /\ f.idle = 0 /\ f.saw = FALSE
          /\ f.prev = <<Nothing5, Nothing5>> /\ f.scan = FALSE /\ f.count = 0
      BY <3>2, <3>3 DEF ChipFields
    <3> QED
      BY <2>6, <2>7, <3>4 DEF Becomes, GivenUp
  <2>8. CASE ~GivesUp(r)
    <3>1. f = [d EXCEPT !.saw = FALSE]
      BY <2>3, <2>6, <2>8
    <3>2. /\ f.in_frame = d.in_frame /\ f.pending = d.pending /\ f.counter = d.counter
          /\ f.line = d.line /\ f.seeded = d.seeded /\ f.saw = FALSE /\ f.idle = d.idle
          /\ f.prev = d.prev /\ f.scan = d.scan /\ f.count = d.count
      BY <2>4, <3>1 DEF ChipFields
    <3> QED
      <4>1. idle = IF r.saw THEN 0 ELSE IF r.idle < 3 THEN r.idle + 1 ELSE 3
        BY <1>0
      <4> HIDE DEF idle
      <4> QED
        BY <1>2, <2>4, <2>6, <2>8, <3>2, <4>1, Zenon DEF Becomes, Carries
  <2> QED
    BY <2>7, <2>8
<1> QED
  BY <1>1, <1>2

\* Every dot: the read, then with every third dot the CPU cycle.
LEMMA DotIs ==
  ASSUME CountType, CountFlags, LineHasReason, Dot5
  PROVE  \E r : /\ ChipSound(r) /\ ChipFlags(r) /\ ChipReason(r) /\ ReadBy(r)
                /\ bank' = IF ReadNow.kind = "pattern" THEN Selector(r.count) ELSE bank
                /\ IF GivesUp(r) THEN GivenUp ELSE Carries(r)
<1> DEFINE r == IF ReadNow = Nothing5 THEN Chip5 ELSE SeenRead(Chip5, ReadNow)
<1>1. /\ Becomes(IF cycle = 2 THEN Synced5(r) ELSE r)
      /\ bank' = IF ReadNow.kind = "pattern" THEN Selector(r.count) ELSE bank
  BY DEF Dot5
<1>2. ChipSound(r) /\ ChipFlags(r) /\ ChipReason(r) /\ ReadBy(r)
  <2>1. CASE ~Reading
    <3>1. r = Chip5
      BY <2>1, ReadIs
    <3> QED
      BY <2>1, <3>1, ChipIs, Zenon DEF ReadBy
  <2>2. CASE Reading
    <3>1. r = SeenRead(Chip5, ReadNow) /\ ReadNow \in Addresses5
      BY <2>2, ReadIs
    <3>2. vpos5 \in 0..Lines5
      BY <2>2, Sizes5 DEF Reading, CountType
    <3> HIDE DEF r
    <3> QED
      BY <2>2, <3>1, <3>2, SeenIs, Zenon DEF ReadBy
  <2> QED
    BY <2>1, <2>2
<1> HIDE DEF r
<1> QED
  BY <1>1, <1>2, SyncedIs

(* --------------------------------------------------------------- the dots *)
\* A dot, and the chip r between the PPU's read and the CPU's cycle.
DotBy(r) ==
    /\ ChipSound(r) /\ ChipFlags(r) /\ ChipReason(r) /\ ReadBy(r)
    /\ IF GivesUp(r) THEN GivenUp ELSE Carries(r)

\* Where the beam is after a dot.
LEMMA BeamMoves ==
  ASSUME CountType, Dot5
  PROVE  /\ hpos5 < LastDot => hpos5' = hpos5 + 1 /\ vpos5' = vpos5
         /\ hpos5 = LastDot => hpos5' = 0 /\ vpos5' = IF vpos5 = LastLine THEN 0 ELSE vpos5 + 1
         /\ hpos5 <= LastDot /\ hpos5 \in Nat /\ vpos5 \in Nat /\ vpos5 <= LastLine
         /\ hpos5' \in 0..LastDot /\ vpos5' \in 0..LastLine
         /\ cycle \in 0..2 /\ cycle' = IF cycle = 2 THEN 0 ELSE cycle + 1
         /\ row5' = row5 /\ enabled5' = enabled5 /\ irq_enabled5' = irq_enabled5
<1>1. hpos5 <= LastDot /\ hpos5 \in Nat /\ vpos5 \in Nat /\ vpos5 <= LastLine /\ cycle \in 0..2
  BY Sizes5 DEF CountType
<1>2. hpos5' = IF hpos5 = LastDot THEN 0 ELSE hpos5 + 1
  BY DEF Dot5
<1>3. vpos5' = IF hpos5 < LastDot THEN vpos5 ELSE IF vpos5 = LastLine THEN 0 ELSE vpos5 + 1
  BY DEF Dot5
<1>4. cycle' = IF cycle = 2 THEN 0 ELSE cycle + 1
  <2>1. cycle' = (cycle + 1) % 3
    BY DEF Dot5
  <2> QED
    BY <1>1, <2>1
<1>5. row5' = row5 /\ enabled5' = enabled5 /\ irq_enabled5' = irq_enabled5
  BY DEF Dot5, setVars5
<1> QED
  BY <1>1, <1>2, <1>3, <1>4, <1>5, Sizes5

\* Each part of the invariant, through a dot.
LEMMA DotKeepsTypes ==
  ASSUME CountType, CountFlags, LineHasReason, Dot5, NEW r, DotBy(r)
  PROVE  CountType' /\ CountFlags' /\ LineHasReason'
<1>1. /\ hpos5' \in 0..LastDot /\ vpos5' \in 0..LastLine /\ cycle' \in 0..2 /\ row5' \in 0..1
      /\ enabled5' \in BOOLEAN /\ irq_enabled5' \in BOOLEAN /\ irq_enabled5' = irq_enabled5
  BY BeamMoves DEF CountType, CountFlags
<1>2. odd5' \in BOOLEAN /\ moved5' \in BOOLEAN /\ clean' \in BOOLEAN /\ large_sprites' \in BOOLEAN
  BY DEF Dot5, setVars5, CountFlags
<1>3. CASE GivesUp(r)
  <2>1. GivenUp
    BY <1>3 DEF DotBy
  <2>2. <<Nothing5, Nothing5>> \in Addresses5 \X Addresses5
    BY DEF Nothing5, Addresses5
  <2>3. CountType'
    BY <1>1, <2>1, <2>2 DEF CountType, GivenUp, Addresses5
  <2> QED
    BY <1>1, <1>2, <2>1, <2>3, Zenon DEF CountFlags, LineHasReason, GivenUp
<1>4. CASE ~GivesUp(r)
  <2>1. Carries(r)
    BY <1>4 DEF DotBy
  <2>2. CountType'
    BY <1>1, <2>1 DEF DotBy, ChipSound, CountType, Carries, Addresses5
  <2> QED
    BY <1>1, <1>2, <2>1, <2>2, Zenon
       DEF CountFlags, LineHasReason, Carries, DotBy, ChipFlags, ChipReason
<1> QED
  BY <1>3, <1>4

\* Dots and reads of a line that is drawn.
LEMMA ReadingIs ==
  ASSUME CountType, CountFlags, Drawn, hpos5 > 0
  PROVE  /\ Reading <=> enabled5 /\ hpos5 % 2 = 0
         /\ Reading => ReadNow = Fetch5(hpos5 \div 2) /\ hpos5 \div 2 \in 1..Reads
         /\ Reading /\ hpos5 < LastDot => hpos5 \div 2 < Reads /\ ReadNow.kind = Part(hpos5 \div 2)
         /\ Reading => hpos5 = 2 * (hpos5 \div 2) /\ hpos5 >= 2
<1>1. hpos5 \in Nat /\ vpos5 \in Nat /\ vpos5 <= Lines5 /\ hpos5 # 0
  BY DEF CountType, Drawn
<1>2. Reading <=> enabled5 /\ hpos5 % 2 = 0
  BY <1>1 DEF Reading
<1>3. Reading => ReadNow = Fetch5(hpos5 \div 2) /\ hpos5 \div 2 \in 1..Reads
  BY <1>1, <1>2, ReadIs
<1>4. Reading => hpos5 = 2 * (hpos5 \div 2) /\ hpos5 >= 2
  BY <1>1, <1>2, Halves
<1>5. Reading /\ hpos5 < LastDot => hpos5 \div 2 < Reads /\ ReadNow.kind = Part(hpos5 \div 2)
  <2>1. Reading /\ hpos5 < LastDot => hpos5 \div 2 < Reads
    BY <1>1, <1>3, <1>4, Sizes5
  <2> QED
    BY <1>3, <2>1, FetchIs
<1> QED
  BY <1>2, <1>3, <1>4, <1>5

\* The third read of an address is the first of a line.
LEMMA ThirdRead ==
  ASSUME Mmc5Inv, NEW r, ReadBy(r), r.scan
  PROVE  Drawn /\ hpos5 \in 0..3
<1> USE DEF Mmc5Inv
<1>0. hpos5 \in Nat /\ vpos5 \in Nat /\ hpos5 <= LastDot
  BY Sizes5 DEF CountType
<1>1. CASE ~Reading
  <2>1. scanline_pending
    BY <1>1 DEF ReadBy, ChipNow
  <2>2. Drawn /\ hpos5 \in 1..4 /\ enabled5
    BY <2>1 DEF ScanBrief, KindNow
  <2>3. hpos5 # 4
    BY <1>1, <2>2, ReadingIs
  <2> QED
    BY <2>2, <2>3
<1>2. CASE Reading /\ vpos5 = 0
  <2>1. scanline_pending
    BY <1>2 DEF ReadBy, ChipNow
  <2> QED
    BY <1>2, <2>1 DEF ScanBrief, Drawn
<1>3. CASE Reading /\ vpos5 # 0
  <2>1. Drawn
    BY <1>0, <1>3, Sizes5 DEF Drawn, Reading
  <2>2. ReadNow.kind # "pattern" /\ prev = <<ReadNow, ReadNow>>
    BY <1>3, <2>1 DEF ReadBy, ChipReads
  <2>3. SUFFICES ASSUME hpos5 > 3 PROVE FALSE
    BY <1>0, <2>1
  <2> DEFINE n == hpos5 \div 2
  <2>4. ReadNow = Fetch5(n) /\ n \in 1..Reads /\ hpos5 = 2 * n /\ n >= 2
        /\ (hpos5 < LastDot => n < Reads /\ ReadNow.kind = Part(n))
    BY <1>0, <1>3, <2>1, <2>3, ReadingIs
  <2>5. prev[1] = ReadNow /\ prev[2] = ReadNow
    BY <2>2
  <2>6. CASE hpos5 < LastDot
    <3>1. (hpos5 - 1) \div 2 = n - 1 /\ n - 1 \in Nat /\ (n - 1) + 1 = n
      BY <2>4
    <3>2. prev[1].kind \in {"none", Part(n - 1)}
      <4>1. hpos5 > 2
        BY <1>0, <2>3
      <4> QED
        BY <2>1, <3>1, <4>1 DEF KindNow
    <3>3. Part(n) = Part(n - 1)
      <4>1. Part(n) \in {"name", "attribute", "pattern"}
        BY <2>4, PartIs
      <4> QED
        BY <2>4, <2>5, <2>6, <3>2, <4>1
    <3>4. Part(n - 1) = "pattern"
      BY <3>1, <3>3, PartIs
    <3> QED
      BY <2>2, <2>4, <2>6, <3>3, <3>4
  <2>7. CASE hpos5 = LastDot
    <3>1. n = Reads
      BY <2>4, <2>7, Sizes5
    <3>2. ReadNow.kind = "name"
      <4>1. ReadNow = Address5("name", 2)
        BY <2>4, <3>1, FetchIs
      <4> QED
        BY <4>1 DEF Address5
    <3>3. prev[2].kind \in {"none", "pattern"}
      BY <2>1, <2>7 DEF KindNow
    <3> QED
      BY <2>5, <3>2, <3>3
  <2> QED
    BY <1>0, <2>6, <2>7, Sizes5
<1> QED
  BY <1>1, <1>2, <1>3

\* The line is noticed in its first reads only.
LEMMA ScanBriefDot ==
  ASSUME Mmc5Inv, Dot5, NEW r, DotBy(r)
  PROVE  ScanBrief'
<1> SUFFICES ASSUME scanline_pending' PROVE Drawn' /\ hpos5' \in 1..4
  BY DEF ScanBrief
<1>1. r.scan
  BY DEF DotBy, GivenUp, Carries
<1>2. Drawn /\ hpos5 \in 0..3
  BY <1>1, ThirdRead DEF DotBy
<1>3. hpos5' = hpos5 + 1 /\ vpos5' = vpos5
  BY <1>2, BeamMoves, Sizes5 DEF Mmc5Inv
<1> QED
  BY <1>2, <1>3 DEF Drawn

\* The reads before this one, after the dot.
LEMMA PrevIs ==
  ASSUME Mmc5Inv, Dot5, NEW r, DotBy(r)
  PROVE  \/ prev' = <<Nothing5, Nothing5>>
         \/ ~Reading /\ prev' = prev
         \/ Reading /\ vpos5 = 0 /\ prev' = prev
         \/ Reading /\ Drawn /\ prev' = <<ReadNow, prev[1]>>
<1>1. Reading => vpos5 = 0 \/ Drawn
  BY Sizes5 DEF Reading, Drawn, Mmc5Inv, CountType
<1> QED
  BY <1>1, Zenon DEF DotBy, GivenUp, Carries, ReadBy, ChipNow, ChipReads

LEMMA KindNowDot ==
  ASSUME Mmc5Inv, Dot5, NEW r, DotBy(r)
  PROVE  KindNow'
<1> USE DEF Mmc5Inv
<1>0. /\ hpos5 \in Nat /\ hpos5 <= LastDot /\ LastDot \in Nat /\ LastDot >= 36 /\ enabled5' = enabled5
      /\ hpos5' # 0 => hpos5 < LastDot /\ hpos5' = hpos5 + 1 /\ vpos5' = vpos5
  BY BeamMoves, Sizes5 DEF CountType
<1>1. Nothing5.kind = "none"
  BY DEF Nothing5
<1>2. ~enabled5' => prev' = <<Nothing5, Nothing5>> /\ ~scanline_pending'
  <2> HAVE ~enabled5'
  <2>1. ~Reading /\ prev = <<Nothing5, Nothing5>> /\ ~scanline_pending
    BY <1>0 DEF KindNow, Reading
  <2> QED
    BY <2>1, Zenon DEF DotBy, GivenUp, Carries, ReadBy, ChipNow
<1>3. Drawn' /\ hpos5' > 2 => prev'[1].kind \in {"none", Part((hpos5' - 1) \div 2)}
  <2> HAVE Drawn' /\ hpos5' > 2
  <2>1. hpos5' = hpos5 + 1 /\ hpos5 >= 2 /\ Drawn /\ hpos5 < LastDot /\ hpos5' - 1 = hpos5
    BY <1>0 DEF Drawn
  <2>2. CASE prev' = <<Nothing5, Nothing5>>
    BY <1>1, <2>2
  <2>3. CASE Reading /\ prev' = <<ReadNow, prev[1]>>
    <3>1. ReadNow.kind = Part(hpos5 \div 2)
      BY <2>1, <2>3, ReadingIs
    <3> QED
      BY <2>1, <2>3, <3>1
  <2>4. CASE ~Reading /\ prev' = prev
    <3>1. CASE ~enabled5
      BY <1>1, <2>4, <3>1 DEF KindNow
    <3>2. CASE enabled5
      <4>1. hpos5 % 2 = 1
        BY <2>1, <2>4, <3>2, ReadingIs
      <4>2. (hpos5 - 1) \div 2 = hpos5 \div 2 /\ hpos5 > 2
        BY <1>0, <2>1, <4>1
      <4>3. prev[1].kind \in {"none", Part((hpos5 - 1) \div 2)}
        BY <2>1, <4>2 DEF KindNow
      <4> QED
        BY <2>1, <2>4, <4>2, <4>3
    <3> QED
      BY <3>1, <3>2 DEF CountFlags
  <2> QED
    BY <1>0, <2>1, <2>2, <2>3, <2>4, PrevIs DEF Drawn
<1>4. Drawn' /\ hpos5' \in {LastDot - 1, LastDot} => prev'[2].kind \in {"none", "pattern"}
  <2> HAVE Drawn' /\ hpos5' \in {LastDot - 1, LastDot}
  <2>1. hpos5 \in {LastDot - 2, LastDot - 1} /\ Drawn /\ hpos5 < LastDot /\ hpos5 > 2
    BY <1>0 DEF Drawn
  <2>2. CASE prev' = <<Nothing5, Nothing5>>
    BY <1>1, <2>2
  <2>3. CASE Reading /\ prev' = <<ReadNow, prev[1]>>
    <3>1. hpos5 = LastDot - 2
      BY <2>1, <2>3, ReadingIs, Sizes5
    <3>2. (hpos5 - 1) \div 2 = Reads - 2
      BY <3>1, Sizes5
    <3>3. prev[1].kind \in {"none", "pattern"}
      BY <2>1, <3>2, LastParts DEF KindNow
    <3> QED
      BY <2>3, <3>3
  <2>4. CASE ~Reading /\ prev' = prev
    <3>1. CASE ~enabled5
      BY <1>1, <2>4, <3>1 DEF KindNow
    <3>2. CASE enabled5
      <4>1. hpos5 % 2 # 0
        BY <2>1, <2>4, <3>2, ReadingIs
      <4>2. hpos5 = LastDot - 1
        BY <2>1, <4>1, Sizes5
      <4> QED
        BY <2>1, <2>4, <4>2 DEF KindNow
    <3> QED
      BY <3>1, <3>2 DEF CountFlags
  <2> QED
    BY <2>1, <2>2, <2>3, <2>4, PrevIs DEF Drawn
<1> QED
  BY <1>2, <1>3, <1>4, Sizes5 DEF KindNow

LEMMA OldRowDot ==
  ASSUME Mmc5Inv, Dot5, NEW r, DotBy(r)
  PROVE  OldRow'
<1> USE DEF Mmc5Inv
<1>0. /\ hpos5 \in Nat /\ hpos5 <= LastDot /\ LastDot \in Nat /\ LastDot >= 36 /\ enabled5' = enabled5
      /\ hpos5' # 0 => hpos5 < LastDot /\ hpos5' = hpos5 + 1 /\ vpos5' = vpos5
      /\ hpos5' = 0 => hpos5 = LastDot /\ vpos5' = IF vpos5 = LastLine THEN 0 ELSE vpos5 + 1
      /\ vpos5 \in Nat /\ vpos5 <= LastLine /\ Lines5 \in Nat /\ Lines5 >= 1 /\ LastLine > Lines5
      /\ BgReads \in Nat /\ LastDot > 2 * BgReads + 2 /\ LastLine \in Nat
  BY BeamMoves, Sizes5 DEF CountType
<1>1. /\ RowBelow' = RowBelow /\ row5' = row5
      /\ vpos5 # Lines5 => moved5' = moved5
      /\ vpos5 = Lines5 => moved5' = FALSE
  <2>1. row5' = row5
    BY BeamMoves
  <2> QED
    BY <2>1 DEF RowBelow, Dot5
\* The row that the next line is in, once the line has reached it.
<1>2. vpos5 = Lines5 /\ hpos5 >= 2 * BgReads + 2
        => prev'[1] = Nothing5 \/ prev'[1].row = RowBelow
  <2> HAVE vpos5 = Lines5 /\ hpos5 >= 2 * BgReads + 2
  <2>1. hpos5 > 2 * BgReads /\ Drawn /\ hpos5 > 0
    BY <1>0 DEF Drawn
  <2>2. CASE prev' = <<Nothing5, Nothing5>>
    BY <2>2
  <2>3. CASE Reading /\ prev' = <<ReadNow, prev[1]>>
    BY <2>1, <2>3, ReadIs
  <2>4. CASE ~Reading /\ prev' = prev
    <3>1. CASE ~enabled5
      BY <2>4, <3>1 DEF KindNow
    <3>2. CASE enabled5
      <4>1. hpos5 % 2 # 0
        BY <2>1, <2>4, <3>2, ReadingIs
      <4>2. hpos5 # 2 * BgReads + 2
        <5>1. (2 * BgReads + 2) % 2 = 0
          BY <1>0
        <5> QED
          BY <4>1, <5>1
      <4>3. hpos5 > 2 * BgReads + 2
        BY <1>0, <4>2
      <4> QED
        BY <2>4, <4>3 DEF OldRow
    <3> QED
      BY <3>1, <3>2 DEF CountFlags
  <2> QED
    BY <1>0, <2>1, <2>2, <2>3, <2>4, PrevIs
<1>3. vpos5' = Lines5 /\ hpos5' > 2 * BgReads + 2
        => prev'[1] = Nothing5 \/ prev'[1].row = RowBelow'
  BY <1>0, <1>1, <1>2
<1>4. vpos5' > Lines5 \/ vpos5' = 0 \/ (vpos5' = 1 /\ hpos5' = 0)
        => prev'[1] = Nothing5 \/ prev'[1].row = LastRow'
  <2> HAVE vpos5' > Lines5 \/ vpos5' = 0 \/ (vpos5' = 1 /\ hpos5' = 0)
  <2>1. CASE vpos5 = Lines5
    <3>1. hpos5 = LastDot
      BY <1>0, <2>1
    <3>2. LastRow' = RowBelow
      BY <1>1, <2>1 DEF LastRow
    <3> QED
      BY <1>0, <1>2, <2>1, <3>1, <3>2
  <2>2. CASE vpos5 # Lines5
    <3>1. vpos5 > Lines5 \/ vpos5 = 0
      BY <1>0, <2>2
    <3>2. prev' = <<Nothing5, Nothing5>> \/ prev' = prev
      BY <1>0, <3>1, PrevIs DEF Drawn
    <3>3. LastRow' = LastRow
      BY <1>1, <2>2 DEF LastRow
    <3> QED
      BY <3>1, <3>2, <3>3 DEF OldRow
  <2> QED
    BY <2>1, <2>2
<1>5. Lines5' = Lines5 /\ BgReads' = BgReads
  BY DEF BgReads
<1> QED
  BY <1>3, <1>4, <1>5 DEF OldRow

LEMMA ForgottenDot ==
  ASSUME Mmc5Inv, Dot5, NEW r, DotBy(r)
  PROVE  Forgotten'
<1> USE DEF Mmc5Inv
<1>0. /\ hpos5 \in Nat /\ hpos5 <= LastDot /\ LastDot \in Nat /\ LastDot >= 36
      /\ hpos5' # 0 => hpos5 < LastDot /\ hpos5' = hpos5 + 1 /\ vpos5' = vpos5
      /\ hpos5' = 0 => hpos5 = LastDot /\ vpos5' = IF vpos5 = LastLine THEN 0 ELSE vpos5 + 1
      /\ vpos5 \in Nat /\ vpos5 <= LastLine /\ Lines5 \in Nat /\ Lines5 >= 1 /\ LastLine > Lines5
      /\ cycle \in 0..2 /\ cycle' = (IF cycle = 2 THEN 0 ELSE cycle + 1) /\ LastLine \in Nat
      /\ ppu_read_idle_cycles \in 0..3
  BY BeamMoves, Sizes5 DEF CountType
<1>1. SUFFICES ASSUME in_frame'
               PROVE  /\ ~(vpos5' > Lines5 + 1 \/ vpos5' = 0 \/ (vpos5' = 1 /\ hpos5' = 0))
                      /\ vpos5' = Lines5 + 1 =>
                           IF saw_ppu_read' THEN hpos5' <= cycle'
                           ELSE hpos5' <= 3 * ppu_read_idle_cycles' + cycle' + 3
  BY DEF Forgotten
<1>2. ~GivesUp(r) /\ Carries(r) /\ r.in_frame
  BY <1>1 DEF DotBy, GivenUp, Carries
<1>3. CASE Drawn
  <2>1. ~(vpos5' > Lines5 + 1 \/ vpos5' = 0 \/ (vpos5' = 1 /\ hpos5' = 0))
    BY <1>0, <1>3 DEF Drawn
  <2>2. vpos5' = Lines5 + 1 => hpos5' = 0
    BY <1>0, <1>3 DEF Drawn
  <2>3. ppu_read_idle_cycles' \in Nat /\ cycle' \in Nat
    BY <1>0, <1>2 DEF Carries, DotBy, ChipSound
  <2> QED
    BY <2>1, <2>2, <2>3
<1>4. CASE ~Drawn
  <2>1. in_frame
    <3>1. vpos5 = 0 \/ ~Reading
      BY <1>0, <1>4 DEF Drawn, Reading
    <3> QED
      BY <1>2, <3>1 DEF DotBy, ReadBy, ChipNow
  <2>2. vpos5 = Lines5 + 1 /\ ~Reading
    BY <1>0, <1>4, <2>1 DEF Forgotten, Drawn, Reading
  <2>3. r.saw = saw_ppu_read /\ r.idle = ppu_read_idle_cycles
    BY <2>2 DEF DotBy, ReadBy, ChipNow
  <2>4. IF saw_ppu_read THEN hpos5 <= cycle
        ELSE hpos5 <= 3 * ppu_read_idle_cycles + cycle + 3
    BY <2>1, <2>2 DEF Forgotten
  <2>5. hpos5 < LastDot
    BY <1>0, <2>4
  <2>6. vpos5' = Lines5 + 1 /\ hpos5' = hpos5 + 1
    BY <1>0, <2>2, <2>5
  <2>7. IF saw_ppu_read' THEN hpos5' <= cycle'
        ELSE hpos5' <= 3 * ppu_read_idle_cycles' + cycle' + 3
    <3>1. CASE cycle # 2
      <4>1. (saw_ppu_read' <=> saw_ppu_read) /\ ppu_read_idle_cycles' = ppu_read_idle_cycles
        BY <1>2, <2>3, <3>1 DEF Carries
      <4> QED
        BY <1>0, <2>4, <2>6, <3>1, <4>1
    <3>2. CASE cycle = 2 /\ saw_ppu_read
      <4>1. saw_ppu_read' = FALSE /\ ppu_read_idle_cycles' = 0
        BY <1>2, <2>3, <3>2 DEF Carries
      <4> QED
        BY <1>0, <2>4, <2>6, <3>2, <4>1
    <3>3. CASE cycle = 2 /\ ~saw_ppu_read
      <4>1. ppu_read_idle_cycles < 2
        BY <1>0, <1>2, <2>3, <3>3 DEF GivesUp
      <4>2. saw_ppu_read' = FALSE /\ ppu_read_idle_cycles' = ppu_read_idle_cycles + 1
        BY <1>0, <1>2, <2>3, <3>3, <4>1 DEF Carries
      <4> QED
        BY <1>0, <2>4, <2>6, <3>3, <4>2
    <3> QED
      BY <3>1, <3>2, <3>3
  <2>8. ~(vpos5' > Lines5 + 1 \/ vpos5' = 0 \/ (vpos5' = 1 /\ hpos5' = 0))
    BY <1>0, <2>6
  <2> QED
    BY <2>7, <2>8
<1> QED
  BY <1>3, <1>4

\* The address of the last two reads of a line and of the first of the next.
LEMMA EdgeIs ==
  ASSUME CountType
  PROVE  /\ Edge \in Addresses5 /\ Edge # Nothing5 /\ Edge.kind = "name" /\ Edge.row = row5
         /\ vpos5 < Lines5 \/ hpos5 <= 2 * BgReads => Address5("name", 2) = Edge
         /\ RowBelow # row5
<1>1. row5 \in 0..1
  BY DEF CountType
<1>2. Edge \in Addresses5
  BY <1>1 DEF Edge, Addresses5
<1>3. Edge.kind = "name" /\ Edge.row = row5
  BY DEF Edge
<1>4. Edge # Nothing5
  BY <1>3 DEF Nothing5
<1>5. vpos5 < Lines5 \/ hpos5 <= 2 * BgReads => Address5("name", 2) = Edge
  BY AddressIs DEF Edge
<1>6. RowBelow # row5
  BY <1>1 DEF RowBelow
<1> QED
  BY <1>2, <1>3, <1>4, <1>5, <1>6

\* The first dot of a picture that starts in another row than the last ended in.
LEMMA PictureStarts ==
  ASSUME Mmc5Inv, Dot5, NEW r, DotBy(r), vpos5 = 1, hpos5 = 0, clean'
  PROVE  Followed'
<1> USE DEF Mmc5Inv
<1>0. /\ hpos5' = 1 /\ vpos5' = 1 /\ enabled5' = enabled5 /\ LastDot >= 36 /\ LastDot \in Nat /\ row5' = row5
      /\ Lines5 >= 1 /\ Lines5 \in Nat /\ cycle \in 0..2 /\ BgReads \in Nat
      /\ cycle' = IF cycle = 2 THEN 0 ELSE cycle + 1
  BY BeamMoves, Sizes5 DEF CountType
<1>1. enabled5 /\ ~moved5 /\ ~in_frame /\ Drawn
  <2>1. clean' = (enabled5 /\ ~moved5)
    BY DEF Dot5
  <2>2. enabled5 /\ ~moved5
    BY <2>1, Zenon
  <2>3. ~in_frame
    BY DEF Forgotten
  <2> QED
    BY <1>0, <2>2, <2>3 DEF Drawn
<1>2. ~scanline_pending
  BY DEF ScanBrief
<1>3. prev[1] # Edge
  <2>1. prev[1] = Nothing5 \/ prev[1].row = RowBelow
    BY <1>1 DEF OldRow, LastRow
  <2> QED
    BY <2>1, EdgeIs
<1>4. Edge' = Edge /\ Drawn' /\ ~(hpos5' \in {LastDot - 1, LastDot}')
  BY <1>0, <1>1 DEF Edge, Drawn
<1>5. CASE Reading
  <2>1. ReadNow = Edge
    <3>1. ReadNow = Fetch5(Reads) /\ Reads \in 1..Reads
      BY <1>5, ReadIs, Sizes5
    <3>2. Fetch5(Reads) = Address5("name", 2)
      BY <3>1, FetchIs
    <3> QED
      BY <1>0, <3>1, <3>2, EdgeIs
  <2>2. ChipReads(r, Edge) /\ r.saw = TRUE
    BY <1>1, <1>5, <2>1 DEF DotBy, ReadBy
  <2>3. Carries(r)
    BY <2>2 DEF DotBy, GivesUp
  <2>4. prev' = <<Edge, prev[1]>> /\ prev' # <<Edge, Edge>>
    BY <1>3, <2>2, <2>3 DEF ChipReads, Carries
  <2>5. irq_counter5' = 0
    BY <1>1, <1>2, <2>2, <2>3 DEF ChipReads, Carries
  <2>6. ~r.scan
    BY <1>3, <2>2 DEF ChipReads
  <2>7. ~scanline_pending'
    BY <2>3, <2>6, Zenon DEF Carries
  <2>8. IF cycle = 2 THEN ~saw_ppu_read' /\ ppu_read_idle_cycles' = 0 /\ cycle' = 0 ELSE saw_ppu_read'
    BY <1>0, <2>2, <2>3 DEF Carries
  <2>9. ReadsInTime'
    BY <1>0, <2>8 DEF ReadsInTime
  <2>10. FirstLine'
    BY <1>0, <1>4, <2>4, <2>5, <2>7 DEF FirstLine
  <2> QED
    BY <1>0, <1>1, <1>4, <2>9, <2>10 DEF Followed
<1>6. CASE ~Reading
  <2>1. ~r.in_frame /\ ~r.scan /\ r.prev = prev
    BY <1>1, <1>2, <1>6 DEF DotBy, ReadBy, ChipNow
  <2>2. Carries(r)
    BY <2>1 DEF DotBy, GivesUp
  <2>3. ~in_frame' /\ ~scanline_pending' /\ prev' = prev
    BY <2>1, <2>2, Zenon DEF Carries
  <2>4. prev' # <<Edge, Edge>>
    BY <1>3, <2>3
  <2>5. FirstLine' /\ ReadsInTime'
    BY <1>0, <1>4, <2>3, <2>4 DEF FirstLine, ReadsInTime
  <2> QED
    BY <1>0, <1>1, <1>4, <2>5 DEF Followed
<1> QED
  BY <1>5, <1>6

\* Nothing ends a frame while the picture is read, and the reads keep their beat.
LEMMA FrameGoesOn ==
  ASSUME Mmc5Inv, Dot5, NEW r, DotBy(r), clean, Drawn
  PROVE  /\ Carries(r) /\ ReadsInTime' /\ (hpos5 # 0 \/ vpos5 # 1)
         /\ Reading <=> hpos5 > 0 /\ hpos5 % 2 = 0
         /\ Reading => ChipReads(r, ReadNow)
         /\ ~Reading => ChipNow(r)
         /\ in_frame => in_frame'
<1> USE DEF Mmc5Inv
<1>0. /\ hpos5 \in Nat /\ hpos5 <= LastDot /\ LastDot \in Nat /\ LastDot % 2 = 0 /\ enabled5 /\ ReadsInTime
      /\ hpos5 < LastDot => hpos5' = hpos5 + 1
      /\ hpos5 = LastDot => hpos5' = 0 /\ LastDot > 0
      /\ cycle \in 0..2 /\ cycle' = (IF cycle = 2 THEN 0 ELSE cycle + 1) /\ vpos5 \in Nat /\ vpos5 <= Lines5
  <2>1. LastDot % 2 = 0
    BY Sizes5
  <2>2. enabled5 /\ ReadsInTime
    BY DEF Followed
  <2>3. vpos5 \in Nat /\ vpos5 <= Lines5
    BY Sizes5 DEF Drawn, CountType
  <2> QED
    BY <2>1, <2>2, <2>3, BeamMoves, Sizes5
<1>1. hpos5 # 0 \/ vpos5 # 1
  BY <1>0 DEF Followed, FirstLine
<1>2. Reading <=> hpos5 > 0 /\ hpos5 % 2 = 0
  BY <1>0, <1>1 DEF Reading
<1>3. /\ Reading => ChipReads(r, ReadNow) /\ r.saw = TRUE
      /\ ~Reading => ChipNow(r) /\ r.saw = saw_ppu_read
  BY DEF DotBy, ReadBy
<1>4. ~GivesUp(r)
  <2> SUFFICES ASSUME GivesUp(r) PROVE FALSE
    OBVIOUS
  <2>1. ~Reading /\ ~saw_ppu_read /\ in_frame /\ cycle = 2
    BY <1>3 DEF GivesUp, ChipNow
  <2> QED
    BY <1>0, <1>2, <2>1 DEF ReadsInTime
<1>5. Carries(r)
  BY <1>4 DEF DotBy
<1>6. in_frame => in_frame'
  BY <1>3, <1>5 DEF Carries, ChipReads, ChipNow
<1>7. ReadsInTime'
  <2> SUFFICES ASSUME in_frame', ~saw_ppu_read'
               PROVE  /\ ppu_read_idle_cycles' = 0
                      /\ cycle' = 1 => hpos5' = 1 \/ (hpos5' % 2 = 0 /\ hpos5' > 0)
                      /\ cycle' = 2 => hpos5' % 2 = 0 /\ hpos5' > 0
    BY DEF ReadsInTime
  <2>1. CASE r.saw
    <3>1. cycle = 2
      BY <1>5, <2>1 DEF Carries
    <3>2. ppu_read_idle_cycles' = 0 /\ cycle' = 0
      BY <1>0, <1>5, <2>1, <3>1 DEF Carries
    <3> QED
      BY <3>2
  <2>2. CASE ~r.saw
    <3>1. ~Reading /\ ~saw_ppu_read /\ ChipNow(r)
      BY <1>3, <2>2
    <3>2. in_frame
      BY <1>5, <3>1 DEF Carries, ChipNow
    <3>3. ppu_read_idle_cycles = 0 /\ cycle # 2
      BY <1>0, <1>2, <3>1, <3>2 DEF ReadsInTime
    <3>4. ppu_read_idle_cycles' = 0
      BY <1>5, <3>1, <3>3 DEF Carries, ChipNow
    <3>5. cycle = 1 => hpos5 = 1
      BY <1>0, <1>2, <3>1, <3>2 DEF ReadsInTime
    <3>6. hpos5 < LastDot
      BY <1>0, <1>2, <3>1
    <3>7. cycle = 1 => hpos5' = 2
      BY <1>0, <3>5, <3>6
    <3>8. cycle = 0 => hpos5' = 1 \/ (hpos5' % 2 = 0 /\ hpos5' > 0)
      BY <1>0, <1>2, <3>1, <3>6
    <3>9. 2 % 2 = 0
      OBVIOUS
    <3> QED
      BY <1>0, <3>3, <3>4, <3>7, <3>8, <3>9
  <2> QED
    BY <2>1, <2>2
<1> QED
  BY <1>1, <1>2, <1>3, <1>5, <1>6, <1>7

\* What a dot of the first line keeps, and what one of a later line does.
LEMMA FirstLineDot ==
  ASSUME Mmc5Inv, Dot5, NEW r, DotBy(r), clean, vpos5 = 1, hpos5 < LastDot
  PROVE  FirstLine'
<1> USE DEF Mmc5Inv
<1>0. /\ hpos5 \in Nat /\ LastDot \in Nat /\ hpos5' = hpos5 + 1 /\ Drawn /\ FirstLine /\ hpos5 > 0
      /\ BgReads \in Nat /\ BgReads >= 4 /\ 1 \in 1..Reads
  <2>1. Drawn
    BY Sizes5 DEF Drawn
  <2>2. FirstLine /\ hpos5 > 0
    BY <2>1 DEF Followed, FirstLine
  <2> QED
    BY <2>1, <2>2, BeamMoves, Sizes5
<1>1. Edge' = Edge
  BY BeamMoves DEF Edge
<1>2. Carries(r) /\ (Reading => ChipReads(r, ReadNow)) /\ (~Reading => ChipNow(r))
      /\ (Reading <=> hpos5 > 0 /\ hpos5 % 2 = 0) /\ (in_frame => in_frame')
  BY <1>0, FrameGoesOn
<1>3. hpos5 = 2 => Reading /\ ReadNow = Edge
  <2> HAVE hpos5 = 2
  <2>1. 2 % 2 = 0 /\ 2 \div 2 = 1
    OBVIOUS
  <2>2. Reading
    BY <1>2, <2>1
  <2>3. ReadNow = Fetch5(1)
    BY <1>0, <2>1, <2>2, ReadingIs
  <2>4. Fetch5(1) = Address5("name", 2)
    BY <1>0, FetchIs
  <2> QED
    BY <1>0, <2>2, <2>3, <2>4, EdgeIs
<1>4. ~r.scan
  <2> SUFFICES ASSUME r.scan PROVE FALSE
    OBVIOUS
  <2>1. hpos5 \in 0..3
    BY ThirdRead DEF DotBy
  <2>2. Reading
    BY <1>0, <1>2 DEF ChipNow, FirstLine
  <2>3. hpos5 = 2
    BY <1>2, <2>1, <2>2
  <2>4. prev = <<Edge, Edge>>
    BY <1>2, <1>3, <2>3 DEF ChipReads
  <2> QED
    BY <1>0, <2>3, <2>4 DEF FirstLine
<1>5. ~scanline_pending'
  BY <1>2, <1>4, Zenon DEF Carries
<1>6. in_frame' => irq_counter5' = 0
  <2> HAVE in_frame'
  <2>1. CASE Reading
    BY <1>0, <1>2, <2>1 DEF Carries, ChipReads, FirstLine
  <2>2. CASE ~Reading
    BY <1>0, <1>2, <2>2 DEF Carries, ChipNow, FirstLine
  <2> QED
    BY <2>1, <2>2
<1>7. hpos5' < 3 => prev' # <<Edge', Edge'>>
  <2> HAVE hpos5' < 3
  <2>1. hpos5 = 1
    BY <1>0
  <2>2. 1 % 2 # 0
    OBVIOUS
  <2>3. ~Reading
    BY <1>2, <2>1, <2>2
  <2> QED
    BY <1>0, <1>1, <1>2, <2>1, <2>3 DEF Carries, ChipNow, FirstLine
<1>8. hpos5' >= 3 => in_frame'
  <2> HAVE hpos5' >= 3
  <2>1. CASE hpos5 = 2
    BY <1>2, <1>3, <2>1 DEF Carries, ChipReads
  <2>2. CASE hpos5 # 2
    BY <1>0, <1>2, <2>2 DEF FirstLine
  <2> QED
    BY <2>1, <2>2
<1> QED
  BY <1>0, <1>5, <1>6, <1>7, <1>8 DEF FirstLine

\* The line is noticed with its first read and counted with the second.
LEMMA LaterLineDot ==
  ASSUME Mmc5Inv, Dot5, NEW r, DotBy(r), clean, Drawn, vpos5 > 1, hpos5 < LastDot
  PROVE  LaterLine'
<1> USE DEF Mmc5Inv
<1>0. /\ hpos5 \in Nat /\ LastDot \in Nat /\ hpos5' = hpos5 + 1 /\ LaterLine /\ vpos5' = vpos5
      /\ BgReads \in Nat /\ BgReads >= 4 /\ 1 \in 1..Reads /\ vpos5 \in 2..256 /\ fetch_count \in Nat
  <2>1. LaterLine
    BY DEF Followed
  <2>2. vpos5 \in 2..256 /\ fetch_count \in Nat
    BY Sizes5 DEF CountType, Drawn
  <2> QED
    BY <2>1, <2>2, BeamMoves, Sizes5
<1>1. Edge' = Edge
  BY BeamMoves DEF Edge
<1>2. Carries(r) /\ (Reading => ChipReads(r, ReadNow)) /\ (~Reading => ChipNow(r))
      /\ (Reading <=> hpos5 > 0 /\ hpos5 % 2 = 0) /\ in_frame'
  BY <1>0, FrameGoesOn DEF LaterLine
<1>3. hpos5 = 2 => Reading /\ ReadNow = Edge
  <2> HAVE hpos5 = 2
  <2>1. 2 % 2 = 0 /\ 2 \div 2 = 1 /\ 2 > 0
    OBVIOUS
  <2>2. Reading
    BY <1>2, <2>1
  <2>3. ReadNow = Fetch5(1)
    BY <2>1, <2>2, ReadingIs
  <2>4. Fetch5(1) = Address5("name", 2)
    BY <1>0, FetchIs
  <2> QED
    BY <1>0, <2>2, <2>3, <2>4, EdgeIs
<1>4. scanline_pending' <=> hpos5' \in 3..4
  <2>1. scanline_pending' <=> r.scan
    BY <1>2 DEF Carries
  <2>2. CASE hpos5 = 2
    <3>1. ReadNow.kind # "pattern" /\ prev = <<ReadNow, ReadNow>>
      BY <1>0, <1>3, <2>2, EdgeIs DEF LaterLine
    <3> QED
      BY <1>0, <1>2, <1>3, <2>1, <2>2, <3>1 DEF ChipReads
  <2>3. CASE hpos5 = 3
    <3>1. 3 % 2 # 0
      OBVIOUS
    <3>2. ~Reading
      BY <1>2, <2>3, <3>1
    <3>3. r.scan = scanline_pending
      BY <1>2, <3>2 DEF ChipNow
    <3>4. scanline_pending
      BY <1>0, <2>3 DEF LaterLine
    <3> QED
      BY <1>0, <2>1, <2>3, <3>3, <3>4
  <2>4. CASE hpos5 < 2
    <3>1. ~Reading
      <4>1. 1 % 2 # 0
        OBVIOUS
      <4> QED
        BY <1>0, <1>2, <2>4, <4>1
    <3> QED
      BY <1>0, <1>2, <2>1, <2>4, <3>1 DEF ChipNow, LaterLine
  <2>5. CASE hpos5 > 3
    <3>1. ~r.scan
      BY <1>0, <2>5, ThirdRead DEF DotBy
    <3> QED
      BY <1>0, <2>1, <2>5, <3>1
  <2> QED
    BY <1>0, <2>2, <2>3, <2>4, <2>5
<1>5. irq_counter5' = IF hpos5' <= 4 THEN vpos5' - 2 ELSE vpos5' - 1
  <2>1. CASE hpos5 = 4
    <3>1. Reading
      <4>1. 4 % 2 = 0 /\ 4 > 0
        OBVIOUS
      <4> QED
        BY <1>2, <2>1, <4>1
    <3>2. scanline_pending /\ in_frame /\ irq_counter5 = vpos5 - 2
      BY <2>1, <1>0 DEF LaterLine
    <3>3. irq_counter5' = (irq_counter5 + 1) % 256
      BY <1>2, <3>1, <3>2 DEF ChipReads, Carries
    <3>4. irq_counter5 + 1 = vpos5 - 1 /\ vpos5 - 1 \in 0..255
      BY <1>0, <3>2
    <3>5. \A x \in 0..255 : x % 256 = x
      OBVIOUS
    <3> QED
      BY <1>0, <2>1, <3>3, <3>4, <3>5
  <2>2. CASE hpos5 # 4
    <3>1. hpos5 <= 4 <=> hpos5' <= 4
      BY <1>0, <2>2
    <3>2. CASE ~Reading
      BY <1>0, <1>2, <3>1, <3>2 DEF ChipNow, Carries, LaterLine
    <3>3. CASE Reading
      <4>1. hpos5 # 3
        <5>1. 3 % 2 # 0
          OBVIOUS
        <5> QED
          BY <1>2, <3>3, <5>1
      <4>2. ~scanline_pending /\ in_frame
        BY <1>0, <2>2, <4>1 DEF LaterLine
      <4> QED
        BY <1>0, <1>2, <3>1, <3>3, <4>2 DEF ChipReads, Carries, LaterLine
    <3> QED
      BY <3>2, <3>3
  <2> QED
    BY <2>1, <2>2
<1>6. hpos5' < 3 => prev' = <<Edge', Edge'>>
  <2> HAVE hpos5' < 3
  <2>1. hpos5 < 2
    BY <1>0
  <2>2. ~Reading
    <3>1. 1 % 2 # 0
      OBVIOUS
    <3> QED
      BY <1>0, <1>2, <2>1, <3>1
  <2> QED
    BY <1>0, <1>1, <1>2, <2>1, <2>2 DEF Carries, ChipNow, LaterLine
<1>7. hpos5' > 4 => fetch_count' = ((hpos5' - 1) \div 2) - 2
  <2> HAVE hpos5' > 4
  <2>1. hpos5' - 1 = hpos5 /\ hpos5 >= 4
    BY <1>0
  <2>2. CASE hpos5 = 4
    <3>1. Reading /\ 4 \div 2 = 2
      <4>1. 4 % 2 = 0 /\ 4 > 0 /\ 4 \div 2 = 2
        OBVIOUS
      <4> QED
        BY <1>2, <2>2, <4>1
    <3>2. scanline_pending
      BY <1>0, <2>2 DEF LaterLine
    <3>3. fetch_count' = 0
      BY <1>2, <3>1, <3>2 DEF Carries, ChipReads
    <3> QED
      BY <2>1, <2>2, <3>1, <3>3
  <2>3. CASE hpos5 > 4
    <3>1. fetch_count = ((hpos5 - 1) \div 2) - 2 /\ ~scanline_pending
      BY <1>0, <2>3 DEF LaterLine
    <3>2. CASE Reading
      <4>1. (hpos5 - 1) \div 2 = (hpos5 \div 2) - 1 /\ hpos5 \div 2 \in Nat
        BY <1>0, <1>2, <2>3, <3>2
      <4>2. fetch_count' = fetch_count + 1
        BY <1>2, <3>1, <3>2 DEF Carries, ChipReads
      <4> QED
        BY <2>1, <3>1, <4>1, <4>2
    <3>3. CASE ~Reading
      <4>1. (hpos5 - 1) \div 2 = hpos5 \div 2
        <5>1. hpos5 % 2 = 1
          BY <1>0, <1>2, <2>3, <3>3
        <5> QED
          BY <1>0, <2>3, <5>1
      <4>2. fetch_count' = fetch_count
        BY <1>2, <3>3 DEF Carries, ChipNow
      <4> QED
        BY <2>1, <3>1, <4>1, <4>2
    <3> QED
      BY <3>2, <3>3
  <2> QED
    BY <1>0, <2>1, <2>2, <2>3
<1> QED
  BY <1>2, <1>4, <1>5, <1>6, <1>7 DEF LaterLine

\* The line after one that was followed.
LEMMA LineDone ==
  ASSUME Mmc5Inv, Dot5, NEW r, DotBy(r), clean, Drawn, hpos5 = LastDot, vpos5 < Lines5
  PROVE  LaterLine' /\ vpos5' > 1 /\ hpos5' = 0
<1> USE DEF Mmc5Inv
<1>0. /\ LastDot \in Nat /\ LastDot >= 36 /\ LastDot % 2 = 0 /\ LastDot \div 2 = Reads
      /\ hpos5' = 0 /\ vpos5' = vpos5 + 1 /\ vpos5 \in 1..256 /\ vpos5 \in Nat
      /\ Reads \in 1..Reads
  <2>1. LastDot % 2 = 0 /\ LastDot \div 2 = Reads
    BY Sizes5
  <2>2. vpos5 \in 1..256 /\ vpos5 \in Nat
    BY Sizes5 DEF Drawn
  <2>3. vpos5 # LastLine
    BY <2>2, Sizes5
  <2> QED
    BY <2>1, <2>2, <2>3, BeamMoves, Sizes5
<1>1. Edge' = Edge
  BY BeamMoves DEF Edge
<1>2. Carries(r) /\ (Reading => ChipReads(r, ReadNow)) /\ (in_frame => in_frame')
      /\ (Reading <=> hpos5 > 0 /\ hpos5 % 2 = 0)
  BY FrameGoesOn
<1>3. ChipReads(r, ReadNow) /\ Reading
  BY <1>0, <1>2
<1>4. ReadNow = Edge
  <2>1. ReadNow = Fetch5(Reads)
    BY <1>0, <1>3, ReadingIs
  <2>2. Fetch5(Reads) = Address5("name", 2)
    BY <1>0, FetchIs
  <2> QED
    BY <1>0, <2>1, <2>2, EdgeIs
<1>5. prev[1] = Edge
  BY <1>0 DEF Followed
<1>6. prev' = <<Edge, Edge>>
  BY <1>2, <1>3, <1>4, <1>5 DEF Carries, ChipReads
<1>7. ~scanline_pending'
  <2>1. ~r.scan
    BY <1>0, ThirdRead DEF DotBy
  <2> QED
    BY <1>2, <2>1, Zenon DEF Carries
<1>8. in_frame /\ ~scanline_pending /\ irq_counter5 = vpos5 - 1
  <2>1. CASE vpos5 = 1
    <3>1. FirstLine
      BY <2>1 DEF Followed
    <3> QED
      BY <1>0, <2>1, <3>1 DEF FirstLine
  <2>2. CASE vpos5 > 1
    <3>1. LaterLine
      BY <2>2 DEF Followed
    <3> QED
      BY <1>0, <2>2, <3>1 DEF LaterLine
  <2> QED
    BY <1>0, <2>1, <2>2
<1>9. irq_counter5' = vpos5' - 2
  BY <1>0, <1>2, <1>3, <1>8 DEF Carries, ChipReads
<1> QED
  BY <1>0, <1>1, <1>2, <1>6, <1>7, <1>8, <1>9 DEF LaterLine

\* What is followed stays so until the picture ends.
LEMMA FollowedDot ==
  ASSUME Mmc5Inv, Dot5, NEW r, DotBy(r)
  PROVE  Followed'
<1> USE DEF Mmc5Inv
<1>0. /\ hpos5 \in Nat /\ hpos5 <= LastDot /\ LastDot \in Nat /\ LastDot >= 36
      /\ hpos5 < LastDot => hpos5' = hpos5 + 1 /\ vpos5' = vpos5
      /\ hpos5 = LastDot => hpos5' = 0 /\ vpos5' = IF vpos5 = LastLine THEN 0 ELSE vpos5 + 1
      /\ vpos5 \in Nat /\ Lines5 \in Nat /\ enabled5' = enabled5 /\ BgReads \in Nat /\ Reads \in Nat
      /\ LastDot = 2 * Reads /\ Reads >= 18
  BY BeamMoves, Sizes5 DEF CountType
<1>1. CASE vpos5 = 1 /\ hpos5 = 0
  <2>1. SUFFICES ASSUME clean' PROVE Followed'
    BY DEF Followed
  <2> QED
    BY <1>1, <2>1, PictureStarts
<1>2. CASE ~(vpos5 = 1 /\ hpos5 = 0)
  <2> SUFFICES ASSUME clean', Drawn'
               PROVE  /\ enabled5' /\ ReadsInTime'
                      /\ vpos5' = 1 => FirstLine'
                      /\ vpos5' > 1 => LaterLine'
                      /\ vpos5' < Lines5 /\ hpos5' \in {LastDot - 1, LastDot} => prev'[1] = Edge'
    BY DEF Followed
  <2>1. clean /\ vpos5 # 0
    <3>1. clean' = (clean /\ vpos5 # 0)
      BY <1>2 DEF Dot5
    <3> QED
      BY <3>1, Zenon
  <2>2. Drawn
    BY <1>0, <2>1 DEF Drawn
  <2>3. enabled5 /\ ReadsInTime'
    BY <2>1, <2>2, FrameGoesOn DEF Followed
  <2>4. CASE hpos5 = LastDot
    <3>1. vpos5 < Lines5
      BY <1>0, <2>1, <2>4 DEF Drawn
    <3> QED
      BY <1>0, <2>1, <2>2, <2>3, <2>4, <3>1, LineDone
  <2>5. CASE hpos5 < LastDot
    <3>1. vpos5' = 1 => FirstLine'
      BY <1>0, <2>1, <2>5, FirstLineDot
    <3>2. vpos5' > 1 => LaterLine'
      BY <1>0, <2>1, <2>2, <2>5, LaterLineDot
    <3>3. vpos5' < Lines5 /\ hpos5' \in {LastDot - 1, LastDot} => prev'[1] = Edge'
      <4> HAVE vpos5' < Lines5 /\ hpos5' \in {LastDot - 1, LastDot}
      <4>1. hpos5 \in {LastDot - 2, LastDot - 1} /\ vpos5 < Lines5
        BY <1>0, <2>5
      <4>2. Edge' = Edge
        BY BeamMoves DEF Edge
      <4>3. Carries(r) /\ (Reading => ChipReads(r, ReadNow)) /\ (~Reading => ChipNow(r))
            /\ (Reading <=> hpos5 > 0 /\ hpos5 % 2 = 0)
        BY <2>1, <2>2, FrameGoesOn
      <4>4. CASE hpos5 = LastDot - 2
        <5>1. hpos5 \div 2 = Reads - 1 /\ hpos5 % 2 = 0 /\ hpos5 > 0 /\ Reads - 1 \in 1..Reads
          BY <1>0, <4>4
        <5>2. Reading
          BY <4>3, <5>1
        <5>3. ReadNow = Fetch5(Reads - 1)
          BY <2>2, <5>1, <5>2, ReadingIs
        <5>4. Fetch5(Reads - 1) = Address5("name", 2)
          BY <5>1, FetchIs
        <5>5. ReadNow = Edge
          BY <4>1, <5>3, <5>4, EdgeIs
        <5> QED
          BY <4>2, <4>3, <5>2, <5>5 DEF Carries, ChipReads
      <4>5. CASE hpos5 = LastDot - 1
        <5>1. hpos5 % 2 # 0
          BY <1>0, <4>5
        <5>2. prev[1] = Edge
          BY <2>1, <2>2, <4>1, <4>5 DEF Followed
        <5> QED
          BY <4>2, <4>3, <5>1, <5>2 DEF Carries, ChipNow
      <4> QED
        BY <4>1, <4>4, <4>5
    <3> QED
      BY <1>0, <2>3, <3>1, <3>2, <3>3
  <2> QED
    BY <1>0, <2>4, <2>5
<1> QED
  BY <1>1, <1>2

LEMMA DotKeepsInv == Mmc5Inv /\ Dot5 => Mmc5Inv'
<1> SUFFICES ASSUME Mmc5Inv, Dot5 PROVE Mmc5Inv'
  OBVIOUS
<1>1. PICK r : DotBy(r)
  <2>1. CountType /\ CountFlags /\ LineHasReason
    BY DEF Mmc5Inv
  <2> QED
    BY <2>1, DotIs DEF DotBy
<1>2. CountType' /\ CountFlags' /\ LineHasReason'
  BY <1>1, DotKeepsTypes DEF Mmc5Inv
<1>3. ScanBrief' /\ KindNow' /\ OldRow' /\ Forgotten' /\ Followed'
  BY <1>1, ScanBriefDot, KindNowDot, OldRowDot, ForgottenDot, FollowedDot
<1> QED
  BY <1>2, <1>3 DEF Mmc5Inv

(* ------------------------------------------------------------- the events *)
LEMMA NothingHere == Nothing5 \in Addresses5 /\ Nothing5.kind = "none"
  BY DEF Nothing5, Addresses5

\* What ends the frame, wherever the beam is.
LEMMA GivenUpKeepsInv ==
  ASSUME Mmc5Inv, GivenUp, enabled5' \in BOOLEAN, clean' = FALSE,
         UNCHANGED <<vpos5, hpos5, odd5, cycle, row5, moved5, irq_enabled5, large_sprites>>
  PROVE  Mmc5Inv'
<1> USE DEF Mmc5Inv
<1>1. CountType'
  BY NothingHere DEF CountType, GivenUp, Addresses5
<1>2. CountFlags' /\ LineHasReason' /\ Followed' /\ ScanBrief'
  BY Zenon DEF CountFlags, LineHasReason, GivenUp, Followed, ScanBrief
<1>3. KindNow' /\ OldRow' /\ Forgotten'
  <2>1. prev'[1] = Nothing5 /\ prev'[2] = Nothing5
    BY DEF GivenUp
  <2> QED
    BY <2>1, NothingHere DEF KindNow, OldRow, Forgotten, GivenUp
<1> QED
  BY <1>1, <1>2, <1>3

\* ClearInFrame as a step.
LEMMA ClearBecomes ==
  ASSUME CountType, CountFlags, LineHasReason, Becomes(ClearInFrame(Chip5))
  PROVE  GivenUp
<1>1. ChipSound(Chip5)
  BY ChipIs
<1>2. PICK d : d = ClearInFrame(Chip5) /\ Becomes(d)
  OBVIOUS
<1> QED
  BY <1>1, <1>2, ClearIs DEF Becomes, GivenUp

LEMMA WriteMask5KeepsInv == Mmc5Inv /\ WriteMask5 => Mmc5Inv'
<1> SUFFICES ASSUME Mmc5Inv, WriteMask5 PROVE Mmc5Inv'
  OBVIOUS
<1> USE DEF Mmc5Inv
<1>1. /\ UNCHANGED <<vpos5, hpos5, odd5, cycle, row5, moved5, irq_enabled5, large_sprites>>
      /\ enabled5' \in BOOLEAN /\ clean' = FALSE
  BY DEF WriteMask5, Event, Stays5, setVars5
<1>2. CASE enabled5
  <2>1. Becomes(ClearInFrame(Chip5))
    BY <1>2 DEF WriteMask5
  <2> QED
    BY <1>1, <2>1, ClearBecomes, GivenUpKeepsInv
<1>3. CASE ~enabled5
  <2>1. Becomes(Chip5)
    BY <1>3 DEF WriteMask5
  <2>2. UNCHANGED <<in_frame, pending, irq_counter5, asserted, frame_seeded, saw_ppu_read,
                    ppu_read_idle_cycles, prev, scanline_pending, fetch_count>>
    BY <2>1 DEF Becomes, Chip5
  <2>3. CountType'
    BY <1>1, <2>2 DEF CountType, Addresses5
  <2>4. CountFlags' /\ LineHasReason' /\ Followed'
    BY <1>1, <2>2, Zenon DEF CountFlags, LineHasReason, Followed
  <2>5. prev = <<Nothing5, Nothing5>> /\ ~scanline_pending
    BY <1>3 DEF KindNow
  <2>6. prev'[1] = Nothing5 /\ prev'[2] = Nothing5 /\ ~scanline_pending'
        /\ prev' = <<Nothing5, Nothing5>>
    BY <2>2, <2>5
  <2>7. ScanBrief' /\ KindNow' /\ OldRow'
    BY <2>6, NothingHere DEF ScanBrief, KindNow, OldRow
  <2>8. Forgotten'
    BY <1>1, <2>2 DEF Forgotten
  <2> QED
    BY <2>3, <2>4, <2>7, <2>8
<1> QED
  BY <1>2, <1>3 DEF CountFlags

LEMMA EndFrame5KeepsInv == Mmc5Inv /\ EndFrame5 => Mmc5Inv'
<1> SUFFICES ASSUME Mmc5Inv, EndFrame5 PROVE Mmc5Inv'
  OBVIOUS
<1>1. /\ UNCHANGED <<vpos5, hpos5, odd5, cycle, row5, moved5, irq_enabled5, large_sprites>>
      /\ enabled5' \in BOOLEAN /\ clean' = FALSE
  BY DEF EndFrame5, Event, Stays5, setVars5, Mmc5Inv, CountFlags
<1>2. GivenUp
  BY ClearBecomes DEF EndFrame5, Mmc5Inv
<1> QED
  BY <1>1, <1>2, GivenUpKeepsInv

\* Registers that neither the beam nor the count of reads depends on.
LEMMA RegisterKeepsInv ==
  ASSUME Mmc5Inv, irq_enabled5' \in BOOLEAN, large_sprites' \in BOOLEAN,
         pending' \in BOOLEAN, asserted' = (pending' /\ irq_enabled5'), pending' => pending,
         UNCHANGED <<vpos5, hpos5, odd5, cycle, row5, enabled5, moved5, clean, in_frame,
                     irq_counter5, frame_seeded, saw_ppu_read, ppu_read_idle_cycles, prev,
                     scanline_pending, fetch_count>>
  PROVE  Mmc5Inv'
<1> USE DEF Mmc5Inv
<1>1. CountType'
  BY DEF CountType, Addresses5
<1>2. CountFlags' /\ LineHasReason'
  BY Zenon DEF CountFlags, LineHasReason
<1>3. ScanBrief' /\ KindNow'
  BY DEF ScanBrief, KindNow, Drawn
<1>4. OldRow' /\ Forgotten'
  BY DEF OldRow, Forgotten, LastRow, RowBelow
<1>5. Followed'
  BY DEF Followed, Drawn, FirstLine, LaterLine, ReadsInTime, Edge
<1> QED
  BY <1>1, <1>2, <1>3, <1>4, <1>5

LEMMA RegistersKeepInv ==
  Mmc5Inv /\ (Write5203 \/ Write5204 \/ Read5204 \/ WriteBank5 \/ UNCHANGED mmc5Vars) => Mmc5Inv'
<1> SUFFICES ASSUME Mmc5Inv,
                    Write5203 \/ Write5204 \/ Read5204 \/ WriteBank5 \/ UNCHANGED mmc5Vars
             PROVE  Mmc5Inv'
  OBVIOUS
<1>0. /\ irq_enabled5 \in BOOLEAN /\ large_sprites \in BOOLEAN /\ pending \in BOOLEAN
      /\ asserted = (pending /\ irq_enabled5)
  BY DEF Mmc5Inv, CountFlags, LineHasReason
<1>1. UNCHANGED <<vpos5, hpos5, odd5, cycle, row5, enabled5, moved5, clean, in_frame,
                  irq_counter5, frame_seeded, saw_ppu_read, ppu_read_idle_cycles, prev,
                  scanline_pending, fetch_count>>
  BY DEF Write5203, Write5204, Read5204, WriteBank5, Event, Stays5, mmc5Vars, beamVars5,
         countVars5, detectVars5, setVars5
<1>2. CASE Write5203 \/ WriteBank5 \/ UNCHANGED mmc5Vars
  <2>1. irq_enabled5' = irq_enabled5 /\ pending' = pending /\ asserted' = asserted
        /\ large_sprites' \in BOOLEAN
    BY <1>0, <1>2 DEF Write5203, WriteBank5, mmc5Vars, countVars5, setVars5
  <2>2. asserted' = (pending' /\ irq_enabled5')
    BY <1>0, <2>1, Zenon
  <2> QED
    BY <1>0, <1>1, <2>1, <2>2, RegisterKeepsInv
<1>3. CASE Write5204
  <2>1. irq_enabled5' \in BOOLEAN /\ pending' = pending /\ large_sprites' = large_sprites
        /\ asserted' = (irq_enabled5' /\ (asserted \/ pending))
    BY <1>3 DEF Write5204
  <2>2. asserted' = (pending' /\ irq_enabled5')
    BY <1>0, <2>1, Zenon
  <2> QED
    BY <1>0, <1>1, <2>1, <2>2, RegisterKeepsInv
<1>4. CASE Read5204
  <2>1. irq_enabled5' = irq_enabled5 /\ pending' = FALSE /\ large_sprites' = large_sprites
        /\ asserted' = FALSE
    BY <1>4 DEF Read5204, setVars5
  <2>2. asserted' = (pending' /\ irq_enabled5')
    BY <2>1, Zenon
  <2> QED
    BY <1>0, <1>1, <2>1, <2>2, RegisterKeepsInv
<1> QED
  BY <1>2, <1>3, <1>4

LEMMA Read2007BlankKeepsInv == Mmc5Inv /\ Read2007Blank => Mmc5Inv'
<1> SUFFICES ASSUME Mmc5Inv, Read2007Blank PROVE Mmc5Inv'
  OBVIOUS
<1> USE DEF Mmc5Inv
<1>1. /\ UNCHANGED <<vpos5, hpos5, odd5, cycle, row5, enabled5, moved5, clean, irq_enabled5,
                     large_sprites>>
      /\ vpos5 > Lines5 /\ ~Drawn /\ vpos5 # 0
  BY Sizes5 DEF Read2007Blank, Event, Stays5, setVars5, Drawn, CountType
<1>2. PICK d : d = ResetScanlineDetector([Chip5 EXCEPT !.saw = TRUE]) /\ Becomes(d)
  <2>1. Address5("name", 2) \in Addresses5
    BY AddressIs
  <2> QED
    <3>1. PICK a \in Addresses5 : Becomes(SeenRead(Chip5, a))
      BY <2>1 DEF Read2007Blank
    <3>2. PICK d : d = SeenRead(Chip5, a) /\ Becomes(d)
      BY <3>1
    <3>3. d = ResetScanlineDetector([Chip5 EXCEPT !.saw = TRUE])
      BY <1>1, <3>2, Sizes5 DEF SeenRead, CountType
    <3> QED
      BY <3>2, <3>3, Zenon
<1>3. /\ UNCHANGED <<in_frame, pending, irq_counter5, asserted, frame_seeded, ppu_read_idle_cycles>>
      /\ saw_ppu_read' = FALSE /\ prev' = <<Nothing5, Nothing5>> /\ scanline_pending' = FALSE
      /\ fetch_count' = 0
  <2>1. PICK c : c = [Chip5 EXCEPT !.saw = TRUE]
    OBVIOUS
  <2>2. c.in_frame = in_frame /\ c.pending = pending /\ c.counter = irq_counter5
        /\ c.line = asserted /\ c.seeded = frame_seeded /\ c.idle = ppu_read_idle_cycles
    BY <2>1 DEF Chip5
  <2>3. ChipSound(c)
    <3>1. c.prev = prev /\ c.count = fetch_count /\ DOMAIN c = ChipFields
      BY <2>1 DEF Chip5, ChipFields
    <3> QED
      BY <2>2, <3>1 DEF ChipSound, CountType
  <2> QED
    BY <1>2, <2>1, <2>2, <2>3, ResetIs DEF Becomes
<1>4. CountType'
  BY <1>1, <1>3, NothingHere DEF CountType, Addresses5
<1>5. CountFlags' /\ LineHasReason' /\ ScanBrief'
  BY <1>1, <1>3, Zenon DEF CountFlags, LineHasReason, ScanBrief
<1>6. ~Drawn'
  BY <1>1 DEF Drawn
<1>7. KindNow' /\ OldRow' /\ Followed'
  <2>1. prev'[1] = Nothing5
    BY <1>3
  <2> QED
    BY <1>3, <1>6, <2>1, NothingHere DEF KindNow, OldRow, Followed
<1>8. Forgotten'
  <2>1. vpos5' = vpos5 /\ hpos5' = hpos5 /\ cycle' = cycle /\ (in_frame' <=> in_frame)
        /\ ppu_read_idle_cycles' = ppu_read_idle_cycles /\ ~saw_ppu_read'
    BY <1>1, <1>3
  <2>2. hpos5 \in Nat /\ cycle \in 0..2 /\ ppu_read_idle_cycles \in 0..3
    BY Sizes5 DEF CountType
  <2> QED
    BY <2>1, <2>2 DEF Forgotten
<1> QED
  BY <1>4, <1>5, <1>7, <1>8

LEMMA Scroll5KeepsInv == Mmc5Inv /\ Scroll5 => Mmc5Inv'
<1> SUFFICES ASSUME Mmc5Inv, Scroll5 PROVE Mmc5Inv'
  OBVIOUS
<1> USE DEF Mmc5Inv
<1>1. /\ UNCHANGED <<vpos5, hpos5, odd5, cycle, enabled5, clean, irq_enabled5, large_sprites,
                     in_frame, pending, irq_counter5, asserted, frame_seeded, saw_ppu_read,
                     ppu_read_idle_cycles, prev, scanline_pending, fetch_count>>
      /\ row5' = 1 - row5 /\ moved5' = ~moved5 /\ vpos5 > Lines5
  BY DEF Scroll5, Event, countVars5, detectVars5, setVars5
<1>2. ~Drawn /\ ~Drawn' /\ vpos5 # Lines5
  BY <1>1, Sizes5 DEF Drawn, CountType
<1>3. CountType'
  BY <1>1 DEF CountType, Addresses5
<1>4. CountFlags' /\ LineHasReason'
  BY <1>1, Zenon DEF CountFlags, LineHasReason
<1>5. ScanBrief' /\ KindNow' /\ Followed' /\ Forgotten'
  BY <1>1, <1>2 DEF ScanBrief, KindNow, Followed, Forgotten
<1>6. LastRow' = LastRow
  <2>1. row5 \in 0..1
    BY DEF CountType
  <2>2. 1 - (1 - row5) = row5
    BY <2>1
  <2> QED
    BY <1>1, <2>2 DEF LastRow, RowBelow, CountFlags
<1>7. OldRow'
  BY <1>1, <1>2, <1>6 DEF OldRow
<1> QED
  BY <1>3, <1>4, <1>5, <1>7

LEMMA Mmc5InitInv == Mmc5Init => Mmc5Inv
<1> SUFFICES ASSUME Mmc5Init PROVE Mmc5Inv
  OBVIOUS
<1> USE DEF Mmc5Init
<1>1. CountType
  BY Sizes5, NothingHere DEF CountType
<1>2. CountFlags /\ LineHasReason /\ ScanBrief /\ Followed
  BY Zenon DEF CountFlags, LineHasReason, ScanBrief, Followed
<1>3. ~Drawn
  BY Sizes5 DEF Drawn
<1>4. KindNow /\ OldRow
  <2>1. prev[1] = Nothing5
    OBVIOUS
  <2> QED
    BY <1>3, <2>1 DEF KindNow, OldRow
<1>5. Forgotten
  BY DEF Forgotten
<1> QED
  BY <1>1, <1>2, <1>3, <1>4, <1>5 DEF Mmc5Inv

\* Mapper005.cpp, read_vram() and cpu_sync(): what the chip has made of the
\* reads, at every dot of every frame.
THEOREM Mmc5Invariant == Mmc5Spec => []Mmc5Inv
<1>1. Mmc5Inv /\ [Mmc5Next]_mmc5Vars => Mmc5Inv'
  BY DotKeepsInv, WriteMask5KeepsInv, EndFrame5KeepsInv, RegistersKeepInv,
     Read2007BlankKeepsInv, Scroll5KeepsInv DEF Mmc5Next
<1> QED
  BY <1>1, Mmc5InitInv, PTL DEF Mmc5Spec

\* The counter, from the invariant.
LEMMA InvCountsLines == Mmc5Inv => CountsLines
<1> SUFFICES ASSUME Mmc5Inv PROVE CountsLines
  OBVIOUS
<1> USE DEF Mmc5Inv
<1>1. asserted = (pending /\ irq_enabled5) /\ (pending => in_frame)
  BY DEF LineHasReason
<1>2. clean /\ vpos5 \in 1..Lines5 /\ hpos5 > 4 => in_frame /\ irq_counter5 = vpos5 - 1
  <2> HAVE clean /\ vpos5 \in 1..Lines5 /\ hpos5 > 4
  <2>1. Drawn /\ hpos5 \in Nat /\ vpos5 \in Nat /\ vpos5 >= 1
    BY Sizes5 DEF Drawn, CountType
  <2>2. CASE vpos5 = 1
    <3>1. FirstLine
      BY <2>1, <2>2 DEF Followed
    <3> QED
      BY <2>1, <2>2, <3>1 DEF FirstLine
  <2>3. CASE vpos5 > 1
    <3>1. LaterLine
      BY <2>1, <2>3 DEF Followed
    <3> QED
      BY <2>1, <3>1 DEF LaterLine
  <2> QED
    BY <2>1, <2>2, <2>3
<1> QED
  BY <1>1, <1>2 DEF CountsLines

\* Which patterns are a sprite's, by the reads counted since the line's second.
LEMMA CountTells ==
  ASSUME NEW n \in 1..Reads, Part(n) = "pattern", n < Reads
  PROVE  /\ n >= 3
         /\ n - 2 > BgReads /\ n - 2 < BgReads + SpriteReads
              <=> n \in (BgReads + 1)..(BgReads + SpriteReads)
<1>1. n \in Nat /\ BgReads \in Nat /\ SpriteReads \in Nat /\ n >= 1
  BY Sizes5
<1>2. n % 4 \in {0, 3}
  BY <1>1, PartIs
<1>3. PICK q \in Nat, k \in {0, 3} : n = 4 * q + k
  BY <1>1, <1>2
<1>4. PICK t \in Nat, s \in Nat : BgReads = 4 * t /\ SpriteReads = 4 * s
  BY Sizes5
<1> QED
  BY <1>1, <1>3, <1>4

\* The set of banks a pattern comes from, by the count of reads.
LEMMA DotFetches ==
  ASSUME Mmc5Inv, Dot5, clean, vpos5 \in 2..Lines5, large_sprites, ReadNow.kind = "pattern"
  PROVE  bank' = IF hpos5 \div 2 \in (BgReads + 1)..(BgReads + SpriteReads) THEN "A" ELSE "B"
<1> USE DEF Mmc5Inv
<1> DEFINE n == hpos5 \div 2
<1>1. PICK r : DotBy(r) /\ bank' = IF ReadNow.kind = "pattern" THEN Selector(r.count) ELSE bank
  BY DotIs DEF DotBy
<1>2. Drawn /\ LaterLine /\ hpos5 \in Nat /\ hpos5 <= LastDot /\ vpos5 > 1
  <2>1. Drawn /\ vpos5 > 1
    BY Sizes5 DEF Drawn
  <2> QED
    BY <2>1, Sizes5 DEF Followed, CountType
<1>3. Reading
  <2>1. ReadNow # Nothing5
    BY NothingHere
  <2> QED
    BY <2>1, ReadIs
<1>4. hpos5 > 0 /\ hpos5 % 2 = 0 /\ ChipReads(r, ReadNow)
  BY <1>1, <1>2, <1>3, FrameGoesOn
<1>5. ReadNow = Fetch5(n) /\ n \in 1..Reads /\ hpos5 = 2 * n
  BY <1>2, <1>3, <1>4, ReadingIs
<1>6. Part(n) = "pattern" /\ n < Reads
  BY <1>5, FetchIs
<1>7. n >= 3 /\ (n - 2 > BgReads /\ n - 2 < BgReads + SpriteReads
                   <=> n \in (BgReads + 1)..(BgReads + SpriteReads))
  BY <1>5, <1>6, CountTells
<1>8. r.count = n - 2
  <2>1. hpos5 > 4 /\ n \in Nat
    BY <1>2, <1>5, <1>7
  <2>2. fetch_count = ((hpos5 - 1) \div 2) - 2 /\ ~scanline_pending
    BY <1>2, <2>1 DEF LaterLine
  <2>3. (hpos5 - 1) \div 2 = n - 1
    BY <1>5, <2>1
  <2>4. r.count = fetch_count + 1
    BY <1>4, <2>2 DEF ChipReads
  <2> QED
    BY <2>1, <2>2, <2>3, <2>4
<1>9. bank' = Selector(n - 2)
  BY <1>1, <1>8
<1> HIDE DEF n
<1>10. CASE n \in (BgReads + 1)..(BgReads + SpriteReads)
  BY <1>7, <1>9, <1>10 DEF Selector, n
<1>11. CASE ~(n \in (BgReads + 1)..(BgReads + SpriteReads))
  BY <1>7, <1>9, <1>11 DEF Selector, n
<1> QED
  BY <1>10, <1>11 DEF n

\* Mapper005.cpp: for any picture that is not disturbed the MMC5 counts every
\* line and tells the patterns of sprites from those of the background, and its
\* interrupt line is up exactly for a pending target line that was asked for.
THEOREM LinesAndSpritesHold == Mmc5Spec => LinesAndSprites
<1> DEFINE Told == LET n == hpos5 \div 2 IN
       clean /\ vpos5 \in 2..Lines5 /\ large_sprites /\ hpos5' # hpos5 /\ ReadNow.kind = "pattern"
         => bank' = IF n \in (BgReads + 1)..(BgReads + SpriteReads) THEN "A" ELSE "B"
<1>1. Mmc5Inv /\ [Mmc5Next]_mmc5Vars => [Told]_mmc5Vars
  <2> SUFFICES ASSUME Mmc5Inv, [Mmc5Next]_mmc5Vars, ~UNCHANGED mmc5Vars,
                      clean, vpos5 \in 2..Lines5, large_sprites, hpos5' # hpos5,
                      ReadNow.kind = "pattern"
               PROVE  bank' = IF hpos5 \div 2 \in (BgReads + 1)..(BgReads + SpriteReads)
                              THEN "A" ELSE "B"
    OBVIOUS
  <2>1. Dot5
    BY DEF Mmc5Next, WriteMask5, EndFrame5, Write5203, Write5204, Read5204, Read2007Blank,
           WriteBank5, Scroll5, Event
  <2> QED
    BY <2>1, DotFetches
<1>2. Mmc5Spec => [][Told]_mmc5Vars
  BY <1>1, Mmc5Invariant, PTL DEF Mmc5Spec
<1>3. Mmc5Spec => []CountsLines
  BY Mmc5Invariant, InvCountsLines, PTL
<1> QED
  BY <1>2, <1>3, PTL DEF LinesAndSprites, SpritesFromTheirBanks
=============================================================================
