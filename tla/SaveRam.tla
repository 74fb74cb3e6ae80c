------------------------------ MODULE SaveRam ------------------------------
(***************************************************************************)
(* The battery backed RAM of a cartridge: a file named by the hash of its  *)
(* ROM, mapped into the emulator that runs it (open_sram in                *)
(* src/src/Mapper.cpp, src/src/MemoryMappedFile.cpp), or memory of its own *)
(* when that fails, behind the gate of the board.  Several emulators may   *)
(* run at once, on a system that shares files or on one that does not, and *)
(* any of them may end at any time.                                        *)
(*                                                                         *)
(* A mapped file and its mappings are one memory, which outlives the       *)
(* process: the loss of power is not modelled.                             *)
(***************************************************************************)
EXTENDS Integers, Sequences

CONSTANTS
    Emulators,      \* processes
    Games,          \* ROM images, with hash, board and four_screen
    SaveSize,       \* open_sram(0x2000)
    SaveBytes,      \* what games write
    Files           \* what may be in a file before: shorter, longer, none

ASSUME SaveAssumption ==
    /\ \A g \in Games : g.board \in {1, 4, 19, 69, 163} /\ g.four_screen \in BOOLEAN
    /\ SaveSize \in Nat \ {0} /\ SaveBytes \subseteq 0..255
    /\ Files \subseteq Seq(0..255)

VARIABLES
    system,         \* "posix" or "windows": which try_map() was compiled
    save,           \* the files; one that does not exist is empty
    game,           \* nes::cart and its mapper, or NoGame
    gate,           \* the registers that open prg_ptr_ to the CPU
    kind, heap,     \* kind_, and the memory of Kind::Heap
    written,        \* history: what players believe a file to hold
    answer          \* what a read has just found

saveVars == <<system, save, game, gate, kind, heap, written, answer>>

NoGame   == [hash |-> 0, board |-> 0, four_screen |-> FALSE]
OpenBus  == -1
Hashes   == {g.hash : g \in Games}
Zeroed   == [c \in 1..SaveSize |-> 0]

\* ftruncate and SetEndOfFile cut a file or grow it with zeros.
Resized(file) == [c \in 1..SaveSize |-> IF c <= Len(file) THEN file[c] ELSE 0]

-----------------------------------------------------------------------------
(* The gates.  MMC1 has one bit, MMC3 an enable and a protect bit behind   *)
(* which four-screen boards have no RAM, the FME-7 a mode; the others none. *)
Closed       == [on |-> FALSE, writable |-> FALSE]
PowerGate(g) == [on |-> g.board \in {1, 19, 163}, writable |-> g.board \in {1, 19, 163}]

Gates(g) ==
    CASE g.board = 4        -> [on : BOOLEAN, writable : BOOLEAN]
      [] g.board \in {1, 69} -> {[on |-> b, writable |-> b] : b \in BOOLEAN}
      [] OTHER              -> {PowerGate(g)}

Readable(p) == game[p] # NoGame /\ gate[p].on /\ ~(game[p].board = 4 /\ game[p].four_screen)
Writable(p) == Readable(p) /\ gate[p].writable

-----------------------------------------------------------------------------
(* On Windows a file is opened without sharing.                            *)
Taken(p, hash) ==
    /\ system = "windows"
    /\ \E q \in Emulators \ {p} : game[q] # NoGame /\ game[q].hash = hash /\ kind[q] = "Mapped"

\* A mutant: the file is created anew each time (O_TRUNC, CREATE_ALWAYS).
TryMapAnew(p, hash, fails) ==
    LET opened == fails # "open" /\ ~Taken(p, hash)
        sized  == opened /\ fails # "resize"
    IN  /\ save' = IF sized THEN [save EXCEPT ![hash] = Zeroed] ELSE save
        /\ kind' = [kind EXCEPT ![p] = IF sized /\ fails # "map" THEN "Mapped" ELSE "Heap"]
        /\ heap' = [heap EXCEPT ![p] = Zeroed]

\* try_map() and the constructor, which falls back on memory of its own: any
\* of the three calls may fail, the first also because the file is taken.
TryMap(p, hash, fails) ==
    LET opened == fails # "open" /\ ~Taken(p, hash)
        sized  == opened /\ fails # "resize"
    IN  /\ save' = IF sized THEN [save EXCEPT ![hash] = Resized(@)] ELSE save
        /\ kind' = [kind EXCEPT ![p] = IF sized /\ fails # "map" THEN "Mapped" ELSE "Heap"]
        /\ heap' = [heap EXCEPT ![p] = Zeroed]

\* Cart::load() of a ROM with such a board; the window has always unloaded
\* the one before.
LoadGame(p) ==
    /\ game[p] = NoGame
    /\ \E g \in Games, fails \in {"open", "resize", "map", "nothing"} :
          /\ TryMap(p, g.hash, fails)
          /\ game' = [game EXCEPT ![p] = g]
          /\ gate' = [gate EXCEPT ![p] = PowerGate(g)]
    /\ UNCHANGED <<system, written>>

\* release(): by Cart::unload(), or by the end of the process, whatever it
\* was: JAM, abort(), an exception of create_directories(), kill.
Release(p) ==
    /\ game[p] # NoGame
    /\ game' = [game EXCEPT ![p] = NoGame]
    /\ kind' = [kind EXCEPT ![p] = "Heap"]
    /\ heap' = [heap EXCEPT ![p] = Zeroed]
    /\ gate' = [gate EXCEPT ![p] = Closed]
    /\ UNCHANGED <<system, save, written>>

SetGate(p) ==
    /\ game[p] # NoGame
    /\ \E set \in Gates(game[p]) : gate' = [gate EXCEPT ![p] = set]
    /\ UNCHANGED <<system, save, game, kind, heap, written>>

\* write_6 and write_7
WriteSave(p, c, v) ==
    /\ Writable(p)
    /\ IF kind[p] = "Mapped"
       THEN /\ save' = [save EXCEPT ![game[p].hash][c] = v]
            /\ written' = [written EXCEPT ![game[p].hash] = [Resized(@) EXCEPT ![c] = v]]
            /\ UNCHANGED heap
       ELSE heap' = [heap EXCEPT ![p][c] = v] /\ UNCHANGED <<save, written>>
    /\ UNCHANGED <<system, game, gate, kind>>

\* read_6 and read_7
ReadSave(p, c) ==
    /\ game[p] # NoGame
    /\ answer' = IF ~Readable(p) THEN OpenBus
                 ELSE IF kind[p] = "Mapped" THEN save[game[p].hash][c] ELSE heap[p][c]
    /\ UNCHANGED <<system, save, game, gate, kind, heap, written>>

SaveInit ==
    /\ system \in {"posix", "windows"}
    /\ save \in [Hashes -> Files] /\ written = save
    /\ game = [p \in Emulators |-> NoGame]
    /\ gate = [p \in Emulators |-> Closed]
    /\ kind = [p \in Emulators |-> "Heap"] /\ heap = [p \in Emulators |-> Zeroed]
    /\ answer = OpenBus

SaveNext ==
    \E p \in Emulators :
        \/ /\ \/ LoadGame(p) \/ Release(p) \/ SetGate(p)
              \/ \E c \in 1..SaveSize, v \in SaveBytes : WriteSave(p, c, v)
           /\ answer' = OpenBus
        \/ \E c \in 1..SaveSize : ReadSave(p, c)

SaveSpec == SaveInit /\ [][SaveNext]_saveVars

-----------------------------------------------------------------------------
(* A game finds what was saved: every byte of a mapped file is the last    *)
(* one any emulator wrote there, or what a file had before, whichever way  *)
(* the emulators since have ended, whichever of their attempts to open the *)
(* file have failed half way, and whether the file had another size.       *)
SaveSurvives ==
    [][\A p \in Emulators, c \in 1..SaveSize :
          ReadSave(p, c) /\ Readable(p) /\ kind[p] = "Mapped" =>
              answer' = Resized(written[game[p].hash])[c]]_saveVars

(* Without sharing a save has one writer, and what a second emulator plays *)
(* with is its own.                                                        *)
OneWriter ==
    system = "windows" =>
        \A p, q \in Emulators :
            p # q /\ {kind[p], kind[q]} = {"Mapped"} => game[p].hash # game[q].hash

(* A save is safe from everything but the game's own writes: both of these. *)
SavesKept == SaveSurvives /\ []OneWriter
=============================================================================
