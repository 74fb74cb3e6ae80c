----------------------------- MODULE Controllers -----------------------------
(***************************************************************************)
(* The controllers (src/src/Input.cpp, Controller.cpp, ShiftRegister.h):   *)
(* the GUI thread sets and clears single buttons while the emulation       *)
(* thread strobes the ports, which latches each pad as a whole but one pad *)
(* after the other, and shifts the latched buttons out bit by bit.         *)
(***************************************************************************)
EXTENDS Naturals, Sequences

CONSTANTS
    Pads,           \* the controllers, polled in any order
    Buttons,        \* 8, the buttons of a pad
    IndexRange      \* 256, the range of read_index_

ASSUME ControllersAssumption ==
    /\ Buttons \in Nat \ {0} /\ IndexRange \in Nat /\ IndexRange > Buttons

VARIABLES
    keystate,       \* keystate_ of each pad: the set of buttons held
    latched,        \* data_ of each pad: the bits still to be read
    read_index,     \* read_index_ of each pad
    strobe,         \* strobe_
    to_poll,        \* the pads a strobe in progress has still to poll
    last_read,      \* history: the bit read last
    snapshot,       \* history: the buttons of each pad when it was polled
    reads           \* history: reads of each pad since, modulo IndexRange
                    \* once there are more

pads == <<latched, read_index, snapshot, reads>>
ctlVars == <<keystate, pads, strobe, to_poll, last_read>>

CtlInit ==
    /\ keystate = [p \in Pads |-> {}]
    /\ latched = [p \in Pads |-> [b \in 1..Buttons |-> 0]]
    /\ read_index = [p \in Pads |-> 0]
    /\ strobe = 0 /\ to_poll = {} /\ last_read = 0
    /\ snapshot = [p \in Pads |-> {}]
    /\ reads = [p \in Pads |-> 0]

\* set_button(), in the GUI thread.
SetButton(p, b) ==
    /\ \/ keystate' = [keystate EXCEPT ![p] = @ \cup {b}]
       \/ keystate' = [keystate EXCEPT ![p] = @ \ {b}]
    /\ UNCHANGED <<pads, strobe, to_poll, last_read>>

\* $4016 written, bit 0: a rising strobe starts the polls.
Write4016(bit) ==
    /\ to_poll = {}
    /\ to_poll' = IF bit = 1 /\ strobe = 0 THEN Pads ELSE {}
    /\ strobe' = bit
    /\ UNCHANGED <<keystate, pads, last_read>>

\* A mutant: the poll does not start again with the first button.
PollKeepsIndex(p) ==
    /\ p \in to_poll /\ to_poll' = to_poll \ {p}
    /\ latched' = [latched EXCEPT ![p] =
                      [b \in 1..Buttons |-> IF b \in keystate[p] THEN 1 ELSE 0]]
    /\ snapshot' = [snapshot EXCEPT ![p] = keystate[p]]
    /\ reads' = [reads EXCEPT ![p] = 0]
    /\ UNCHANGED <<keystate, read_index, strobe, last_read>>

\* poll(): one atomic load for the whole pad.
Poll(p) ==
    /\ p \in to_poll /\ to_poll' = to_poll \ {p}
    /\ latched' = [latched EXCEPT ![p] =
                      [b \in 1..Buttons |-> IF b \in keystate[p] THEN 1 ELSE 0]]
    /\ read_index' = [read_index EXCEPT ![p] = 0]
    /\ snapshot' = [snapshot EXCEPT ![p] = keystate[p]]
    /\ reads' = [reads EXCEPT ![p] = 0]
    /\ UNCHANGED <<keystate, strobe, last_read>>

\* $4016 and $4017 read.  Only a read of one of the first eight shifts.
Read(p) ==
    /\ to_poll = {}
    /\ IF read_index[p] < Buttons
       THEN /\ last_read' = Head(latched[p])
            /\ latched' = [latched EXCEPT ![p] = Append(Tail(@), 0)]
       ELSE last_read' = 1 /\ UNCHANGED latched
    /\ read_index' = [read_index EXCEPT ![p] = (@ + 1) % IndexRange]
    /\ reads' = [reads EXCEPT ![p] = IF @ = 2 * IndexRange THEN IndexRange + 1 ELSE @ + 1]
    /\ UNCHANGED <<keystate, strobe, to_poll, snapshot>>

\* reset(): what is latched, and how much of it was read, stays.
CtlReset ==
    /\ to_poll = {}
    /\ strobe' = 0
    /\ keystate' = [p \in Pads |-> {}]
    /\ UNCHANGED <<pads, to_poll, last_read>>

CtlNext ==
    \/ \E p \in Pads : Poll(p) \/ Read(p) \/ \E b \in 1..Buttons : SetButton(p, b)
    \/ \E bit \in {0, 1} : Write4016(bit)
    \/ CtlReset

CtlSpec == CtlInit /\ [][CtlNext]_ctlVars

-----------------------------------------------------------------------------
(* What the n-th read behind a poll finds.                                 *)
Expected(p, n) ==
    IF n <= Buttons THEN IF n \in snapshot[p] THEN 1 ELSE 0
    ELSE IF (n - 1) % IndexRange < Buttons THEN 0 ELSE 1

(* The game reads the buttons of one instant, in order, however the GUI    *)
(* thread changes them and the user resets in between; then ones, until    *)
(* the unsigned byte that counts the reads goes round and eight reads find *)
(* the emptied register.                                                   *)
ReadsOneInstant ==
    [][\A p \in Pads : Read(p) => last_read' = Expected(p, reads'[p])]_ctlVars
=============================================================================
