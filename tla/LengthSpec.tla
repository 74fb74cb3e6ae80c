----------------------------- MODULE LengthSpec -----------------------------
(***************************************************************************)
(* What a length counter promises the game, without time stamps: a write   *)
(* takes effect at the end of its CPU cycle, except that a half-frame      *)
(* clock of the same cycle comes first and loses the load if it finds the  *)
(* counter running.                                                        *)
(***************************************************************************)
EXTENDS Naturals

CONSTANTS Loads     \* the values of length_table

VARIABLES
    count,          \* what the channel and $4015 see
    pending,        \* the load of this cycle, 0 if there is none
    halted,         \* whether a clock of this cycle decrements
    halt            \* and of the next ones

vars == <<count, pending, halted, halt>>

Init == count = 0 /\ pending = 0 /\ halted \in BOOLEAN /\ halt \in BOOLEAN

Load == pending' \in Loads /\ UNCHANGED <<count, halted, halt>>

SetHalt == halt' \in BOOLEAN /\ UNCHANGED <<count, pending, halted>>

\* Disabling the channel and resetting the APU silence it at once.
Silence ==
    /\ count' = 0 /\ pending' = 0
    /\ halt' \in BOOLEAN
    /\ UNCHANGED halted

EndOfCycle == pending' = 0 /\ halted' = halt /\ UNCHANGED halt

Clock ==
    /\ EndOfCycle
    /\ count' = IF count = 0 THEN pending
                ELSE IF halted THEN count ELSE count - 1

NoClock ==
    /\ EndOfCycle
    /\ count' = IF pending # 0 THEN pending ELSE count

Next == Load \/ SetHalt \/ Silence \/ Clock \/ NoClock

Spec == Init /\ [][Next]_vars
=============================================================================
