----------------------------- MODULE NmiLatency -----------------------------
(***************************************************************************)
(* CpuInterrupts with two history variables: how many of the NMIs the PPU  *)
(* raised have not been taken, up to MaxCredit of them, and for how many   *)
(* CPU cycles the oldest NMI has been owed.  They record, and never guard, *)
(* a step.                                                                 *)
(***************************************************************************)
EXTENDS CpuInterrupts

CONSTANT MaxCredit      \* more edges than the sequencer can hold at a time
ASSUME MaxCreditAssumption == MaxCredit \in Nat /\ MaxCredit >= 2

VARIABLES credit, wait

latencyVars == <<vars, credit, wait>>

LatencyInit == Init /\ credit = 0 /\ wait = 0

\* The wait is measured while no reset intervenes.
Owed == NmiPending /\ ~ResetPending

CountedCycle ==
    /\ InstructionCycle
    /\ credit' = credit - (IF NmiTaken THEN 1 ELSE 0)
    /\ wait' = (IF Owed' /\ ~NmiTaken THEN wait + 1 ELSE 0)

CountedNmi ==
    /\ ~aborted /\ Nmi
    /\ credit' = (IF credit < MaxCredit THEN credit + 1 ELSE credit)
    /\ UNCHANGED <<seqVars, iflag, executing, aborted, wait>>

CountedRest ==
    /\ \/ /\ ~aborted
          /\ ClearNmi \/ \E s \in Sources : Irq(s) \/ ClearIrq(s)
          /\ UNCHANGED <<seqVars, iflag, executing, aborted>>
       \/ Resets
       \/ Halted
    /\ wait' = (IF Owed' THEN wait ELSE 0)
    /\ UNCHANGED credit

LatencyNext == CountedCycle \/ CountedNmi \/ CountedRest

LatencySpec ==
    LatencyInit /\ [][LatencyNext]_latencyVars /\ WF_latencyVars(CountedCycle)

(***************************************************************************)
(* The longest way to the NMI handler.  An NMI too late for the hijack of  *)
(* BRK waits for BRK's last two cycles, for the eight of the longest       *)
(* instruction (fetch included), which samples on its last, and for six of *)
(* its own sequence; the next cycle loads PCH and ends the wait.  TLC      *)
(* finds the bound reached.                                                *)
(***************************************************************************)
LongestWait == 16

\* An owed NMI is in its handler within LongestWait CPU cycles, whatever the
\* game executes (and DMA cycles apart).
NmiWithinBound == wait <= LongestWait

\* An NMI handler is entered at most once for each edge: no sequence, no
\* hijack and no branch lets one edge be taken twice.
NoSpuriousNmi == credit >= 0

\* Each NMI is served in time and once.
NmiTimely == NmiWithinBound /\ NoSpuriousNmi
=============================================================================
