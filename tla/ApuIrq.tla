------------------------------- MODULE ApuIrq -------------------------------
(***************************************************************************)
(* The APU's two interrupt sources and its status register: the frame      *)
(* counter (src/src/Apu.cpp) and the DMC's reader and output unit          *)
(* (src/src/Dmc.cpp), which share the APU's bit of the CPU's IRQ line.     *)
(*                                                                         *)
(* A CPU cycle is two steps: the CPU's part, with at most one access to a  *)
(* register, and apu::tick().  next_clock_ is known relative to            *)
(* apu_cycles_.  What the DMC plays and the rate of its timer are left     *)
(* out: the timer may fire in any cycle.                                   *)
(***************************************************************************)
EXTENDS Naturals

CONSTANTS
    Lengths,        \* the sample lengths a write to $4013 can ask for
    Bits,           \* output clocks of one sample byte (8 in start_cycle)
    FirstDelay,     \* to the first clock after a write to $4017 (7458)
    Periods4,       \* added to next_clock_ by the steps of mode 0
    Periods5        \* and by those of mode 1

ASSUME LengthsAssumption == Lengths \subseteq Nat \ {0}
ASSUME BitsAssumption == Bits \in Nat /\ Bits > 3
ASSUME PeriodsAssumption ==
    /\ FirstDelay \in Nat \ {0}
    /\ Periods4 \in [0..5 -> Nat \ {0}]
    /\ Periods5 \in [0..4 -> Nat \ {0}]

\* The parities of the six-step sequence.
ASSUME ParityAssumption ==
    /\ FirstDelay % 2 = 0
    /\ \A s \in 0..5 : Periods4[s] % 2 = (IF s \in 2..5 THEN 1 ELSE 0)

VARIABLES
    phase,          \* whose half of the cycle is next
    mode, inhibit,  \* frame_counter_
    step,           \* clock_step_
    until,          \* next_clock_ - apu_cycles_
    odd,            \* apu_cycles_ & 1
    frame_irq, dmc_irq,             \* status
    line,           \* APU_IRQ in the CPU's irq_sources_
    irq_enabled, loop, length,      \* $4010 and $4013
    bytes, bits, buffer_empty,      \* the DMC's reader and output unit
    fetch           \* CPU cycles to the hand-over of a scheduled fetch

frameVars == <<mode, inhibit, step, until, odd>>
control   == <<irq_enabled, loop, length>>
dmcVars   == <<bytes, bits, buffer_empty, fetch>>
vars == <<phase, frameVars, frame_irq, dmc_irq, line, control, dmcVars>>

Periods == IF mode = 1 THEN Periods5 ELSE Periods4
Steps   == IF mode = 1 THEN 5 ELSE 6

-----------------------------------------------------------------------------
(***************************************************************************)
(* A clock of the DMC's output unit, with remaining bytes to fetch and     *)
(* irq what the DMC's flag was: at the end of a byte the next output cycle *)
(* empties the buffer and schedules the fetch of another byte, if any.     *)
(* CpuDma makes that fetch take two or three CPU cycles.                   *)
(***************************************************************************)
StartsCycle(remaining) == bits <= 1 /\ remaining # 0

\* The last byte of a sample that does not loop raises the interrupt.
RaisesIrq(remaining) ==
    StartsCycle(remaining) /\ remaining = 1 /\ ~loop /\ irq_enabled

\* A mutant: start_cycle() leaves the bit counter alone.
OutputClockKeepsBits(remaining, irq) ==
    /\ dmc_irq' = (irq \/ RaisesIrq(remaining))
    /\ IF StartsCycle(remaining)
       THEN /\ bits' = bits
            /\ buffer_empty' = TRUE
            /\ fetch' \in {2, 3}
            /\ bytes' = (IF remaining > 1 THEN remaining - 1
                         ELSE IF loop THEN length ELSE 0)
       ELSE /\ bits' = (IF bits = 0 THEN 0 ELSE bits - 1)
            /\ bytes' = remaining
            /\ UNCHANGED <<buffer_empty, fetch>>

OutputClock(remaining, irq) ==
    /\ dmc_irq' = (irq \/ RaisesIrq(remaining))
    /\ IF StartsCycle(remaining)
       THEN /\ bits' = Bits
            /\ buffer_empty' = TRUE
            /\ fetch' \in {2, 3}
            /\ bytes' = (IF remaining > 1 THEN remaining - 1
                         ELSE IF loop THEN length ELSE 0)
       ELSE /\ bits' = (IF bits = 0 THEN 0 ELSE bits - 1)
            /\ bytes' = remaining
            /\ UNCHANGED <<buffer_empty, fetch>>

\* clear_irq(APU_IRQ) once neither flag is set (status.irq_firing).
Release == line' = (line /\ (frame_irq' \/ dmc_irq'))

Accessed == phase = "cpu" /\ fetch = 0 /\ phase' = "apu"

-----------------------------------------------------------------------------
(* The CPU's half of a cycle.                                              *)
Idle ==
    /\ Accessed
    /\ UNCHANGED <<frameVars, frame_irq, dmc_irq, line, control, dmcVars>>

\* A cycle of the sample fetch; its last one is load_sample_buffer().
FetchCycle ==
    /\ phase = "cpu" /\ fetch > 0 /\ phase' = "apu"
    /\ fetch' = fetch - 1
    /\ buffer_empty' = (buffer_empty /\ fetch > 1)
    /\ UNCHANGED <<frameVars, frame_irq, dmc_irq, line, control, bytes, bits>>

\* A mutant: reading the status releases the line whatever the DMC's flag is.
Read4015DropsLine ==
    /\ Accessed
    /\ frame_irq' = FALSE
    /\ line' = FALSE
    /\ UNCHANGED <<frameVars, dmc_irq, control, dmcVars>>

Read4015 ==
    /\ Accessed
    /\ frame_irq' = FALSE
    /\ UNCHANGED dmc_irq
    /\ Release
    /\ UNCHANGED <<frameVars, control, dmcVars>>

Write4010(irq, lp) ==
    /\ Accessed
    /\ irq_enabled' = irq /\ loop' = lp
    /\ dmc_irq' = (dmc_irq /\ irq)
    /\ UNCHANGED frame_irq
    /\ IF irq THEN UNCHANGED line ELSE Release
    /\ UNCHANGED <<frameVars, length, dmcVars>>

Write4013(n) ==
    /\ Accessed
    /\ length' = n
    /\ bytes' = (IF bytes = 0 THEN n ELSE bytes)
    /\ UNCHANGED <<frameVars, frame_irq, dmc_irq, line, irq_enabled, loop,
                   bits, buffer_empty, fetch>>

\* Enabling the channel clocks its output unit, whether it plays or not.
Write4015(enable) ==
    /\ Accessed
    /\ UNCHANGED frame_irq
    /\ \/ /\ enable
          /\ LET remaining == IF bytes = 0 THEN length ELSE bytes IN
             /\ OutputClock(remaining, FALSE)
             /\ line' = (RaisesIrq(remaining) \/ (line /\ frame_irq))
       \/ /\ ~enable
          /\ bytes' = 0
          /\ dmc_irq' = FALSE
          /\ Release
          /\ UNCHANGED <<bits, buffer_empty, fetch>>
    /\ UNCHANGED <<frameVars, control>>

\* The first clock comes in the next cycle (mode 1) or after a delay that ends
\* in an odd cycle (mode 0).
UntilFirst(m, o) == IF m = 1 THEN 1 ELSE (IF o THEN 1 ELSE 0) + 1 + FirstDelay

\* A mutant: the new mode goes on from the step the old one was at.
Write4017KeepsStep(m, i) ==
    /\ Accessed
    /\ mode' = m /\ inhibit' = i /\ UNCHANGED step
    /\ until' = UntilFirst(m, odd)
    /\ frame_irq' = (frame_irq /\ ~i)
    /\ UNCHANGED <<odd, dmc_irq, control, dmcVars>>
    /\ IF i THEN Release ELSE UNCHANGED line

Write4017(m, i) ==
    /\ Accessed
    /\ mode' = m /\ inhibit' = i /\ step' = 0
    /\ until' = UntilFirst(m, odd)
    /\ frame_irq' = (frame_irq /\ ~i)
    /\ UNCHANGED <<odd, dmc_irq, control, dmcVars>>
    /\ IF i THEN Release ELSE UNCHANGED line

CpuHalf ==
    \/ Idle \/ FetchCycle \/ Read4015
    \/ \E irq, lp \in BOOLEAN : Write4010(irq, lp)
    \/ \E n \in Lengths : Write4013(n)
    \/ \E enable \in BOOLEAN : Write4015(enable)
    \/ \E m \in {0, 1}, i \in BOOLEAN : Write4017(m, i)

-----------------------------------------------------------------------------
(* apu::tick(): the line follows the frame flag of the cycle before, then   *)
(* the frame counter and the DMC's timer run.                               *)

\* A mutant: the inhibit bit stops the sequence and not only the interrupt.
FrameClockStops ==
    /\ until' = until + Periods[step] - 1
    /\ step' = (IF inhibit THEN step ELSE (step + 1) % Steps)
    /\ frame_irq' = (frame_irq \/ (mode = 0 /\ step \in 3..5 /\ ~inhibit))

FrameClock ==
    /\ until' = until + Periods[step] - 1
    /\ step' = (step + 1) % Steps
    /\ frame_irq' = (frame_irq \/ (mode = 0 /\ step \in 3..5 /\ ~inhibit))

Raise(fires) ==
    line' = (line \/ (frame_irq /\ ~inhibit) \/ (fires /\ RaisesIrq(bytes)))

ApuTickWith(fires) ==
    /\ phase = "apu" /\ phase' = "cpu"
    /\ IF until = 0 THEN FrameClock
       ELSE until' = until - 1 /\ UNCHANGED <<step, frame_irq>>
    /\ Raise(fires)
    /\ IF fires THEN OutputClock(bytes, dmc_irq)
       ELSE UNCHANGED <<dmc_irq, dmcVars>>
    /\ odd' = ~odd
    /\ UNCHANGED <<mode, inhibit, control>>

ApuTick == \E fires \in BOOLEAN : ApuTickWith(fires)

-----------------------------------------------------------------------------
(***************************************************************************)
(* apu::reset(), after cpu::reset().  A soft one writes the last value of  *)
(* $4017 again; cpu::reset() ends the fetch unless RST is running.  A hard *)
(* one runs two ticks more, too few for anything to fire.                  *)
(***************************************************************************)
Registers ==
    /\ frame_irq' = FALSE /\ dmc_irq' = FALSE /\ line' = FALSE
    /\ irq_enabled' = FALSE /\ loop' = FALSE
    /\ bytes' = 0
    /\ step' = 0 /\ odd' = FALSE
    /\ UNCHANGED <<phase, length, bits, buffer_empty>>

SoftReset ==
    /\ Registers
    /\ until' = UntilFirst(mode, FALSE)
    /\ fetch' \in {0, fetch}
    /\ UNCHANGED <<mode, inhibit>>

HardReset ==
    /\ Registers
    /\ mode' = 0 /\ inhibit' = FALSE
    /\ until' = UntilFirst(0, FALSE) - 2
    /\ fetch' = 0

\* The emulation thread resets between two frames.
Reset == phase = "cpu" /\ (SoftReset \/ HardReset)

\* The state after the hard reset of a game that was just loaded.
Init ==
    /\ phase = "cpu"
    /\ mode = 0 /\ inhibit = FALSE /\ step = 0
    /\ until = UntilFirst(0, FALSE) - 2 /\ odd = FALSE
    /\ frame_irq = FALSE /\ dmc_irq = FALSE /\ line = FALSE
    /\ irq_enabled = FALSE /\ loop = FALSE /\ length = 0
    /\ bytes = 0 /\ bits = 0 /\ buffer_empty = TRUE /\ fetch = 0

Next == CpuHalf \/ ApuTick \/ Reset

\* The frame loop ticks the CPU and the APU in turn.
Spec == Init /\ [][Next]_vars /\ WF_vars(CpuHalf) /\ WF_vars(ApuTick)

-----------------------------------------------------------------------------
\* Every variable stays within its type; next_clock_ is never in the past, so
\* that the comparison apu_cycles_ == next_clock_ is not missed.
TypeOK ==
    /\ phase \in {"cpu", "apu"}
    /\ mode \in {0, 1} /\ inhibit \in BOOLEAN /\ odd \in BOOLEAN
    /\ step \in 0..(Steps - 1)
    /\ until \in Nat
    /\ frame_irq \in BOOLEAN /\ dmc_irq \in BOOLEAN /\ line \in BOOLEAN
    /\ irq_enabled \in BOOLEAN /\ loop \in BOOLEAN
    /\ length \in Lengths \cup {0} /\ bytes \in Nat
    /\ bits \in 0..Bits /\ fetch \in 0..3
    /\ buffer_empty \in BOOLEAN

(***************************************************************************)
(* The APU holds the IRQ line only for a flag that $4015 shows: every way  *)
(* to acknowledge one source releases the line unless the other needs it.  *)
(***************************************************************************)
LineHasCause == line => frame_irq \/ dmc_irq

(***************************************************************************)
(* And the DMC's flag, which is raised once and not in every cycle, keeps  *)
(* the line whatever is acknowledged meanwhile.                            *)
(***************************************************************************)
DmcIrqOnLine == dmc_irq => line

\* A flag is never set while its source is switched off, resets included.
FlagsRespectEnables == (frame_irq => ~inhibit) /\ (dmc_irq => irq_enabled)

\* The two sources and the line they share stay consistent: each of the parts.
FlagsAndLine == TypeOK /\ LineHasCause /\ DmcIrqOnLine /\ FlagsRespectEnables

(***************************************************************************)
(* In mode 0 every step of the sequence has its own half of the APU's      *)
(* two-cycle clock, in whatever cycle $4017 was written and however often  *)
(* the sequence came round ("4017 jitter").                                *)
(***************************************************************************)
ClockIsOdd == (until % 2 = 0) = odd
SequenceAligned == mode = 0 => (ClockIsOdd = (step \notin {3, 5}))

(***************************************************************************)
(* The DMC never schedules a fetch over one that is under way, and never   *)
(* loads a byte over one that was not played: the single buffer and the    *)
(* CPU's single set of DMA registers are enough.                           *)
(***************************************************************************)
FetchesDoNotOverlap == [][fetch > 0 => fetch' < fetch \/ fetch' = fetch]_vars
NoByteOverwritten == fetch > 0 => buffer_empty
OneFetchAtATime == []NoByteOverwritten /\ FetchesDoNotOverlap

\* The frame counter's sequence comes round again and again once $4017 is left
\* alone: no clock is missed, in either mode and from whatever step.
Restarts == Reset \/ \E m \in {0, 1}, i \in BOOLEAN : Write4017(m, i)
FrameCounterRuns ==
    <>[][~Restarts]_vars => ([]<>(step = 0) /\ []<>(step = Steps - 1))

\* "once loaded with a sample it will be eventually output" (apu_ref.txt).
LoadedByteIsOutput == ~buffer_empty ~> buffer_empty
=============================================================================
