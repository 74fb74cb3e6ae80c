------------------------------ MODULE Apu_proof ------------------------------
(***************************************************************************)
(* What holds of the APU and of the controllers for every frame period,    *)
(* sample length, length table, volume, ring and pad.                      *)
(***************************************************************************)
EXTENDS MCApu, TLAPS

-----------------------------------------------------------------------------
(***************************************************************************)
(* Who holds the IRQ line, and that the DMC's fetches never meet, for      *)
(* every length of a byte above three output clocks.                       *)
(***************************************************************************)
FlagTypes ==
    /\ inhibit \in BOOLEAN /\ frame_irq \in BOOLEAN /\ dmc_irq \in BOOLEAN
    /\ line \in BOOLEAN /\ irq_enabled \in BOOLEAN /\ loop \in BOOLEAN
    /\ buffer_empty \in BOOLEAN

\* The two flags and the line they share.
IrqInv == FlagTypes /\ LineHasCause /\ DmcIrqOnLine /\ FlagsRespectEnables

LEMMA IrqInvInit == Init => IrqInv
  BY DEF Init, IrqInv, FlagTypes, LineHasCause, DmcIrqOnLine, FlagsRespectEnables

\* An output clock raises the flag of an enabled interrupt only.
LEMMA ClockRaises ==
    ASSUME IrqInv, NEW remaining, NEW irq \in BOOLEAN, OutputClock(remaining, irq)
    PROVE  /\ dmc_irq' \in BOOLEAN /\ buffer_empty' \in BOOLEAN
           /\ RaisesIrq(remaining) \in BOOLEAN
           /\ dmc_irq' <=> (irq \/ RaisesIrq(remaining))
           /\ RaisesIrq(remaining) => irq_enabled
<1>1. RaisesIrq(remaining) \in BOOLEAN /\ (RaisesIrq(remaining) => irq_enabled)
  BY Zenon DEF RaisesIrq, StartsCycle
<1>2. dmc_irq' = (irq \/ RaisesIrq(remaining))
  BY Zenon DEF OutputClock
<1>3. buffer_empty' = TRUE \/ buffer_empty' = buffer_empty
  BY Zenon DEF OutputClock
<1>4. buffer_empty \in BOOLEAN
  BY Zenon DEF IrqInv, FlagTypes
<1> QED
  BY <1>1, <1>2, <1>3, <1>4, Zenon

LEMMA IrqInvNext == IrqInv /\ [Next]_vars => IrqInv'
<1> SUFFICES ASSUME IrqInv, [Next]_vars
             PROVE  IrqInv'
  OBVIOUS
<1> USE DEF IrqInv, FlagTypes, LineHasCause, DmcIrqOnLine, FlagsRespectEnables
<1>1. CASE Idle
  BY <1>1 DEF Idle, frameVars, control, dmcVars
<1>2. CASE FetchCycle
  BY <1>2 DEF FetchCycle, frameVars, control
<1>3. CASE Read4015
  BY <1>3 DEF Read4015, Release, frameVars, control, dmcVars
<1>4. ASSUME NEW irq \in BOOLEAN, NEW lp \in BOOLEAN, Write4010(irq, lp)
      PROVE  IrqInv'
  BY <1>4 DEF Write4010, Release, frameVars, dmcVars
<1>5. ASSUME NEW n \in Lengths, Write4013(n)
      PROVE  IrqInv'
  BY <1>5 DEF Write4013, frameVars
<1>6. ASSUME NEW enable \in BOOLEAN, Write4015(enable)
      PROVE  IrqInv'
  <2>1. UNCHANGED <<inhibit, frame_irq, irq_enabled, loop>>
    BY <1>6 DEF Write4015, frameVars, control
  <2>2. CASE enable
    <3>1. PICK remaining : /\ OutputClock(remaining, FALSE)
                           /\ line' = (RaisesIrq(remaining) \/ (line /\ frame_irq))
      BY <1>6, <2>2 DEF Write4015
    <3>2. /\ dmc_irq' \in BOOLEAN /\ buffer_empty' \in BOOLEAN
          /\ RaisesIrq(remaining) \in BOOLEAN
          /\ dmc_irq' <=> RaisesIrq(remaining)
          /\ RaisesIrq(remaining) => irq_enabled
      BY <3>1, ClockRaises
    <3> QED
      BY <2>1, <3>1, <3>2
  <2>3. CASE ~enable
    <3>1. dmc_irq' = FALSE /\ buffer_empty' = buffer_empty
          /\ line' = (line /\ (frame_irq' \/ dmc_irq'))
      BY <1>6, <2>3, Zenon DEF Write4015, Release
    <3> QED
      BY <2>1, <3>1
  <2> QED
    BY <2>2, <2>3
<1>7. ASSUME NEW m \in {0, 1}, NEW i \in BOOLEAN, Write4017(m, i)
      PROVE  IrqInv'
  BY <1>7 DEF Write4017, Release, control, dmcVars
<1>8. ASSUME NEW fires \in BOOLEAN, ApuTickWith(fires)
      PROVE  IrqInv'
  <2>1. UNCHANGED <<inhibit, irq_enabled, loop>>
    BY <1>8 DEF ApuTickWith, control
  <2>2. frame_irq' \in BOOLEAN /\ (frame_irq => frame_irq') /\ (frame_irq' => ~inhibit)
    BY <1>8 DEF ApuTickWith, FrameClock
  <2>3. line' = (line \/ (frame_irq /\ ~inhibit) \/ (fires /\ RaisesIrq(bytes)))
    BY <1>8 DEF ApuTickWith, Raise
  <2>4. /\ dmc_irq' \in BOOLEAN /\ buffer_empty' \in BOOLEAN
        /\ RaisesIrq(bytes) \in BOOLEAN
        /\ dmc_irq' <=> (dmc_irq \/ (fires /\ RaisesIrq(bytes)))
        /\ (fires /\ RaisesIrq(bytes)) => irq_enabled
    <3>1. CASE fires
      <4>1. OutputClock(bytes, dmc_irq)
        BY <1>8, <3>1 DEF ApuTickWith
      <4> QED
        BY <3>1, <4>1, ClockRaises
    <3>2. CASE ~fires
      BY <1>8, <3>2 DEF ApuTickWith, dmcVars, RaisesIrq, StartsCycle
    <3> QED
      BY <3>1, <3>2
  <2> QED
    BY <2>1, <2>2, <2>3, <2>4
<1>9. CASE Reset
  <2>1. Registers /\ (inhibit' = inhibit \/ inhibit' = FALSE)
    BY <1>9 DEF Reset, SoftReset, HardReset
  <2> QED
    BY <2>1 DEF Registers
<1>10. CASE UNCHANGED vars
  BY <1>10 DEF vars, frameVars, control, dmcVars
<1> QED
  BY <1>1, <1>2, <1>3, <1>4, <1>5, <1>6, <1>7, <1>8, <1>9, <1>10
  DEF Next, CpuHalf, ApuTick

\* The flags, the line and the enables stay consistent in every execution.
THEOREM IrqInvariant == Spec => []IrqInv
  BY IrqInvInit, IrqInvNext, PTL DEF Spec

\* The APU holds the IRQ line only for a flag that is set.
THEOREM LineHasCauseHolds == Spec => []LineHasCause
<1>1. IrqInv => LineHasCause
  BY DEF IrqInv
<1> QED
  BY <1>1, IrqInvariant, PTL

\* The DMC's flag keeps the line, whatever is acknowledged or written.
THEOREM DmcIrqOnLineHolds == Spec => []DmcIrqOnLine
<1>1. IrqInv => DmcIrqOnLine
  BY DEF IrqInv
<1> QED
  BY <1>1, IrqInvariant, PTL

\* No flag is set while its source is switched off.
THEOREM FlagsRespectEnablesHolds == Spec => []FlagsRespectEnables
<1>1. IrqInv => FlagsRespectEnables
  BY DEF IrqInv
<1> QED
  BY <1>1, IrqInvariant, PTL

-----------------------------------------------------------------------------
(***************************************************************************)
(* Why the fetches do not meet: a fetch of at most three CPU cycles began  *)
(* with all the bits of a byte to go, and at most one output clock comes   *)
(* with each of its cycles.                                                *)
(***************************************************************************)
FetchInv ==
    /\ bits \in 0..Bits /\ fetch \in 0..3
    /\ phase \in {"cpu", "apu"}
    /\ fetch > 0 =>
         /\ buffer_empty = TRUE
         /\ bits >= Bits - 4 + fetch
         /\ phase = "apu" => bits >= Bits - 3 + fetch

\* An output clock while a fetch is under way only counts the bits down.
LEMMA ClockDuringFetch ==
    ASSUME FetchInv, NEW remaining, NEW irq, OutputClock(remaining, irq)
    PROVE  \/ /\ bits' = Bits /\ buffer_empty' = TRUE /\ fetch' \in {2, 3}
              /\ bits <= 1
           \/ /\ bits' = (IF bits = 0 THEN 0 ELSE bits - 1)
              /\ UNCHANGED <<buffer_empty, fetch>>
  BY DEF OutputClock, StartsCycle

\* A fetch that is scheduled now has all the bits of a byte to go.
LEMMA FetchBegins ==
    ASSUME bits' = Bits, buffer_empty' = TRUE, fetch' \in {2, 3},
           phase' \in {"cpu", "apu"}
    PROVE  FetchInv'
<1>1. /\ Bits >= Bits - 4 + fetch' /\ Bits >= Bits - 3 + fetch'
      /\ Bits \in 0..Bits /\ fetch' \in 0..3
  <2>1. CASE fetch' = 2
    BY <2>1, BitsAssumption
  <2>2. CASE fetch' = 3
    BY <2>2, BitsAssumption
  <2> QED
    BY <2>1, <2>2
<1> QED
  BY <1>1 DEF FetchInv

LEMMA FetchInvNext == FetchInv /\ [Next]_vars => FetchInv'
<1> SUFFICES ASSUME FetchInv, [Next]_vars
             PROVE  FetchInv'
  OBVIOUS
<1> USE BitsAssumption DEF FetchInv
<1>1. CASE Idle
  BY <1>1 DEF Idle, Accessed, dmcVars
<1>2. CASE FetchCycle
  <2>1. /\ phase = "cpu" /\ phase' = "apu" /\ fetch > 0
        /\ fetch' = fetch - 1 /\ bits' = bits
    BY <1>2 DEF FetchCycle
  <2>2. buffer_empty' <=> (buffer_empty /\ fetch > 1)
    BY <1>2, Zenon DEF FetchCycle
  <2>3. fetch' > 0 => buffer_empty' = TRUE
    <3>1. fetch' > 0 => fetch > 1
      BY <2>1
    <3>2. buffer_empty' \in BOOLEAN
      BY <1>2, Zenon DEF FetchCycle
    <3> QED
      BY <2>1, <2>2, <3>1, <3>2
  <2> QED
    BY <2>1, <2>3
<1>3. CASE Read4015
  BY <1>3 DEF Read4015, Accessed, dmcVars
<1>4. ASSUME NEW irq \in BOOLEAN, NEW lp \in BOOLEAN, Write4010(irq, lp)
      PROVE  FetchInv'
  BY <1>4 DEF Write4010, Accessed, dmcVars
<1>5. ASSUME NEW n \in Lengths, Write4013(n)
      PROVE  FetchInv'
  BY <1>5 DEF Write4013, Accessed
<1>6. ASSUME NEW enable \in BOOLEAN, Write4015(enable)
      PROVE  FetchInv'
  <2>1. phase' = "apu" /\ fetch = 0
    BY <1>6 DEF Write4015, Accessed
  <2>2. CASE enable
    <3>1. PICK remaining : OutputClock(remaining, FALSE)
      BY <1>6, <2>2 DEF Write4015
    <3>2. CASE bits' = Bits /\ buffer_empty' = TRUE /\ fetch' \in {2, 3}
      BY <2>1, <3>2, FetchBegins
    <3>3. CASE bits' = (IF bits = 0 THEN 0 ELSE bits - 1)
               /\ UNCHANGED <<buffer_empty, fetch>>
      BY <2>1, <3>3
    <3> QED
      BY <3>1, <3>2, <3>3, ClockDuringFetch
  <2>3. CASE ~enable
    <3>1. UNCHANGED <<bits, buffer_empty, fetch>>
      BY <1>6, <2>3, Zenon DEF Write4015
    <3> QED
      BY <2>1, <3>1
  <2> QED
    BY <2>2, <2>3
<1>7. ASSUME NEW m \in {0, 1}, NEW i \in BOOLEAN, Write4017(m, i)
      PROVE  FetchInv'
  BY <1>7 DEF Write4017, Accessed, dmcVars
<1>8. ASSUME NEW fires \in BOOLEAN, ApuTickWith(fires)
      PROVE  FetchInv'
  <2>1. phase = "apu" /\ phase' = "cpu"
    BY <1>8 DEF ApuTickWith
  <2>2. CASE fires
    <3>1. OutputClock(bytes, dmc_irq)
      BY <1>8, <2>2 DEF ApuTickWith
    <3>2. CASE bits' = Bits /\ buffer_empty' = TRUE /\ fetch' \in {2, 3}
      BY <2>1, <3>2, FetchBegins
    <3>3. CASE bits' = (IF bits = 0 THEN 0 ELSE bits - 1)
               /\ UNCHANGED <<buffer_empty, fetch>>
      BY <2>1, <3>3
    <3> QED
      BY <3>1, <3>2, <3>3, ClockDuringFetch
  <2>3. CASE ~fires
    BY <1>8, <2>1, <2>3 DEF ApuTickWith, dmcVars
  <2> QED
    BY <2>2, <2>3
<1>9. CASE Reset
  <2>1. phase = "cpu" /\ UNCHANGED <<phase, bits, buffer_empty>>
    BY <1>9 DEF Reset, SoftReset, HardReset, Registers
  <2>2. fetch' = 0 \/ fetch' = fetch
    BY <1>9 DEF Reset, SoftReset, HardReset
  <2> QED
    BY <2>1, <2>2
<1>10. CASE UNCHANGED vars
  BY <1>10 DEF vars, dmcVars
<1> QED
  BY <1>1, <1>2, <1>3, <1>4, <1>5, <1>6, <1>7, <1>8, <1>9, <1>10
  DEF Next, CpuHalf, ApuTick

\* Bits, buffer and fetch keep that relation in every execution.
THEOREM FetchInvariant == Spec => []FetchInv
<1>1. Init => FetchInv
  BY BitsAssumption DEF Init, FetchInv
<1> QED
  BY <1>1, FetchInvNext, PTL DEF Spec

\* No sample byte is loaded over one that was not emptied into the output unit.
THEOREM NoByteOverwrittenHolds == Spec => []NoByteOverwritten
<1>1. FetchInv => NoByteOverwritten
  BY DEF FetchInv, NoByteOverwritten
<1> QED
  BY <1>1, FetchInvariant, PTL

\* A step taken during a fetch never schedules another one.
LEMMA FetchOnlyCountsDown ==
    ASSUME FetchInv, [Next]_vars, fetch > 0
    PROVE  fetch' < fetch \/ fetch' = fetch
<1> USE BitsAssumption DEF FetchInv
<1>1. CASE CpuHalf
  <2>1. FetchCycle \/ fetch = 0
    BY <1>1, Zenon DEF CpuHalf, Idle, Read4015, Write4010, Write4013, Write4015,
                       Write4017, Accessed
  <2> QED
    BY <2>1 DEF FetchCycle
<1>2. ASSUME NEW fires \in BOOLEAN, ApuTickWith(fires)
      PROVE  fetch' = fetch
  <2>1. bits > 1 /\ bits \in Nat
    BY <1>2 DEF ApuTickWith
  <2>2. CASE fires
    <3>1. OutputClock(bytes, dmc_irq)
      BY <1>2, <2>2 DEF ApuTickWith
    <3>2. ~StartsCycle(bytes)
      BY <2>1 DEF StartsCycle
    <3> QED
      BY <3>1, <3>2, Zenon DEF OutputClock
  <2>3. CASE ~fires
    BY <1>2, <2>3 DEF ApuTickWith, dmcVars
  <2> QED
    BY <2>2, <2>3
<1>3. CASE Reset
  BY <1>3 DEF Reset, SoftReset, HardReset
<1>4. CASE UNCHANGED vars
  BY <1>4 DEF vars, dmcVars
<1> QED
  BY <1>1, <1>2, <1>3, <1>4 DEF Next, ApuTick

\* The CPU's one set of DMC registers is never overwritten by a second fetch.
THEOREM FetchesDoNotOverlapHolds == Spec => FetchesDoNotOverlap
<1>1. FetchInv /\ [Next]_vars => [fetch > 0 => fetch' < fetch \/ fetch' = fetch]_vars
  BY FetchOnlyCountsDown
<1> QED
  BY <1>1, FetchInvariant, PTL DEF Spec, FetchesDoNotOverlap

-----------------------------------------------------------------------------
(***************************************************************************)
(* The frame counter: the clock is never in the past, the step is one of   *)
(* the mode's, and in mode 0 the parities of the periods keep each step on *)
(* its half of the APU's clock.                                            *)
(***************************************************************************)
CounterInv ==
    /\ mode \in {0, 1} /\ inhibit \in BOOLEAN /\ odd \in BOOLEAN
    /\ step \in 0..(Steps - 1) /\ until \in Nat
    /\ SequenceAligned

\* A write to $4017 and the resets begin a sequence at its first step.
LEMMA SequenceBegins ==
    ASSUME NEW m \in {0, 1}, NEW o \in BOOLEAN, NEW early \in {0, 2},
           m = 1 => early = 0
    PROVE  /\ UntilFirst(m, o) - early \in Nat
           /\ m = 0 => (((UntilFirst(m, o) - early) % 2 = 0) <=> o)
  BY PeriodsAssumption, ParityAssumption DEF UntilFirst

LEMMA CounterInvInit == Init => CounterInv
<1> SUFFICES ASSUME Init PROVE CounterInv
  OBVIOUS
<1>1. /\ UntilFirst(0, FALSE) - 2 \in Nat
      /\ (UntilFirst(0, FALSE) - 2) % 2 # 0
  BY SequenceBegins
<1>2. /\ mode = 0 /\ step = 0 /\ until = UntilFirst(0, FALSE) - 2
      /\ odd = FALSE /\ inhibit = FALSE
  BY DEF Init
<1>3. until % 2 # 0 /\ until \in Nat
  BY <1>1, <1>2
<1>4. inhibit \in BOOLEAN /\ odd \in BOOLEAN /\ ~odd
  BY <1>2, Zenon
<1>5. step \notin {3, 5} /\ step \in 0..(Steps - 1) /\ mode \in {0, 1}
  BY <1>2 DEF Steps
<1>6. SequenceAligned
  BY <1>3, <1>4, <1>5 DEF SequenceAligned, ClockIsOdd
<1> QED
  BY <1>3, <1>4, <1>5, <1>6, Zenon DEF CounterInv

\* The steps that begin a sequence.
LEMMA BegunInv ==
    ASSUME mode' \in {0, 1}, inhibit' \in BOOLEAN, odd' \in BOOLEAN, step' = 0,
           NEW early \in {0, 2}, mode' = 1 => early = 0,
           until' = UntilFirst(mode', odd') - early
    PROVE  CounterInv'
<1>1. /\ until' \in Nat
      /\ mode' = 0 => ((until' % 2 = 0) <=> odd')
  BY SequenceBegins
<1>2. 0 \in 0..(Steps' - 1)
  BY DEF Steps
<1> QED
  BY <1>1, <1>2 DEF CounterInv, SequenceAligned, ClockIsOdd

\* A clock in mode 0 goes from each step to the parity of the next.
LEMMA ClockAligned ==
    ASSUME CounterInv, mode = 0, until = 0, FrameClock, odd' = ~odd, mode' = mode
    PROVE  SequenceAligned'
<1> USE DEF CounterInv, SequenceAligned, ClockIsOdd, Steps
<1>1. odd = (step \notin {3, 5}) /\ step \in 0..5
  OBVIOUS
<1>2. Periods4[step] \in Nat \ {0} /\ Periods4[step] % 2 = (IF step \in 2..5 THEN 1 ELSE 0)
  BY <1>1, PeriodsAssumption, ParityAssumption
<1>3. until' = Periods4[step] - 1 /\ step' = (step + 1) % 6
  BY <1>2 DEF FrameClock, Periods
<1>4. (until' % 2 = 0) <=> step \in 2..5
  BY <1>1, <1>2, <1>3
<1>5. step' \in {3, 5} <=> step \in {2, 4}
  BY <1>1, <1>3
<1>6. odd' <=> step \in {3, 5}
  BY <1>1, Zenon
<1>7. ((until' % 2 = 0) <=> odd') <=> (step' \notin {3, 5})
  BY <1>1, <1>4, <1>5, <1>6
<1>8. odd' \in BOOLEAN
  BY Zenon
<1> QED
  BY <1>7, <1>8

LEMMA CounterInvNext == CounterInv /\ [Next]_vars => CounterInv'
<1> SUFFICES ASSUME CounterInv, [Next]_vars
             PROVE  CounterInv'
  OBVIOUS
<1>1. CASE UNCHANGED frameVars
  BY <1>1 DEF CounterInv, frameVars, SequenceAligned, ClockIsOdd, Steps
<1>2. ASSUME NEW m \in {0, 1}, NEW i \in BOOLEAN, Write4017(m, i)
      PROVE  CounterInv'
  <2>1. /\ mode' = m /\ inhibit' = i /\ step' = 0 /\ odd' = odd
        /\ until' = UntilFirst(m, odd)
    BY <1>2 DEF Write4017
  <2>2. UntilFirst(m, odd) \in Nat
    BY PeriodsAssumption DEF CounterInv, UntilFirst
  <2> QED
    BY <2>1, <2>2, BegunInv, SequenceBegins DEF CounterInv
<1>3. ASSUME NEW fires \in BOOLEAN, ApuTickWith(fires)
      PROVE  CounterInv'
  <2>1. UNCHANGED <<mode, inhibit>> /\ odd' = ~odd /\ odd' \in BOOLEAN
    BY <1>3 DEF ApuTickWith, CounterInv
  <2>2. CASE until = 0
    <3>1. FrameClock
      BY <1>3, <2>2 DEF ApuTickWith
    <3>2. step' \in 0..(Steps - 1) /\ until' \in Nat
      BY <2>2, <3>1, PeriodsAssumption DEF FrameClock, CounterInv, Steps, Periods
    <3>3. mode = 0 => SequenceAligned'
      BY <2>1, <2>2, <3>1, ClockAligned
    <3> QED
      BY <2>1, <3>2, <3>3 DEF CounterInv, SequenceAligned, Steps
  <2>3. CASE until # 0
    <3>1. until' = until - 1 /\ step' = step
      BY <1>3, <2>3 DEF ApuTickWith
    <3> QED
      BY <2>1, <2>3, <3>1 DEF CounterInv, SequenceAligned, ClockIsOdd, Steps
  <2> QED
    BY <2>2, <2>3
<1>4. CASE Reset
  <2>1. step' = 0 /\ odd' = FALSE
    BY <1>4 DEF Reset, SoftReset, HardReset, Registers
  <2>2. CASE SoftReset
    <3>1. mode' = mode /\ inhibit' = inhibit /\ until' = UntilFirst(mode, FALSE)
      BY <2>2 DEF SoftReset
    <3>2. UntilFirst(mode, FALSE) = UntilFirst(mode', odd') - 0
      BY <2>1, <3>1, PeriodsAssumption DEF UntilFirst
    <3> QED
      BY <2>1, <3>1, <3>2, BegunInv DEF CounterInv
  <2>3. CASE HardReset
    <3>1. mode' = 0 /\ inhibit' = FALSE /\ until' = UntilFirst(0, FALSE) - 2
      BY <2>3 DEF HardReset
    <3> QED
      BY <2>1, <3>1, BegunInv
  <2> QED
    BY <1>4, <2>2, <2>3 DEF Reset
<1> QED
  BY <1>1, <1>2, <1>3, <1>4
  DEF Next, CpuHalf, ApuTick, Idle, FetchCycle, Read4015, Write4010, Write4013,
      Write4015, vars

\* Mode 0 keeps its steps aligned, from whatever cycle $4017 was written in.
THEOREM SequenceAlignedHolds == Spec => []SequenceAligned
<1>1. CounterInv => SequenceAligned
  BY DEF CounterInv
<1> QED
  BY <1>1, CounterInvInit, CounterInvNext, PTL DEF Spec

-----------------------------------------------------------------------------
(* The DMC's counters.                                                     *)
SampleInv == length \in Lengths \cup {0} /\ bytes \in Nat

LEMMA SampleInvNext == SampleInv /\ [Next]_vars => SampleInv'
<1> SUFFICES ASSUME SampleInv, [Next]_vars
             PROVE  SampleInv'
  OBVIOUS
<1> USE LengthsAssumption DEF SampleInv
<1>2. ASSUME NEW remaining \in Nat, NEW irq, OutputClock(remaining, irq)
      PROVE  bytes' \in Nat
  BY <1>2 DEF OutputClock, StartsCycle
<1>3. ASSUME NEW n \in Lengths, Write4013(n)
      PROVE  SampleInv'
  BY <1>3 DEF Write4013
<1>4. ASSUME NEW enable \in BOOLEAN, Write4015(enable)
      PROVE  SampleInv'
  <2>1. length' = length
    BY <1>4 DEF Write4015, control
  <2>2. CASE enable
    <3>1. OutputClock(IF bytes = 0 THEN length ELSE bytes, FALSE)
      BY <1>4, <2>2 DEF Write4015
    <3> QED
      BY <2>1, <3>1, <1>2
  <2>3. CASE ~enable
    <3>1. bytes' = 0
      BY <1>4, <2>3, Zenon DEF Write4015
    <3> QED
      BY <2>1, <3>1
  <2> QED
    BY <2>2, <2>3
<1>5. ASSUME NEW fires \in BOOLEAN, ApuTickWith(fires)
      PROVE  SampleInv'
  <2>1. length' = length
    BY <1>5 DEF ApuTickWith, control
  <2>2. CASE fires
    <3>1. OutputClock(bytes, dmc_irq)
      BY <1>5, <2>2 DEF ApuTickWith
    <3> QED
      BY <2>1, <3>1, <1>2
  <2>3. CASE ~fires
    BY <1>5, <2>1, <2>3 DEF ApuTickWith, dmcVars
  <2> QED
    BY <2>2, <2>3
<1>6. CASE Reset
  <2>1. length' = length /\ bytes' = 0
    BY <1>6 DEF Reset, SoftReset, HardReset, Registers
  <2> QED
    BY <2>1
<1>7. CASE Idle \/ FetchCycle \/ Read4015
  BY <1>7 DEF Idle, FetchCycle, Read4015, control, dmcVars
<1>8. ASSUME NEW irq \in BOOLEAN, NEW lp \in BOOLEAN, Write4010(irq, lp)
      PROVE  SampleInv'
  BY <1>8 DEF Write4010, dmcVars
<1>9. ASSUME NEW m \in {0, 1}, NEW i \in BOOLEAN, Write4017(m, i)
      PROVE  SampleInv'
  BY <1>9 DEF Write4017, control, dmcVars
<1>10. CASE UNCHANGED vars
  BY <1>10 DEF vars, control, dmcVars
<1> QED
  BY <1>3, <1>4, <1>5, <1>6, <1>7, <1>8, <1>9, <1>10 DEF Next, CpuHalf, ApuTick

-----------------------------------------------------------------------------
\* Every variable stays within its type: no clock of the frame counter is
\* missed and no count of the DMC leaves its range.
THEOREM TypeCorrect == Spec => []TypeOK
<1>1. Init => SampleInv
  BY DEF Init, SampleInv
<1>2. IrqInv /\ FetchInv /\ CounterInv /\ SampleInv => TypeOK
  BY DEF IrqInv, FlagTypes, FetchInv, CounterInv, SampleInv, TypeOK
<1> QED
  BY <1>1, <1>2, SampleInvNext, CounterInvInit, CounterInvNext, IrqInvariant, FetchInvariant,
     PTL DEF Spec

\* The properties as the runs check them.
THEOREM FlagsAndLineHold == Spec => []FlagsAndLine
  BY TypeCorrect, LineHasCauseHolds, DmcIrqOnLineHolds, FlagsRespectEnablesHolds, PTL
  DEF FlagsAndLine

\* The DMC reader never schedules a fetch over one that is under way, and never
\* loads a byte over one that was not played.
THEOREM OneFetchAtATimeHolds == Spec => OneFetchAtATime
  BY NoByteOverwrittenHolds, FetchesDoNotOverlapHolds, PTL DEF OneFetchAtATime

-----------------------------------------------------------------------------
(* Division by the sizes of the rings and registers.                       *)
LEMMA DivMod ==
  ASSUME NEW S \in Nat \ {0}, NEW n \in Int
  PROVE  n % S \in 0..S - 1 /\ n \div S \in Int /\ n = S * (n \div S) + (n % S)
  OBVIOUS

LEMMA ModUnique ==
  ASSUME NEW S \in Nat \ {0}, NEW q \in Int, NEW r \in 0..S - 1
  PROVE  (S * q + r) % S = r
  OBVIOUS

LEMMA ModSmall ==
  ASSUME NEW S \in Nat \ {0}, NEW r \in 0..S - 1
  PROVE  r % S = r
  OBVIOUS

LEMMA ModNext ==
  ASSUME NEW S \in Nat \ {0}, NEW n \in Int
  PROVE  (n + 1) % S = IF n % S = S - 1 THEN 0 ELSE (n % S) + 1
<1>. DEFINE q == n \div S
            r == n % S
<1>1. r \in 0..S - 1 /\ q \in Int /\ n = S * q + r  BY DivMod
<1>. HIDE DEF q, r
<1>2. CASE r = S - 1
  <2>1. n + 1 = S * (q + 1) + 0  BY <1>1, <1>2
  <2>2. (S * (q + 1) + 0) % S = 0  BY <1>1, ModUnique
  <2>3. (n + 1) % S = 0 BY <2>1, <2>2
  <2>. QED  BY <2>3, <1>2 DEF r
<1>3. CASE r # S - 1
  <2>1. n + 1 = S * q + (r + 1) /\ r + 1 \in 0..S - 1  BY <1>1, <1>3
  <2>2. (S * q + (r + 1)) % S = r + 1  BY <1>1, <2>1, ModUnique
  <2>3. (n + 1) % S = r + 1  BY <2>1, <2>2
  <2>. QED  BY <2>3, <1>3 DEF r
<1>. QED  BY <1>2, <1>3

LEMMA ModApart ==
  ASSUME NEW S \in Nat \ {0}, NEW n \in Int, NEW m \in Int, m < n, n < m + S
  PROVE  n % S # m % S
<1>. DEFINE q == n \div S
            p == m \div S
            r == n % S
            s == m % S
<1>1. r \in 0..S - 1 /\ q \in Int /\ n = S * q + r  BY DivMod
<1>2. s \in 0..S - 1 /\ p \in Int /\ m = S * p + s  BY DivMod
<1>. SUFFICES ASSUME r = s PROVE FALSE  OBVIOUS
<1>. HIDE DEF q, p, r, s
<1>3. n - m = S * (q - p) /\ n - m \in 1..S-1 BY <1>1, <1>2
<1>4. q - p >= 1 \/ q - p <= 0  BY <1>1, <1>2
<1>5. CASE q - p >= 1
  <2>1. S * (q - p) >= S BY <1>5, <1>1, <1>2
  <2>. QED BY <2>1, <1>3
<1>6. CASE q - p <= 0
  <2>1. S * (q - p) <= 0 BY <1>6, <1>1, <1>2
  <2>. QED BY <2>1, <1>3
<1>. QED  BY <1>4, <1>5, <1>6

\* Replacing the low part of a number below Li leaves it below Li.
LEMMA HalfWrite ==
  ASSUME NEW Lo \in Nat \ {0}, NEW Li \in Nat, Li % Lo = 0, NEW t \in 0..Li-1, NEW l \in 0..Lo-1
  PROVE t - (t % Lo) + l \in 0..Li-1
<1>. DEFINE q == t \div Lo
            p == Li \div Lo
            r == t % Lo
<1>1. r \in 0..Lo - 1 /\ q \in Int /\ t = Lo * q + r  BY DivMod
<1>2. p \in Int /\ Li = Lo * p  BY DivMod
<1>. HIDE DEF q, p, r
<1>3. q + 1 <= p
  <2>1. Lo * q < Lo * p BY <1>1, <1>2
  <2>. SUFFICES ASSUME q >= p PROVE FALSE BY <1>1, <1>2
  <2>2. Lo * (q - p) >= 0 BY <1>1, <1>2
  <2>. QED BY <2>1, <2>2, <1>1, <1>2
<1>4. Lo * (p - (q + 1)) >= 0 BY <1>1, <1>2, <1>3
<1>5. Lo * q + Lo <= Li BY <1>1, <1>2, <1>4
<1>6. Lo * q >= 0
  <2>1. q >= 0
    <3>. SUFFICES ASSUME q <= -1 PROVE FALSE BY <1>1
    <3>1. Lo * (-1 - q) >= 0 BY <1>1
    <3>. QED BY <1>1, <3>1
  <2>. QED BY <2>1, <1>1
<1>7. t - r + l = Lo * q + l BY <1>1
<1>8. t - r + l \in 0..Li-1 BY <1>1, <1>2, <1>5, <1>6, <1>7
<1>. QED BY <1>8 DEF r

\* A byte or a word that is not zero counts down without going round.
LEMMA CountsDown ==
  ASSUME NEW S \in Nat \ {0}, NEW d \in 1..S - 1
  PROVE  (d + S - 1) % S = d - 1
  OBVIOUS

\* The high part of a period, put on top of its low part.
LEMMA HighWrite ==
  ASSUME NEW Lo \in Nat \ {0}, NEW Li \in Nat, Li % Lo = 0, NEW t \in Nat,
         NEW h \in Nat, h < Li \div Lo
  PROVE  (t % Lo) + h * Lo \in 0..Li - 1
<1>. DEFINE p == Li \div Lo
            r == t % Lo
<1>1. r \in 0..Lo - 1  BY DivMod
<1>2. p \in Int /\ Li = Lo * p  BY DivMod
<1>3. h < p  OBVIOUS
<1>. HIDE DEF p, r
<1>4. Lo * (p - 1 - h) >= 0 /\ h * Lo >= 0  BY <1>2, <1>3
<1>5. h * Lo + Lo <= Li  BY <1>2, <1>3, <1>4
<1>6. r + h * Lo \in 0..Li - 1  BY <1>1, <1>2, <1>3, <1>4, <1>5
<1>. QED  BY <1>6 DEF r

-----------------------------------------------------------------------------
(* The length counter.  What is pending is known from what the CPU did in  *)
(* this cycle: a load can only be of this cycle while the channel is       *)
(* enabled, and a halt only once the cycle count has left zero.            *)
\* The parts of LcTypeOK.
LcFlags ==
    /\ enabled \in BOOLEAN /\ reload \in BOOLEAN
    /\ halt \in BOOLEAN /\ prev_halt \in BOOLEAN
    /\ tainted \in BOOLEAN

LcNumbers ==
    /\ lc_half \in {"cpu", "apu"} /\ lc_cycle \in 0..MaxCycles
    /\ value \in Nat /\ reload_value \in Loads \cup {0}
    /\ reload_cycle \in Int /\ halt_cycle \in Int
    /\ access \in {"none", "load", "halt", "enable", "disable", "read", "reset"}

LEMMA LcTypeParts == LcTypeOK <=> LcFlags /\ LcNumbers
<1>1. {reload_cycle, halt_cycle} \subseteq Int <=> reload_cycle \in Int /\ halt_cycle \in Int
  OBVIOUS
<1>. QED  BY <1>1, Zenon DEF LcTypeOK, LcFlags, LcNumbers

LEMMA LcTypePartsNext == LcTypeOK' <=> LcFlags' /\ LcNumbers'
  BY LcTypeParts, PTL

LcStamps ==
    /\ lc_half = "cpu" => access = "none" /\ lc_cycle > 0
    /\ access = "load" =>
          enabled /\ reload /\ reload_cycle = lc_cycle /\ reload_value \in Loads
    /\ ~ResetWritesHalt => halt_cycle # 0

LcInv == LcTypeOK /\ LcStamps /\ DisabledIsSilent

LEMMA LcInvInit == LcInit => LcInv
<1>. SUFFICES ASSUME LcInit PROVE LcInv  OBVIOUS
<1>1. LcFlags  BY Zenon DEF LcInit, LcFlags
<1>2. LcNumbers /\ LcStamps /\ DisabledIsSilent
  BY LcAssumption DEF LcInit, LcNumbers, LcStamps, DisabledIsSilent, NoCycle
<1>. QED  BY <1>1, <1>2, LcTypeParts DEF LcInv

\* A clock takes a counter that is not disabled down by one, if at all.
LEMMA ClockedValueKnown ==
  ASSUME LcInv
  PROVE  /\ ClockedValue \in Nat
         /\ ~enabled /\ ~tainted /\ ~Stale => ClockedValue = 0
<1>. LcNumbers /\ LcStamps /\ DisabledIsSilent /\ Loads \subseteq Nat
  BY LcTypeParts, LcAssumption DEF LcInv
<1>1. CASE LoadedNow
  BY <1>1 DEF ClockedValue, Decremented, LcNumbers, LcStamps, DisabledIsSilent,
     LoadedNow, Stale
<1>2. CASE ~LoadedNow
  BY <1>2 DEF ClockedValue, Decremented, LcNumbers, LcStamps, DisabledIsSilent
<1>. QED  BY <1>1, <1>2

LEMMA LcInvNext == LcInv /\ [LcNext]_lcVars => LcInv'
<1>. SUFFICES ASSUME LcInv, [LcNext]_lcVars PROVE LcInv'  OBVIOUS
<1>. LcFlags /\ LcNumbers /\ LcStamps /\ DisabledIsSilent
  BY LcTypeParts DEF LcInv
<1>. SUFFICES LcFlags' /\ LcNumbers' /\ LcStamps' /\ DisabledIsSilent'
  BY LcTypePartsNext DEF LcInv
<1>1. CASE NoAccess
  <2>. USE <1>1 DEF NoAccess, Accesses, counter, halting
  <2>1. LcFlags'  BY Zenon DEF LcFlags
  <2>2. LcNumbers'  BY LcAssumption DEF LcNumbers
  <2>3. LcStamps' /\ DisabledIsSilent'
    BY LcAssumption DEF LcNumbers, LcStamps, DisabledIsSilent
  <2>. QED  BY <2>1, <2>2, <2>3
<1>2. CASE Load
  <2>. USE <1>2 DEF Load, Accesses, halting
  <2>1. LcFlags'  BY Zenon DEF LcFlags
  <2>2. LcNumbers'  BY LcAssumption DEF LcNumbers
  <2>3. LcStamps' /\ DisabledIsSilent'
    BY LcAssumption DEF LcNumbers, LcStamps, DisabledIsSilent
  <2>. QED  BY <2>1, <2>2, <2>3
<1>3. CASE SetHalt
  <2>. USE <1>3 DEF SetHalt, Accesses, counter
  <2>1. LcFlags'  BY Zenon DEF LcFlags
  <2>2. LcNumbers'  BY LcAssumption DEF LcNumbers
  <2>3. LcStamps' /\ DisabledIsSilent'
    BY LcAssumption DEF LcNumbers, LcStamps, DisabledIsSilent
  <2>. QED  BY <2>1, <2>2, <2>3
<1>4. CASE Enable
  <2>. USE <1>4 DEF Enable, Accesses, counter, halting
  <2>1. LcFlags'  BY Zenon DEF LcFlags
  <2>2. LcNumbers'  BY LcAssumption DEF LcNumbers
  <2>3. LcStamps' /\ DisabledIsSilent'
    BY LcAssumption DEF LcNumbers, LcStamps, DisabledIsSilent
  <2>. QED  BY <2>1, <2>2, <2>3
<1>5. CASE Disable
  <2>. USE <1>5 DEF Disable, Accesses, Clear, halting
  <2>1. LcFlags'  BY Zenon DEF LcFlags
  <2>2. LcNumbers'  BY LcAssumption DEF LcNumbers
  <2>3. LcStamps' /\ DisabledIsSilent'
    BY LcAssumption DEF LcNumbers, LcStamps, DisabledIsSilent
  <2>. QED  BY <2>1, <2>2, <2>3
<1>6. CASE ReadStatus
  <2>. USE <1>6 DEF ReadStatus, Accesses, TakeValue, halting
  <2>1. LcFlags'  BY Zenon DEF LcFlags
  <2>2. LcNumbers'  BY LcAssumption DEF LcNumbers
  <2>3. LcStamps' /\ DisabledIsSilent'
    BY LcAssumption DEF LcNumbers, LcStamps, DisabledIsSilent
  <2>. QED  BY <2>1, <2>2, <2>3
<1>7. CASE HalfFrameTick
  <2>. USE <1>7 DEF HalfFrameTick, EndOfTick, halting
  <2>1. LcFlags'  BY Zenon DEF LcFlags
  <2>2. LcNumbers' /\ LcStamps'
    BY ClockedValueKnown, LcAssumption DEF LcNumbers, LcStamps
  <2>3. enabled' = enabled /\ reload' = FALSE /\ value' = ClockedValue
    OBVIOUS
  <2>4. tainted \/ Stale => tainted'
    <3>. SUFFICES ASSUME tainted \/ Stale PROVE tainted'  OBVIOUS
    <3>1. tainted' = TRUE  OBVIOUS
    <3>. QED  BY <3>1
  <2>5. DisabledIsSilent'
    BY <2>3, <2>4, ClockedValueKnown DEF DisabledIsSilent
  <2>. QED  BY <2>1, <2>2, <2>5
<1>8. CASE SampleTick
  <2>. USE <1>8 DEF SampleTick, EndOfTick, TakeValue, halting
  <2>1. LcFlags'  BY Zenon DEF LcFlags
  <2>2. LcNumbers'  BY LcAssumption DEF LcNumbers
  <2>3. LcStamps' /\ DisabledIsSilent'
    BY LcAssumption DEF LcNumbers, LcStamps, DisabledIsSilent
  <2>. QED  BY <2>1, <2>2, <2>3
<1>9. CASE QuietTick
  <2>. USE <1>9 DEF QuietTick, EndOfTick, counter, halting
  <2>1. LcFlags'  BY Zenon DEF LcFlags
  <2>2. LcNumbers'  BY LcAssumption DEF LcNumbers
  <2>3. LcStamps' /\ DisabledIsSilent'
    BY LcAssumption DEF LcNumbers, LcStamps, DisabledIsSilent
  <2>. QED  BY <2>1, <2>2, <2>3
<1>10. CASE LcReset
  <2>. USE <1>10 DEF LcReset, Clear, halting
  <2>1. LcFlags'  BY Zenon DEF LcFlags
  <2>2. LcNumbers'  BY LcAssumption DEF LcNumbers
  <2>3. LcStamps' /\ DisabledIsSilent'
    BY LcAssumption DEF LcNumbers, LcStamps, DisabledIsSilent
  <2>. QED  BY <2>1, <2>2, <2>3
<1>11. CASE UNCHANGED lcVars
  BY <1>11 DEF lcVars, counter, halting, LcFlags, LcNumbers, LcStamps, DisabledIsSilent
<1>. QED
  BY <1>1, <1>2, <1>3, <1>4, <1>5, <1>6, <1>7, <1>8, <1>9, <1>10, <1>11 DEF LcNext

\* Every step is one of the eager counter, or a half frame on a stale value.
LEMMA LcRefines ==
  ASSUME LcInv, LcNext
  PROVE  Eager!Next \/ (HalfFrameTick /\ Stale)
<1>. LcNumbers /\ LcFlags  BY LcTypeParts DEF LcInv
<1>. USE LcAssumption DEF LcInv, LcStamps, LcNumbers, LcFlags, Fresh
<1>1. CASE NoAccess \/ Enable
  <2>. Eager!SetHalt
    BY <1>1 DEF NoAccess, Enable, Accesses, counter, halting, Eager!SetHalt
  <2>. QED  BY DEF Eager!Next
<1>2. CASE Load
  <2>. Eager!Load
    BY <1>2 DEF Load, Accesses, halting, Eager!Load
  <2>. QED  BY DEF Eager!Next
<1>3. CASE SetHalt
  <2>. Eager!SetHalt
    BY <1>3 DEF SetHalt, Accesses, counter, Eager!SetHalt
  <2>. QED  BY DEF Eager!Next
<1>5. CASE Disable
  <2>. Eager!Silence
    BY <1>5 DEF Disable, Accesses, Clear, halting, Eager!Silence
  <2>. QED  BY DEF Eager!Next
<1>6. CASE ReadStatus
  <2>. Eager!SetHalt
    BY <1>6 DEF ReadStatus, Accesses, TakeValue, halting, Eager!SetHalt
  <2>. QED  BY DEF Eager!Next
<1>7. CASE HalfFrameTick /\ ~Stale
  <2>. Eager!Clock
    BY <1>7 DEF HalfFrameTick, EndOfTick, halting, ClockedValue, Decremented,
       HaltedNow, LoadedNow, Stale, Eager!Clock, Eager!EndOfCycle
  <2>. QED  BY DEF Eager!Next
<1>8. CASE SampleTick
  <2>. Eager!NoClock
    BY <1>8 DEF SampleTick, EndOfTick, TakeValue, halting, Eager!NoClock, Eager!EndOfCycle
  <2>. QED  BY DEF Eager!Next
<1>9. CASE QuietTick
  <2>. Eager!NoClock
    BY <1>9 DEF QuietTick, EndOfTick, counter, halting, Eager!NoClock, Eager!EndOfCycle
  <2>. QED  BY DEF Eager!Next
<1>10. CASE LcReset
  <2>. Eager!Silence
    BY <1>10 DEF LcReset, Clear, halting, Eager!Silence
  <2>. QED  BY DEF Eager!Next
<1>. QED
  BY <1>1, <1>2, <1>3, <1>5, <1>6, <1>7, <1>8, <1>9, <1>10 DEF LcNext

-----------------------------------------------------------------------------
(* The envelope, the linear counter and a square channel's period.         *)
EnvFlags ==
    env_start \in BOOLEAN /\ env_loop \in BOOLEAN /\ env_constant \in BOOLEAN

EnvNumbers ==
    /\ env_counter \in 0..MaxVolume
    /\ env_period \in 0..MaxVolume
    /\ env_divider \in 1..Byte - 1

LEMMA EnvInvInit == EnvInit => EnvTypeOK
<1>. SUFFICES ASSUME EnvInit PROVE EnvTypeOK  OBVIOUS
<1>1. EnvFlags  BY Zenon DEF EnvInit, EnvFlags
<1>2. EnvNumbers  BY EnvelopeAssumption DEF EnvInit, EnvNumbers
<1>. QED  BY <1>1, <1>2, Zenon DEF EnvTypeOK, EnvFlags, EnvNumbers

LEMMA EnvInvNext == EnvTypeOK /\ [EnvNext]_envVars => EnvTypeOK'
<1>. SUFFICES ASSUME EnvTypeOK, [EnvNext]_envVars PROVE EnvTypeOK'  OBVIOUS
<1>. EnvFlags /\ EnvNumbers  BY Zenon DEF EnvTypeOK, EnvFlags, EnvNumbers
<1>1. EnvFlags'
  BY Zenon DEF EnvFlags, EnvNext, EnvClock, SetControl, Start, Restart,
     ClockDivider, envControl, envVars
<1>2. EnvNumbers'
  <2>. USE EnvelopeAssumption DEF EnvNumbers
  <2>1. CASE SetControl  BY <2>1 DEF SetControl
  <2>2. CASE Start  BY <2>2 DEF Start, envControl
  <2>3. CASE Restart  BY <2>3 DEF Restart, Reload, envControl
  <2>4. CASE ClockDivider
    <3>1. (env_divider + Byte - 1) % Byte = env_divider - 1
      BY CountsDown
    <3>2. CASE env_divider = 1
      BY <2>4, <3>1, <3>2 DEF ClockDivider, Reload, Decay, envControl
    <3>3. CASE env_divider # 1
      BY <2>4, <3>1, <3>3 DEF ClockDivider, envControl
    <3>. QED  BY <3>2, <3>3
  <2>5. CASE UNCHANGED envVars  BY <2>5 DEF envVars, envControl
  <2>. QED  BY <2>1, <2>2, <2>3, <2>4, <2>5 DEF EnvNext, EnvClock
<1>. QED  BY <1>1, <1>2, Zenon DEF EnvTypeOK, EnvFlags, EnvNumbers

LEMMA LinInvInit == LinInit => LinTypeOK
<1>. SUFFICES ASSUME LinInit PROVE LinTypeOK  OBVIOUS
<1>1. lin_reload \in BOOLEAN /\ lin_control \in BOOLEAN  BY Zenon DEF LinInit
<1>2. lin_value \in 0..MaxLinear /\ lin_period \in 0..MaxLinear
  BY LinearAssumption DEF LinInit
<1>. QED  BY <1>1, <1>2, Zenon DEF LinTypeOK

LEMMA LinInvNext == LinTypeOK /\ [LinNext]_linVars => LinTypeOK'
<1>. SUFFICES ASSUME LinTypeOK, [LinNext]_linVars PROVE LinTypeOK'  OBVIOUS
<1>1. lin_reload' \in BOOLEAN /\ lin_control' \in BOOLEAN
  BY Zenon DEF LinTypeOK, LinNext, WriteControl, WriteReload, LinClock,
     NextReload, linVars
<1>2. lin_value' \in 0..MaxLinear /\ lin_period' \in 0..MaxLinear
  BY LinearAssumption DEF LinTypeOK, LinNext, WriteControl, WriteReload, LinClock, linVars
<1>. QED  BY <1>1, <1>2, Zenon DEF LinTypeOK

PulseInv == PulseTypeOK /\ CopiesAgree

PulseFlags ==
    sw_enabled \in BOOLEAN /\ sw_negate \in BOOLEAN /\ sw_reload \in BOOLEAN

PulseNumbers ==
    /\ timer_reload \in 0..Limit - 1
    /\ pulse_period \in 0..Limit - 1
    /\ frequency \in 2..Word - 1
    /\ timer \in 1..Word - 1
    /\ sw_shift \in Shifts /\ sw_period \in 0..MaxPeriod
    /\ sw_counter \in 0..MaxPeriod + 1

LEMMA PulseTypeParts == PulseTypeOK <=> PulseFlags /\ PulseNumbers
  BY Zenon DEF PulseTypeOK, PulseFlags, PulseNumbers

LEMMA PulseTypePartsNext == PulseTypeOK' <=> PulseFlags' /\ PulseNumbers'
  BY PulseTypeParts, PTL

LEMMA PulseInvInit == PulseInit => PulseInv
<1>. SUFFICES ASSUME PulseInit PROVE PulseInv  OBVIOUS
<1>1. PulseFlags  BY Zenon DEF PulseInit, PulseFlags
<1>2. PulseNumbers /\ CopiesAgree
  BY PulseAssumption DEF PulseInit, PulseNumbers, CopiesAgree
<1>. QED  BY <1>1, <1>2, PulseTypeParts DEF PulseInv

\* A period below the limit leaves room for its frequency in a word.
LEMMA SetPeriodFits ==
  ASSUME NEW p \in 0..Limit - 1, SetPeriod(p)
  PROVE  /\ timer_reload' \in 0..Limit - 1 /\ pulse_period' \in 0..Limit - 1
         /\ frequency' \in 2..Word - 1
         /\ CopiesAgree'
  BY PulseAssumption DEF SetPeriod, CopiesAgree

\* The weights of a shift of three bits.
LEMMA PowersOfTwo == \A s \in 0..7 : 2^s \in Nat \ {0}
<1>. SUFFICES ASSUME NEW s \in 0..7 PROVE 2^s \in Nat \ {0}  OBVIOUS
<1>0. CASE s = 0  BY <1>0
<1>1. CASE s = 1  BY <1>1
<1>2. CASE s = 2  BY <1>2
<1>3. CASE s = 3  BY <1>3
<1>4. CASE s = 4  BY <1>4
<1>5. CASE s = 5  BY <1>5
<1>6. CASE s = 6  BY <1>6
<1>7. CASE s = 7  BY <1>7
<1>. QED  BY <1>0, <1>1, <1>2, <1>3, <1>4, <1>5, <1>6, <1>7

\* Whatever the sweep adds or takes away, its result is a word.
LEMMA TargetInWord ==
  ASSUME PulseNumbers
  PROVE  TargetPeriod \in 0..Word - 1
<1>1. 2^sw_shift \in Nat \ {0}
  BY PowersOfTwo, PulseAssumption DEF PulseNumbers
<1>2. Delta \in Int  BY <1>1, DivMod DEF Delta, PulseNumbers
<1>3. Word \in Nat \ {0} /\ Channel \in Int /\ pulse_period \in Int
  BY PulseAssumption DEF PulseNumbers
<1>4. (pulse_period - Delta - (1 - Channel)) % Word \in 0..Word - 1
  BY <1>2, <1>3, DivMod
<1>5. (pulse_period + Delta) % Word \in 0..Word - 1
  BY <1>2, <1>3, DivMod
<1>. QED  BY <1>4, <1>5 DEF TargetPeriod

LEMMA PulseInvNext == PulseInv /\ [PulseNext]_pulseVars => PulseInv'
<1>. SUFFICES ASSUME PulseInv, [PulseNext]_pulseVars PROVE PulseInv'  OBVIOUS
<1>. PulseFlags /\ PulseNumbers /\ CopiesAgree  BY PulseTypeParts DEF PulseInv
<1>0. PulseFlags'
  BY Zenon DEF PulseFlags, PulseNext, WriteLow, WriteHigh, WriteSweep, SweepClock,
     Tick, pulseVars, sweep_control
<1>. SUFFICES PulseNumbers' /\ CopiesAgree'
  BY <1>0, PulseTypePartsNext DEF PulseInv
<1>. USE PulseAssumption DEF PulseNumbers
<1>1. CASE WriteLow
  <2>1. PICK low \in 0..Low - 1 : SetPeriod(timer_reload - (timer_reload % Low) + low)
    BY <1>1 DEF WriteLow
  <2>2. timer_reload - (timer_reload % Low) + low \in 0..Limit - 1
    BY HalfWrite
  <2>. QED  BY <1>1, <2>1, <2>2, SetPeriodFits DEF WriteLow, sweep_control
<1>2. CASE WriteHigh
  <2>1. PICK high \in 0..(Limit \div Low) - 1 : SetPeriod((timer_reload % Low) + high * Low)
    BY <1>2 DEF WriteHigh
  <2>2. (timer_reload % Low) + high * Low \in 0..Limit - 1
    <3>1. Limit \div Low \in Int  BY DivMod
    <3>2. high \in Nat /\ high < Limit \div Low  BY <3>1
    <3>3. Low \in Nat \ {0} /\ Limit \in Nat /\ Limit % Low = 0 /\ timer_reload \in Nat
      OBVIOUS
    <3>. HIDE PulseAssumption DEF PulseNumbers
    <3>. QED  BY <3>2, <3>3, HighWrite
  <2>. QED  BY <1>2, <2>1, <2>2, SetPeriodFits DEF WriteHigh, sweep_control
<1>3. CASE WriteSweep
  BY <1>3 DEF WriteSweep, period, CopiesAgree
<1>4. CASE SweepClock
  <2>1. TargetPeriod \in 0..Word - 1  BY TargetInWord
  <2>2. UNCHANGED period \/ (TargetPeriod \in 0..Limit - 1 /\ SetPeriod(TargetPeriod))
    BY <1>4, <2>1 DEF SweepClock, AdjustPeriod
  <2>3. /\ timer_reload' \in 0..Limit - 1 /\ pulse_period' \in 0..Limit - 1
        /\ frequency' \in 2..Word - 1
        /\ CopiesAgree'
    BY <2>2, SetPeriodFits DEF period, CopiesAgree
  <2>4. /\ timer' = timer /\ UNCHANGED sweep_control
        /\ sw_counter' \in 0..MaxPeriod + 1
    BY <1>4 DEF SweepClock
  <2>. QED  BY <2>3, <2>4 DEF sweep_control
<1>5. CASE Tick
  <2>1. timer # 1 => (timer + Word - 1) % Word = timer - 1
    BY CountsDown
  <2>2. timer' \in 1..Word - 1
    BY <1>5, <2>1 DEF Tick
  <2>. QED  BY <1>5, <2>2 DEF Tick, period, sweep_control, CopiesAgree
<1>6. CASE UNCHANGED pulseVars
  BY <1>6 DEF pulseVars, period, sweep_control, CopiesAgree
<1>. QED  BY <1>1, <1>2, <1>3, <1>4, <1>5, <1>6 DEF PulseNext

-----------------------------------------------------------------------------
(* The ring of samples.                                                    *)

\* Two samples less than a ring apart, and where the second one is.
LEMMA ModDistance ==
  ASSUME NEW S \in Nat \ {0}, NEW b \in Nat, NEW k \in 0..S - 1
  PROVE  (((b + k) % S) + S - (b % S)) % S = k
<1>. DEFINE q == b \div S
            r == b % S
<1>1. r \in 0..S - 1 /\ q \in Int /\ b = S * q + r  BY DivMod
<1>. HIDE DEF q, r
<1>2. CASE r + k < S
  <2>1. (b + k) % S = r + k
    <3>1. b + k = S * q + (r + k) /\ r + k \in 0..S - 1  BY <1>1, <1>2
    <3>2. (S * q + (r + k)) % S = r + k  BY <1>1, <3>1, ModUnique
    <3>. QED  BY <3>1, <3>2
  <2>2. ((b + k) % S) + S - r = S * 1 + k  BY <1>1, <2>1
  <2>3. (S * 1 + k) % S = k  BY ModUnique
  <2>. QED  BY <2>2, <2>3 DEF r
<1>3. CASE r + k >= S
  <2>1. (b + k) % S = r + k - S
    <3>1. b + k = S * (q + 1) + (r + k - S) /\ r + k - S \in 0..S - 1
      BY <1>1, <1>3
    <3>2. q + 1 \in Int /\ S \in Nat \ {0}  BY <1>1
    <3>3. (S * (q + 1) + (r + k - S)) % S = r + k - S
      BY <3>1, <3>2, ModUnique, Zenon
    <3>. QED  BY <3>1, <3>3
  <2>2. ((b + k) % S) + S - r = k  BY <1>1, <2>1
  <2>3. k % S = k  BY ModSmall
  <2>. QED  BY <2>2, <2>3 DEF r
<1>. QED  BY <1>1, <1>2, <1>3

LEMMA ModShift ==
  ASSUME NEW S \in Nat \ {0}, NEW b \in Nat, NEW k \in Nat
  PROVE  ((b % S) + k) % S = (b + k) % S
<1>. DEFINE q == b \div S
            r == b % S
            p == (b + k) \div S
            s == (b + k) % S
<1>1. r \in 0..S - 1 /\ q \in Int /\ b = S * q + r  BY DivMod
<1>2. s \in 0..S - 1 /\ p \in Int /\ b + k = S * p + s
  <2>1. b + k \in Int /\ S \in Nat \ {0}  OBVIOUS
  <2>. QED  BY <2>1, DivMod, Zenon
<1>. HIDE DEF q, r, p, s
<1>3. r + k = S * (p - q) + s /\ p - q \in Int /\ S \in Nat \ {0}  BY <1>1, <1>2
<1>4. (S * (p - q) + s) % S = s  BY <1>2, <1>3, ModUnique, Zenon
<1>5. (r + k) % S = s  BY <1>3, <1>4
<1>. QED  BY <1>5 DEF r, s

RingType ==
    /\ ring \in [0..Size - 1 -> Nat]
    /\ produced \in Nat /\ base \in Nat /\ mark \in Nat /\ left \in Nat
    /\ since \in Nat /\ since <= produced
    /\ at \in {"idle", "frame", "copy"} /\ first \in BOOLEAN
    /\ view \in Seq(Nat)
    /\ mark <= produced

\* Every index is where its sample is.
RingPlaces ==
    /\ end = produced % Size
    /\ start = mark % Size
    /\ index = (produced - since + Len(view)) % Size

\* The ring holds the last Size samples.
RingHolds == \A n \in Nat : n < produced /\ produced <= n + Size => ring[n % Size] = n

\* The frame in progress fits the ring, and is marked unless a reset's.
FrameFits ==
    at # "idle" =>
        /\ base <= produced /\ produced - base + left <= Size - 1
        /\ ~first => mark = base

\* What the viewer has copied is what follows the mark it began at.
ViewFollows ==
    since <= Size =>
        /\ Len(view) <= since
        /\ \A i \in 1..Len(view) : view[i] = produced - since + i - 1

RingInv == RingType /\ RingPlaces /\ RingHolds /\ FrameFits /\ ViewFollows

LEMMA RingInvInit == RingInit => RingInv
<1>. SUFFICES ASSUME RingInit PROVE RingInv  OBVIOUS
<1>. USE RingAssumption DEF RingInit
<1>1. RingType  BY DEF RingType
<1>2. 0 % Size = 0  BY ModSmall
<1>3. RingPlaces  BY <1>2 DEF RingPlaces
<1>. QED  BY <1>1, <1>3 DEF RingInv, RingHolds, FrameFits, ViewFollows

LEMMA BeginFrameKeepsRing == RingInv /\ BeginFrame => RingInv'
<1>. SUFFICES ASSUME RingInv, BeginFrame PROVE RingInv'  OBVIOUS
<1>. USE RingAssumption DEF RingInv, BeginFrame, MarkFrame, viewer
<1>1. left' \in 1..Size - 1  OBVIOUS
<1>2. RingType'  BY <1>1 DEF RingType
<1>3. RingPlaces'  BY DEF RingPlaces, RingType
<1>4. RingHolds'  BY DEF RingHolds
<1>5. FrameFits'
  <2>1. base' = produced' /\ produced' \in Nat /\ left' <= Size - 1 /\ left' \in Nat
    BY <1>1 DEF RingType
  <2>2. ~first' => mark' = base'  OBVIOUS
  <2>3. \A p, b, l \in Nat : b = p /\ l <= Size - 1 => p - b + l <= Size - 1 /\ b <= p
    OBVIOUS
  <2>4. produced' - base' + left' <= Size - 1 /\ base' <= produced'
    BY <2>1, <2>3, Zenon
  <2>. QED  BY <2>2, <2>4 DEF FrameFits
<1>6. ViewFollows'  BY DEF ViewFollows
<1>. QED  BY <1>2, <1>3, <1>4, <1>5, <1>6

LEMMA SampleKeepsRing == RingInv /\ Sample => RingInv'
<1>. SUFFICES ASSUME RingInv, Sample PROVE RingInv'  OBVIOUS
<1>. USE RingAssumption DEF RingInv, Sample
<1>1. end \in 0..Size - 1 /\ produced \in Nat
  BY DivMod DEF RingPlaces, RingType
<1>2. RingType'  BY <1>1 DEF RingType
<1>3. end' = produced' % Size
  <2>0. Size \in Nat \ {0} /\ end \in Int /\ produced \in Int  BY <1>1
  <2>1. (produced + 1) % Size = IF produced % Size = Size - 1 THEN 0 ELSE (produced % Size) + 1
    BY <1>1, <2>0, ModNext, Zenon
  <2>2. (end + 1) % Size = IF end % Size = Size - 1 THEN 0 ELSE (end % Size) + 1
    BY <1>1, <2>0, ModNext, Zenon
  <2>3. end % Size = end  BY <1>1, ModSmall
  <2>. QED  BY <2>1, <2>2, <2>3 DEF Following, RingPlaces
<1>4. RingPlaces'
  <2>1. produced' - since' = produced - since  BY <1>1 DEF RingType
  <2>. QED  BY <1>3, <2>1 DEF RingPlaces
<1>5. RingHolds'
  <2>. SUFFICES ASSUME NEW n \in Nat, n < produced', produced' <= n + Size
                PROVE  ring'[n % Size] = n
    BY DEF RingHolds
  <2>1. CASE n = produced
    BY <1>1, <2>1 DEF RingPlaces, RingType
  <2>2. CASE n # produced
    <3>1. /\ n < produced /\ produced < n + Size /\ Size \in Nat \ {0}
          /\ n \in Int /\ produced \in Int
      BY <1>1, <2>2
    <3>2. produced % Size # n % Size  BY <3>1, ModApart, Zenon
    <3>5. n % Size # end  BY <3>2 DEF RingPlaces
    <3>3. n % Size \in 0..Size - 1  BY <3>1, DivMod, Zenon
    <3>6. \A f, i, v, j : j \in DOMAIN f /\ j # i => [f EXCEPT ![i] = v][j] = f[j]
      OBVIOUS
    <3>7. ring' = [ring EXCEPT ![end] = produced] /\ DOMAIN ring = 0..Size - 1
      BY DEF RingType
    <3>4. ring'[n % Size] = ring[n % Size]  BY <3>3, <3>5, <3>6, <3>7, Zenon
    <3>. QED  BY <1>1, <3>1, <3>4 DEF RingHolds
  <2>. QED  BY <2>1, <2>2
<1>6. FrameFits'  BY <1>1 DEF FrameFits, RingType
<1>7. ViewFollows'
  <2>1. produced' - since' = produced - since /\ (since' <= Size => since <= Size)
    BY <1>1 DEF RingType
  <2>2. view' = view /\ Len(view) \in Nat /\ since \in Nat  BY DEF RingType
  <2>. QED  BY <2>1, <2>2 DEF ViewFollows
<1>. QED  BY <1>2, <1>4, <1>5, <1>6, <1>7

LEMMA ThreadKeepsRing == RingInv /\ (EndFrame \/ CopyFrame \/ RingReset) => RingInv'
<1>. SUFFICES ASSUME RingInv, EndFrame \/ CopyFrame \/ RingReset PROVE RingInv'
  OBVIOUS
<1>. USE RingAssumption DEF RingInv, EndFrame, CopyFrame, RingReset, viewer
<1>2. RingType'  BY DEF RingType
<1>3. RingPlaces'  BY DEF RingPlaces, RingType
<1>4. RingHolds'  BY DEF RingHolds
<1>5. FrameFits'  BY DEF FrameFits, RingType
<1>6. ViewFollows'  BY DEF ViewFollows
<1>. QED  BY <1>2, <1>3, <1>4, <1>5, <1>6

LEMMA ViewerKeepsRing == RingInv /\ (BeginView \/ ViewSample \/ EndView) => RingInv'
<1>. SUFFICES ASSUME RingInv, BeginView \/ ViewSample \/ EndView PROVE RingInv'
  OBVIOUS
<1>. USE RingAssumption DEF RingInv, thread
<1>1. CASE BeginView
  <2>. USE <1>1 DEF BeginView
  <2>1. RingType'  BY DEF RingType
  <2>2. RingPlaces'
    <3>1. produced' - since' + Len(view') = mark  BY DEF RingType
    <3>. QED  BY <3>1 DEF RingPlaces
  <2>3. RingHolds' /\ FrameFits'  BY DEF RingHolds, FrameFits
  <2>4. ViewFollows'  BY DEF ViewFollows, RingType
  <2>. QED  BY <2>1, <2>2, <2>3, <2>4
<1>2. CASE ViewSample
  <2>. USE <1>2 DEF ViewSample
  <2>. DEFINE n == produced - since + Len(view)
  <2>1. n \in Nat /\ Len(view) \in Nat /\ since \in Nat /\ produced \in Nat
    BY DEF RingType
  <2>0. n \in Int /\ Size \in Nat \ {0}  BY <2>1
  <2>2. index = n % Size /\ index \in 0..Size - 1
    <3>1. n % Size \in 0..Size - 1  BY <2>0, DivMod, Zenon
    <3>. QED  BY <3>1 DEF RingPlaces
  <2>3. ring[index] \in Nat  BY <2>2 DEF RingType
  <2>4. /\ view' \in Seq(Nat) /\ Len(view') = Len(view) + 1
        /\ \A i \in 1..Len(view) : view'[i] = view[i]
        /\ view'[Len(view) + 1] = ring[index]
    BY <2>3 DEF RingType
  <2>5. RingType'  BY <2>4 DEF RingType
  <2>6. RingPlaces'
    <3>1. (n + 1) % Size = IF n % Size = Size - 1 THEN 0 ELSE (n % Size) + 1
      BY <2>0, ModNext, Zenon
    <3>2. (index + 1) % Size = IF index % Size = Size - 1 THEN 0 ELSE (index % Size) + 1
      <4>1. index \in Int  BY <2>2
      <4>. QED  BY <2>0, <4>1, ModNext, Zenon
    <3>3. index % Size = index  BY <2>2, ModSmall
    <3>4. produced' - since' + Len(view') = n + 1  BY <2>1, <2>4
    <3>5. index' = (n + 1) % Size  BY <2>2, <3>1, <3>2, <3>3 DEF Following
    <3>. QED  BY <3>4, <3>5 DEF RingPlaces
  <2>7. RingHolds' /\ FrameFits'  BY DEF RingHolds, FrameFits
  <2>8. ViewFollows'
    <3>. SUFFICES ASSUME since <= Size
                  PROVE  /\ Len(view) + 1 <= since
                         /\ \A i \in 1..Len(view) + 1 : view'[i] = produced - since + i - 1
      BY <2>4 DEF ViewFollows
    <3>1. Len(view) <= since  BY DEF ViewFollows
    <3>2. Len(view) # since
      <4>. SUFFICES ASSUME Len(view) = since PROVE FALSE  OBVIOUS
      <4>1. n = produced  BY <2>1
      <4>. QED  BY <2>2, <4>1 DEF RingPlaces
    <3>3. n < produced /\ produced <= n + Size  BY <2>1, <3>1, <3>2
    <3>4. ring[index] = n  BY <2>1, <2>2, <3>3 DEF RingHolds
    <3>5. \A i \in 1..Len(view) : view[i] = produced - since + i - 1
      BY DEF ViewFollows
    <3>. QED  BY <2>1, <2>4, <3>1, <3>2, <3>4, <3>5
  <2>. QED  BY <2>5, <2>6, <2>7, <2>8
<1>3. CASE EndView
  <2>. USE <1>3 DEF EndView
  <2>1. RingType'  BY DEF RingType
  <2>2. RingPlaces' /\ RingHolds' /\ FrameFits'  BY DEF RingPlaces, RingHolds, FrameFits
  <2>3. ViewFollows'  BY DEF ViewFollows
  <2>. QED  BY <2>1, <2>2, <2>3
<1>. QED  BY <1>1, <1>2, <1>3

LEMMA RingInvNext == RingInv /\ [RingNext]_ringVars => RingInv'
<1>. SUFFICES ASSUME RingInv, [RingNext]_ringVars PROVE RingInv'  OBVIOUS
<1>1. CASE UNCHANGED ringVars
  <2>. USE <1>1 DEF ringVars, thread, viewer, RingInv
  <2>1. RingType'  BY DEF RingType
  <2>2. RingPlaces' /\ RingHolds' /\ FrameFits'  BY DEF RingPlaces, RingHolds, FrameFits
  <2>3. ViewFollows'  BY DEF ViewFollows
  <2>. QED  BY <2>1, <2>2, <2>3
<1>. QED
  BY <1>1, BeginFrameKeepsRing, SampleKeepsRing, ThreadKeepsRing, ViewerKeepsRing
     DEF RingNext

LEMMA ViewIsContiguousFromInv == RingInv => ViewIsContiguous
<1>. SUFFICES ASSUME RingInv, since <= Size,
                     NEW i \in 1..Len(view) - 1
              PROVE  view[i + 1] = view[i] + 1
  BY DEF ViewIsContiguous, Consecutive
<1>1. Len(view) \in Nat /\ produced \in Nat /\ since \in Nat
  BY DEF RingInv, RingType
<1>2. i \in 1..Len(view) /\ i + 1 \in 1..Len(view)  BY <1>1
<1>. QED  BY <1>1, <1>2 DEF RingInv, ViewFollows

\* What a copy finds between the frame's mark and the end of the ring.
LEMMA CopyHandsFrameOver ==
  ASSUME RingInv, CopyFrame, ~first
  PROVE  /\ Len(handed') = IF produced - base < Take THEN produced - base ELSE Take
         /\ \A i \in 1..Len(handed') : handed'[i] = base + i - 1
<1>. USE RingAssumption DEF RingInv
<1>. DEFINE k == produced - base
            n == IF k < Take THEN k ELSE Take
<1>1. at = "copy"  BY DEF CopyFrame
<1>2. base \in Nat /\ produced \in Nat /\ k \in 0..Size - 1 /\ mark = base
  BY <1>1 DEF FrameFits, RingType
<1>3. end = (base + k) % Size /\ start = base % Size
  BY <1>2 DEF RingPlaces
<1>4. Available = k
  BY <1>2, <1>3, ModDistance DEF Available
<1>5. handed' = [i \in 1..n |-> ring[(start + i - 1) % Size]]
  BY <1>4 DEF CopyFrame
<1>6. n \in Nat /\ n <= k  BY <1>2
<1>7. Len(handed') = n  BY <1>5, <1>6
<1>8. ASSUME NEW i \in 1..n PROVE handed'[i] = base + i - 1
  <2>1. handed'[i] = ring[(start + i - 1) % Size]  BY <1>5, <1>6
  <2>2. i - 1 \in Nat /\ base + (i - 1) \in Nat /\ base + (i - 1) < produced
        /\ produced <= base + (i - 1) + Size
    BY <1>2, <1>6
  <2>3. ((base % Size) + (i - 1)) % Size = (base + (i - 1)) % Size
    BY <1>2, <2>2, ModShift
  <2>4. (start + i - 1) % Size = (base + (i - 1)) % Size
    BY <1>2, <1>3, <2>3, DivMod
  <2>5. ring[(base + (i - 1)) % Size] = base + (i - 1)
    BY <2>2 DEF RingHolds
  <2>. QED  BY <1>2, <2>1, <2>4, <2>5
<1>. HIDE DEF n
<1>9. \A i \in 1..Len(handed') : handed'[i] = base + i - 1  BY <1>7, <1>8
<1>. QED  BY <1>7, <1>9 DEF n

-----------------------------------------------------------------------------
(* The controllers.                                                        *)
CtlType ==
    /\ latched \in [Pads -> [1..Buttons -> {0, 1}]]
    /\ read_index \in [Pads -> Nat]
    /\ reads \in [Pads -> 0..2 * IndexRange]
    /\ snapshot \in [Pads -> SUBSET (1..Buttons)]
    /\ keystate \in [Pads -> SUBSET (1..Buttons)]

\* The byte that counts the reads, and the buttons still to be read.
ReadsFollow ==
    \A p \in Pads :
        /\ read_index[p] = reads[p] % IndexRange
        /\ \A b \in 1..Buttons :
              latched[p][b] =
                 IF reads[p] + b <= Buttons /\ reads[p] + b \in snapshot[p] THEN 1 ELSE 0

CtlInv == CtlType /\ ReadsFollow

\* Shifting out a bit moves the others up and leaves a zero behind them.
LEMMA ShiftedOut ==
  ASSUME NEW N \in Nat \ {0}, NEW word \in [1..N -> {0, 1}]
  PROVE  /\ Head(word) = word[1]
         /\ Append(Tail(word), 0) \in [1..N -> {0, 1}]
         /\ Append(Tail(word), 0)[N] = 0
         /\ \A b \in 1..N - 1 : Append(Tail(word), 0)[b] = word[b + 1]
<1>1. word \in Seq({0, 1}) /\ Len(word) = N  OBVIOUS
<1>2. Tail(word) \in Seq({0, 1}) /\ Len(Tail(word)) = N - 1
        /\ \A b \in 1..N - 1 : Tail(word)[b] = word[b + 1]
  BY <1>1
<1>3. 0 \in {0, 1}  OBVIOUS
<1>. DEFINE shifted == Append(Tail(word), 0)
<1>4. shifted \in Seq({0, 1}) /\ Len(shifted) = N
        /\ shifted[N] = 0 /\ \A b \in 1..N - 1 : shifted[b] = Tail(word)[b]
  BY <1>2, <1>3
<1>. HIDE DEF shifted
<1>5. shifted \in [1..N -> {0, 1}]  BY <1>4
<1>6. Head(word) = word[1]  BY <1>1
<1>. QED  BY <1>2, <1>4, <1>5, <1>6 DEF shifted

LEMMA CtlInvInit == CtlInit => CtlInv
<1>. SUFFICES ASSUME CtlInit PROVE CtlInv  OBVIOUS
<1>. USE ControllersAssumption DEF CtlInit
<1>1. CtlType  BY DEF CtlType
<1>2. 0 % IndexRange = 0  BY ModSmall
<1>3. ReadsFollow  BY <1>2 DEF ReadsFollow
<1>. QED  BY <1>1, <1>3 DEF CtlInv

LEMMA PollKeepsCtl ==
  ASSUME CtlInv, NEW p \in Pads, Poll(p)
  PROVE  CtlInv'
<1>. USE ControllersAssumption DEF CtlInv, CtlType, Poll
<1>1. CtlType'  OBVIOUS
<1>2. 0 % IndexRange = 0  BY ModSmall
<1>3. ReadsFollow'
  <2>. SUFFICES ASSUME NEW r \in Pads, NEW b \in 1..Buttons
                PROVE  /\ read_index'[r] = reads'[r] % IndexRange
                       /\ latched'[r][b] = IF reads'[r] + b <= Buttons
                            /\ reads'[r] + b \in snapshot'[r] THEN 1 ELSE 0
    BY DEF ReadsFollow
  <2>1. CASE r = p
    <3>1. reads'[r] = 0 /\ read_index'[r] = 0 /\ snapshot'[r] = keystate[p]
            /\ latched'[r][b] = IF b \in keystate[p] THEN 1 ELSE 0
      BY <2>1
    <3>. QED  BY <1>2, <3>1
  <2>2. CASE r # p
    <3>1. reads'[r] = reads[r] /\ read_index'[r] = read_index[r]
            /\ snapshot'[r] = snapshot[r] /\ latched'[r] = latched[r]
      BY <2>2
    <3>. QED  BY <3>1 DEF ReadsFollow
  <2>. QED  BY <2>1, <2>2
<1>. QED  BY <1>1, <1>3

\* How many reads there have been, once they are counted modulo IndexRange.
LEMMA ReadsCounted ==
  ASSUME CtlInv, NEW p \in Pads
  PROVE  LET n == IF reads[p] = 2 * IndexRange THEN IndexRange + 1 ELSE reads[p] + 1
         IN  /\ n \in 1..2 * IndexRange
             /\ n % IndexRange = (read_index[p] + 1) % IndexRange
             /\ (n - 1) % IndexRange = read_index[p]
             /\ reads[p] # 2 * IndexRange => n = reads[p] + 1
             /\ reads[p] = 2 * IndexRange => n > Buttons
<1>. USE ControllersAssumption
<1>1. reads[p] \in 0..2 * IndexRange /\ read_index[p] = reads[p] % IndexRange
  BY DEF CtlInv, CtlType, ReadsFollow
<1>2. CASE reads[p] = 2 * IndexRange
  <2>1. IndexRange \in Nat \ {0} /\ 0 \in 0..IndexRange - 1 /\ 2 \in Int /\ 1 \in Int
          /\ 1 \in 0..IndexRange - 1
    OBVIOUS
  <2>2. (IndexRange * 2 + 0) % IndexRange = 0  BY <2>1, ModUnique, Zenon
  <2>3. (IndexRange * 1 + 0) % IndexRange = 0  BY <2>1, ModUnique, Zenon
  <2>4. (IndexRange * 1 + 1) % IndexRange = 1  BY <2>1, ModUnique, Zenon
  <2>5. 1 % IndexRange = 1  BY <2>1, ModSmall, Zenon
  <2>6. 2 * IndexRange = IndexRange * 2 + 0 /\ IndexRange + 1 = IndexRange * 1 + 1
          /\ IndexRange + 1 - 1 = IndexRange * 1 + 0
    OBVIOUS
  <2>7. read_index[p] = 0  BY <1>1, <1>2, <2>2, <2>6
  <2>8. /\ (IndexRange + 1) % IndexRange = (read_index[p] + 1) % IndexRange
        /\ (IndexRange + 1 - 1) % IndexRange = read_index[p]
    BY <2>3, <2>4, <2>5, <2>6, <2>7
  <2>9. IndexRange + 1 \in 1..2 * IndexRange /\ IndexRange + 1 > Buttons  OBVIOUS
  <2>. QED  BY <1>2, <2>8, <2>9
<1>3. CASE reads[p] # 2 * IndexRange
  <2>1. reads[p] \in Nat /\ 1 \in Nat /\ IndexRange \in Nat \ {0}  BY <1>1
  <2>2. ((reads[p] % IndexRange) + 1) % IndexRange = (reads[p] + 1) % IndexRange
    BY <2>1, ModShift, Zenon
  <2>3. reads[p] + 1 - 1 = reads[p]  BY <2>1
  <2>4. reads[p] + 1 \in 1..2 * IndexRange  BY <1>1, <1>3
  <2>. QED  BY <1>1, <1>3, <2>2, <2>3, <2>4
<1>. QED  BY <1>2, <1>3

LEMMA ReadKeepsCtl ==
  ASSUME CtlInv, NEW p \in Pads, Read(p)
  PROVE  CtlInv'
<1>. USE ControllersAssumption DEF CtlInv
<1>. DEFINE n == IF reads[p] = 2 * IndexRange THEN IndexRange + 1 ELSE reads[p] + 1
<1>1. /\ n \in 1..2 * IndexRange
      /\ n % IndexRange = (read_index[p] + 1) % IndexRange
      /\ reads[p] # 2 * IndexRange => n = reads[p] + 1
      /\ reads[p] = 2 * IndexRange => n > Buttons
  BY ReadsCounted
<1>2. reads' = [reads EXCEPT ![p] = n] /\ keystate' = keystate /\ snapshot' = snapshot
        /\ read_index' = [read_index EXCEPT ![p] = (read_index[p] + 1) % IndexRange]
  BY DEF Read
<1>. HIDE DEF n
<1>3. latched[p] \in [1..Buttons -> {0, 1}] /\ Buttons \in Nat \ {0}
  BY DEF CtlType
<1>4. PICK shifted \in [1..Buttons -> {0, 1}] :
        /\ latched' = [latched EXCEPT ![p] = shifted]
        /\ \A b \in 1..Buttons :
              shifted[b] = IF n + b <= Buttons /\ n + b \in snapshot[p] THEN 1 ELSE 0
  <2>1. \A b \in 1..Buttons :
           latched[p][b] = IF reads[p] + b <= Buttons /\ reads[p] + b \in snapshot[p]
                           THEN 1 ELSE 0
    BY DEF ReadsFollow
  <2>2. reads[p] \in 0..2 * IndexRange /\ n \in Nat
    BY <1>1 DEF CtlType
  <2>3. CASE read_index[p] < Buttons
    <3>. DEFINE s == Append(Tail(latched[p]), 0)
    <3>1. /\ s \in [1..Buttons -> {0, 1}] /\ s[Buttons] = 0
          /\ \A b \in 1..Buttons - 1 : s[b] = latched[p][b + 1]
      BY <1>3, ShiftedOut
    <3>2. latched' = [latched EXCEPT ![p] = s]
      BY <2>3 DEF Read
    <3>. HIDE DEF s
    <3>3. ASSUME NEW b \in 1..Buttons
          PROVE  s[b] = IF n + b <= Buttons /\ n + b \in snapshot[p] THEN 1 ELSE 0
      <4>1. CASE b = Buttons
        BY <1>1, <2>2, <3>1, <4>1
      <4>2. CASE b # Buttons /\ reads[p] # 2 * IndexRange
        <5>1. b + 1 \in 1..Buttons /\ b \in 1..Buttons - 1 /\ n = reads[p] + 1
                /\ reads[p] + (b + 1) = n + b
          BY <1>1, <2>2, <4>2
        <5>2. s[b] = latched[p][b + 1]  BY <3>1, <5>1
        <5>. QED  BY <2>1, <5>1, <5>2
      <4>3. CASE b # Buttons /\ reads[p] = 2 * IndexRange
        <5>1. b + 1 \in 1..Buttons /\ b \in 1..Buttons - 1 /\ n > Buttons
                /\ ~(reads[p] + (b + 1) <= Buttons) /\ ~(n + b <= Buttons)
          BY <1>1, <2>2, <4>3
        <5>2. s[b] = latched[p][b + 1]  BY <3>1, <5>1
        <5>. QED  BY <2>1, <5>1, <5>2
      <4>. QED  BY <4>1, <4>2, <4>3
    <3>. QED  BY <3>1, <3>2, <3>3
  <2>4. CASE ~(read_index[p] < Buttons)
    <3>1. latched' = [latched EXCEPT ![p] = latched[p]]
      BY <2>4 DEF Read, CtlType
    <3>2. reads[p] >= Buttons
      <4>. SUFFICES ASSUME reads[p] < Buttons PROVE FALSE  BY <2>2
      <4>1. reads[p] \in 0..IndexRange - 1 /\ IndexRange \in Nat \ {0}  BY <2>2
      <4>2. reads[p] % IndexRange = reads[p]  BY <4>1, ModSmall, Zenon
      <4>. QED  BY <2>4, <4>2 DEF ReadsFollow
    <3>3. n > Buttons  BY <1>1, <2>2, <3>2
    <3>4. \A b \in 1..Buttons :
             latched[p][b] = IF n + b <= Buttons /\ n + b \in snapshot[p] THEN 1 ELSE 0
      BY <2>1, <2>2, <3>2, <3>3
    <3>. QED  BY <1>3, <3>1, <3>4
  <2>. QED  BY <2>3, <2>4
<1>5. (read_index[p] + 1) % IndexRange \in Nat
  <2>1. read_index[p] + 1 \in Int /\ IndexRange \in Nat \ {0}  BY DEF CtlType
  <2>2. (read_index[p] + 1) % IndexRange \in 0..IndexRange - 1
    BY <2>1, DivMod, Zenon
  <2>. QED  BY <2>2
<1>6. CtlType'
  BY <1>1, <1>2, <1>4, <1>5 DEF CtlType
<1>7. ReadsFollow'
  <2>. SUFFICES ASSUME NEW r \in Pads
                PROVE  /\ read_index'[r] = reads'[r] % IndexRange
                       /\ \A b \in 1..Buttons :
                            latched'[r][b] = IF reads'[r] + b <= Buttons
                              /\ reads'[r] + b \in snapshot'[r] THEN 1 ELSE 0
    BY DEF ReadsFollow
  <2>1. CASE r = p
    <3>1. reads'[r] = n /\ read_index'[r] = (read_index[p] + 1) % IndexRange
            /\ latched'[r] = shifted /\ snapshot' = snapshot
      BY <1>2, <1>4, <2>1 DEF CtlType
    <3>. QED  BY <1>1, <1>4, <2>1, <3>1
  <2>2. CASE r # p
    <3>1. reads'[r] = reads[r] /\ read_index'[r] = read_index[r]
            /\ latched'[r] = latched[r] /\ snapshot' = snapshot
      BY <1>2, <1>4, <2>2 DEF CtlType
    <3>. QED  BY <3>1 DEF ReadsFollow
  <2>. QED  BY <2>1, <2>2
<1>. QED  BY <1>6, <1>7

LEMMA CtlInvNext == CtlInv /\ [CtlNext]_ctlVars => CtlInv'
<1>. SUFFICES ASSUME CtlInv, [CtlNext]_ctlVars PROVE CtlInv'  OBVIOUS
<1>1. ASSUME NEW p \in Pads, NEW b \in 1..Buttons, SetButton(p, b) PROVE CtlInv'
  BY <1>1 DEF SetButton, CtlInv, CtlType, ReadsFollow, pads
<1>2. ASSUME NEW bit \in {0, 1}, Write4016(bit) PROVE CtlInv'
  BY <1>2 DEF Write4016, CtlInv, CtlType, ReadsFollow, pads
<1>3. CASE CtlReset
  BY <1>3 DEF CtlReset, CtlInv, CtlType, ReadsFollow, pads
<1>4. CASE UNCHANGED ctlVars
  BY <1>4 DEF ctlVars, CtlInv, CtlType, ReadsFollow, pads
<1>. QED  BY <1>1, <1>2, <1>3, <1>4, PollKeepsCtl, ReadKeepsCtl DEF CtlNext

\* Every read finds the bit of the instant its pad was polled at.
LEMMA ReadFinds ==
  ASSUME CtlInv, NEW p \in Pads, Read(p)
  PROVE  last_read' = Expected(p, reads'[p])
<1>. USE ControllersAssumption DEF CtlInv
<1>. DEFINE n == IF reads[p] = 2 * IndexRange THEN IndexRange + 1 ELSE reads[p] + 1
<1>1. /\ n \in 1..2 * IndexRange
      /\ (n - 1) % IndexRange = read_index[p]
      /\ reads[p] # 2 * IndexRange => n = reads[p] + 1
      /\ reads[p] = 2 * IndexRange => n > Buttons
  BY ReadsCounted
<1>2. reads'[p] = n  BY DEF Read, CtlType
<1>. HIDE DEF n
<1>3. latched[p] \in [1..Buttons -> {0, 1}] /\ Buttons \in Nat \ {0} /\ 1 \in 1..Buttons
        /\ reads[p] \in 0..2 * IndexRange /\ read_index[p] \in Nat
  BY DEF CtlType
<1>4. Head(latched[p]) = latched[p][1]
  BY <1>3, ShiftedOut
<1>5. latched[p][1] =
        IF reads[p] + 1 <= Buttons /\ reads[p] + 1 \in snapshot[p] THEN 1 ELSE 0
  BY <1>3 DEF ReadsFollow
<1>6. CASE n <= Buttons
  <2>1. n = reads[p] + 1 /\ reads[p] \in 0..IndexRange - 1 /\ IndexRange \in Nat \ {0}
    BY <1>1, <1>3, <1>6
  <2>2. reads[p] % IndexRange = reads[p]  BY <2>1, ModSmall, Zenon
  <2>3. read_index[p] < Buttons  BY <1>3, <1>6, <2>1, <2>2 DEF ReadsFollow
  <2>4. last_read' = Head(latched[p])  BY <2>3 DEF Read
  <2>5. last_read' = IF n \in snapshot[p] THEN 1 ELSE 0
    BY <1>4, <1>5, <1>6, <2>1, <2>4
  <2>. QED  BY <1>2, <1>6, <2>5 DEF Expected
<1>7. CASE ~(n <= Buttons)
  <2>1. Expected(p, n) = IF read_index[p] < Buttons THEN 0 ELSE 1
    BY <1>1, <1>7 DEF Expected
  <2>2. ~(reads[p] + 1 <= Buttons)  BY <1>1, <1>3, <1>7
  <2>3. Head(latched[p]) = 0  BY <1>4, <1>5, <2>2
  <2>. QED  BY <1>2, <2>1, <2>3 DEF Read
<1>. QED  BY <1>6, <1>7

-----------------------------------------------------------------------------
(***************************************************************************)
(* The noise register is never zero, for registers of any length a         *)
(* uint16_t has room for and any second tap.                               *)
(***************************************************************************)
\* A power of two is twice the one before.
LEMMA PowersDouble ==
  ASSUME NEW n \in 2..15
  PROVE  2^(n - 1) \in Nat \ {0, 1} /\ 2^n = 2 * 2^(n - 1)
<1>1. /\ 2^1 = 2 /\ 2^2 = 4 /\ 2^3 = 8 /\ 2^4 = 16 /\ 2^5 = 32 /\ 2^6 = 64 /\ 2^7 = 128
      /\ 2^8 = 256 /\ 2^9 = 512 /\ 2^10 = 1024 /\ 2^11 = 2048 /\ 2^12 = 4096
      /\ 2^13 = 8192 /\ 2^14 = 16384 /\ 2^15 = 32768
  OBVIOUS
<1>2. /\ n - 1 \in {1, 2, 3, 4, 5, 6, 7, 8, 9, 10, 11, 12, 13, 14} /\ n = (n - 1) + 1
  OBVIOUS
<1>3. ASSUME NEW k \in {1, 2, 3, 4, 5, 6, 7, 8, 9, 10, 11, 12, 13, 14}
      PROVE  2^k \in Nat \ {0, 1} /\ 2^(k + 1) = 2 * 2^k
  <2>1. CASE k \in {1}
    <3>1. k = 1 /\ k + 1 = 2
      BY <2>1
    <3>2. 2^k = 2^1 /\ 2^(k + 1) = 2^2
      BY <3>1, Zenon
    <3> QED
      BY <1>1, <3>2
  <2>2. CASE k \in {2}
    <3>1. k = 2 /\ k + 1 = 3
      BY <2>2
    <3>2. 2^k = 2^2 /\ 2^(k + 1) = 2^3
      BY <3>1, Zenon
    <3> QED
      BY <1>1, <3>2
  <2>3. CASE k \in {3}
    <3>1. k = 3 /\ k + 1 = 4
      BY <2>3
    <3>2. 2^k = 2^3 /\ 2^(k + 1) = 2^4
      BY <3>1, Zenon
    <3> QED
      BY <1>1, <3>2
  <2>4. CASE k \in {4}
    <3>1. k = 4 /\ k + 1 = 5
      BY <2>4
    <3>2. 2^k = 2^4 /\ 2^(k + 1) = 2^5
      BY <3>1, Zenon
    <3> QED
      BY <1>1, <3>2
  <2>5. CASE k \in {5}
    <3>1. k = 5 /\ k + 1 = 6
      BY <2>5
    <3>2. 2^k = 2^5 /\ 2^(k + 1) = 2^6
      BY <3>1, Zenon
    <3> QED
      BY <1>1, <3>2
  <2>6. CASE k \in {6}
    <3>1. k = 6 /\ k + 1 = 7
      BY <2>6
    <3>2. 2^k = 2^6 /\ 2^(k + 1) = 2^7
      BY <3>1, Zenon
    <3> QED
      BY <1>1, <3>2
  <2>7. CASE k \in {7}
    <3>1. k = 7 /\ k + 1 = 8
      BY <2>7
    <3>2. 2^k = 2^7 /\ 2^(k + 1) = 2^8
      BY <3>1, Zenon
    <3> QED
      BY <1>1, <3>2
  <2>8. CASE k \in {8}
    <3>1. k = 8 /\ k + 1 = 9
      BY <2>8
    <3>2. 2^k = 2^8 /\ 2^(k + 1) = 2^9
      BY <3>1, Zenon
    <3> QED
      BY <1>1, <3>2
  <2>9. CASE k \in {9}
    <3>1. k = 9 /\ k + 1 = 10
      BY <2>9
    <3>2. 2^k = 2^9 /\ 2^(k + 1) = 2^10
      BY <3>1, Zenon
    <3> QED
      BY <1>1, <3>2
  <2>10. CASE k \in {10}
    <3>1. k = 10 /\ k + 1 = 11
      BY <2>10
    <3>2. 2^k = 2^10 /\ 2^(k + 1) = 2^11
      BY <3>1, Zenon
    <3> QED
      BY <1>1, <3>2
  <2>11. CASE k \in {11}
    <3>1. k = 11 /\ k + 1 = 12
      BY <2>11
    <3>2. 2^k = 2^11 /\ 2^(k + 1) = 2^12
      BY <3>1, Zenon
    <3> QED
      BY <1>1, <3>2
  <2>12. CASE k \in {12}
    <3>1. k = 12 /\ k + 1 = 13
      BY <2>12
    <3>2. 2^k = 2^12 /\ 2^(k + 1) = 2^13
      BY <3>1, Zenon
    <3> QED
      BY <1>1, <3>2
  <2>13. CASE k \in {13}
    <3>1. k = 13 /\ k + 1 = 14
      BY <2>13
    <3>2. 2^k = 2^13 /\ 2^(k + 1) = 2^14
      BY <3>1, Zenon
    <3> QED
      BY <1>1, <3>2
  <2>14. CASE k \in {14}
    <3>1. k = 14 /\ k + 1 = 15
      BY <2>14
    <3>2. 2^k = 2^14 /\ 2^(k + 1) = 2^15
      BY <3>1, Zenon
    <3> QED
      BY <1>1, <3>2
  <2> QED
    BY <2>1, <2>2, <2>3, <2>4, <2>5, <2>6, <2>7, <2>8, <2>9, <2>10, <2>11, <2>12, <2>13, <2>14
<1> DEFINE k == n - 1
           m == 2^k
           p == 2^(k + 1)
<1>4. k \in {1, 2, 3, 4, 5, 6, 7, 8, 9, 10, 11, 12, 13, 14}
  BY <1>2
<1> HIDE DEF k
<1>5. m \in Nat \ {0, 1} /\ p = 2 * m
  BY <1>3, <1>4, Zenon
<1>6. k + 1 = n /\ k = n - 1
  BY DEF k
<1> QED
  BY <1>5, <1>6, Zenon

NoiseInv == NeverStuck /\ short \in BOOLEAN

LEMMA NoiseInvInit == NoiseInit => NoiseInv
<1>1. 2^RegisterBits \in Nat /\ 2^RegisterBits > 1
  <2> DEFINE m == 2^(RegisterBits - 1)
             w == 2^RegisterBits
  <2>1. m \in Nat \ {0, 1} /\ w = 2 * m
    BY PowersDouble, NoiseAssumption
  <2> HIDE DEF m, w
  <2>2. w \in Nat /\ w > 1
    BY <2>1
  <2> QED
    BY <2>2 DEF w
<1> DEFINE w == 2^RegisterBits
<1>2. w \in Nat /\ w > 1
  BY <1>1
<1> HIDE DEF w
<1>3. 1 \in 1..w - 1 /\ FALSE \in BOOLEAN
  BY <1>2
<1> QED
  BY <1>3, Zenon DEF NoiseInit, NoiseInv, NeverStuck, w

\* What is shifted in to a register of one is not zero, and shifting any other
\* leaves a bit: its second tap finds nothing at one.
LEMMA ShiftNeverSticks ==
  ASSUME NoiseInv, Shift
  PROVE  NeverStuck'
<1> DEFINE m == 2^(RegisterBits - 1)
           t == IF short THEN Tap ELSE 1
           u == 2^t
           b0 == Bit(lfsr, 0)
           b1 == Bit(lfsr, t)
<1>1. m \in Nat \ {0, 1} /\ 2^RegisterBits = 2 * m
  BY PowersDouble, NoiseAssumption
<1>2. t \in 1..14
  BY NoiseAssumption DEF NoiseInv
<1>3. u \in Nat \ {0, 1}
  <2>1. t + 1 \in 2..15 /\ (t + 1) - 1 = t
    BY <1>2
  <2> HIDE DEF t
  <2> QED
    BY <2>1, PowersDouble
<1>4. lfsr \in Nat \ {0} /\ lfsr < 2 * m
  <2> HIDE DEF m
  <2> QED
    BY <1>1 DEF NoiseInv, NeverStuck
<1>5. lfsr' = (lfsr \div 2) + ((b0 + b1) % 2) * m
  BY Zenon DEF Shift, Feedback
<1>6. b0 = lfsr % 2
  <2>1. 2^0 = 1
    OBVIOUS
  <2>2. b0 = (lfsr \div 1) % 2
    BY <2>1, Zenon DEF Bit
  <2> QED
    BY <1>4, <2>2
<1>7. b1 = (lfsr \div u) % 2
  BY Zenon DEF Bit
<1> HIDE DEF m, u, b0, b1, t
<1>8. b1 \in {0, 1} /\ (lfsr = 1 => b1 = 0)
  BY <1>3, <1>4, <1>7
<1>9. (b0 + b1) % 2 \in {0, 1} /\ (lfsr = 1 => (b0 + b1) % 2 = 1)
  BY <1>4, <1>6, <1>8
<1>10. lfsr \div 2 \in 0..(m - 1) /\ (lfsr # 1 => lfsr \div 2 > 0)
  BY <1>1, <1>4
<1> DEFINE f == (b0 + b1) % 2
           h == lfsr \div 2
<1>11. f \in {0, 1} /\ h \in 0..(m - 1) /\ (f = 1 \/ h > 0)
  BY <1>9, <1>10
<1>12. lfsr' = h + f * m
  BY <1>5
<1> HIDE DEF f, h
<1>13. lfsr' \in 1..(2 * m - 1)
  <2>1. CASE f = 0
    BY <1>1, <1>11, <1>12, <2>1
  <2>2. CASE f = 1
    BY <1>1, <1>11, <1>12, <2>2
  <2> QED
    BY <1>11, <2>1, <2>2
<1> QED
  BY <1>1, <1>13 DEF NeverStuck, m

LEMMA NoiseInvNext == NoiseInv /\ [NoiseNext]_noiseVars => NoiseInv'
<1> SUFFICES ASSUME NoiseInv, [NoiseNext]_noiseVars
             PROVE  NoiseInv'
  OBVIOUS
<1>1. CASE Shift
  BY <1>1, ShiftNeverSticks DEF NoiseInv, Shift
<1>2. CASE SetMode
  BY <1>2 DEF SetMode, NoiseInv, NeverStuck
<1>3. CASE UNCHANGED noiseVars
  BY <1>3 DEF noiseVars, NoiseInv, NeverStuck
<1> QED
  BY <1>1, <1>2, <1>3 DEF NoiseNext

-----------------------------------------------------------------------------
(* The machine the run checks, which is one of the units at a time.        *)
UnitsInv == LcInv /\ EnvTypeOK /\ PulseInv /\ LinTypeOK /\ NoiseInv /\ RingInv /\ CtlInv

LEMMA UnitsInvInit == MCInit => UnitsInv
  BY LcInvInit, EnvInvInit, PulseInvInit, LinInvInit, NoiseInvInit, RingInvInit, CtlInvInit
     DEF MCInit, UnitsInv

LEMMA EveryUnitSteps ==
  [MCNext]_allVars =>
    /\ [LcNext]_lcVars /\ [EnvNext]_envVars /\ [PulseNext]_pulseVars
    /\ [LinNext]_linVars /\ [NoiseNext]_noiseVars /\ [RingNext]_ringVars /\ [CtlNext]_ctlVars
<1>. SUFFICES ASSUME [MCNext]_allVars
              PROVE  /\ [LcNext]_lcVars /\ [EnvNext]_envVars /\ [PulseNext]_pulseVars
                     /\ [LinNext]_linVars /\ [NoiseNext]_noiseVars
                     /\ [RingNext]_ringVars /\ [CtlNext]_ctlVars
  OBVIOUS
<1>1. CASE UNCHANGED allVars  BY <1>1 DEF allVars
<1>2. CASE MCNext  BY <1>2 DEF MCNext, Runs
<1>. QED  BY <1>1, <1>2

LEMMA UnitsInvNext == UnitsInv /\ [MCNext]_allVars => UnitsInv'
  BY EveryUnitSteps, LcInvNext, EnvInvNext, PulseInvNext, LinInvNext, NoiseInvNext,
     RingInvNext, CtlInvNext DEF UnitsInv

\* The units of the APU together keep every bound of their own, with the
\* strengthening that makes it inductive.
THEOREM UnitsInvariant == MCSpec => []UnitsInv
  BY UnitsInvInit, UnitsInvNext, PTL DEF MCSpec

\* No unit leaves its shape: the periods stay in their eleven bits and their
\* copies agree, no divider stops at zero, a disabled channel is silent, the
\* noise register is never zero and the viewer's unlocked copy is a stretch of
\* consecutive samples.
THEOREM UnitsSafeHolds == MCSpec => []UnitsSafe
<1>1. UnitsInv => UnitsSafe
  BY ViewIsContiguousFromInv DEF UnitsInv, UnitsSafe, LcInv, PulseInv, NoiseInv
<1>. QED  BY <1>1, UnitsInvariant, PTL

\* The counter that applies its loads lazily is the one the game expects in
\* every step, but for a clock that takes an old stamp for its own.
THEOREM LazyIsEagerHolds == MCSpec => LazyIsEager
<1>1. UnitsInv /\ [MCNext]_allVars =>
        [Eager!Next \/ (HalfFrameTick /\ Stale)]_lcVars
  BY EveryUnitSteps, LcRefines DEF UnitsInv
<1>. QED  BY <1>1, UnitsInvariant, PTL DEF MCSpec, LazyIsEager

\* The window gets each frame's samples from its first one and in order.
THEOREM FrameHandedOverHolds == MCSpec => FrameHandedOver
<1>1. UnitsInv /\ [MCNext]_allVars =>
        [CopyFrame /\ ~first =>
          /\ Len(handed') = IF produced - base < Take THEN produced - base ELSE Take
          /\ \A i \in 1..Len(handed') : handed'[i] = base + i - 1]_ringVars
  BY CopyHandsFrameOver DEF UnitsInv
<1>. QED  BY <1>1, UnitsInvariant, PTL DEF MCSpec, FrameHandedOver

\* The game reads the buttons of one instant, in order, and then ones until
\* the byte that counts the reads goes round.
THEOREM ReadsOneInstantHolds == MCSpec => ReadsOneInstant
<1>1. UnitsInv /\ [MCNext]_allVars =>
        [\A p \in Pads : Read(p) => last_read' = Expected(p, reads'[p])]_ctlVars
  BY ReadFinds DEF UnitsInv
<1>. QED  BY <1>1, UnitsInvariant, PTL DEF MCSpec, ReadsOneInstant
=============================================================================
