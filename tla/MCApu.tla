-------------------------------- MODULE MCApu --------------------------------
(***************************************************************************)
(* The APU's units and the controllers, which do not share state, for TLC: *)
(* the frame counter and the DMC with their interrupts, the length         *)
(* counter, the envelope, a square channel's sweep, the linear counter,    *)
(* the noise register, the ring of samples and the controllers.  A         *)
(* behaviour runs one of them, chosen at the start.                        *)
(***************************************************************************)
EXTENDS ApuIrq, LengthCounter, Envelope, Pulse, LinearCounter, Noise, SampleRing,
        Controllers

VARIABLE unit

allVars ==
    <<unit, vars, lcVars, envVars, pulseVars, linVars, noiseVars, ringVars, ctlVars>>

\* Periods as short as their parities and order allow.
MCPeriods4 == [s \in 0..5 |-> IF s \in {3, 4} THEN 1 ELSE IF s \in {2, 5} THEN 3 ELSE 2]
MCPeriods5 == [s \in 0..4 |-> 2]

MCInit ==
    /\ unit \in {"irq", "length", "envelope", "pulse", "linear", "noise", "ring", "pads"}
    /\ Init /\ LcInit /\ EnvInit /\ PulseInit /\ LinInit /\ NoiseInit /\ RingInit
    /\ CtlInit

\* Only the unit that runs may change.
Runs(u) ==
    /\ unit = u /\ UNCHANGED unit
    /\ u # "irq"      => UNCHANGED vars
    /\ u # "length"   => UNCHANGED lcVars
    /\ u # "envelope" => UNCHANGED envVars
    /\ u # "pulse"    => UNCHANGED pulseVars
    /\ u # "linear"   => UNCHANGED linVars
    /\ u # "noise"    => UNCHANGED noiseVars
    /\ u # "ring"     => UNCHANGED ringVars
    /\ u # "pads"     => UNCHANGED ctlVars

MCNext ==
    \/ unit = "irq"      /\ Next      /\ Runs("irq")
    \/ unit = "length"   /\ LcNext    /\ Runs("length")
    \/ unit = "envelope" /\ EnvNext   /\ Runs("envelope")
    \/ unit = "pulse"    /\ PulseNext /\ Runs("pulse")
    \/ unit = "linear"   /\ LinNext   /\ Runs("linear")
    \/ unit = "noise"    /\ NoiseNext /\ Runs("noise")
    \/ unit = "ring"     /\ RingNext  /\ Runs("ring")
    \/ unit = "pads"     /\ CtlNext   /\ Runs("pads")

(* The frame loop ticks the CPU and the APU in turn; the frame sequencer    *)
(* and the noise timer keep clocking their units.                          *)
Clocks ==
    /\ WF_vars(unit = "irq" /\ CpuHalf)
    /\ WF_vars(unit = "irq" /\ ApuTick)
    /\ WF_envVars(unit = "envelope" /\ EnvClock)
    /\ WF_linVars(unit = "linear" /\ LinClock)
    /\ WF_noiseVars(unit = "noise" /\ Shift)

MCSpec == MCInit /\ [][MCNext]_allVars /\ Clocks

\* The interrupts alone, with a timer of the DMC that fires again and again.
MCTimedSpec ==
    unit = "irq" /\ MCSpec /\ SF_vars(unit = "irq" /\ ApuTickWith(TRUE))

-----------------------------------------------------------------------------
(* The units keep their shape: no write and no sweep takes the period of a *)
(* square channel out of its eleven bits, no divider is left at zero, the  *)
(* three copies of the period agree, a disabled channel stays silent       *)
(* whatever is still to be applied, the noise register is never zero, and  *)
(* the viewer's unlocked copy is a stretch of consecutive samples.         *)
UnitsSafe ==
    /\ LcTypeOK /\ EnvTypeOK /\ PulseTypeOK /\ LinTypeOK
    /\ CopiesAgree /\ DisabledIsSilent /\ NeverStuck /\ ViewIsContiguous

(* The frame counter's sequence comes round again and again, a note the    *)
(* game does not loop comes to its end, by the envelope or by the linear   *)
(* counter, and the noise channel's output goes on alternating whatever    *)
(* the game does to its mode.                                              *)
SequenceRuns == unit = "irq" => FrameCounterRuns
NotesEnd ==
    /\ unit = "envelope" => NoteFades
    /\ unit = "linear" => TriangleEnds
    /\ unit = "noise" => NoiseAlternates
=============================================================================
