-------------------------------- MODULE Noise --------------------------------
(***************************************************************************)
(* The noise generator: the linear feedback shift register                 *)
(* (src/src/Lfsr.h) clocked by the noise channel's timer                   *)
(* (src/src/Noise.cpp), with the mode the game switches at any moment.     *)
(***************************************************************************)
EXTENDS Naturals

CONSTANTS
    RegisterBits,           \* 15, the length of the register
    Tap             \* 6, the second tap of the short mode

\* value_ is a uint16_t.
ASSUME NoiseAssumption == RegisterBits \in 2..15 /\ Tap \in 1..RegisterBits - 1

VARIABLES
    lfsr,           \* value_
    short           \* mode_

noiseVars == <<lfsr, short>>

Bit(v, i) == (v \div 2^i) % 2

NoiseInit == lfsr = 1 /\ short = FALSE

\* Register 2.
SetMode == short' \in BOOLEAN /\ UNCHANGED lfsr

Feedback(v, m) == (Bit(v, 0) + Bit(v, IF m THEN Tap ELSE 1)) % 2

\* Lfsr::clock(), from Noise::tick().
Shift ==
    /\ lfsr' = (lfsr \div 2) + Feedback(lfsr, short) * 2^(RegisterBits - 1)
    /\ UNCHANGED short

NoiseNext == SetMode \/ Shift

NoiseSpec == NoiseInit /\ [][NoiseNext]_noiseVars /\ WF_noiseVars(Shift)

-----------------------------------------------------------------------------
(* The register never becomes zero, where it would stay for ever, however  *)
(* the game switches the mode in between.                                  *)
NeverStuck == lfsr \in 1..2^RegisterBits - 1

(* Whatever the game does to the mode, the channel goes on being switched  *)
(* on and off: bit 0, which gates its output, is both again and again.     *)
NoiseAlternates == []<>(Bit(lfsr, 0) = 0) /\ []<>(Bit(lfsr, 0) = 1)
=============================================================================
