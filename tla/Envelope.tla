------------------------------ MODULE Envelope ------------------------------
(***************************************************************************)
(* The volume envelope of the square and noise channels                    *)
(* (src/src/Envelope.cpp): a divider of eight bits that is decremented     *)
(* before it is compared with zero, and a decay counter behind it.  The    *)
(* game writes register 0 and register 3 between two quarter frames.       *)
(***************************************************************************)
EXTENDS Naturals

CONSTANTS
    MaxVolume,      \* 15, the volume a start sets and the largest period
    Byte            \* 256, the range of divider_

ASSUME EnvelopeAssumption ==
    /\ MaxVolume \in Nat \ {0}
    /\ Byte \in Nat /\ Byte > MaxVolume + 1

VARIABLES
    env_start,      \* start_
    env_counter,    \* counter_
    env_divider,    \* divider_
    env_loop,       \* control_ & 0x20
    env_constant,   \* control_ & 0x10
    env_period      \* control_ & 0x0f

envControl == <<env_loop, env_constant, env_period>>
envVars == <<env_start, env_counter, env_divider, envControl>>

EnvInit ==
    /\ env_start = FALSE /\ env_counter = 0 /\ env_divider = Byte - 1
    /\ env_loop = FALSE /\ env_constant = FALSE /\ env_period = 0

SetControl ==
    /\ env_loop' \in BOOLEAN /\ env_constant' \in BOOLEAN
    /\ env_period' \in 0..MaxVolume
    /\ UNCHANGED <<env_start, env_counter, env_divider>>

Start ==
    /\ env_start' = TRUE
    /\ UNCHANGED <<env_counter, env_divider, envControl>>

Reload == env_divider' = env_period + 1

\* A mutant: the decay goes round whether or not the loop flag is set.
DecayRound == env_counter' = IF env_counter > 0 THEN env_counter - 1 ELSE MaxVolume

Decay ==
    env_counter' = IF env_counter > 0 THEN env_counter - 1
                   ELSE IF env_loop THEN MaxVolume ELSE 0

\* clock(): the first quarter frame after a start.
Restart ==
    /\ env_start
    /\ env_start' = FALSE /\ env_counter' = MaxVolume /\ Reload
    /\ UNCHANGED envControl

\* clock_divider(): decremented, as a byte, and then compared with zero.
ClockDivider ==
    /\ ~env_start
    /\ LET next == (env_divider + Byte - 1) % Byte
       IN IF next = 0
          THEN Reload /\ Decay
          ELSE env_divider' = next /\ UNCHANGED env_counter
    /\ UNCHANGED <<env_start, envControl>>

EnvClock == Restart \/ ClockDivider

EnvNext == SetControl \/ Start \/ EnvClock

EnvSpec == EnvInit /\ [][EnvNext]_envVars /\ WF_envVars(EnvClock)

-----------------------------------------------------------------------------
(* The type of the envelope.  The divider is never left at zero, from      *)
(* where the next decrement would take a whole byte's worth of clocks.     *)
EnvTypeOK ==
    /\ env_start \in BOOLEAN /\ env_loop \in BOOLEAN /\ env_constant \in BOOLEAN
    /\ env_counter \in 0..MaxVolume
    /\ env_period \in 0..MaxVolume
    /\ env_divider \in 1..Byte - 1

(* A note that is not looped fades: once the game leaves the registers     *)
(* alone, the decay counter reaches silence and stays there.               *)
NoteFades ==
    <>[][~SetControl /\ ~Start]_envVars /\ <>[]~env_loop => <>[](env_counter = 0)
=============================================================================
