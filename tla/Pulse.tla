-------------------------------- MODULE Pulse --------------------------------
(***************************************************************************)
(* The period of a square channel (src/src/Square.h, Sweep.h, Timer.h),    *)
(* which the code keeps three times: timer_reload_, the sweep's            *)
(* pulse_period_ and, as (period + 1) * 2, the timer's frequency.  The     *)
(* game writes it in two parts, the sweep unit replaces it on half frames, *)
(* and the timer counts it down in between.                                *)
(***************************************************************************)
EXTENDS Integers

CONSTANTS
    Low,            \* 0x100, the weight of the part register 3 writes
    Limit,          \* 0x800, above which the sweep leaves the period alone
    Word,           \* 0x10000, the range of the code's uint16_t
    Shifts,         \* 0..7, the values of shift()
    MaxPeriod,      \* 7, the largest period of the sweep's own divider
    Channel         \* 0 or 1: how negation is done

ASSUME PulseAssumption ==
    /\ Low \in Nat \ {0} /\ Limit \in Nat /\ Limit % Low = 0 /\ Limit > Low
    /\ Word \in Nat /\ Word > 2 * Limit
    /\ Shifts \subseteq 0..7 /\ 0 \in Shifts /\ MaxPeriod \in Nat /\ Channel \in {0, 1}

VARIABLES
    timer_reload, pulse_period, frequency,      \* the three copies
    timer,                                      \* timer_
    sw_enabled, sw_negate, sw_shift, sw_period, \* the sweep's control_
    sw_counter, sw_reload                       \* its counter_ and reload_

period  == <<timer_reload, pulse_period, frequency>>
sweep_control == <<sw_enabled, sw_negate, sw_shift, sw_period>>
pulseVars == <<period, timer, sweep_control, sw_counter, sw_reload>>

PulseInit ==
    /\ timer_reload = 0 /\ pulse_period = 0 /\ frequency = Word - 1
    /\ timer = Word - 1
    /\ sw_enabled = FALSE /\ sw_negate = FALSE /\ sw_shift = 0 /\ sw_period = 0
    /\ sw_counter = 0 /\ sw_reload = FALSE

SetPeriod(p) ==
    /\ timer_reload' = p
    /\ frequency' = (p + 1) * 2
    /\ pulse_period' = p

\* Registers 2 and 3: the low and the high part of the period.
WriteLow ==
    /\ \E low \in 0..Low - 1 : SetPeriod(timer_reload - (timer_reload % Low) + low)
    /\ UNCHANGED <<timer, sweep_control, sw_counter, sw_reload>>

WriteHigh ==
    /\ \E high \in 0..(Limit \div Low) - 1 : SetPeriod((timer_reload % Low) + high * Low)
    /\ UNCHANGED <<timer, sweep_control, sw_counter, sw_reload>>

\* Register 1.
WriteSweep ==
    /\ sw_enabled' \in BOOLEAN /\ sw_negate' \in BOOLEAN
    /\ sw_shift' \in Shifts /\ sw_period' \in 0..MaxPeriod
    /\ sw_reload' = TRUE
    /\ UNCHANGED <<period, timer, sw_counter>>

Delta == pulse_period \div 2^sw_shift

\* target_period(): a difference below zero becomes a large uint16_t.
TargetPeriod ==
    (IF sw_negate THEN pulse_period - Delta - (1 - Channel)
                  ELSE pulse_period + Delta) % Word

AdjustPeriod ==
    IF sw_enabled /\ sw_shift # 0 /\ TargetPeriod < Limit
    THEN SetPeriod(TargetPeriod) ELSE UNCHANGED period

\* Sweep::clock(), on half frames.
SweepClock ==
    /\ IF sw_counter = 0 THEN AdjustPeriod ELSE UNCHANGED period
    /\ sw_counter' = IF sw_reload \/ sw_counter = 0 THEN sw_period + 1
                     ELSE sw_counter - 1
    /\ sw_reload' = FALSE
    /\ UNCHANGED <<timer, sweep_control>>

\* Timer::tick(): the new frequency is taken when the old one has run out.
Tick ==
    /\ timer' = IF timer = 1 THEN frequency ELSE (timer + Word - 1) % Word
    /\ UNCHANGED <<period, sweep_control, sw_counter, sw_reload>>

PulseNext == WriteLow \/ WriteHigh \/ WriteSweep \/ SweepClock \/ Tick

PulseSpec == PulseInit /\ [][PulseNext]_pulseVars

-----------------------------------------------------------------------------
(* The type of the channel's period: no write and no sweep takes it out of *)
(* its eleven bits, and the timer is never reloaded with zero, from where  *)
(* it would take a whole word to come back.                                *)
PulseTypeOK ==
    /\ timer_reload \in 0..Limit - 1
    /\ pulse_period \in 0..Limit - 1
    /\ frequency \in 2..Word - 1
    /\ timer \in 1..Word - 1
    /\ sw_enabled \in BOOLEAN /\ sw_negate \in BOOLEAN /\ sw_reload \in BOOLEAN
    /\ sw_shift \in Shifts /\ sw_period \in 0..MaxPeriod
    /\ sw_counter \in 0..MaxPeriod + 1

(* The three copies of the period agree after any mixture of the game's    *)
(* half writes and the sweep's, once the first of them has been written.   *)
CopiesAgree ==
    /\ pulse_period = timer_reload
    /\ frequency \in {(timer_reload + 1) * 2, Word - 1}
=============================================================================
