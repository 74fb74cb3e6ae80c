---------------------------- MODULE LengthCounter ----------------------------
(***************************************************************************)
(* The length counter of an APU channel (src/src/LengthCounter.cpp) and    *)
(* the accesses that reach it.  The code applies a load lazily, when the   *)
(* counter is next read or clocked, and tells the writes of the clock's    *)
(* own cycle by comparing their stamps with the APU's cycle count, which a *)
(* reset sets back to zero while the stamps stay.                          *)
(***************************************************************************)
EXTENDS Integers

CONSTANTS
    Loads,          \* the values of length_table a write can load
    ResetWritesHalt,\* whether apu::reset() writes the channel's register 0
    MaxCycles       \* bound on the cycles between two resets

ASSUME LcAssumption ==
    /\ Loads \subseteq Nat \ {0}
    /\ ResetWritesHalt \in BOOLEAN
    /\ MaxCycles \in Nat

VARIABLES
    lc_half,        \* whose half of the cycle is next, "cpu" or "apu"
    lc_cycle,       \* apu_cycles_
    enabled,
    value, reload, reload_value, reload_cycle,
    halt, prev_halt, halt_cycle,
    access,         \* history: what the CPU did in this cycle
    tainted         \* history: a stamp from before a reset was mistaken

counter == <<value, reload, reload_value, reload_cycle>>
halting == <<halt, prev_halt, halt_cycle>>
lcVars  == <<lc_half, lc_cycle, enabled, counter, halting, access, tainted>>

\* The stamps' initial value, which no cycle has.
NoCycle == -1

-----------------------------------------------------------------------------
Accesses(kind) ==
    /\ lc_half = "cpu" /\ lc_half' = "apu"
    /\ access' = kind
    /\ UNCHANGED <<lc_cycle, tainted>>

NoAccess == Accesses("none") /\ UNCHANGED <<enabled, counter, halting>>

\* A mutant: a load forgets that an earlier one is still waiting.
LoadDropsPending ==
    /\ Accesses("load")
    /\ enabled
    /\ value' = value
    /\ reload_value' \in Loads
    /\ reload' = TRUE
    /\ reload_cycle' = lc_cycle
    /\ UNCHANGED <<enabled, halting>>

\* Register 3 of the channel, while it is enabled.
Load ==
    /\ Accesses("load")
    /\ enabled
    /\ value' = IF reload THEN reload_value ELSE value
    /\ reload_value' \in Loads
    /\ reload' = TRUE
    /\ reload_cycle' = lc_cycle
    /\ UNCHANGED <<enabled, halting>>

\* halt() and resume(): bit 5 of register 0, bit 7 of the triangle's.
SetHalt ==
    /\ Accesses("halt")
    /\ prev_halt' = halt
    /\ halt' \in BOOLEAN
    /\ halt_cycle' = lc_cycle
    /\ UNCHANGED <<enabled, counter>>

\* A mutant: clear() leaves it to the next load to raise the flag.
ClearWithoutFlag == reload_value' = 0 /\ UNCHANGED <<value, reload, reload_cycle>>

\* $4015: set_enabled(), and clear() when the channel is disabled.
Clear == reload_value' = 0 /\ reload' = TRUE /\ UNCHANGED <<value, reload_cycle>>

Enable  == Accesses("enable") /\ enabled' = TRUE /\ UNCHANGED <<counter, halting>>
Disable == Accesses("disable") /\ enabled' = FALSE /\ Clear /\ UNCHANGED halting

\* value(): a read of $4015, a sample of the mixer, the triangle's timer.
TakeValue ==
    /\ value' = IF reload THEN reload_value ELSE value
    /\ reload' = FALSE
    /\ UNCHANGED <<reload_value, reload_cycle>>

ReadStatus == Accesses("read") /\ TakeValue /\ UNCHANGED <<enabled, halting>>

-----------------------------------------------------------------------------
(* clock(): which stamps are this cycle's, and what they change.           *)
LoadedNow == reload /\ reload_cycle = lc_cycle

HaltedNow == IF halt_cycle = lc_cycle THEN prev_halt ELSE halt

Decremented(n) == IF ~HaltedNow /\ n > 0 THEN n - 1 ELSE n

ClockedValue ==
    CASE LoadedNow /\ value = 0 -> reload_value
      [] LoadedNow /\ value # 0 -> Decremented(value)
      [] reload /\ ~LoadedNow   -> Decremented(reload_value)
      [] OTHER                  -> Decremented(value)

\* A stamp of an earlier life of the APU equals this cycle's number.
Stale ==
    \/ LoadedNow /\ access # "load"
    \/ halt_cycle = lc_cycle /\ access \notin {"halt", "reset"}

EndOfTick ==
    /\ lc_half = "apu" /\ lc_half' = "cpu"
    /\ lc_cycle < MaxCycles
    /\ lc_cycle' = lc_cycle + 1
    /\ access' = "none"
    /\ UNCHANGED <<enabled, halting>>

\* apu::tick() with a half-frame clock, which comes before the sample.
HalfFrameTick ==
    /\ EndOfTick
    /\ value' = ClockedValue
    /\ reload' = FALSE
    /\ tainted' = (tainted \/ Stale)
    /\ UNCHANGED <<reload_value, reload_cycle>>

\* Without one; the mixer or the timer may read the counter.
SampleTick == EndOfTick /\ TakeValue /\ UNCHANGED tainted
QuietTick  == EndOfTick /\ UNCHANGED <<counter, tainted>>

\* apu::reset(): $4015 and, but for the triangle, register 0 are written.
LcReset ==
    /\ lc_half = "cpu" /\ lc_half' = "apu"
    /\ lc_cycle' = 0
    /\ access' = "reset"
    /\ enabled' = FALSE
    /\ Clear
    /\ IF ResetWritesHalt
       THEN halt' = FALSE /\ prev_halt' = halt /\ halt_cycle' = 0
       ELSE UNCHANGED halting
    /\ UNCHANGED tainted

LcInit ==
    /\ lc_half = "apu" /\ lc_cycle = 0 /\ access = "reset"
    /\ enabled = FALSE
    /\ value = 0 /\ reload = TRUE /\ reload_value = 0 /\ reload_cycle = NoCycle
    /\ halt = FALSE /\ prev_halt = FALSE
    /\ halt_cycle = IF ResetWritesHalt THEN 0 ELSE NoCycle
    /\ tainted = FALSE

LcNext ==
    \/ NoAccess \/ Load \/ SetHalt \/ Enable \/ Disable \/ ReadStatus
    \/ HalfFrameTick \/ SampleTick \/ QuietTick
    \/ LcReset

LcSpec == LcInit /\ [][LcNext]_lcVars

-----------------------------------------------------------------------------
Fresh == access \in {"halt", "reset"} /\ halt_cycle = lc_cycle

Eager == INSTANCE LengthSpec WITH
    count   <- IF access # "load" /\ reload THEN reload_value ELSE value,
    pending <- IF access = "load" THEN reload_value ELSE 0,
    halted  <- IF Fresh THEN prev_halt ELSE halt,
    halt    <- halt

(* The type of the counter, with loads at most length_table's largest.     *)
LcTypeOK ==
    /\ lc_half \in {"cpu", "apu"} /\ lc_cycle \in 0..MaxCycles
    /\ enabled \in BOOLEAN /\ reload \in BOOLEAN
    /\ value \in Nat /\ reload_value \in Loads \cup {0}
    /\ halt \in BOOLEAN /\ prev_halt \in BOOLEAN
    /\ {reload_cycle, halt_cycle} \subseteq Int
    /\ access \in {"none", "load", "halt", "enable", "disable", "read", "reset"}
    /\ tainted \in BOOLEAN

(* The lazy counter behaves as the eager one in every step, the only       *)
(* exception being a clock whose number is that of a stamp taken before    *)
(* the last reset.                                                         *)
LazyIsEager == [][Eager!Next \/ (HalfFrameTick /\ Stale)]_lcVars

(* A disabled channel is silent, whatever loads, clocks and reads came     *)
(* before and however many of them are still to be applied.                *)
DisabledIsSilent ==
    ~enabled /\ ~tainted => (IF reload THEN reload_value ELSE value) = 0
=============================================================================
