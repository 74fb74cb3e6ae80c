----------------------------- MODULE DmaTiming -----------------------------
(***************************************************************************)
(* CpuDma with history variables that measure how long its transfers take. *)
(* They record, and never guard, a step.                                   *)
(***************************************************************************)
EXTENDS CpuDma

VARIABLES
    elapsed,        \* CPU cycles the last copy has taken
    odd_write,      \* it was asked for in an odd cycle
    fetches,        \* sample fetches scheduled since then
    dmc_wait        \* CPU cycles since the last fetch was scheduled

history    == <<elapsed, odd_write, fetches, dmc_wait>>
timingVars == <<dmaVars, history>>

TimedTick ==
    \/ CpuCycle /\ UNCHANGED history
    \/ /\ StartCycle
       /\ elapsed' = 0 /\ odd_write' = (parity = 1) /\ fetches' = 0
       /\ UNCHANGED dmc_wait
    \/ /\ DmaCycle
       /\ elapsed' = (IF spr_count > 0 THEN elapsed + 1 ELSE elapsed)
       /\ dmc_wait' = (IF dmc_count > 0 THEN dmc_wait + 1 ELSE dmc_wait)
       /\ UNCHANGED <<odd_write, fetches>>

TimedScheduleDmc ==
    /\ ScheduleDmc
    /\ dmc_wait' = 0
    /\ fetches' = (IF spr_count > 0 THEN fetches + 1 ELSE fetches)
    /\ UNCHANGED <<elapsed, odd_write>>

TimedReset == ResetDma /\ UNCHANGED history

TimingInit ==
    /\ DmaInit
    /\ elapsed = 0 /\ odd_write = FALSE /\ fetches = 0 /\ dmc_wait = 0

TimingNext == TimedTick \/ TimedScheduleDmc \/ TimedReset

\* The frame loop keeps clocking the CPU.
TimingSpec ==
    TimingInit /\ [][TimingNext]_timingVars /\ WF_timingVars(TimedTick)

-----------------------------------------------------------------------------
(***************************************************************************)
(* "the procedure takes 513 CPU cycles (+1 on odd CPU cycles)" (Ppu.cpp):  *)
(* exactly that when no sample fetch cuts in, and at most four cycles more *)
(* for each one that does.  elapsed + spr_count is the length the copy     *)
(* will have if nothing else holds it up.                                  *)
(***************************************************************************)
UndisturbedLength == 2 * Bytes + 1 + (IF odd_write THEN 1 ELSE 0)

OamDmaLength ==
    /\ elapsed + spr_count <= UndisturbedLength + 4 * fetches
    /\ (fetches = 0 /\ Len(oam) = Bytes) => elapsed = UndisturbedLength

\* "The CPU is stalled for up to 4 CPU cycles" (Dmc.cpp): the DMC has its byte
\* within three cycles of asking, even if a copy holds the bus.
DmcServedInTime == dmc_wait <= 3

\* How long a transfer holds the bus, whichever of them is the other's guest.
TransferTimes == OamDmaLength /\ DmcServedInTime
=============================================================================
