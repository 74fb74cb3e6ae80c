------------------------------- MODULE CpuDma -------------------------------
(***************************************************************************)
(* The CPU clock's DMA (clock() and the schedulers of src/src/Cpu.cpp):    *)
(* which of the DMC's sample fetch, the sprite copy and the instruction    *)
(* gets the next CPU cycle, and what it does with it.                      *)
(*                                                                         *)
(* A byte of the copied page is known by its offset in the page, so that   *)
(* what was written to the sprite memory shows which byte was read for it. *)
(* executed_cycles_ matters by its low bit only.                           *)
(***************************************************************************)
EXTENDS Naturals, Sequences

CONSTANTS
    Bytes,      \* bytes copied by a write to $4014 (256 in write4014)
    MinGap      \* CPU cycles between two sample fetches, at least

ASSUME BytesAssumption  == Bytes \in Nat \ {0}
ASSUME MinGapAssumption == MinGap \in Nat

VARIABLES
    parity,         \* executed_cycles_ & 1
    dmc_count,      \* dmc_dma_count_; its delay is always scheduled as 0
    spr_count,      \* spr_dma_count_
    spr_delay,      \* spr_dma_delay_
    spr_source,     \* spr_dma_source_address_, as an offset in the page
    spr_byte,       \* spr_dma_byte_
    oam,            \* history: the bytes handed to write2004 by this copy
    gap             \* cycles to go before the DMC may schedule again

spr     == <<spr_count, spr_delay, spr_source, spr_byte, oam>>
dmaVars == <<parity, dmc_count, spr, gap>>

Stalled == dmc_count > 0 \/ spr_count > 0

-----------------------------------------------------------------------------
(* One cycle of the sample fetch.  It waits until its count and the cycle  *)
(* have the same parity: it reads in an even cycle and hands over in an    *)
(* odd one.                                                                *)
\* A mutant: the hand-over waits for an even cycle as the read does.
DmcAlignedOnEven == dmc_count % 2 = parity /\ parity = 0

DmcAligned == dmc_count % 2 = parity

\* A mutant: one register for the byte of both transfers.
DmcCycleSharesByte ==
    /\ dmc_count > 0
    /\ dmc_count' = (IF DmcAligned THEN dmc_count - 1 ELSE dmc_count)
    /\ spr_byte' = (IF DmcAligned /\ parity = 0 THEN Bytes ELSE spr_byte)
    /\ UNCHANGED <<spr_count, spr_delay, spr_source, oam>>

DmcCycle ==
    /\ dmc_count > 0
    /\ dmc_count' = (IF DmcAligned THEN dmc_count - 1 ELSE dmc_count)
    /\ UNCHANGED spr

-----------------------------------------------------------------------------
(* One cycle of the sprite copy, which the sample fetch outranks.          *)
SprAligned == spr_count % 2 = parity

\* A mutant: the delay is counted in even cycles only.
SprDelayOnEven ==
    /\ spr_delay > 0
    /\ spr_delay' = (IF parity = 0 THEN spr_delay - 1 ELSE spr_delay)
    /\ UNCHANGED <<spr_count, spr_source, spr_byte, oam>>

SprDelay ==
    /\ spr_delay > 0
    /\ spr_delay' = spr_delay - 1
    /\ UNCHANGED <<spr_count, spr_source, spr_byte, oam>>

SprIdle == spr_delay = 0 /\ ~SprAligned /\ UNCHANGED spr

SprRead ==
    /\ spr_delay = 0 /\ SprAligned /\ parity = 0
    /\ spr_byte' = spr_source
    /\ spr_source' = spr_source + 1
    /\ spr_count' = spr_count - 1
    /\ UNCHANGED <<spr_delay, oam>>

SprWrite ==
    /\ spr_delay = 0 /\ SprAligned /\ parity = 1
    /\ oam' = Append(oam, spr_byte)
    /\ spr_count' = spr_count - 1
    /\ UNCHANGED <<spr_delay, spr_source, spr_byte>>

SprCycle ==
    /\ dmc_count = 0 /\ spr_count > 0
    /\ SprDelay \/ SprIdle \/ SprRead \/ SprWrite
    /\ UNCHANGED dmc_count

-----------------------------------------------------------------------------
\* A mutant: the two cycles of a byte are counted as one.
ScheduleSprHalf ==
    /\ spr_count' = Bytes + 1
    /\ spr_delay' = 1
    /\ spr_source' = 0
    /\ oam' = << >>
    /\ UNCHANGED <<dmc_count, spr_byte>>

\* write4014 -> schedule_spr_dma(write2004, page, 256)
ScheduleSpr ==
    /\ spr_count' = 2 * Bytes
    /\ spr_delay' = 1
    /\ spr_source' = 0
    /\ oam' = << >>
    /\ UNCHANGED <<dmc_count, spr_byte>>

\* tick(): clock(), then ++executed_cycles_.
Count == parity' = 1 - parity /\ gap' = (IF gap > 0 THEN gap - 1 ELSE 0)

\* An instruction's cycle: the count that both transfers left at zero.
CpuCycle == ~Stalled /\ UNCHANGED <<dmc_count, spr>> /\ Count

\* An instruction's cycle that writes $4014.
StartCycle == ~Stalled /\ ScheduleSpr /\ Count

DmaCycle == (DmcCycle \/ SprCycle) /\ Count

Tick == CpuCycle \/ StartCycle \/ DmaCycle

\* DMC::refill_sample_buffer -> schedule_dmc_dma(load_sample_buffer, ..., 1):
\* after a CPU cycle, on the DMC's timer or because that cycle wrote $4015.
ScheduleDmc ==
    /\ gap = 0
    /\ gap' = MinGap
    /\ dmc_count' = 2
    /\ UNCHANGED <<parity, spr>>

\* cpu::reset(): both transfers end where they are, the count restarts at 1.
\* stop() forgets the address as well.
ResetDma ==
    /\ parity' = 1
    /\ dmc_count' = 0
    /\ spr_count' = 0 /\ spr_delay' = 0
    /\ spr_source' \in {spr_source, 0}
    /\ UNCHANGED <<spr_byte, oam, gap>>

DmaInit ==
    /\ parity = 1
    /\ dmc_count = 0
    /\ spr_count = 0 /\ spr_delay = 0 /\ spr_source = 0 /\ spr_byte = 0
    /\ oam = << >>
    /\ gap = 0

DmaNext == Tick \/ ScheduleDmc \/ ResetDma

\* The frame loop keeps clocking the CPU.
DmaSpec == DmaInit /\ [][DmaNext]_dmaVars /\ WF_dmaVars(Tick)

-----------------------------------------------------------------------------
\* Every variable stays within its type.
TypeOK ==
    /\ parity \in 0..1
    /\ dmc_count \in 0..2
    /\ spr_count \in 0..(2 * Bytes)
    /\ spr_delay \in 0..1
    /\ spr_source \in 0..Bytes
    /\ spr_byte \in 0..Bytes
    /\ oam \in Seq(0..Bytes)
    /\ gap \in 0..MinGap

(***************************************************************************)
(* The sprite memory gets the bytes of the page in order and each once,    *)
(* also when sample fetches cut in between the read and the write of a     *)
(* byte and shift the copy against the even and odd cycles.                *)
(***************************************************************************)
OamInOrder ==
    /\ Len(oam) <= Bytes
    /\ \A i \in 1..Len(oam) : oam[i] = i - 1

\* The engine's registers stay within their types and the copy in order.
SafeCopy == TypeOK /\ OamInOrder

\* The copy a write to $4014 promises is what the CPU clock does.
Copy == INSTANCE OamCopy WITH busy <- (spr_count > 0), copied <- Len(oam)
CopiesThePage == Copy!CopySpec

\* DMA never holds the CPU for ever: if a fetch takes less than the time to the
\* next one, an instruction gets its cycle infinitely often.
CpuRuns == []<>~Stalled
=============================================================================
