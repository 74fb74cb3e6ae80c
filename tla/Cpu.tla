--------------------------------- MODULE Cpu ---------------------------------
(***************************************************************************)
(* The whole of cpu::tick(): CpuInterrupts and CpuDma on one clock         *)
(* (clock() of src/src/Cpu.cpp).  DMA takes whole cycles away from the     *)
(* instruction, an instruction starts the sprite copy by writing $4014,    *)
(* and a reset reaches both.                                               *)
(***************************************************************************)
EXTENDS Naturals, Sequences

CONSTANTS Sources, Opcodes, Bytes, MinGap

VARIABLES
    cycle, instr, last, iflag, vector, pc, irq_sources, irq_asserted,
    nmi_asserted, rst_asserted, irq_executing, nmi_executing, rst_executing,
    aborted,
    parity, dmc_count, spr_count, spr_delay, spr_source, spr_byte, oam, gap

I == INSTANCE CpuInterrupts
D == INSTANCE CpuDma

opVars  == <<cycle, instr, last, iflag, vector, pc, irq_sources, irq_asserted,
             nmi_asserted, rst_asserted, irq_executing, nmi_executing,
             rst_executing, aborted>>
dmaVars == <<parity, dmc_count, spr_count, spr_delay, spr_source, spr_byte, oam,
             gap>>
cpuVars == <<opVars, dmaVars>>

-----------------------------------------------------------------------------
(* A store writes on its last cycle; a read-modify-write instruction writes *)
(* twice, on its last two, and DMA starts between them.  None is shorter    *)
(* than an absolute store.                                                  *)
MayWrite == instr = "Ordinary" /\ last >= 3 /\ cycle \in {last - 1, last}

DmaTick == ~aborted /\ D!DmaCycle /\ UNCHANGED opVars

OpcodeTick ==
    /\ I!InstructionCycle
    /\ D!CpuCycle \/ (MayWrite /\ D!StartCycle)

CpuTick == DmaTick \/ OpcodeTick

\* The DMC asks for a sample, and the other devices move their lines.
Devices ==
    \/ ~aborted /\ D!ScheduleDmc /\ UNCHANGED opVars
    \/ I!Lines /\ UNCHANGED dmaVars

\* A mutant: the guard of cpu::reset() covers the interrupts only, and the
\* copy's delay is kept.
SoftResetKeepsDelay ==
    /\ I!SoftReset
    /\ parity' = 1 /\ dmc_count' = 0 /\ spr_count' = 0
    /\ UNCHANGED <<spr_delay, spr_source, spr_byte, oam, gap>>

\* cpu::reset() does nothing while RST is already running, to DMA neither.
SoftReset ==
    /\ I!SoftReset
    /\ IF rst_executing THEN UNCHANGED dmaVars
       ELSE D!ResetDma /\ UNCHANGED spr_source

HardReset == I!HardReset /\ D!ResetDma /\ spr_source' = 0

Resets == ~aborted /\ (SoftReset \/ HardReset) /\ UNCHANGED aborted

CpuInit == I!Init /\ D!DmaInit

CpuNext == CpuTick \/ Devices \/ Resets \/ (aborted /\ UNCHANGED cpuVars)

\* The frame loop keeps clocking the CPU.
CpuSpec == CpuInit /\ [][CpuNext]_cpuVars /\ WF_cpuVars(CpuTick)

-----------------------------------------------------------------------------
(***************************************************************************)
(* With DMA beside it the sequencer is still CpuInterrupts: a stolen cycle *)
(* changes nothing of it, and DMA never starves it (its fairness follows   *)
(* from that of the clock, because the sample fetches leave gaps).         *)
(***************************************************************************)
SequencerKeepsItsSpec == I!Spec

\* Driven by instructions and resets the transfers still take CpuDma's steps.
DmaKeepsItsSpec == D!DmaInit /\ [][D!DmaNext]_dmaVars
=============================================================================
