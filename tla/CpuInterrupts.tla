--------------------------- MODULE CpuInterrupts ---------------------------
(***************************************************************************)
(* The 2A03 core's instruction sequencer and its interrupt logic           *)
(* (src/src/Cpu.cpp, src/src/opcodes/special, src/src/address_modes).      *)
(*                                                                         *)
(* One CPU cycle is one step.  An instruction is known by when it samples  *)
(* the interrupt lines (LAST_CYCLE) and by what it does to the I flag; its *)
(* arithmetic, its operands and its bus data are left out.  Between two    *)
(* CPU cycles the rest of the machine may raise or withdraw an interrupt   *)
(* and the user may reset it: those are the actions of the environment.    *)
(* A cycle that DMA takes away from the CPU changes nothing here (Cpu.tla  *)
(* adds it).                                                               *)
(***************************************************************************)
EXTENDS Naturals

CONSTANTS
    Sources,    \* the IRQ sources, IrqSource of Cpu.h; one of them is "apu"
    Opcodes     \* the kinds of instruction the game contains

Kinds == {"Ordinary", "Flag", "Rti", "Brk", "BranchNotTaken", "BranchTaken",
          "BranchCross", "Jam"}

ASSUME SourcesAssumption == "apu" \in Sources
ASSUME OpcodesAssumption == Opcodes \subseteq Kinds /\ Opcodes # {}

VARIABLES
    cycle,          \* cycle_, the cycle of the instruction about to run
    instr,          \* instruction_, as a kind
    last,           \* the cycle at which an "Ordinary" or "Flag" one ends
    iflag,          \* P & I_MASK
    vector,         \* the vector effective_address_ holds in BRK and IRQ
    pc,             \* where PC came from: "program", "torn" or a vector
    irq_sources,    \* irq_sources_, a bit mask
    irq_asserted, nmi_asserted, rst_asserted,
    irq_executing, nmi_executing, rst_executing,
    aborted         \* jam_handler() ended the process

executing == <<irq_executing, nmi_executing, rst_executing>>
asserted  == <<irq_sources, irq_asserted, nmi_asserted, rst_asserted>>
seqVars   == <<cycle, instr, last, vector, pc>>
vars      == <<seqVars, iflag, asserted, executing, aborted>>

Branches   == {"BranchNotTaken", "BranchTaken", "BranchCross"}
Interrupts == {"Rst", "Nmi", "Irq"}
Vectors    == {"rst", "nmi", "irq"}

\* A mutant: the modify form ends one cycle late.
IndexedIndirectTooLong == {5, 8}

(***************************************************************************)
(* The cycle at which each addressing mode samples the lines and ends, one *)
(* member per access it is instantiated for (read, modify, write, jump).   *)
(***************************************************************************)
Absolute        == {2, 3, 5}
AbsoluteX       == {3, 4, 6}
AbsoluteY       == {3, 4, 6}
Accumulator     == {1}
Immediate       == {1}
Implied         == {1}
IndexedIndirect == {5, 7}
Indirect        == {4}
IndirectIndexed == {4, 5, 7}
StackPull       == 3
StackPush       == 2
ZeroPage        == {2, 4}
ZeroPageX       == {3, 5}
ZeroPageY       == {3}
Jsr             == 5
Rts             == 5

OrdinaryLast == Absolute \cup AbsoluteX \cup AbsoluteY \cup Accumulator
    \cup Immediate \cup Implied \cup IndexedIndirect \cup Indirect
    \cup IndirectIndexed \cup {StackPull, StackPush} \cup ZeroPage
    \cup ZeroPageX \cup ZeroPageY \cup {Jsr, Rts}

\* CLI and SEI are implied, PLP pulls from the stack.
FlagLast == Implied \cup {StackPull}

\* A mutant: RST is chosen after an IRQ, not before it.
SampleIrqFirst ==
    /\ rst_executing' = (rst_asserted /\ ~(irq_asserted /\ ~iflag))
    /\ nmi_executing' = (~rst_asserted /\ nmi_asserted)
    /\ irq_executing' = (~nmi_asserted /\ irq_asserted /\ ~iflag)
    /\ nmi_asserted' = FALSE
    /\ rst_asserted' = (rst_asserted /\ irq_asserted /\ ~iflag)
    /\ UNCHANGED <<irq_sources, irq_asserted>>

-----------------------------------------------------------------------------
(***************************************************************************)
(* LAST_CYCLE: choose what runs next.  NMI is an edge, so its latch is     *)
(* emptied whether or not it won.                                          *)
(***************************************************************************)
Sample ==
    /\ rst_executing' = rst_asserted
    /\ nmi_executing' = (~rst_asserted /\ nmi_asserted)
    /\ irq_executing' = (~rst_asserted /\ ~nmi_asserted /\ irq_asserted /\ ~iflag)
    /\ nmi_asserted' = FALSE
    /\ rst_asserted' = FALSE
    /\ UNCHANGED <<irq_sources, irq_asserted>>

\* LAST_CYCLE_0 of the branches and of IRQ: NMI is neither sampled nor lost.
SampleWithoutNmi ==
    /\ rst_executing' = rst_asserted
    /\ irq_executing' = (~rst_asserted /\ irq_asserted /\ ~iflag)
    /\ rst_asserted' = FALSE
    /\ UNCHANGED <<nmi_executing, nmi_asserted, irq_sources, irq_asserted>>

NoSample == UNCHANGED <<asserted, executing>>

\* cycle_0: start the interrupt that was chosen, or the opcode at PC.
StartNext ==
    /\ cycle' = 1
    /\ IF rst_executing \/ nmi_executing \/ irq_executing
       THEN /\ instr' = (IF rst_executing THEN "Rst"
                         ELSE IF nmi_executing THEN "Nmi" ELSE "Irq")
            /\ UNCHANGED <<last, pc>>
       ELSE /\ instr' \in Opcodes
            /\ last' \in (IF instr' = "Ordinary" THEN OrdinaryLast
                          ELSE IF instr' = "Flag" THEN FlagLast ELSE {0})
            /\ pc' = "program"
    /\ UNCHANGED vector

NextCycle == cycle' = cycle + 1 /\ UNCHANGED <<instr, last>>
Complete  == cycle' = 0 /\ UNCHANGED <<instr, last>>

-----------------------------------------------------------------------------
Fetch ==
    /\ cycle = 0
    /\ StartNext
    /\ NoSample
    /\ UNCHANGED <<iflag, aborted>>

\* Every instruction that ends with OPCODE_COMPLETE right after LAST_CYCLE.
Ordinary ==
    /\ instr = "Ordinary" /\ cycle > 0
    /\ IF cycle = last THEN Sample /\ Complete ELSE NoSample /\ NextCycle
    /\ UNCHANGED <<iflag, vector, pc, aborted>>

\* CLI, SEI and PLP change I after the lines were sampled with the old I.
FlagOp ==
    /\ instr = "Flag" /\ cycle > 0
    /\ IF cycle = last
       THEN Sample /\ Complete /\ iflag' \in BOOLEAN
       ELSE NoSample /\ NextCycle /\ UNCHANGED iflag
    /\ UNCHANGED <<vector, pc, aborted>>

\* RTI pulls P two cycles before it samples the lines.
Rti ==
    /\ instr = "Rti" /\ cycle > 0
    /\ IF cycle = 3 THEN iflag' \in BOOLEAN ELSE UNCHANGED iflag
    /\ IF cycle = 5 THEN Sample /\ Complete ELSE NoSample /\ NextCycle
    /\ UNCHANGED <<vector, pc, aborted>>

(***************************************************************************)
(* A branch samples on its first cycle; when it ends without crossing a    *)
(* page its last cycle is the fetch of what comes next, as sampled then.   *)
(***************************************************************************)
BranchOperand ==
    /\ instr \in Branches /\ cycle = 1
    /\ Sample /\ NextCycle
    /\ UNCHANGED <<iflag, vector, pc, aborted>>

BranchFetch ==
    /\ \/ instr = "BranchNotTaken" /\ cycle = 2
       \/ instr = "BranchTaken" /\ cycle = 3
    /\ StartNext
    /\ NoSample
    /\ UNCHANGED <<iflag, aborted>>

BranchTake ==
    /\ instr \in {"BranchTaken", "BranchCross"} /\ cycle = 2
    /\ NoSample /\ NextCycle
    /\ UNCHANGED <<iflag, vector, pc, aborted>>

\* The page-crossing cycle samples again, over what cycle 1 had chosen.
BranchFixup ==
    /\ instr = "BranchCross" /\ cycle = 3
    /\ SampleWithoutNmi /\ Complete
    /\ UNCHANGED <<iflag, vector, pc, aborted>>

Branch == BranchOperand \/ BranchFetch \/ BranchTake \/ BranchFixup

\* A mutant: no hijack.
PushFlagsNoHijack ==
    /\ instr \in {"Brk", "Irq"} /\ cycle = 4
    /\ vector' = "irq"
    /\ NextCycle /\ NoSample
    /\ UNCHANGED <<iflag, pc, aborted>>

(***************************************************************************)
(* The seven-cycle sequences.  BRK and IRQ choose their vector when they   *)
(* push P, and an NMI that arrived by then hijacks them; NMI and RST have  *)
(* a vector of their own.  All set I and load PCL on cycle 5 and PCH on 6. *)
(***************************************************************************)
PushFlags ==
    /\ instr \in {"Brk", "Irq"} /\ cycle = 4
    /\ vector' = (IF nmi_asserted THEN "nmi" ELSE "irq")
    /\ nmi_asserted' = FALSE
    /\ NextCycle
    /\ UNCHANGED <<iflag, pc, irq_sources, irq_asserted, rst_asserted,
                   executing, aborted>>

SequenceCycle ==
    /\ \/ instr \in {"Brk", "Irq"} /\ cycle \in 1..3
       \/ instr \in {"Nmi", "Rst"} /\ cycle \in 1..4
    /\ NoSample /\ NextCycle
    /\ UNCHANGED <<iflag, vector, pc, aborted>>

LoadPcl ==
    /\ instr \in {"Brk", "Irq", "Nmi", "Rst"} /\ cycle = 5
    /\ iflag' = TRUE
    /\ pc' = "torn"
    /\ NoSample /\ NextCycle
    /\ UNCHANGED <<vector, aborted>>

LoadPch ==
    /\ cycle = 6
    /\ \/ instr = "Brk" /\ NoSample         /\ pc' = vector
       \/ instr = "Irq" /\ SampleWithoutNmi /\ pc' = vector
       \/ instr = "Nmi" /\ Sample           /\ pc' = "nmi"
       \/ instr = "Rst" /\ Sample           /\ pc' = "rst"
    /\ Complete
    /\ UNCHANGED <<iflag, vector, aborted>>

Sequence == PushFlags \/ SequenceCycle \/ LoadPcl \/ LoadPch

\* The unofficial halt opcodes: jam_handler() calls abort().
Jam ==
    /\ instr = "Jam" /\ cycle = 1
    /\ aborted' = TRUE
    /\ UNCHANGED <<seqVars, iflag, asserted, executing>>

-----------------------------------------------------------------------------
(* The instruction's part of clock(): one cycle that DMA left to the CPU.  *)
InstructionCycle ==
    /\ ~aborted
    /\ \/ Fetch \/ Ordinary \/ FlagOp \/ Rti \/ Branch \/ Sequence \/ Jam

Nmi == nmi_asserted' = TRUE
       /\ UNCHANGED <<irq_sources, irq_asserted, rst_asserted>>

ClearNmi == nmi_asserted' = FALSE
       /\ UNCHANGED <<irq_sources, irq_asserted, rst_asserted>>

\* A mutant: withdrawing one source drops the line the others still hold.
ClearIrqDropsLine(source) ==
    /\ irq_sources' = irq_sources \ {source}
    /\ irq_asserted' = FALSE
    /\ UNCHANGED <<nmi_asserted, rst_asserted>>

Irq(source) ==
    /\ irq_sources' = irq_sources \cup {source}
    /\ irq_asserted' = (irq_sources' # {})
    /\ UNCHANGED <<nmi_asserted, rst_asserted>>

ClearIrq(source) ==
    /\ irq_sources' = irq_sources \ {source}
    /\ irq_asserted' = (irq_sources' # {})
    /\ UNCHANGED <<nmi_asserted, rst_asserted>>

(***************************************************************************)
(* nes::reset(Soft): cpu::reset() asserts RST unless one is running, and   *)
(* then apu::reset() withdraws the APU's IRQ, which recomputes the line    *)
(* from the sources the mapper still holds.                                *)
(***************************************************************************)
SoftReset ==
    /\ rst_asserted' = (rst_asserted \/ ~rst_executing)
    /\ nmi_asserted' = (nmi_asserted /\ rst_executing)
    /\ irq_sources' = irq_sources \ {"apu"}
    /\ irq_asserted' = (irq_sources' # {})
    /\ UNCHANGED <<seqVars, iflag, executing>>

\* nes::reset(Hard): cpu::stop(); the reset() that follows finds RST running.
HardReset ==
    /\ cycle' = 0
    /\ iflag' = TRUE
    /\ irq_sources' = {} /\ irq_asserted' = FALSE
    /\ nmi_asserted' = FALSE /\ rst_asserted' = FALSE
    /\ irq_executing' = FALSE /\ nmi_executing' = FALSE /\ rst_executing' = TRUE
    /\ UNCHANGED <<instr, last, vector, pc>>

\* What the PPU, the APU, the mapper and the user do between two CPU cycles.
Lines ==
    /\ ~aborted
    /\ \/ Nmi \/ ClearNmi \/ \E s \in Sources : Irq(s) \/ ClearIrq(s)
    /\ UNCHANGED <<seqVars, iflag, executing, aborted>>

Resets == ~aborted /\ (SoftReset \/ HardReset) /\ UNCHANGED aborted

Halted == aborted /\ UNCHANGED vars

Init ==
    /\ cycle = 0 /\ instr = "Ordinary" /\ last = 0
    /\ iflag = TRUE
    /\ vector = "irq" /\ pc = "program"
    /\ irq_sources = {} /\ irq_asserted = FALSE
    /\ nmi_asserted = FALSE /\ rst_asserted = FALSE
    /\ irq_executing = FALSE /\ nmi_executing = FALSE /\ rst_executing = TRUE
    /\ aborted = FALSE

Next == InstructionCycle \/ Lines \/ Resets \/ Halted

\* The frame loop keeps clocking the CPU.
Spec == Init /\ [][Next]_vars /\ WF_vars(InstructionCycle)

-----------------------------------------------------------------------------
(* An NMI is owed to the game from its edge until its vector is loaded.    *)
NmiHijacked == instr \in {"Brk", "Irq"} /\ cycle \in {5, 6} /\ vector = "nmi"
NmiPending == nmi_asserted \/ nmi_executing \/ NmiHijacked
ResetPending == rst_asserted \/ rst_executing

SequencerType ==
    /\ cycle \in 0..7
    /\ instr \in Kinds \cup Interrupts
    /\ last \in 0..7
    /\ vector \in {"nmi", "irq"}
    /\ pc \in {"program", "torn"} \cup Vectors
    /\ irq_sources \subseteq Sources

FlagType ==
    /\ iflag \in BOOLEAN /\ irq_asserted \in BOOLEAN
    /\ nmi_asserted \in BOOLEAN /\ rst_asserted \in BOOLEAN
    /\ irq_executing \in BOOLEAN /\ nmi_executing \in BOOLEAN
    /\ rst_executing \in BOOLEAN /\ aborted \in BOOLEAN

\* Every variable stays within its type, and cycle_ below the 10 of clock()'s
\* assertion.
TypeOK == SequencerType /\ FlagType

(***************************************************************************)
(* No instruction runs past its last cycle: the default: abort() that ends *)
(* every switch over cycle_ is out of reach, whatever interrupts, resets   *)
(* and fetches at the end of a branch do to the sequencer.                 *)
(***************************************************************************)
NoCycleAborts ==
    cycle > 0 =>
        /\ instr \in {"Ordinary", "Flag"} => cycle <= last
        /\ instr = "Jam" => cycle = 1
        /\ instr = "BranchNotTaken" => cycle <= 2
        /\ instr \in {"BranchTaken", "BranchCross"} => cycle <= 3
        /\ instr = "Rti" => cycle <= 5
        /\ instr \in {"Brk", "Irq", "Nmi", "Rst"} => cycle <= 6

(***************************************************************************)
(* The IRQ line follows its sources at every cycle boundary, a soft reset  *)
(* in the middle of the game included: cpu::reset() drops the line, and it *)
(* is apu::reset() that brings a mapper's IRQ back.                        *)
(***************************************************************************)
IrqLineFollowsSources == irq_asserted = (irq_sources # {})

(***************************************************************************)
(* The first instruction of the IRQ and BRK handler always runs: neither   *)
(* another IRQ (I is set) nor the NMI that came too late to hijack the     *)
(* sequence may start in its place.  Only a reset may.                     *)
(***************************************************************************)
IrqHandlerRunsFirst ==
    (cycle = 0 /\ instr \in {"Brk", "Irq"} /\ ~rst_executing)
        => ~nmi_executing /\ ~irq_executing

(***************************************************************************)
(* An IRQ that is about to run runs with I set only behind the instruction *)
(* that has just changed I (the one-instruction latency of CLI, SEI and    *)
(* PLP).  A page-crossing branch can leave irq_executing_ set beside       *)
(* nmi_executing_, and then the NMI runs and sets I: that IRQ must not     *)
(* survive the NMI's own sequence.                                         *)
(***************************************************************************)
IrqRespectsMask ==
    (irq_executing /\ ~nmi_executing /\ iflag) =>
        \/ instr = "Flag" /\ cycle = 0
        \/ instr = "Irq"

\* The sequencer stays within its bounds: no assert() and no abort() of
\* clock() is reached.
SequencerSafe == TypeOK /\ NoCycleAborts

\* An IRQ reaches its handler only from a source that asks for it, only while
\* I is clear, and not in place of the first instruction of another handler.
IrqDiscipline == IrqLineFollowsSources /\ IrqRespectsMask /\ IrqHandlerRunsFirst

(***************************************************************************)
(* No NMI edge is lost: what ends an owed NMI is the load of its vector,   *)
(* the PPU's clear_nmi() between two CPU cycles, or a reset (a new one,    *)
(* the one that outranks it when the lines are sampled, or the end of the  *)
(* sequence of one that did).                                              *)
(***************************************************************************)
NmiTaken     == pc' = "nmi" /\ cycle' = 0
NmiWithdrawn == ClearNmi /\ UNCHANGED <<seqVars, executing>>
ResetTaken   == pc' = "rst" /\ cycle' = 0
NmiNotLost ==
    [][(NmiPending /\ ~NmiPending') =>
         NmiTaken \/ NmiWithdrawn \/ ResetTaken \/ ResetPending']_vars

(***************************************************************************)
(* A reset that was asked for is forgotten only by a taken branch that     *)
(* crosses a page; otherwise it ends with the load of the RST vector.      *)
(***************************************************************************)
ResetLostOnlyByCrossing ==
    [][(ResetPending /\ ~ResetPending') =>
         \/ ResetTaken
         \/ instr = "BranchCross" /\ cycle = 3]_vars

\* No request is dropped on the way, by whatever else is asked for meanwhile.
RequestsKept == NmiNotLost /\ ResetLostOnlyByCrossing

\* An owed NMI reaches its handler, unless it is withdrawn or a reset or the
\* end of the process comes first.
NmiServed == NmiPending ~> (pc = "nmi" \/ ~NmiPending \/ ResetPending \/ aborted)

\* Every reset reaches its routine if the game comes to an end of its
\* page-crossing branches, does not run BRK after BRK for ever, and the user
\* stops restarting RST from its first cycle.
StopsCrossing == <>[](instr # "BranchCross")
RunsMoreThanBrk == []<>(instr # "Brk")
ResetServed ==
    (StopsCrossing /\ RunsMoreThanBrk /\ <>[][~HardReset]_vars)
        => (ResetPending ~> (pc = "rst" \/ ~ResetPending \/ aborted))

\* Both: nothing the game or the user asked of the sequencer waits for ever.
EverythingServed == NmiServed /\ ResetServed
=============================================================================
