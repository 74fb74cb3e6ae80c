------------------------ MODULE CpuInterrupts_proof ------------------------
(***************************************************************************)
(* What holds of CpuInterrupts for every set of IRQ sources and every mix  *)
(* of instructions.  The safety invariants are not inductive: SequencerInv *)
(* adds which choices can be standing at which cycle of which instruction, *)
(* and LatencyInv how far every NMI is from its handler.                   *)
(***************************************************************************)
EXTENDS NmiLatency, Integers, TLAPS

USE DEF Kinds, Interrupts, Branches, Vectors

NothingChosen == ~rst_executing /\ ~nmi_executing /\ ~irq_executing

\* Instructions that sample only when they end run with nothing chosen.
Plain == {"Ordinary", "Flag", "Rti", "Brk", "Jam"}
PlainRunsUnchosen ==
    (cycle > 0 /\ (instr \in Plain \/ (instr \in Branches /\ cycle = 1)))
        => NothingChosen

\* An interrupt sequence runs with the flag that started it, and nothing
\* that outranks it.
SequenceIsChosen ==
    cycle > 0 =>
        /\ instr = "Irq" => irq_executing /\ ~nmi_executing /\ ~rst_executing
        /\ instr = "Nmi" => nmi_executing /\ ~rst_executing
        /\ instr = "Rst" => rst_executing

RstExcludesIrq == ~(rst_executing /\ irq_executing)

\* BRK and IRQ load PCH with I set.
MaskedAtPch == (instr \in {"Brk", "Irq"} /\ cycle = 6) => iflag

SequencerInv ==
    /\ TypeOK
    /\ NoCycleAborts
    /\ PlainRunsUnchosen
    /\ SequenceIsChosen
    /\ RstExcludesIrq
    /\ MaskedAtPch
    /\ IrqLineFollowsSources
    /\ IrqHandlerRunsFirst
    /\ IrqRespectsMask

-----------------------------------------------------------------------------
(* The last cycles of every addressing mode fit the seven of cycle_.       *)
LEMMA LastCyclesBounded == OrdinaryLast \subseteq 1..7 /\ FlagLast \subseteq 1..7
  BY DEF OrdinaryLast, FlagLast, Absolute, AbsoluteX, AbsoluteY, Accumulator,
     Immediate, Implied, IndexedIndirect, Indirect, IndirectIndexed, StackPull,
     StackPush, ZeroPage, ZeroPageX, ZeroPageY, Jsr, Rts

(* Starting the next instruction turns the choice into an instruction.     *)
LEMMA StartNextStarts ==
  ASSUME SequencerType, StartNext
  PROVE  /\ cycle' = 1
         /\ instr' \in Kinds \cup Interrupts
         /\ last' \in 0..7
         /\ instr' \in {"Ordinary", "Flag"} => last' >= 1
         /\ vector' = vector
         /\ pc' \in {"program", "torn"} \cup Vectors
         /\ instr' \in Kinds => NothingChosen
         /\ instr' = "Rst" => rst_executing
         /\ instr' = "Nmi" => nmi_executing /\ ~rst_executing
         /\ instr' = "Irq" => irq_executing /\ ~nmi_executing /\ ~rst_executing
<1>1. CASE rst_executing \/ nmi_executing \/ irq_executing
  BY <1>1 DEF StartNext, SequencerType
<1>2. CASE NothingChosen
  <2>1. instr' \in Opcodes /\ cycle' = 1 /\ pc' = "program" /\ vector' = vector
    BY <1>2 DEF StartNext, NothingChosen
  <2>2. last' \in OrdinaryLast \cup FlagLast \cup {0}
    BY <1>2 DEF StartNext, NothingChosen
  <2>3. instr' \in {"Ordinary", "Flag"} => last' \in OrdinaryLast \cup FlagLast
    BY <1>2 DEF StartNext, NothingChosen
  <2>. QED  BY <1>2, <2>1, <2>2, <2>3, LastCyclesBounded, OpcodesAssumption
<1>. QED  BY <1>1, <1>2 DEF NothingChosen

\* The machine starts in the invariant: RST is chosen and the line is low.
LEMMA SequencerInvInit == Init => SequencerInv
<1>. SUFFICES ASSUME Init PROVE SequencerInv  OBVIOUS
<1>1. SequencerType  BY DEF Init, SequencerType
<1>2. FlagType  BY DEF Init, FlagType
<1>3. PlainRunsUnchosen /\ SequenceIsChosen /\ RstExcludesIrq /\ MaskedAtPch
        /\ NoCycleAborts
  BY DEF Init, NoCycleAborts, PlainRunsUnchosen, SequenceIsChosen, RstExcludesIrq, MaskedAtPch
<1>4. IrqLineFollowsSources /\ IrqHandlerRunsFirst /\ IrqRespectsMask
  BY DEF Init, IrqLineFollowsSources, IrqHandlerRunsFirst, IrqRespectsMask
<1>. QED  BY <1>1, <1>2, <1>3, <1>4 DEF SequencerInv, TypeOK

\* A fetch, at an instruction's end or in a branch's last cycle.
LEMMA FetchKeepsInv ==
  ASSUME SequencerInv, Fetch \/ BranchFetch
  PROVE  SequencerInv'
<1>. USE DEF SequencerInv, TypeOK, NoSample, asserted, executing
<1>1. StartNext /\ NoSample /\ UNCHANGED <<iflag, aborted>>
  BY DEF Fetch, BranchFetch
<1>2. SequencerType' /\ NoCycleAborts'
  BY <1>1, StartNextStarts DEF SequencerType, NoCycleAborts
<1>3. FlagType'
  BY <1>1 DEF FlagType
<1>4. PlainRunsUnchosen' /\ SequenceIsChosen' /\ MaskedAtPch'
  BY <1>1, StartNextStarts DEF PlainRunsUnchosen, SequenceIsChosen,
     MaskedAtPch, NothingChosen, Plain
<1>5. RstExcludesIrq' /\ IrqLineFollowsSources' /\ IrqHandlerRunsFirst'
  BY <1>1, StartNextStarts DEF RstExcludesIrq, IrqLineFollowsSources,
     IrqHandlerRunsFirst
<1>6. IrqRespectsMask'
  BY <1>1, StartNextStarts DEF StartNext, IrqRespectsMask, RstExcludesIrq
<1>. QED  BY <1>2, <1>3, <1>4, <1>5, <1>6

\* Instructions that sample on their last cycle.
LEMMA OrdinaryKeepsInv ==
  ASSUME SequencerInv, Ordinary
  PROVE  SequencerInv'
<1>. USE DEF SequencerInv, TypeOK, SequencerType, Ordinary, Sample, NoSample,
         NextCycle, Complete, asserted, executing
<1>1. SequencerType' /\ NoCycleAborts'
  BY DEF NoCycleAborts
<1>2. FlagType'
  BY DEF FlagType
<1>3. PlainRunsUnchosen' /\ SequenceIsChosen'
  BY DEF PlainRunsUnchosen, SequenceIsChosen, Plain, NothingChosen
<1>4. RstExcludesIrq' /\ MaskedAtPch' /\ IrqLineFollowsSources'
  BY DEF RstExcludesIrq, MaskedAtPch, IrqLineFollowsSources
<1>5. IrqHandlerRunsFirst' /\ IrqRespectsMask'
  BY DEF IrqHandlerRunsFirst, IrqRespectsMask, PlainRunsUnchosen, Plain,
         SequenceIsChosen, NothingChosen, RstExcludesIrq, MaskedAtPch
<1>. QED  BY <1>1, <1>2, <1>3, <1>4, <1>5

\* CLI, SEI and PLP.
LEMMA FlagOpKeepsInv ==
  ASSUME SequencerInv, FlagOp
  PROVE  SequencerInv'
<1>. USE DEF SequencerInv, TypeOK, SequencerType, FlagOp, Sample, NoSample,
         NextCycle, Complete, asserted, executing
<1>1. SequencerType' /\ NoCycleAborts'
  BY DEF NoCycleAborts
<1>2. FlagType'
  BY DEF FlagType
<1>3. PlainRunsUnchosen' /\ SequenceIsChosen'
  BY DEF PlainRunsUnchosen, SequenceIsChosen, Plain, NothingChosen
<1>4. RstExcludesIrq' /\ MaskedAtPch' /\ IrqLineFollowsSources'
  BY DEF RstExcludesIrq, MaskedAtPch, IrqLineFollowsSources
<1>5. IrqHandlerRunsFirst' /\ IrqRespectsMask'
  BY DEF IrqHandlerRunsFirst, IrqRespectsMask, PlainRunsUnchosen, Plain,
         SequenceIsChosen, NothingChosen, RstExcludesIrq, MaskedAtPch
<1>. QED  BY <1>1, <1>2, <1>3, <1>4, <1>5

\* RTI.
LEMMA RtiKeepsInv ==
  ASSUME SequencerInv, Rti
  PROVE  SequencerInv'
<1>. USE DEF SequencerInv, TypeOK, SequencerType, Rti, Sample, NoSample,
         NextCycle, Complete, asserted, executing
<1>1. SequencerType' /\ NoCycleAborts'
  BY DEF NoCycleAborts
<1>2. FlagType'
  BY DEF FlagType
<1>3. PlainRunsUnchosen' /\ SequenceIsChosen'
  BY DEF PlainRunsUnchosen, SequenceIsChosen, Plain, NothingChosen
<1>4. RstExcludesIrq' /\ MaskedAtPch' /\ IrqLineFollowsSources'
  BY DEF RstExcludesIrq, MaskedAtPch, IrqLineFollowsSources
<1>5. IrqHandlerRunsFirst'
  BY DEF IrqHandlerRunsFirst
<1>6. IrqRespectsMask'
  <2>1. CASE cycle = 5
    <3>1. iflag' = iflag  BY <2>1
    <3>2. irq_executing' => ~iflag  BY <2>1
    <3>. QED  BY <3>1, <3>2 DEF IrqRespectsMask
  <2>2. CASE cycle # 5
    BY <2>2 DEF IrqRespectsMask, PlainRunsUnchosen, Plain, NothingChosen
  <2>. QED  BY <2>1, <2>2
<1>. QED  BY <1>1, <1>2, <1>3, <1>4, <1>5, <1>6

\* The first cycle of a branch.
LEMMA BranchOperandKeepsInv ==
  ASSUME SequencerInv, BranchOperand
  PROVE  SequencerInv'
<1>. USE DEF SequencerInv, TypeOK, SequencerType, BranchOperand, Sample,
         NextCycle, Complete, asserted, executing
<1>1. SequencerType' /\ NoCycleAborts'
  BY DEF NoCycleAborts
<1>2. FlagType'
  BY DEF FlagType
<1>3. PlainRunsUnchosen' /\ SequenceIsChosen'
  BY DEF PlainRunsUnchosen, SequenceIsChosen, Plain, NothingChosen
<1>4. RstExcludesIrq' /\ MaskedAtPch' /\ IrqLineFollowsSources'
  BY DEF RstExcludesIrq, MaskedAtPch, IrqLineFollowsSources
<1>5. IrqHandlerRunsFirst' /\ IrqRespectsMask'
  BY DEF IrqHandlerRunsFirst, IrqRespectsMask, PlainRunsUnchosen, Plain,
         SequenceIsChosen, NothingChosen, RstExcludesIrq, MaskedAtPch
<1>. QED  BY <1>1, <1>2, <1>3, <1>4, <1>5

\* The second cycle of a taken branch.
LEMMA BranchTakeKeepsInv ==
  ASSUME SequencerInv, BranchTake
  PROVE  SequencerInv'
<1>. USE DEF SequencerInv, TypeOK, SequencerType, BranchTake, NoSample,
         NextCycle, Complete, asserted, executing
<1>1. SequencerType' /\ NoCycleAborts'
  BY DEF NoCycleAborts
<1>2. FlagType'
  BY DEF FlagType
<1>3. PlainRunsUnchosen' /\ SequenceIsChosen'
  BY DEF PlainRunsUnchosen, SequenceIsChosen, Plain, NothingChosen
<1>4. RstExcludesIrq' /\ MaskedAtPch' /\ IrqLineFollowsSources'
  BY DEF RstExcludesIrq, MaskedAtPch, IrqLineFollowsSources
<1>5. IrqHandlerRunsFirst' /\ IrqRespectsMask'
  BY DEF IrqHandlerRunsFirst, IrqRespectsMask, PlainRunsUnchosen, Plain,
         SequenceIsChosen, NothingChosen, RstExcludesIrq, MaskedAtPch
<1>. QED  BY <1>1, <1>2, <1>3, <1>4, <1>5

\* The page-crossing cycle.
LEMMA BranchFixupKeepsInv ==
  ASSUME SequencerInv, BranchFixup
  PROVE  SequencerInv'
<1>. USE DEF SequencerInv, TypeOK, SequencerType, BranchFixup, SampleWithoutNmi,
         NextCycle, Complete, asserted, executing
<1>1. SequencerType' /\ NoCycleAborts'
  BY DEF NoCycleAborts
<1>2. FlagType'
  BY DEF FlagType
<1>3. PlainRunsUnchosen' /\ SequenceIsChosen'
  BY DEF PlainRunsUnchosen, SequenceIsChosen, Plain, NothingChosen
<1>4. RstExcludesIrq' /\ MaskedAtPch' /\ IrqLineFollowsSources'
  BY DEF RstExcludesIrq, MaskedAtPch, IrqLineFollowsSources
<1>5. IrqHandlerRunsFirst' /\ IrqRespectsMask'
  BY DEF IrqHandlerRunsFirst, IrqRespectsMask, PlainRunsUnchosen, Plain,
         SequenceIsChosen, NothingChosen, RstExcludesIrq, MaskedAtPch
<1>. QED  BY <1>1, <1>2, <1>3, <1>4, <1>5

\* The push of P, and the hijack.
LEMMA PushFlagsKeepsInv ==
  ASSUME SequencerInv, PushFlags
  PROVE  SequencerInv'
<1>. USE DEF SequencerInv, TypeOK, SequencerType, PushFlags,
         NextCycle, Complete, asserted, executing
<1>1. SequencerType' /\ NoCycleAborts'
  BY DEF NoCycleAborts
<1>2. FlagType'
  BY DEF FlagType
<1>3. PlainRunsUnchosen' /\ SequenceIsChosen'
  BY DEF PlainRunsUnchosen, SequenceIsChosen, Plain, NothingChosen
<1>4. RstExcludesIrq' /\ MaskedAtPch' /\ IrqLineFollowsSources'
  BY DEF RstExcludesIrq, MaskedAtPch, IrqLineFollowsSources
<1>5. IrqHandlerRunsFirst' /\ IrqRespectsMask'
  BY DEF IrqHandlerRunsFirst, IrqRespectsMask, PlainRunsUnchosen, Plain,
         SequenceIsChosen, NothingChosen, RstExcludesIrq, MaskedAtPch
<1>. QED  BY <1>1, <1>2, <1>3, <1>4, <1>5

\* The first cycles of a sequence.
LEMMA SequenceCycleKeepsInv ==
  ASSUME SequencerInv, SequenceCycle
  PROVE  SequencerInv'
<1>. USE DEF SequencerInv, TypeOK, SequencerType, SequenceCycle, NoSample,
         NextCycle, Complete, asserted, executing
<1>1. SequencerType' /\ NoCycleAborts'
  BY DEF NoCycleAborts
<1>2. FlagType'
  BY DEF FlagType
<1>3. PlainRunsUnchosen' /\ SequenceIsChosen'
  BY DEF PlainRunsUnchosen, SequenceIsChosen, Plain, NothingChosen
<1>4. RstExcludesIrq' /\ MaskedAtPch' /\ IrqLineFollowsSources'
  BY DEF RstExcludesIrq, MaskedAtPch, IrqLineFollowsSources
<1>5. IrqHandlerRunsFirst' /\ IrqRespectsMask'
  BY DEF IrqHandlerRunsFirst, IrqRespectsMask, PlainRunsUnchosen, Plain,
         SequenceIsChosen, NothingChosen, RstExcludesIrq, MaskedAtPch
<1>. QED  BY <1>1, <1>2, <1>3, <1>4, <1>5

\* The load of PCL.
LEMMA LoadPclKeepsInv ==
  ASSUME SequencerInv, LoadPcl
  PROVE  SequencerInv'
<1>. USE DEF SequencerInv, TypeOK, SequencerType, LoadPcl, NoSample,
         NextCycle, Complete, asserted, executing
<1>1. SequencerType' /\ NoCycleAborts'
  BY DEF NoCycleAborts
<1>2. FlagType'
  BY DEF FlagType
<1>3. PlainRunsUnchosen' /\ SequenceIsChosen'
  BY DEF PlainRunsUnchosen, SequenceIsChosen, Plain, NothingChosen
<1>4. RstExcludesIrq' /\ MaskedAtPch' /\ IrqLineFollowsSources'
  BY DEF RstExcludesIrq, MaskedAtPch, IrqLineFollowsSources
<1>5. IrqHandlerRunsFirst' /\ IrqRespectsMask'
  BY DEF IrqHandlerRunsFirst, IrqRespectsMask, PlainRunsUnchosen, Plain,
         SequenceIsChosen, NothingChosen, RstExcludesIrq, MaskedAtPch
<1>. QED  BY <1>1, <1>2, <1>3, <1>4, <1>5

\* The load of PCH, which ends every sequence.
LEMMA LoadPchKeepsInv ==
  ASSUME SequencerInv, LoadPch
  PROVE  SequencerInv'
<1>. USE DEF SequencerInv, TypeOK, SequencerType, LoadPch, NoSample, Sample,
         SampleWithoutNmi, Complete, asserted, executing
<1>1. SequencerType' /\ NoCycleAborts'
  BY DEF NoCycleAborts
<1>2. FlagType'
  BY DEF FlagType
<1>3. PlainRunsUnchosen' /\ SequenceIsChosen'
  BY DEF PlainRunsUnchosen, SequenceIsChosen, Plain, NothingChosen
<1>4. MaskedAtPch' /\ IrqLineFollowsSources' /\ iflag' = iflag
  BY DEF MaskedAtPch, IrqLineFollowsSources
<1>5. CASE instr = "Brk"
  <2>1. NothingChosen /\ UNCHANGED executing
    BY <1>5 DEF PlainRunsUnchosen, Plain
  <2>2. RstExcludesIrq' /\ IrqHandlerRunsFirst' /\ IrqRespectsMask'
    BY <2>1 DEF NothingChosen, RstExcludesIrq, IrqHandlerRunsFirst, IrqRespectsMask
  <2>. QED  BY <1>1, <1>2, <1>3, <1>4, <2>2
<1>6. CASE instr = "Irq"
  <2>1. iflag /\ ~nmi_executing  BY <1>6 DEF MaskedAtPch, SequenceIsChosen
  <2>2. irq_executing' = (~rst_asserted /\ irq_asserted /\ ~iflag)
    BY <1>6
  <2>3. nmi_executing' = nmi_executing  BY <1>6
  <2>4. RstExcludesIrq' /\ IrqHandlerRunsFirst' /\ IrqRespectsMask'
    BY <2>1, <2>2, <2>3 DEF RstExcludesIrq, IrqHandlerRunsFirst, IrqRespectsMask
  <2>. QED  BY <1>1, <1>2, <1>3, <1>4, <2>4
<1>7. CASE instr \in {"Nmi", "Rst"}
  <2>1. irq_executing' => ~iflag /\ ~rst_executing'
    BY <1>7
  <2>2. RstExcludesIrq' /\ IrqHandlerRunsFirst' /\ IrqRespectsMask'
    BY <1>4, <1>7, <2>1 DEF RstExcludesIrq, IrqHandlerRunsFirst, IrqRespectsMask
  <2>. QED  BY <1>1, <1>2, <1>3, <1>4, <2>2
<1>. QED  BY <1>5, <1>6, <1>7

\* The halt opcodes.
LEMMA JamKeepsInv ==
  ASSUME SequencerInv, Jam
  PROVE  SequencerInv'
<1>. USE DEF SequencerInv, TypeOK, SequencerType, Jam, seqVars, asserted, executing
<1>1. SequencerType' /\ NoCycleAborts'
  BY DEF NoCycleAborts
<1>2. FlagType'
  BY DEF FlagType
<1>3. PlainRunsUnchosen' /\ SequenceIsChosen'
  BY DEF PlainRunsUnchosen, SequenceIsChosen, Plain, NothingChosen
<1>4. RstExcludesIrq' /\ MaskedAtPch' /\ IrqLineFollowsSources'
  BY DEF RstExcludesIrq, MaskedAtPch, IrqLineFollowsSources
<1>5. IrqHandlerRunsFirst' /\ IrqRespectsMask'
  BY DEF IrqHandlerRunsFirst, IrqRespectsMask, PlainRunsUnchosen, Plain,
         SequenceIsChosen, NothingChosen, RstExcludesIrq, MaskedAtPch
<1>. QED  BY <1>1, <1>2, <1>3, <1>4, <1>5

\* The lines, raised and withdrawn between two cycles.
LEMMA LinesKeepInv ==
  ASSUME SequencerInv, Lines
  PROVE  SequencerInv'
<1>. USE DEF SequencerInv, TypeOK, SequencerType, Lines, Nmi, ClearNmi, Irq, ClearIrq,
         seqVars, executing
<1>1. SequencerType' /\ NoCycleAborts'
  BY DEF NoCycleAborts
<1>2. FlagType'
  BY DEF FlagType
<1>3. PlainRunsUnchosen' /\ SequenceIsChosen'
  BY DEF PlainRunsUnchosen, SequenceIsChosen, Plain, NothingChosen
<1>4. RstExcludesIrq' /\ MaskedAtPch' /\ IrqLineFollowsSources'
  BY DEF RstExcludesIrq, MaskedAtPch, IrqLineFollowsSources
<1>5. IrqHandlerRunsFirst' /\ IrqRespectsMask'
  BY DEF IrqHandlerRunsFirst, IrqRespectsMask, PlainRunsUnchosen, Plain,
         SequenceIsChosen, NothingChosen, RstExcludesIrq, MaskedAtPch
<1>. QED  BY <1>1, <1>2, <1>3, <1>4, <1>5

\* A soft reset.
LEMMA SoftResetKeepsInv ==
  ASSUME SequencerInv, SoftReset, UNCHANGED aborted
  PROVE  SequencerInv'
<1>. USE DEF SequencerInv, TypeOK, SequencerType, SoftReset, seqVars, executing
<1>1. SequencerType' /\ NoCycleAborts'
  BY DEF NoCycleAborts
<1>2. FlagType'
  BY DEF FlagType
<1>3. PlainRunsUnchosen' /\ SequenceIsChosen'
  BY DEF PlainRunsUnchosen, SequenceIsChosen, Plain, NothingChosen
<1>4. RstExcludesIrq' /\ MaskedAtPch' /\ IrqLineFollowsSources'
  BY DEF RstExcludesIrq, MaskedAtPch, IrqLineFollowsSources
<1>5. IrqHandlerRunsFirst' /\ IrqRespectsMask'
  BY DEF IrqHandlerRunsFirst, IrqRespectsMask, PlainRunsUnchosen, Plain,
         SequenceIsChosen, NothingChosen, RstExcludesIrq, MaskedAtPch
<1>. QED  BY <1>1, <1>2, <1>3, <1>4, <1>5

\* A hard reset.
LEMMA HardResetKeepsInv ==
  ASSUME SequencerInv, HardReset, UNCHANGED aborted
  PROVE  SequencerInv'
<1>. USE DEF SequencerInv, TypeOK, SequencerType, HardReset
<1>1. SequencerType' /\ NoCycleAborts'
  BY DEF NoCycleAborts
<1>2. FlagType'
  BY DEF FlagType
<1>3. PlainRunsUnchosen' /\ SequenceIsChosen'
  BY DEF PlainRunsUnchosen, SequenceIsChosen, Plain, NothingChosen
<1>4. RstExcludesIrq' /\ MaskedAtPch' /\ IrqLineFollowsSources'
  BY DEF RstExcludesIrq, MaskedAtPch, IrqLineFollowsSources
<1>5. IrqHandlerRunsFirst' /\ IrqRespectsMask'
  BY DEF IrqHandlerRunsFirst, IrqRespectsMask, PlainRunsUnchosen, Plain,
         SequenceIsChosen, NothingChosen, RstExcludesIrq, MaskedAtPch
<1>. QED  BY <1>1, <1>2, <1>3, <1>4, <1>5

\* A step that changes nothing.
LEMMA StutterKeepsInv ==
  ASSUME SequencerInv, UNCHANGED vars
  PROVE  SequencerInv'
  BY DEF vars, seqVars, asserted, executing, SequencerInv, TypeOK,
     SequencerType, FlagType, NoCycleAborts, PlainRunsUnchosen,
     SequenceIsChosen, RstExcludesIrq, MaskedAtPch, IrqLineFollowsSources,
     IrqHandlerRunsFirst, IrqRespectsMask, Plain, NothingChosen

LEMMA SequencerInvNext == SequencerInv /\ [Next]_vars => SequencerInv'
<1>. SUFFICES ASSUME SequencerInv, [Next]_vars PROVE SequencerInv'  OBVIOUS
<1>1. CASE InstructionCycle
  <2>. USE <1>1
  <2>1. CASE Fetch  BY <2>1, FetchKeepsInv
  <2>2. CASE Ordinary  BY <2>2, OrdinaryKeepsInv
  <2>3. CASE FlagOp  BY <2>3, FlagOpKeepsInv
  <2>4. CASE Rti  BY <2>4, RtiKeepsInv
  <2>5. CASE Branch
    BY <2>5, FetchKeepsInv, BranchOperandKeepsInv, BranchTakeKeepsInv,
       BranchFixupKeepsInv DEF Branch
  <2>6. CASE Sequence
    BY <2>6, PushFlagsKeepsInv, SequenceCycleKeepsInv, LoadPclKeepsInv,
       LoadPchKeepsInv DEF Sequence
  <2>7. CASE Jam  BY <2>7, JamKeepsInv
  <2>. QED  BY <2>1, <2>2, <2>3, <2>4, <2>5, <2>6, <2>7 DEF InstructionCycle
<1>2. CASE Lines  BY <1>2, LinesKeepInv
<1>3. CASE Resets  BY <1>3, SoftResetKeepsInv, HardResetKeepsInv DEF Resets
<1>4. CASE Halted \/ UNCHANGED vars  BY <1>4, StutterKeepsInv DEF Halted
<1>. QED  BY <1>1, <1>2, <1>3, <1>4 DEF Next

\* The inductive invariant of the sequencer and its lines.
THEOREM SequencerInvariant == Spec => []SequencerInv
<1>1. Init => SequencerInv  BY SequencerInvInit
<1>2. SequencerInv /\ [Next]_vars => SequencerInv'  BY SequencerInvNext
<1>. QED  BY <1>1, <1>2, PTL DEF Spec

\* Type correctness, for every set of sources and every mix of instructions.
THEOREM TypeCorrect == Spec => []TypeOK
  BY SequencerInvariant, PTL DEF SequencerInv

\* No switch over cycle_ reaches its default: abort().
THEOREM NoCycleAbortsHolds == Spec => []NoCycleAborts
  BY SequencerInvariant, PTL DEF SequencerInv

\* The IRQ line is up exactly while some source holds it.
THEOREM IrqLineHolds == Spec => []IrqLineFollowsSources
  BY SequencerInvariant, PTL DEF SequencerInv

\* The first instruction of the IRQ and BRK handler always runs.
THEOREM IrqHandlerRunsFirstHolds == Spec => []IrqHandlerRunsFirst
  BY SequencerInvariant, PTL DEF SequencerInv

\* No IRQ runs behind the I flag, but for the latency of CLI, SEI and PLP.
THEOREM IrqRespectsMaskHolds == Spec => []IrqRespectsMask
  BY SequencerInvariant, PTL DEF SequencerInv

-----------------------------------------------------------------------------
(* The edge of an NMI: who may end it.                                     *)
NmiEnds == NmiPending /\ ~NmiPending'
NmiExcused == NmiTaken \/ NmiWithdrawn \/ ResetTaken \/ ResetPending'

\* LAST_CYCLE forgets an NMI only when a reset outranks it, provided none was
\* chosen before: that is what PlainRunsUnchosen is for.
LEMMA SampleKeepsNmi ==
  ASSUME Sample, nmi_asserted
  PROVE  nmi_executing' \/ rst_executing'
  BY DEF Sample

\* After either reset RST is asserted or running.
LEMMA ResetIsPending ==
  ASSUME Resets
  PROVE  ResetPending'
<1>1. CASE SoftReset
  <2>1. rst_executing' = rst_executing  BY <1>1 DEF SoftReset, executing
  <2>2. rst_asserted' = (rst_asserted \/ ~rst_executing)  BY <1>1 DEF SoftReset
  <2>. QED  BY <2>1, <2>2, Zenon DEF ResetPending
<1>2. CASE HardReset
  BY <1>2 DEF HardReset, ResetPending
<1>. QED  BY <1>1, <1>2 DEF Resets

LEMMA NmiEndsExcused ==
  ASSUME SequencerInv, [Next]_vars, NmiEnds
  PROVE  NmiExcused
<1>. USE DEF NmiEnds, NmiExcused, NmiPending, NmiHijacked, SequencerInv
<1>1. CASE Fetch \/ BranchFetch
  BY <1>1 DEF Fetch, BranchFetch, NoSample, executing, asserted
<1>2. CASE Ordinary \/ FlagOp \/ Rti \/ BranchOperand
  <2>1. ~nmi_executing
    BY <1>2 DEF Ordinary, FlagOp, Rti, BranchOperand, PlainRunsUnchosen,
       NothingChosen, Plain, TypeOK, SequencerType
  <2>2. instr \notin {"Brk", "Irq"}
    BY <1>2 DEF Ordinary, FlagOp, Rti, BranchOperand
  <2>3. Sample \/ NoSample
    BY <1>2 DEF Ordinary, FlagOp, Rti, BranchOperand
  <2>. QED
    BY <2>1, <2>2, <2>3, SampleKeepsNmi
       DEF NoSample, asserted, executing, ResetPending
<1>3. CASE BranchTake \/ BranchFixup
  BY <1>3 DEF BranchTake, BranchFixup, NoSample, SampleWithoutNmi, executing,
     asserted
<1>4. CASE PushFlags
  BY <1>4 DEF PushFlags, NextCycle, executing
<1>5. CASE SequenceCycle \/ LoadPcl
  BY <1>5 DEF SequenceCycle, LoadPcl, NoSample, NextCycle, executing, asserted
<1>6. CASE LoadPch
  BY <1>6, SampleKeepsNmi DEF LoadPch, NmiTaken, ResetTaken, Complete,
     NoSample, SampleWithoutNmi, asserted, executing
<1>7. CASE Jam
  BY <1>7 DEF Jam, seqVars, asserted, executing
<1>8. CASE Lines
  BY <1>8 DEF Lines, NmiWithdrawn, Nmi, Irq, ClearIrq, seqVars, executing
<1>9. CASE Resets
  BY <1>9, ResetIsPending DEF ResetPending
<1>10. CASE UNCHANGED vars
  BY <1>10 DEF vars, seqVars, asserted, executing
<1>. QED
  BY <1>1, <1>2, <1>3, <1>4, <1>5, <1>6, <1>7, <1>8, <1>9, <1>10
     DEF Next, InstructionCycle, Branch, Sequence, Halted

\* No NMI edge is lost, whatever the game runs and whenever the edge comes.
THEOREM NmiNotLostHolds == Spec => NmiNotLost
<1>1. SequencerInv /\ [Next]_vars =>
        [(NmiPending /\ ~NmiPending') =>
           NmiTaken \/ NmiWithdrawn \/ ResetTaken \/ ResetPending']_vars
  BY NmiEndsExcused DEF NmiEnds, NmiExcused
<1>. QED  BY <1>1, SequencerInvariant, PTL DEF Spec, NmiNotLost

-----------------------------------------------------------------------------
(* A reset: what may forget it.                                            *)
LEMMA ResetEnds ==
  ASSUME SequencerInv, [Next]_vars, ResetPending, ~ResetPending'
  PROVE  ResetTaken \/ (instr = "BranchCross" /\ cycle = 3)
<1>. USE DEF ResetPending, SequencerInv
<1>1. CASE Fetch \/ BranchFetch
  BY <1>1 DEF Fetch, BranchFetch, NoSample, executing, asserted
<1>2. CASE Ordinary \/ FlagOp \/ Rti \/ BranchOperand
  <2>1. ~rst_executing
    BY <1>2 DEF Ordinary, FlagOp, Rti, BranchOperand, PlainRunsUnchosen,
       NothingChosen, Plain, TypeOK, SequencerType
  <2>2. Sample \/ NoSample
    BY <1>2 DEF Ordinary, FlagOp, Rti, BranchOperand
  <2>. QED  BY <2>1, <2>2 DEF Sample, NoSample, asserted, executing
<1>3. CASE BranchTake \/ PushFlags \/ SequenceCycle \/ LoadPcl
  BY <1>3 DEF BranchTake, PushFlags, SequenceCycle, LoadPcl, NoSample,
     executing, asserted
<1>4. CASE BranchFixup
  BY <1>4 DEF BranchFixup
<1>5. CASE LoadPch
  <2>1. CASE instr = "Rst"
    BY <1>5, <2>1 DEF LoadPch, ResetTaken, Complete
  <2>2. CASE instr \in {"Irq", "Nmi"}
    <3>1. ~rst_executing
      BY <1>5, <2>2 DEF LoadPch, SequenceIsChosen
    <3>. QED  BY <1>5, <2>2, <3>1 DEF LoadPch, Sample, SampleWithoutNmi
  <2>3. CASE instr = "Brk"
    BY <1>5, <2>3 DEF LoadPch, NoSample, asserted, executing
  <2>. QED  BY <1>5, <2>1, <2>2, <2>3 DEF LoadPch
<1>6. CASE Jam
  BY <1>6 DEF Jam, asserted, executing
<1>7. CASE Lines
  BY <1>7 DEF Lines, Nmi, ClearNmi, Irq, ClearIrq, executing
<1>8. CASE Resets
  BY <1>8, ResetIsPending
<1>9. CASE UNCHANGED vars
  BY <1>9 DEF vars, asserted, executing
<1>. QED
  BY <1>1, <1>2, <1>3, <1>4, <1>5, <1>6, <1>7, <1>8, <1>9
     DEF Next, InstructionCycle, Branch, Sequence, Halted

\* A reset is forgotten by nothing but a taken branch that crosses a page.
THEOREM ResetLostOnlyByCrossingHolds == Spec => ResetLostOnlyByCrossing
<1>1. SequencerInv /\ [Next]_vars =>
        [(ResetPending /\ ~ResetPending') =>
           \/ ResetTaken
           \/ instr = "BranchCross" /\ cycle = 3]_vars
  BY ResetEnds
<1>. QED  BY <1>1, SequencerInvariant, PTL DEF Spec, ResetLostOnlyByCrossing

-----------------------------------------------------------------------------
(* The properties as the runs check them.                                  *)

\* clock() reaches neither its assert() nor an abort().
THEOREM SequencerSafeHolds == Spec => []SequencerSafe
  BY SequencerInvariant, PTL DEF SequencerInv, SequencerSafe

\* An IRQ runs from a source, behind a clear I and not before a handler.
THEOREM IrqDisciplineHolds == Spec => []IrqDiscipline
  BY SequencerInvariant, PTL DEF SequencerInv, IrqDiscipline

\* No NMI is lost, and a reset only by a branch that crosses a page.
THEOREM RequestsKeptHolds == Spec => RequestsKept
  BY NmiNotLostHolds, ResetLostOnlyByCrossingHolds, PTL DEF RequestsKept
-----------------------------------------------------------------------------
(***************************************************************************)
(* NmiTimely.  Each place an NMI can be kept in (the latch, the choice, a  *)
(* hijacked vector) stands for an edge of its own, and CyclesLeft says how *)
(* far it is from its handler.                                             *)
(***************************************************************************)
Held(place) == IF place THEN 1 ELSE 0
EdgesCover == Held(nmi_asserted) + Held(nmi_executing) + Held(NmiHijacked) <= credit

\* A vector is loaded by the last cycle of a sequence and by nothing else.
PcKnown ==
    cycle > 0 =>
        /\ instr \in Kinds \ {"Brk"} => pc = "program"
        /\ instr \in Interrupts \cup {"Brk"} /\ cycle = 6 => pc = "torn"

\* The cycles from an instruction's start to the load of the NMI's vector,
\* that cycle included: an interrupt sequence, or before it the longest
\* instruction.
FromStart == IF nmi_executing \/ irq_executing THEN 7 ELSE 15

\* The same from any cycle; BRK and IRQ may be hijacked up to their fourth
\* one, and a branch samples on its first.
CyclesLeft ==
    CASE aborted -> 1
      [] ~aborted /\ cycle = 0 -> FromStart
      [] ~aborted /\ cycle > 0 /\ instr \in {"Nmi", "Rst"} -> 7 - cycle
      [] ~aborted /\ cycle > 0 /\ instr \in {"Brk", "Irq"} ->
            IF cycle <= 4 \/ vector = "nmi" THEN 7 - cycle ELSE 22 - cycle
      [] ~aborted /\ cycle > 0 /\ instr \in {"Ordinary", "Flag"} -> last - cycle + 8
      [] ~aborted /\ cycle > 0 /\ instr = "Rti" -> 13 - cycle
      [] ~aborted /\ cycle > 0 /\ instr = "BranchNotTaken" -> IF cycle = 1 THEN 8 ELSE FromStart
      [] ~aborted /\ cycle > 0 /\ instr = "BranchTaken" ->
            IF cycle = 1 THEN 9 ELSE FromStart + 3 - cycle
      [] ~aborted /\ cycle > 0 /\ instr = "BranchCross" ->
            IF cycle = 1 THEN 10 ELSE (IF nmi_executing THEN 11 ELSE 19) - cycle
      [] OTHER -> 2

WaitBounded ==
    /\ wait \in Nat
    /\ ~Owed => wait = 0
    /\ Owed => wait + CyclesLeft <= LongestWait + 1

LatencyInv ==
    /\ SequencerInv
    /\ credit \in Int /\ credit <= MaxCredit
    /\ EdgesCover
    /\ PcKnown
    /\ WaitBounded

\* CyclesLeft, one fact for each of its cases.
CyclesLeftKnown ==
    /\ aborted => CyclesLeft = 1
    /\ ~aborted /\ cycle = 0 => CyclesLeft = FromStart
    /\ ~aborted /\ cycle > 0 =>
         /\ instr \in {"Nmi", "Rst"} => CyclesLeft = 7 - cycle
         /\ instr \in {"Brk", "Irq"} /\ (cycle <= 4 \/ vector = "nmi") =>
               CyclesLeft = 7 - cycle
         /\ instr \in {"Brk", "Irq"} /\ cycle > 4 /\ vector # "nmi" =>
               CyclesLeft = 22 - cycle
         /\ instr \in {"Ordinary", "Flag"} => CyclesLeft = last - cycle + 8
         /\ instr = "Rti" => CyclesLeft = 13 - cycle
         /\ instr = "BranchNotTaken" =>
               CyclesLeft = IF cycle = 1 THEN 8 ELSE FromStart
         /\ instr = "BranchTaken" =>
               CyclesLeft = IF cycle = 1 THEN 9 ELSE FromStart + 3 - cycle
         /\ instr = "BranchCross" =>
               CyclesLeft = IF cycle = 1 THEN 10
                            ELSE (IF nmi_executing THEN 11 ELSE 19) - cycle
         /\ instr = "Jam" => CyclesLeft = 2

LEMMA CyclesLeftCases == SequencerInv => CyclesLeftKnown
<1>. SUFFICES ASSUME SequencerInv PROVE CyclesLeftKnown  OBVIOUS
<1>. aborted \in BOOLEAN /\ cycle \in 0..7 /\ instr \in Kinds \cup Interrupts
  BY DEF SequencerInv, TypeOK, SequencerType, FlagType
<1>1. CASE aborted \/ cycle = 0
  BY <1>1 DEF CyclesLeft, CyclesLeftKnown
<1>2. CASE ~aborted /\ cycle > 0
  BY <1>2 DEF CyclesLeft, CyclesLeftKnown
<1>. QED  BY <1>1, <1>2

LEMMA CyclesLeftCasesNext == SequencerInv' => CyclesLeftKnown'
  BY CyclesLeftCases, PTL

\* No NMI is ever further away than the longest way from BRK's fifth cycle.
LEMMA CyclesLeftRange ==
  SequencerInv => CyclesLeft \in 1..LongestWait + 1
<1>. SUFFICES ASSUME SequencerInv PROVE CyclesLeft \in 1..LongestWait + 1
  OBVIOUS
<1>. /\ aborted \in BOOLEAN /\ cycle \in 0..7 /\ instr \in Kinds \cup Interrupts
     /\ last \in 0..7 /\ FromStart \in {7, 15} /\ NoCycleAborts
  BY DEF SequencerInv, TypeOK, SequencerType, FlagType, FromStart
<1>. CyclesLeftKnown  BY CyclesLeftCases
<1>1. CASE aborted \/ cycle = 0
  BY <1>1 DEF CyclesLeftKnown, LongestWait
<1>2. CASE ~aborted /\ cycle > 0 /\ instr \in {"Nmi", "Rst", "Brk", "Irq"}
  BY <1>2 DEF CyclesLeftKnown, LongestWait, NoCycleAborts
<1>3. CASE ~aborted /\ cycle > 0 /\ instr \in {"Ordinary", "Flag", "Rti", "Jam"}
  BY <1>3 DEF CyclesLeftKnown, LongestWait, NoCycleAborts
<1>4. CASE ~aborted /\ cycle > 0 /\ instr \in Branches
  BY <1>4 DEF CyclesLeftKnown, LongestWait, NoCycleAborts
<1>. QED  BY <1>1, <1>2, <1>3, <1>4

LEMMA CyclesLeftRangeNext == SequencerInv' => (CyclesLeft \in 1..LongestWait + 1)'
  BY CyclesLeftRange, PTL

\* The cycles of an instruction do not make an NMI.
LEMMA NmiPendingBefore ==
  ASSUME SequencerInv, InstructionCycle, NmiPending'
  PROVE  NmiPending
<1>. USE DEF NmiPending, NmiHijacked, SequencerInv
<1>1. CASE Fetch \/ BranchFetch
  BY <1>1 DEF Fetch, BranchFetch, StartNext, NoSample, executing, asserted
<1>2. CASE Ordinary \/ FlagOp \/ Rti \/ BranchOperand
  BY <1>2 DEF Ordinary, FlagOp, Rti, BranchOperand, Sample, NoSample, Complete,
     NextCycle, executing, asserted
<1>3. CASE BranchTake \/ BranchFixup
  BY <1>3 DEF BranchTake, BranchFixup, NoSample, SampleWithoutNmi, executing,
     asserted, Complete, NextCycle
<1>4. CASE PushFlags
  BY <1>4 DEF PushFlags, NextCycle, executing
<1>5. CASE SequenceCycle \/ LoadPcl
  BY <1>5 DEF SequenceCycle, LoadPcl, NoSample, NextCycle, executing, asserted
<1>6. CASE LoadPch
  BY <1>6 DEF LoadPch, Complete, Sample, NoSample, SampleWithoutNmi, asserted,
     executing
<1>7. CASE Jam
  BY <1>7 DEF Jam, seqVars, asserted, executing
<1>. QED
  BY <1>1, <1>2, <1>3, <1>4, <1>5, <1>6, <1>7 DEF InstructionCycle, Branch, Sequence

\* Nothing but the last cycle of a sequence loads a vector.
LEMMA NmiTakenByLoadPch ==
  ASSUME SequencerInv, PcKnown, InstructionCycle, NmiTaken
  PROVE  /\ LoadPch
         /\ instr = "Nmi" \/ (instr \in {"Brk", "Irq"} /\ vector = "nmi")
<1>. USE DEF NmiTaken, SequencerInv
<1>. cycle \in 0..7  BY DEF TypeOK, SequencerType
<1>1. ~(Fetch \/ BranchFetch)
  BY DEF Fetch, BranchFetch, StartNext
<1>2. ~(Ordinary \/ FlagOp \/ Rti \/ BranchOperand)
  BY DEF Ordinary, FlagOp, Rti, BranchOperand, PcKnown, NextCycle
<1>3. ~(BranchTake \/ BranchFixup)
  BY DEF BranchTake, BranchFixup, NextCycle, PcKnown
<1>4. ~(PushFlags \/ SequenceCycle \/ LoadPcl)
  BY DEF PushFlags, SequenceCycle, LoadPcl, NextCycle
<1>5. ~Jam
  BY DEF Jam, seqVars
<1>6. LoadPch
  BY <1>1, <1>2, <1>3, <1>4, <1>5 DEF InstructionCycle, Branch, Sequence
<1>. QED  BY <1>6 DEF LoadPch

LEMMA PcKnownNext ==
  ASSUME SequencerInv, PcKnown, [Next]_vars
  PROVE  PcKnown'
<1>. USE DEF PcKnown, SequencerInv
<1>. cycle \in 0..7 /\ instr \in Kinds \cup Interrupts  BY DEF TypeOK, SequencerType
<1>1. CASE Fetch \/ BranchFetch
  BY <1>1 DEF Fetch, BranchFetch, StartNext, OpcodesAssumption
<1>2. CASE Ordinary \/ FlagOp \/ Rti \/ BranchOperand
  BY <1>2 DEF Ordinary, FlagOp, Rti, BranchOperand, Complete, NextCycle
<1>3. CASE BranchTake \/ BranchFixup
  BY <1>3 DEF BranchTake, BranchFixup, Complete, NextCycle
<1>4. CASE PushFlags \/ SequenceCycle \/ LoadPcl
  BY <1>4 DEF PushFlags, SequenceCycle, LoadPcl, NextCycle
<1>5. CASE LoadPch
  BY <1>5 DEF LoadPch, Complete
<1>6. CASE Jam \/ Lines \/ UNCHANGED vars
  BY <1>6 DEF Jam, Lines, seqVars, vars
<1>7. CASE Resets
  BY <1>7 DEF Resets, SoftReset, HardReset, seqVars
<1>. QED
  BY <1>1, <1>2, <1>3, <1>4, <1>5, <1>6, <1>7 DEF Next, InstructionCycle, Branch, Sequence, Halted

\* The edges an NMI's places stand for.
Edges == Held(nmi_asserted) + Held(nmi_executing) + Held(NmiHijacked)

LEMMA EdgesRange == SequencerInv => Edges \in 0..2
  BY DEF Edges, Held, NmiHijacked, SequencerInv, PlainRunsUnchosen,
     SequenceIsChosen, NothingChosen, Plain

LEMMA EdgesRangeNext == SequencerInv' => (Edges \in 0..2)'
  BY EdgesRange, PTL

\* A cycle moves an NMI from place to place; its handler takes one of them.
LEMMA EdgesInCycle ==
  ASSUME SequencerInv, PcKnown, InstructionCycle
  PROVE  Edges' <= Edges - (IF NmiTaken THEN 1 ELSE 0)
<1>. USE DEF Edges, Held, SequencerInv
<1>. cycle \in 0..7 /\ instr \in Kinds \cup Interrupts  BY DEF TypeOK, SequencerType
<1>1. ~LoadPch => ~NmiTaken
  BY NmiTakenByLoadPch
<1>2. CASE Fetch \/ BranchFetch
  <2>1. ~NmiHijacked' /\ ~NmiTaken /\ nmi_asserted' = nmi_asserted /\ nmi_executing' = nmi_executing
    BY <1>2 DEF Fetch, BranchFetch, StartNext, NoSample, executing, asserted, NmiHijacked, NmiTaken
  <2>. QED  BY <2>1
<1>3. CASE Ordinary \/ FlagOp \/ Rti \/ BranchOperand
  <2>1. ~NmiHijacked' /\ ~NmiTaken
    BY <1>1, <1>3 DEF Ordinary, FlagOp, Rti, BranchOperand, Complete,
     NextCycle, NmiHijacked, LoadPch
  <2>2. Sample \/ NoSample
    BY <1>3 DEF Ordinary, FlagOp, Rti, BranchOperand
  <2>3. ~nmi_executing
    BY <1>3 DEF Ordinary, FlagOp, Rti, BranchOperand, PlainRunsUnchosen,
       NothingChosen, Plain
  <2>4. \/ nmi_asserted' = nmi_asserted /\ nmi_executing' = nmi_executing
        \/ ~nmi_asserted' /\ (nmi_executing' => nmi_asserted)
    BY <2>2, Zenon DEF Sample, NoSample, executing, asserted
  <2>. QED  BY <2>1, <2>3, <2>4
<1>4. CASE BranchTake \/ BranchFixup
  <2>1. ~NmiHijacked' /\ ~NmiTaken
    BY <1>1, <1>4 DEF BranchTake, BranchFixup, Complete, NextCycle, NmiHijacked, LoadPch
  <2>2. nmi_asserted' = nmi_asserted /\ nmi_executing' = nmi_executing
    BY <1>4 DEF BranchTake, BranchFixup, NoSample, SampleWithoutNmi, executing, asserted
  <2>. QED  BY <2>1, <2>2
<1>5. CASE PushFlags
  <2>1. ~NmiTaken /\ ~nmi_asserted' /\ nmi_executing' = nmi_executing /\ ~NmiHijacked
    BY <1>1, <1>5 DEF PushFlags, LoadPch, executing, NmiHijacked
  <2>2. NmiHijacked' => nmi_asserted
    BY <1>5 DEF PushFlags, NmiHijacked
  <2>. QED  BY <2>1, <2>2
<1>6. CASE SequenceCycle \/ LoadPcl
  <2>1. ~NmiTaken /\ nmi_asserted' = nmi_asserted /\ nmi_executing' = nmi_executing
    BY <1>1, <1>6 DEF SequenceCycle, LoadPcl, LoadPch, NoSample, asserted, executing
  <2>2. NmiHijacked' => NmiHijacked
    BY <1>6 DEF SequenceCycle, LoadPcl, NmiHijacked, NextCycle
  <2>. QED  BY <2>1, <2>2
<1>7. CASE LoadPch
  <2>1. ~NmiHijacked'
    BY <1>7 DEF LoadPch, Complete, NmiHijacked
  <2>2. CASE instr \in {"Brk", "Irq"}
    <3>1. nmi_asserted' = nmi_asserted /\ nmi_executing' = nmi_executing
      BY <1>7, <2>2 DEF LoadPch, NoSample, SampleWithoutNmi, asserted, executing
    <3>2. NmiTaken => NmiHijacked
      BY <1>7, <2>2 DEF LoadPch, NmiTaken, NmiHijacked
    <3>. QED  BY <2>1, <3>1, <3>2
  <2>3. CASE instr = "Nmi"
    <3>1. nmi_executing /\ ~nmi_asserted' /\ (nmi_executing' => nmi_asserted)
      <4>1. Sample /\ cycle = 6  BY <1>7, <2>3 DEF LoadPch
      <4>2. nmi_executing  BY <2>3, <4>1 DEF SequenceIsChosen
      <4>. QED  BY <4>1, <4>2, Zenon DEF Sample
    <3>. QED  BY <2>1, <3>1
  <2>4. CASE instr = "Rst"
    <3>1. ~nmi_asserted' /\ (nmi_executing' => nmi_asserted) /\ ~NmiTaken
      BY <1>7, <2>4 DEF LoadPch, Sample, NmiTaken
    <3>. QED  BY <2>1, <3>1
  <2>. QED  BY <1>7, <2>2, <2>3, <2>4 DEF LoadPch
<1>8. CASE Jam
  <2>1. ~NmiTaken /\ nmi_asserted' = nmi_asserted /\ nmi_executing' = nmi_executing
          /\ NmiHijacked' = NmiHijacked
    BY <1>1, <1>8 DEF Jam, LoadPch, seqVars, asserted, executing, NmiHijacked
  <2>. QED  BY <2>1
<1>. QED
  BY <1>2, <1>3, <1>4, <1>5, <1>6, <1>7, <1>8 DEF InstructionCycle, Branch, Sequence

\* Each cycle brings an owed NMI nearer to its handler.
LEMMA OneCycleNearer ==
  ASSUME SequencerInv, SequencerInv', InstructionCycle, Owed, Owed', ~NmiTaken
  PROVE  CyclesLeft' <= CyclesLeft - 1
<1>. USE DEF SequencerInv
<1>. CyclesLeftKnown /\ CyclesLeftKnown'  BY CyclesLeftCases, CyclesLeftCasesNext
<1>. /\ cycle \in 0..7 /\ instr \in Kinds \cup Interrupts /\ last \in 0..7
     /\ cycle' \in 0..7 /\ instr' \in Kinds \cup Interrupts /\ last' \in 0..7
     /\ NoCycleAborts /\ NoCycleAborts' /\ ~aborted /\ aborted' \in BOOLEAN
     /\ NmiPending /\ ~rst_asserted /\ ~rst_executing
  BY DEF TypeOK, SequencerType, FlagType, InstructionCycle, Owed, ResetPending
<1>. /\ nmi_executing \in BOOLEAN /\ irq_executing \in BOOLEAN
     /\ nmi_executing' \in BOOLEAN /\ irq_executing' \in BOOLEAN
  BY DEF TypeOK, FlagType
<1>1. CASE Fetch \/ BranchFetch
  <2>1. CyclesLeft = FromStart
    <3>1. FromStart \in {7, 15} /\ ~aborted  BY DEF FromStart
    <3>. QED  BY <1>1, <3>1 DEF CyclesLeftKnown, Fetch, BranchFetch
  <2>2. cycle' = 1 /\ ~aborted' /\ StartNext
    BY <1>1 DEF Fetch, BranchFetch, StartNext
  <2>3. CASE nmi_executing \/ irq_executing
    <3>1. instr' \in {"Nmi", "Irq"}
      BY <2>2, <2>3 DEF StartNext
    <3>2. CyclesLeft' = 6
      BY <2>2, <3>1 DEF CyclesLeftKnown
    <3>. QED  BY <2>1, <2>3, <3>2 DEF FromStart
  <2>4. CASE ~nmi_executing /\ ~irq_executing
    <3>1. instr' \in Kinds
      BY <2>2, <2>4, OpcodesAssumption DEF StartNext
    <3>2. CyclesLeft' <= 14
      BY <2>2, <3>1 DEF CyclesLeftKnown
    <3>. QED  BY <2>1, <2>4, <3>2 DEF FromStart
  <2>. QED  BY <2>3, <2>4
<1>2. CASE Ordinary \/ FlagOp \/ Rti
  <2>1. ~aborted' /\ instr' = instr /\ last' = last /\ cycle > 0 /\ ~nmi_executing
          /\ instr \in {"Ordinary", "Flag", "Rti"}
    BY <1>2 DEF Ordinary, FlagOp, Rti, Complete, NextCycle, PlainRunsUnchosen, NothingChosen, Plain
  <2>2. CASE NextCycle
    BY <2>1, <2>2 DEF CyclesLeftKnown, NextCycle
  <2>3. CASE Sample /\ Complete
    <3>1. nmi_executing'
      BY <2>1, <2>3 DEF Sample, NmiPending, NmiHijacked
    <3>2. CyclesLeft' = 7
      BY <2>1, <2>3, <3>1 DEF CyclesLeftKnown, Complete, FromStart
    <3>3. CyclesLeft = 8
      BY <1>2, <2>1, <2>3 DEF CyclesLeftKnown, Complete, Ordinary, FlagOp, Rti, NextCycle
    <3>. QED  BY <3>2, <3>3
  <2>. QED  BY <1>2, <2>2, <2>3 DEF Ordinary, FlagOp, Rti
<1>3. CASE BranchOperand
  <2>1. ~aborted' /\ instr' = instr /\ instr \in Branches /\ cycle = 1 /\ cycle' = 2
    BY <1>3 DEF BranchOperand, NextCycle
  <2>2. ~nmi_executing
    BY <2>1 DEF PlainRunsUnchosen, NothingChosen
  <2>3. nmi_executing'
    BY <1>3, <2>1, <2>2 DEF BranchOperand, Sample, NmiPending, NmiHijacked
  <2>4. FromStart' = 7
    BY <2>3 DEF FromStart
  <2>. QED  BY <2>1, <2>3, <2>4 DEF CyclesLeftKnown
<1>4. CASE BranchTake
  <2>1. ~aborted' /\ instr' = instr /\ instr \in {"BranchTaken", "BranchCross"}
          /\ cycle = 2 /\ cycle' = 3
    BY <1>4 DEF BranchTake, NextCycle
  <2>2. nmi_executing' = nmi_executing /\ irq_executing' = irq_executing
    BY <1>4 DEF BranchTake, NoSample, executing
  <2>3. FromStart' = FromStart /\ FromStart \in {7, 15}
    BY <2>2 DEF FromStart
  <2>. QED  BY <2>1, <2>2, <2>3 DEF CyclesLeftKnown
<1>5. CASE BranchFixup
  <2>1. ~aborted' /\ instr = "BranchCross" /\ cycle = 3 /\ cycle' = 0
          /\ nmi_executing' = nmi_executing
    BY <1>5 DEF BranchFixup, Complete, SampleWithoutNmi
  <2>2. CyclesLeft' = FromStart'
    BY <2>1 DEF CyclesLeftKnown
  <2>3. CyclesLeft = (IF nmi_executing THEN 11 ELSE 19) - 3
    BY <2>1 DEF CyclesLeftKnown
  <2>4. FromStart' \in {7, 15} /\ (nmi_executing => FromStart' = 7)
    BY <2>1 DEF FromStart
  <2>. QED  BY <2>2, <2>3, <2>4
<1>6. CASE PushFlags
  <2>1. ~aborted' /\ instr' = instr /\ instr \in {"Brk", "Irq"} /\ cycle = 4 /\ cycle' = 5
    BY <1>6 DEF PushFlags, NextCycle
  <2>2. nmi_asserted
    BY <2>1 DEF NmiPending, NmiHijacked, PlainRunsUnchosen, Plain, NothingChosen, SequenceIsChosen
  <2>3. vector' = "nmi"
    BY <1>6, <2>2 DEF PushFlags
  <2>. QED  BY <2>1, <2>3 DEF CyclesLeftKnown
<1>7. CASE SequenceCycle \/ LoadPcl
  <2>1. /\ ~aborted' /\ instr' = instr /\ cycle' = cycle + 1 /\ vector' = vector
        /\ cycle \in {1, 2, 3, 4, 5}
        /\ instr \in {"Brk", "Irq"} => cycle # 4
        /\ instr \in {"Brk", "Irq", "Nmi", "Rst"}
    BY <1>7 DEF SequenceCycle, LoadPcl, NextCycle
  <2>. QED  BY <2>1 DEF CyclesLeftKnown
<1>8. CASE LoadPch
  <2>1. ~aborted' /\ cycle = 6 /\ cycle' = 0
    BY <1>8 DEF LoadPch, Complete
  <2>2. instr # "Rst" /\ instr # "Nmi"
    BY <1>8, <2>1 DEF LoadPch, SequenceIsChosen, NmiTaken
  <2>3. instr \in {"Brk", "Irq"} /\ vector # "nmi"
    BY <1>8, <2>1, <2>2 DEF LoadPch, NmiTaken
  <2>4. CyclesLeft = 16
    BY <2>1, <2>3 DEF CyclesLeftKnown
  <2>5. CyclesLeft' = FromStart' /\ FromStart' \in {7, 15}
    BY <2>1 DEF CyclesLeftKnown, FromStart
  <2>. QED  BY <2>4, <2>5
<1>9. CASE Jam
  <2>1. instr = "Jam" /\ cycle = 1 /\ aborted'
    BY <1>9 DEF Jam
  <2>. QED  BY <2>1 DEF CyclesLeftKnown
<1>. QED
  BY <1>1, <1>2, <1>3, <1>4, <1>5, <1>6, <1>7, <1>8, <1>9
     DEF InstructionCycle, Branch, Sequence

LEMMA PendingStays ==
  ASSUME SequencerInv, PcKnown, InstructionCycle, Owed', ~Owed
  PROVE  CyclesLeft' < LongestWait
<1>1. NmiPending /\ ResetPending /\ ~ResetPending'
  BY NmiPendingBefore DEF Owed
<1>2. [Next]_vars  BY DEF Next
<1>3. cycle' = 0
  <2>1. CASE ResetTaken  BY <2>1 DEF ResetTaken
  <2>2. CASE instr = "BranchCross" /\ cycle = 3
    BY <2>2 DEF InstructionCycle, Fetch, Ordinary, FlagOp, Rti, Branch,
       BranchOperand, BranchFetch, BranchTake, BranchFixup, Complete, Sequence,
       PushFlags, SequenceCycle, LoadPcl, LoadPch, Jam
  <2>. QED  BY <1>1, <1>2, <2>1, <2>2, ResetEnds
<1>4. SequencerInv'  BY <1>2, SequencerInvNext
<1>5. CyclesLeftKnown' /\ aborted' \in BOOLEAN
  BY <1>4, CyclesLeftCasesNext DEF SequencerInv, TypeOK, FlagType
<1>6. FromStart' \in {7, 15}  BY DEF FromStart
<1>. QED  BY <1>3, <1>5, <1>6 DEF CyclesLeftKnown, LongestWait

\* The history variables record the steps of the sequencer.
LEMMA LatencyRefines ==
  /\ LatencyInit => Init
  /\ [LatencyNext]_latencyVars => [Next]_vars
<1>1. CountedCycle => Next  BY DEF CountedCycle, Next
<1>2. CountedNmi => Next  BY DEF CountedNmi, Next, Lines
<1>3. CountedRest => Next  BY DEF CountedRest, Next, Lines
<1>. QED  BY <1>1, <1>2, <1>3 DEF LatencyInit, LatencyNext, latencyVars

LEMMA LatencyInvInit == LatencyInit => LatencyInv
<1>. SUFFICES ASSUME LatencyInit PROVE LatencyInv  OBVIOUS
<1>1. SequencerInv  BY LatencyRefines, SequencerInvInit
<1>2. ~NmiPending /\ ~NmiHijacked /\ cycle = 0
  BY DEF LatencyInit, Init, NmiPending, NmiHijacked
<1>3. PcKnown /\ ~Owed  BY <1>2 DEF PcKnown, Owed
<1>4. EdgesCover  BY <1>2 DEF EdgesCover, Held, LatencyInit, Init
<1>. QED  BY <1>1, <1>3, <1>4, MaxCreditAssumption DEF LatencyInv, WaitBounded, LatencyInit

\* One cycle more of waiting and one less to go, or a wait that starts.
LEMMA OneMoreOneLess ==
  \A waits \in Nat : \A leaves \in Int :
    /\ waits = 0 /\ leaves <= 17 => waits + leaves <= 17
    /\ waits <= 1 /\ leaves < 16 => waits + leaves <= 17
    /\ \A waited \in Nat : \A left \in Int :
         waits <= waited + 1 /\ leaves <= left - 1 /\ waited + left <= 17
            => waits + leaves <= 17
  OBVIOUS

\* A cycle pays for the NMI it takes, and waits for the one it does not.
LEMMA CountedCycleKeepsInv ==
  ASSUME LatencyInv, SequencerInv', PcKnown', CountedCycle
  PROVE  LatencyInv'
<1>. USE DEF LatencyInv
<1>. InstructionCycle  BY DEF CountedCycle
<1>1. Edges \in 0..2 /\ Edges' \in 0..2
  BY EdgesRange, EdgesRangeNext
<1>2. Edges' <= Edges - (IF NmiTaken THEN 1 ELSE 0)  BY EdgesInCycle
<1>3. credit' = credit - (IF NmiTaken THEN 1 ELSE 0)  BY DEF CountedCycle
<1>4. credit' \in Int /\ credit' <= MaxCredit /\ Edges' <= credit'
  BY <1>1, <1>2, <1>3, MaxCreditAssumption DEF EdgesCover, Edges
<1>5. EdgesCover'  BY <1>4 DEF EdgesCover, Edges
<1>6. WaitBounded'
  <2>0. CyclesLeft \in Int /\ CyclesLeft' \in Int /\ CyclesLeft' <= 17
    BY CyclesLeftRange, CyclesLeftRangeNext DEF LongestWait
  <2>1. /\ Owed' /\ ~NmiTaken => wait' = wait + 1
        /\ ~Owed' \/ NmiTaken => wait' = 0
    BY Zenon DEF CountedCycle
  <2>2. wait \in Nat /\ (~Owed => wait = 0) /\ (Owed => wait + CyclesLeft <= 17)
    BY <2>0 DEF WaitBounded, LongestWait
  <2>3. Owed /\ Owed' /\ ~NmiTaken => CyclesLeft' <= CyclesLeft - 1
    BY OneCycleNearer
  <2>4. ~Owed /\ Owed' => CyclesLeft' < 16
    BY PendingStays DEF LongestWait
  <2>5. wait' \in Nat  BY <2>1, <2>2
  <2>6. ~Owed' => wait' = 0  BY <2>1
  <2>7. (NmiTaken => wait' <= 0) /\ wait' <= wait + 1 /\ (~Owed => wait <= 0)
    <3>1. wait' = wait + 1 \/ wait' = 0  BY <2>1
    <3>2. NmiTaken => wait' <= 0  BY <2>1
    <3>. QED  BY <2>2, <3>1, <3>2
  <2>8. ASSUME Owed' PROVE wait' + CyclesLeft' <= 17
    <3>. /\ wait \in Nat /\ wait' \in Nat /\ wait' <= wait + 1
         /\ CyclesLeft \in Int /\ CyclesLeft' \in Int
      BY <2>0, <2>2, <2>5, <2>7
    <3>1. CASE NmiTaken
      BY <2>0, <2>1, <3>1, OneMoreOneLess, Zenon
    <3>2. CASE ~NmiTaken /\ Owed
      BY <2>2, <2>3, <2>8, <3>2, OneMoreOneLess, Zenon
    <3>3. CASE ~NmiTaken /\ ~Owed
      <4>1. wait' <= 1  BY <2>2, <3>3
      <4>. QED  BY <2>4, <2>8, <3>3, <4>1, OneMoreOneLess, Zenon
    <3>. QED  BY <3>1, <3>2, <3>3
  <2>. QED  BY <2>5, <2>6, <2>8 DEF WaitBounded, LongestWait
<1>. QED  BY <1>4, <1>5, <1>6

\* An edge adds to what is owed, and brings nothing nearer or further.
LEMMA CountedNmiKeepsInv ==
  ASSUME LatencyInv, SequencerInv', PcKnown', CountedNmi
  PROVE  LatencyInv'
<1>. USE DEF LatencyInv
<1>1. /\ UNCHANGED <<cycle, instr, last, vector, pc, iflag, aborted, wait>>
      /\ UNCHANGED <<irq_executing, nmi_executing, rst_executing, rst_asserted>>
      /\ nmi_asserted'
  BY DEF CountedNmi, Nmi, seqVars, executing
<1>2. Edges \in 0..2 /\ Edges' \in 0..2 /\ Edges' <= Edges + 1
  <2>1. NmiHijacked' = NmiHijacked  BY <1>1 DEF NmiHijacked
  <2>2. Held(nmi_asserted') <= Held(nmi_asserted) + 1  BY DEF Held
  <2>3. Edges \in 0..2 /\ Edges' \in 0..2  BY EdgesRange, EdgesRangeNext
  <2>. QED  BY <1>1, <2>1, <2>2, <2>3 DEF Edges, Held
<1>3. credit' = (IF credit < MaxCredit THEN credit + 1 ELSE credit)
  BY DEF CountedNmi
<1>4. credit' \in Int /\ credit' <= MaxCredit /\ Edges' <= credit'
  BY <1>2, <1>3, MaxCreditAssumption DEF EdgesCover, Edges
<1>5. EdgesCover'  BY <1>4 DEF EdgesCover, Edges
<1>6. WaitBounded'
  <2>1. CyclesLeft \in 1..17 /\ CyclesLeft' = CyclesLeft /\ LongestWait = 16
    BY <1>1, CyclesLeftRange DEF LongestWait, CyclesLeft, FromStart
  <2>2. ResetPending' = ResetPending  BY <1>1 DEF ResetPending
  <2>3. Owed => Owed'  BY <1>1, <2>2 DEF Owed, NmiPending
  <2>4. wait \in Nat /\ (~Owed => wait = 0) /\ (Owed => wait + CyclesLeft <= 17)
    BY <2>1 DEF WaitBounded
  <2>. HIDE DEF CyclesLeft, Owed
  <2>. QED  BY <1>1, <2>1, <2>3, <2>4 DEF WaitBounded
<1>. QED  BY <1>4, <1>5, <1>6

\* What else happens between two cycles makes no NMI.
LEMMA CountedRestKeepsInv ==
  ASSUME LatencyInv, SequencerInv', PcKnown', CountedRest
  PROVE  LatencyInv'
<1>. USE DEF LatencyInv
<1>0. wait' = (IF Owed' THEN wait ELSE 0) /\ credit' = credit
  BY DEF CountedRest
<1>1. CASE Resets
  <2>1. ~Owed'  BY <1>1, ResetIsPending DEF Owed
  <2>2. /\ nmi_asserted' => nmi_asserted
        /\ nmi_executing' => nmi_executing
        /\ NmiHijacked' => NmiHijacked
    <3>1. CASE SoftReset
      <4>1. UNCHANGED <<cycle, instr, vector, nmi_executing>>
        BY <3>1 DEF SoftReset, seqVars, executing
      <4>2. nmi_asserted' => nmi_asserted  BY <3>1, Zenon DEF SoftReset
      <4>. QED  BY <4>1, <4>2 DEF NmiHijacked
    <3>2. CASE HardReset
      BY <3>2 DEF HardReset, NmiHijacked
    <3>. QED  BY <1>1, <3>1, <3>2 DEF Resets
  <2>3. Edges' <= Edges /\ Edges \in 0..2 /\ Edges' \in 0..2
    BY <2>2, EdgesRange, EdgesRangeNext DEF Edges, Held
  <2>. QED  BY <1>0, <2>1, <2>3 DEF EdgesCover, Edges, WaitBounded
<1>2. CASE ~Resets
  <2>1. /\ UNCHANGED <<cycle, instr, last, vector, pc, aborted, rst_asserted>>
        /\ UNCHANGED <<irq_executing, nmi_executing, rst_executing>>
        /\ nmi_asserted' => nmi_asserted
    BY <1>2 DEF CountedRest, ClearNmi, Irq, ClearIrq, Halted, vars, seqVars,
       executing, asserted
  <2>2. NmiHijacked' = NmiHijacked /\ ResetPending' = ResetPending
    BY <2>1 DEF NmiHijacked, ResetPending
  <2>3. Owed' => Owed  BY <2>1, <2>2 DEF Owed, NmiPending
  <2>4. CyclesLeft' = CyclesLeft
    BY <2>1 DEF CyclesLeft, FromStart
  <2>5. Edges' <= Edges /\ Edges \in 0..2 /\ Edges' \in 0..2
    BY <2>1, <2>2, EdgesRange, EdgesRangeNext DEF Edges, Held
  <2>6. EdgesCover'  BY <1>0, <2>5 DEF EdgesCover, Edges
  <2>7. WaitBounded'  BY <1>0, <2>3, <2>4 DEF WaitBounded, LongestWait
  <2>. QED  BY <1>0, <2>6, <2>7
<1>. QED  BY <1>1, <1>2

LEMMA LatencyInvNext == LatencyInv /\ [LatencyNext]_latencyVars => LatencyInv'
<1>. SUFFICES ASSUME LatencyInv, [LatencyNext]_latencyVars PROVE LatencyInv'
  OBVIOUS
<1>1. SequencerInv' /\ PcKnown'
  BY LatencyRefines, SequencerInvNext, PcKnownNext DEF LatencyInv
<1>2. CASE UNCHANGED latencyVars
  BY <1>1, <1>2 DEF LatencyInv, latencyVars, vars, seqVars, asserted, executing,
     EdgesCover, WaitBounded, Owed, NmiPending, NmiHijacked, ResetPending,
     CyclesLeft, FromStart
<1>. QED
  BY <1>1, <1>2, CountedCycleKeepsInv, CountedNmiKeepsInv, CountedRestKeepsInv
     DEF LatencyNext

\* Each NMI is served in time and once: no more handlers than edges, and no
\* wait longer than LongestWait, whatever the game and its sources are.
THEOREM NmiTimelyHolds == LatencySpec => []NmiTimely
<1>1. LatencyInv => NmiTimely
  <2>. SUFFICES ASSUME LatencyInv PROVE NmiTimely  OBVIOUS
  <2>1. Edges \in 0..2 /\ CyclesLeft \in 1..17
    BY EdgesRange, CyclesLeftRange DEF LatencyInv, LongestWait
  <2>2. NoSpuriousNmi
    BY <2>1 DEF LatencyInv, EdgesCover, Edges, NoSpuriousNmi
  <2>3. NmiWithinBound
    BY <2>1 DEF LatencyInv, WaitBounded, NmiWithinBound, LongestWait
  <2>. QED  BY <2>2, <2>3 DEF NmiTimely
<1>. QED  BY <1>1, LatencyInvInit, LatencyInvNext, PTL DEF LatencySpec
=============================================================================
