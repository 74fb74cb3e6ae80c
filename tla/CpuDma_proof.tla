---------------------------- MODULE CpuDma_proof ----------------------------
(***************************************************************************)
(* CpuDma for every length of the copied page and every rate of the DMC:   *)
(* the sprite memory gets the bytes in order, a step of the CPU clock is a *)
(* step of OamCopy or none, and a transfer takes the time it should.       *)
(***************************************************************************)
EXTENDS DmaTiming, TLAPS

(***************************************************************************)
(* What makes OamInOrder inductive: while a copy runs, its count says how  *)
(* many bytes were read (spr_source) and how many handed over (Len(oam)),  *)
(* and a byte read but not handed over is the next one in order.           *)
(***************************************************************************)
CopyPhase ==
    spr_count > 0 =>
        /\ spr_source \in {Len(oam), Len(oam) + 1}
        /\ spr_count = 2 * Bytes - Len(oam) - spr_source
        /\ spr_source = Len(oam) + 1 => spr_byte = Len(oam)

CopyInv == TypeOK /\ OamInOrder /\ CopyPhase

\* The parity of a count tells whether a byte is waiting to be handed over.
LEMMA CountParity ==
    ASSUME CopyInv, spr_count > 0
    PROVE  /\ spr_count % 2 = 0 => spr_source = Len(oam)
           /\ spr_count % 2 = 1 => spr_source = Len(oam) + 1
<1> DEFINE n == Len(oam)
<1>1. n \in Nat /\ Bytes \in Nat /\ spr_source \in {n, n + 1}
      /\ spr_count = 2 * Bytes - n - spr_source
  BY BytesAssumption DEF CopyInv, TypeOK, CopyPhase
<1>2. CASE spr_source = n
  <2>1. spr_count = 2 * (Bytes - n)
    BY <1>1, <1>2
  <2>2. spr_count % 2 = 0
    BY <2>1, <1>1
  <2> QED
    BY <2>2, <1>2
<1>3. CASE spr_source = n + 1
  <2>1. spr_count = 2 * (Bytes - n) - 1
    BY <1>1, <1>3
  <2>2. spr_count % 2 = 1
    BY <2>1, <1>1
  <2> QED
    BY <2>2, <1>3
<1> QED
  BY <1>1, <1>2, <1>3

LEMMA CopyInvInit == DmaInit => CopyInv
  BY BytesAssumption, MinGapAssumption
  DEF DmaInit, CopyInv, TypeOK, OamInOrder, CopyPhase

\* A cycle of the sprite copy.
LEMMA SprCycleKeepsCopyInv ==
    ASSUME CopyInv, SprCycle, Count
    PROVE  CopyInv'
<1> USE BytesAssumption, MinGapAssumption
<1>1. parity' \in 0..1 /\ gap' \in 0..MinGap /\ dmc_count' \in 0..2
  BY DEF CopyInv, TypeOK, Count, SprCycle
<1>2. CASE SprDelay
  BY <1>1, <1>2 DEF SprDelay, SprCycle, CopyInv, TypeOK, OamInOrder, CopyPhase
<1>3. CASE SprIdle
  BY <1>1, <1>3 DEF SprIdle, spr, SprCycle, CopyInv, TypeOK, OamInOrder, CopyPhase
<1>4. CASE SprRead
  <2>1. spr_source = Len(oam) /\ spr_count > 0
    BY <1>4, CountParity DEF SprRead, SprCycle, SprAligned
  <2>2. spr_count = 2 * (Bytes - Len(oam)) /\ Len(oam) \in Nat
    BY <2>1 DEF CopyInv, TypeOK, CopyPhase
  <2>3. spr_source < Bytes
    BY <2>1, <2>2 DEF CopyInv, TypeOK
  <2>4. TypeOK'
    BY <1>1, <1>4, <2>1, <2>3 DEF SprRead, CopyInv, TypeOK
  <2> QED
    BY <1>4, <2>1, <2>2, <2>4 DEF SprRead, CopyInv, TypeOK, OamInOrder, CopyPhase
<1>5. CASE SprWrite
  <2>1. spr_source = Len(oam) + 1 /\ spr_count > 0
    BY <1>5, CountParity DEF SprWrite, SprCycle, SprAligned
  <2>2. spr_byte = Len(oam) /\ Len(oam) \in Nat
        /\ spr_count = 2 * (Bytes - Len(oam)) - 1
    BY <2>1 DEF CopyInv, TypeOK, CopyPhase
  <2>3. Len(oam) < Bytes
    BY <2>1, <2>2
  <2>4. oam' = Append(oam, Len(oam)) /\ spr_count' = spr_count - 1
        /\ UNCHANGED <<spr_delay, spr_source, spr_byte>>
    BY <1>5, <2>2 DEF SprWrite
  <2>5. oam \in Seq(0..Bytes) /\ Len(oam) \in 0..Bytes
    BY <2>2, <2>3 DEF CopyInv, TypeOK
  <2>6. oam' \in Seq(0..Bytes) /\ Len(oam') = Len(oam) + 1
    BY <2>4, <2>5
  <2>7. TypeOK'
    BY <1>1, <2>1, <2>2, <2>4, <2>6 DEF CopyInv, TypeOK
  <2>8. OamInOrder'
    <3>1. \A i \in 1..Len(oam) : oam'[i] = i - 1
      BY <2>4, <2>5 DEF CopyInv, OamInOrder
    <3>2. oam'[Len(oam) + 1] = Len(oam)
      BY <2>4, <2>5
    <3>3. ASSUME NEW i \in 1..Len(oam')
          PROVE  oam'[i] = i - 1
      <4>1. i \in 1..Len(oam) \/ i = Len(oam) + 1
        BY <2>6, <2>2
      <4>2. CASE i \in 1..Len(oam)
        BY <4>2, <3>1
      <4>3. CASE i = Len(oam) + 1
        BY <4>3, <3>2, <2>2
      <4> QED
        BY <4>1, <4>2, <4>3
    <3> QED
      BY <3>3, <2>6, <2>3, <2>2 DEF OamInOrder
  <2>9. CopyPhase'
    BY <2>1, <2>2, <2>4, <2>6 DEF CopyPhase
  <2> QED
    BY <2>7, <2>8, <2>9 DEF CopyInv
<1> QED
  BY <1>2, <1>3, <1>4, <1>5 DEF SprCycle

\* Every step of the CPU clock, the DMC and a reset.
LEMMA CopyInvNext == CopyInv /\ [DmaNext]_dmaVars => CopyInv'
<1> SUFFICES ASSUME CopyInv, [DmaNext]_dmaVars
             PROVE  CopyInv'
  OBVIOUS
<1> USE BytesAssumption, MinGapAssumption DEF CopyInv, TypeOK, OamInOrder, CopyPhase
<1>1. CASE CpuCycle
  BY <1>1 DEF CpuCycle, Count, spr
<1>2. CASE StartCycle
  BY <1>2 DEF StartCycle, ScheduleSpr, Count
<1>3. CASE DmcCycle /\ Count
  BY <1>3 DEF DmcCycle, Count, spr
<1>4. CASE SprCycle /\ Count
  BY <1>4, SprCycleKeepsCopyInv DEF CopyInv
<1>5. CASE ScheduleDmc
  BY <1>5 DEF ScheduleDmc, spr
<1>6. CASE ResetDma
  BY <1>6 DEF ResetDma
<1>7. CASE UNCHANGED dmaVars
  BY <1>7 DEF dmaVars, spr
<1> QED
  BY <1>1, <1>2, <1>3, <1>4, <1>5, <1>6, <1>7 DEF DmaNext, Tick, DmaCycle

\* The inductive invariant holds in every reachable state.
THEOREM CopyInvariant == DmaSpec => []CopyInv
<1>1. DmaInit => CopyInv
  BY CopyInvInit
<1>2. CopyInv /\ [DmaNext]_dmaVars => CopyInv'
  BY CopyInvNext
<1> QED
  BY <1>1, <1>2, PTL DEF DmaSpec

\* The counts, the address and the copied bytes stay within their types, for a
\* page of any length: the address never runs past the page.
THEOREM TypeCorrect == DmaSpec => []TypeOK
<1>1. CopyInv => TypeOK
  BY DEF CopyInv
<1> QED
  BY <1>1, CopyInvariant, PTL

\* The bytes of the page reach the sprite memory in order and each once,
\* wherever the sample fetches and a reset cut in.
THEOREM OamInOrderHolds == DmaSpec => []OamInOrder
<1>1. CopyInv => OamInOrder
  BY DEF CopyInv
<1> QED
  BY <1>1, CopyInvariant, PTL

-----------------------------------------------------------------------------
\* A step of the CPU clock is a step of the abstract copy, or none.
LEMMA StepCopies ==
    CopyInv /\ [DmaNext]_dmaVars => [Copy!CopyNext]_Copy!copyVars
<1> SUFFICES ASSUME CopyInv, [DmaNext]_dmaVars
             PROVE  [Copy!CopyNext]_Copy!copyVars
  OBVIOUS
<1> USE BytesAssumption DEF Copy!CopyNext, Copy!copyVars
<1>1. CASE CpuCycle
  BY <1>1 DEF CpuCycle, spr
<1>2. CASE StartCycle
  BY <1>2 DEF StartCycle, ScheduleSpr, Stalled, Copy!Start, CopyInv, TypeOK
<1>3. CASE DmcCycle
  BY <1>3 DEF DmcCycle, spr
<1>4. CASE SprCycle
  <2>1. CASE SprDelay
    BY <2>1 DEF SprDelay
  <2>2. CASE SprIdle
    BY <2>2 DEF SprIdle, spr
  <2>3. CASE SprRead
    <3>1. spr_count > 0 /\ spr_source = Len(oam)
      BY <1>4, <2>3, CountParity DEF SprRead, SprCycle, SprAligned
    <3>2. spr_count = 2 * (Bytes - Len(oam)) /\ Len(oam) \in Nat
      BY <3>1 DEF CopyInv, TypeOK, CopyPhase
    <3>3. spr_count' > 0
      BY <3>1, <3>2, <2>3 DEF SprRead
    <3> QED
      BY <3>1, <3>3, <2>3 DEF SprRead
  <2>4. CASE SprWrite
    <3>1. spr_count > 0 /\ spr_source = Len(oam) + 1
      BY <1>4, <2>4, CountParity DEF SprWrite, SprCycle, SprAligned
    <3>2. spr_count = 2 * (Bytes - Len(oam)) - 1 /\ Len(oam) \in Nat
      BY <3>1 DEF CopyInv, TypeOK, CopyPhase
    <3>3. Len(oam') = Len(oam) + 1 /\ spr_count' = spr_count - 1
      BY <2>4 DEF SprWrite, CopyInv, TypeOK
    <3>4. (spr_count' > 0) <=> (Len(oam') < Bytes)
      BY <3>2, <3>3
    <3> QED
      BY <3>1, <3>3, <3>4 DEF Copy!CopyByte
  <2> QED
    BY <1>4, <2>1, <2>2, <2>3, <2>4 DEF SprCycle
<1>5. CASE ScheduleDmc
  BY <1>5 DEF ScheduleDmc, spr
<1>6. CASE ResetDma
  BY <1>6 DEF ResetDma, Copy!Cancel, CopyInv, TypeOK
<1>7. CASE UNCHANGED dmaVars
  BY <1>7 DEF dmaVars, spr
<1> QED
  BY <1>1, <1>2, <1>3, <1>4, <1>5, <1>6, <1>7 DEF DmaNext, Tick, DmaCycle

\* CpuDma implements the safety part of OamCopy for every length of the page.
THEOREM ImplementsOamCopy ==
    DmaSpec => Copy!CopyInit /\ [][Copy!CopyNext]_Copy!copyVars
<1>1. DmaInit => Copy!CopyInit
  BY DEF DmaInit, Copy!CopyInit
<1>2. CopyInv /\ [DmaNext]_dmaVars => [Copy!CopyNext]_Copy!copyVars
  BY StepCopies
<1> QED
  BY <1>1, <1>2, CopyInvariant, PTL DEF DmaSpec

-----------------------------------------------------------------------------
(* The property as the run checks it.                                      *)
THEOREM SafeCopyHolds == DmaSpec => []SafeCopy
  BY TypeCorrect, OamInOrderHolds, PTL DEF SafeCopy
-----------------------------------------------------------------------------
(***************************************************************************)
(* DmaTiming: how long a sample fetch and a sprite copy take.  The         *)
(* argument is a sum that no cycle changes: the cycles spent and the       *)
(* cycles that are still to come.                                          *)
(***************************************************************************)

(***************************************************************************)
(* The cycles the pending fetch still takes: its count, and one more while *)
(* it waits for its parity.                                                *)
(***************************************************************************)
FetchLeft == IF dmc_count = 0 THEN 0
             ELSE dmc_count + (IF DmcAligned THEN 0 ELSE 1)

FetchInv ==
    /\ parity \in 0..1 /\ dmc_count \in 0..2
    /\ dmc_wait \in Nat
    /\ dmc_wait <= 3
    /\ dmc_count > 0 => dmc_wait + FetchLeft <= 3

\* A cycle spent on the fetch is one less to come.
LEMMA FetchInvNext == FetchInv /\ [TimingNext]_timingVars => FetchInv'
<1> SUFFICES ASSUME FetchInv, [TimingNext]_timingVars
             PROVE  FetchInv'
  OBVIOUS
<1> USE DEF FetchInv, FetchLeft, DmcAligned
<1>1. CASE CpuCycle /\ UNCHANGED history
  BY <1>1 DEF CpuCycle, Count, Stalled, history
<1>2. CASE StartCycle /\ UNCHANGED dmc_wait
  BY <1>2 DEF StartCycle, ScheduleSpr, Count, Stalled
<1>3. CASE DmcCycle /\ Count /\ dmc_wait' = dmc_wait + 1
  <2>1. parity' = 1 - parity
    BY <1>3 DEF Count
  <2>2. dmc_count \in {1, 2} /\ parity \in {0, 1}
    BY <1>3 DEF DmcCycle
  <2>3. dmc_count' = (IF dmc_count % 2 = parity THEN dmc_count - 1 ELSE dmc_count)
    BY <1>3 DEF DmcCycle
  <2>4. 1 % 2 = 1 /\ 2 % 2 = 0 /\ 0 % 2 = 0
    OBVIOUS
  <2>5. CASE dmc_count = 1
    BY <2>1, <2>2, <2>3, <2>4, <2>5, <1>3
  <2>6. CASE dmc_count = 2
    BY <2>1, <2>2, <2>3, <2>4, <2>6, <1>3
  <2> QED
    BY <2>2, <2>5, <2>6
<1>4. CASE SprCycle /\ Count /\ dmc_wait' = dmc_wait
  BY <1>4 DEF SprCycle, Count
<1>5. CASE TimedScheduleDmc
  BY <1>5 DEF TimedScheduleDmc, ScheduleDmc
<1>6. CASE TimedReset
  BY <1>6 DEF TimedReset, ResetDma, history
<1>7. CASE UNCHANGED timingVars
  BY <1>7 DEF timingVars, dmaVars, history
<1>8. CASE DmaCycle /\ dmc_wait' = (IF dmc_count > 0 THEN dmc_wait + 1 ELSE dmc_wait)
  BY <1>3, <1>4, <1>8 DEF DmaCycle, DmcCycle, SprCycle
<1> QED
  BY <1>1, <1>2, <1>5, <1>6, <1>7, <1>8 DEF TimingNext, TimedTick

\* The DMC has its byte within three cycles of asking for it.
THEOREM DmcServedInTimeHolds == TimingSpec => []DmcServedInTime
<1>1. TimingInit => FetchInv
  BY DEF TimingInit, DmaInit, FetchInv, FetchLeft
<1>2. FetchInv /\ [TimingNext]_timingVars => FetchInv'
  BY FetchInvNext
<1>3. FetchInv => DmcServedInTime
  BY DEF FetchInv, DmcServedInTime
<1> QED
  BY <1>1, <1>2, <1>3, PTL DEF TimingSpec

-----------------------------------------------------------------------------
\* The parity in which the copy goes on once the pending fetch is done: a
\* fetch ends in an odd cycle.
SprParity == IF dmc_count = 0 THEN parity ELSE 0

\* The cycles the copy still takes after that, if no other fetch cuts in.
SprLeft == spr_count + spr_delay
           + (IF (spr_count + spr_delay) % 2 = SprParity THEN 0 ELSE 1)

LengthInv ==
    /\ elapsed \in Nat /\ fetches \in Nat
    /\ spr_count > 0 =>
         /\ elapsed + FetchLeft + SprLeft <= UndisturbedLength + 4 * fetches
         /\ fetches = 0 => dmc_count = 0 /\ elapsed + SprLeft = UndisturbedLength
    /\ spr_count = 0 =>
         /\ elapsed <= UndisturbedLength + 4 * fetches
         /\ (fetches = 0 /\ Len(oam) = Bytes) => elapsed = UndisturbedLength

\* The cycles of a copy do not depend on what is timed.
LEMMA TimingStepsAreDmaSteps ==
    [TimingNext]_timingVars => [DmaNext]_dmaVars
  BY DEF TimingNext, TimedTick, TimedScheduleDmc, TimedReset, timingVars,
         DmaNext, Tick

LEMMA Flip ==
    ASSUME NEW n \in Nat
    PROVE  n % 2 \in {0, 1} /\ (n + 1) % 2 = 1 - (n % 2)
  OBVIOUS

LEMMA FetchCostsFour ==
    ASSUME NEW spent \in Nat, NEW f \in Nat, NEW s \in Nat, NEW bound \in Nat,
           NEW f2 \in Nat, NEW s2 \in Nat,
           spent + f + s <= bound, f2 <= 3, s2 <= s + 1
    PROVE  spent + f2 + s2 <= bound + 4
  OBVIOUS

\* A cycle of the copy is one less to come, and the waiting is unchanged.
LEMMA SprCycleLeft ==
    ASSUME CopyInv, SprCycle, Count
    PROVE  SprLeft' = SprLeft - 1 \/ (spr_count' = 0 /\ SprLeft = 1)
<1> DEFINE n == spr_count + spr_delay
<1>1. /\ parity \in {0, 1} /\ parity' = 1 - parity
      /\ spr_count \in Nat \ {0} /\ spr_delay \in {0, 1} /\ n \in Nat
      /\ dmc_count = 0 /\ dmc_count' = 0
  BY BytesAssumption DEF CopyInv, TypeOK, SprCycle, Count
<1>2. SprLeft = n + (IF n % 2 = parity THEN 0 ELSE 1)
      /\ SprLeft' = n' + (IF n' % 2 = 1 - parity THEN 0 ELSE 1)
  BY <1>1 DEF SprLeft, SprParity
<1>3. ASSUME n' = n - 1
      PROVE  SprLeft' = SprLeft - 1
  <2>1. n' \in Nat /\ n = n' + 1
    BY <1>1, <1>3
  <2>2. n % 2 = 1 - (n' % 2) /\ n' % 2 \in {0, 1}
    BY <2>1, Flip
  <2>3. (n % 2 = parity) <=> (n' % 2 = 1 - parity)
    BY <2>2, <1>1
  <2> QED
    BY <2>1, <2>3, <1>2
<1>4. CASE SprDelay
  BY <1>4, <1>1, <1>3 DEF SprDelay
<1>5. CASE SprIdle
  <2>1. n' = n /\ n % 2 # parity
    BY <1>5, <1>1 DEF SprIdle, SprAligned, spr
  <2>2. n % 2 = 1 - parity
    BY <2>1, <1>1, Flip
  <2> QED
    BY <2>1, <2>2, <1>1, <1>2
<1>6. CASE SprRead \/ SprWrite
  BY <1>6, <1>1, <1>3 DEF SprRead, SprWrite
<1> QED
  BY <1>4, <1>5, <1>6 DEF SprCycle

\* The length of the copy: spent, and still to come.
LEMMA LengthInvNext ==
    CopyInv /\ FetchInv /\ LengthInv /\ [TimingNext]_timingVars => LengthInv'
<1> SUFFICES ASSUME CopyInv, FetchInv, LengthInv, [TimingNext]_timingVars
             PROVE  LengthInv'
  OBVIOUS
<1>0. /\ parity \in {0, 1} /\ dmc_count \in 0..2 /\ Bytes \in Nat \ {0}
      /\ spr_count \in Nat /\ spr_delay \in {0, 1} /\ Len(oam) \in Nat
      /\ elapsed \in Nat /\ fetches \in Nat /\ UndisturbedLength \in Nat
      /\ FetchLeft \in Nat /\ SprLeft \in Nat /\ SprLeft >= spr_count
  BY BytesAssumption
  DEF CopyInv, TypeOK, LengthInv, UndisturbedLength, FetchLeft, SprLeft
<1>1. CASE CpuCycle /\ UNCHANGED history
  BY <1>1, <1>0 DEF CpuCycle, Stalled, history, spr, LengthInv, UndisturbedLength
<1>2. CASE StartCycle /\ elapsed' = 0 /\ odd_write' = (parity = 1) /\ fetches' = 0
  <2>1. /\ spr_count' = 2 * Bytes /\ spr_delay' = 1 /\ dmc_count' = 0
        /\ parity' = 1 - parity
    BY <1>2, <1>0 DEF StartCycle, ScheduleSpr, Count, Stalled
  <2>2. (2 * Bytes + 1) % 2 = 1
    BY <1>0
  <2>3. SprLeft' = 2 * Bytes + 1 + (IF parity = 0 THEN 0 ELSE 1)
    BY <2>1, <2>2, <1>0 DEF SprLeft, SprParity
  <2>4. UndisturbedLength' = 2 * Bytes + 1 + (IF parity = 0 THEN 0 ELSE 1)
    BY <1>2, <1>0 DEF UndisturbedLength
  <2>5. FetchLeft' = 0
    BY <2>1 DEF FetchLeft
  <2> QED
    BY <1>2, <1>0, <2>1, <2>3, <2>4, <2>5 DEF LengthInv
<1>3. CASE DmcCycle /\ Count
           /\ elapsed' = (IF spr_count > 0 THEN elapsed + 1 ELSE elapsed)
           /\ UNCHANGED <<odd_write, fetches>>
  <2>1. parity' = 1 - parity /\ dmc_count \in {1, 2}
        /\ dmc_count' = (IF dmc_count % 2 = parity THEN dmc_count - 1 ELSE dmc_count)
        /\ UNCHANGED <<spr_count, spr_delay, oam>>
    BY <1>3, <1>0 DEF DmcCycle, Count, DmcAligned, spr
  <2>2. 1 % 2 = 1 /\ 2 % 2 = 0
    OBVIOUS
  <2>3. FetchLeft' = FetchLeft - 1 /\ SprParity' = SprParity
    <3>1. CASE dmc_count = 1
      BY <3>1, <2>1, <2>2, <1>0 DEF FetchLeft, SprParity, DmcAligned
    <3>2. CASE dmc_count = 2
      BY <3>2, <2>1, <2>2, <1>0 DEF FetchLeft, SprParity, DmcAligned
    <3> QED
      BY <2>1, <3>1, <3>2
  <2>4. SprLeft' = SprLeft
    BY <2>1, <2>3 DEF SprLeft
  <2>5. UndisturbedLength' = UndisturbedLength
    BY <1>3 DEF UndisturbedLength
  <2> QED
    BY <1>3, <1>0, <2>1, <2>3, <2>4, <2>5 DEF LengthInv
<1>4. CASE SprCycle /\ Count /\ elapsed' = elapsed + 1
           /\ UNCHANGED <<odd_write, fetches>>
  <2>1. dmc_count = 0 /\ dmc_count' = 0 /\ spr_count > 0
    BY <1>4 DEF SprCycle
  <2>2. FetchLeft = 0 /\ FetchLeft' = 0 /\ UndisturbedLength' = UndisturbedLength
    BY <1>4, <2>1 DEF FetchLeft, UndisturbedLength
  <2>3. SprLeft' = SprLeft - 1 \/ (spr_count' = 0 /\ SprLeft = 1)
    BY <1>4, SprCycleLeft
  <2>4. spr_count' \in Nat /\ (spr_count' = 0 => SprLeft = 1)
    <3>1. spr_count' \in {spr_count, spr_count - 1}
      BY <1>4 DEF SprCycle, SprDelay, SprIdle, SprRead, SprWrite, spr
    <3>2. ASSUME spr_count' = 0
          PROVE  SprLeft = 1
      <4>1. spr_count = 1 /\ spr_count' = spr_count - 1
        BY <3>1, <3>2, <2>1, <1>0
      <4>2. SprWrite \/ SprRead
        BY <4>1, <1>4 DEF SprCycle, SprDelay, SprIdle, spr
      <4>3. spr_delay = 0 /\ spr_count % 2 = parity
        BY <4>2 DEF SprWrite, SprRead, SprAligned
      <4> QED
        BY <4>1, <4>3, <2>1 DEF SprLeft, SprParity
    <3> QED
      BY <3>1, <3>2, <2>1, <1>0
  <2> QED
    BY <1>4, <1>0, <2>1, <2>2, <2>3, <2>4 DEF LengthInv
<1>5. CASE TimedScheduleDmc
  <2>1. dmc_count' = 2 /\ UNCHANGED <<parity, spr_count, spr_delay, oam, elapsed, odd_write>>
        /\ fetches' = (IF spr_count > 0 THEN fetches + 1 ELSE fetches)
    BY <1>5 DEF TimedScheduleDmc, ScheduleDmc, spr
  <2>2. FetchLeft' \in {2, 3}
    BY <2>1 DEF FetchLeft
  <2>3. SprLeft' <= SprLeft + 1 /\ SprLeft' \in Nat
    BY <2>1, <1>0 DEF SprLeft
  <2>4. UndisturbedLength' = UndisturbedLength
    BY <2>1 DEF UndisturbedLength
  <2>5. CASE spr_count > 0
    <3>1. fetches' = fetches + 1 /\ fetches' # 0 /\ fetches' \in Nat
      BY <2>1, <2>5, <1>0
    <3>2. elapsed + FetchLeft + SprLeft <= UndisturbedLength + 4 * fetches
      BY <2>5 DEF LengthInv
    <3>3. elapsed' + FetchLeft' + SprLeft' <= UndisturbedLength' + 4 * fetches'
      <4>1. FetchLeft' \in Nat /\ FetchLeft' <= 3
        BY <2>2
      <4>2. elapsed' = elapsed
        BY <2>1
      <4>3. elapsed + FetchLeft' + SprLeft' <= UndisturbedLength + 4 * fetches + 4
        <5>1. UndisturbedLength + 4 * fetches \in Nat
          BY <1>0
        <5>2. elapsed \in Nat /\ FetchLeft \in Nat /\ SprLeft \in Nat
          BY <1>0
        <5> QED
          BY <5>1, <5>2, <3>2, <4>1, <2>3, FetchCostsFour
      <4> QED
        BY <4>2, <4>3, <3>1, <2>4, <1>0
    <3> QED
      BY <3>1, <3>3, <2>1, <2>5, <1>0 DEF LengthInv
  <2>6. CASE spr_count = 0
    BY <2>6, <2>1, <2>4, <1>0 DEF LengthInv
  <2> QED
    BY <2>5, <2>6, <1>0
<1>6. CASE TimedReset
  <2>1. spr_count' = 0 /\ UNCHANGED <<oam, elapsed, odd_write, fetches>>
    BY <1>6 DEF TimedReset, ResetDma, history
  <2>2. spr_count > 0 => Len(oam) < Bytes
    BY <1>0 DEF CopyInv, CopyPhase
  <2> QED
    BY <1>0, <2>1, <2>2 DEF LengthInv, UndisturbedLength
<1>7. CASE UNCHANGED timingVars
  BY <1>7 DEF timingVars, dmaVars, spr, history, LengthInv, UndisturbedLength,
              FetchLeft, DmcAligned, SprLeft, SprParity
<1> QED
  BY <1>1, <1>2, <1>3, <1>4, <1>5, <1>6, <1>7
  DEF TimingNext, TimedTick, DmaCycle, SprCycle

\* A copy takes 2 * Bytes + 1 cycles, one more if it was asked for in an odd
\* cycle, and at most four more for each sample fetch that cuts in.
THEOREM OamDmaLengthHolds == TimingSpec => []OamDmaLength
<1> DEFINE Inv == CopyInv /\ FetchInv /\ LengthInv
<1>1. TimingInit => Inv
  <2>1. TimingInit => CopyInv
    BY CopyInvInit DEF TimingInit
  <2>2. TimingInit => FetchInv
    BY DEF TimingInit, DmaInit, FetchInv, FetchLeft
  <2>3. TimingInit => LengthInv
    BY BytesAssumption DEF TimingInit, DmaInit, LengthInv, UndisturbedLength
  <2> QED
    BY <2>1, <2>2, <2>3
<1>2. Inv /\ [TimingNext]_timingVars => Inv'
  BY CopyInvNext, FetchInvNext, LengthInvNext, TimingStepsAreDmaSteps
<1>3. Inv => OamDmaLength
  <2> SUFFICES ASSUME Inv
               PROVE  OamDmaLength
    OBVIOUS
  <2>1. /\ spr_count \in Nat /\ spr_delay \in {0, 1} /\ elapsed \in Nat
        /\ fetches \in Nat /\ UndisturbedLength \in Nat /\ FetchLeft \in Nat
        /\ SprLeft \in Nat /\ SprLeft >= spr_count
    BY BytesAssumption
    DEF CopyInv, TypeOK, FetchInv, LengthInv, UndisturbedLength, FetchLeft, SprLeft
  <2>2. spr_count > 0 => Len(oam) < Bytes
    BY BytesAssumption DEF CopyInv, TypeOK, CopyPhase
  <2> QED
    BY <2>1, <2>2 DEF LengthInv, OamDmaLength
<1> QED
  BY <1>1, <1>2, <1>3, PTL DEF TimingSpec

-----------------------------------------------------------------------------
(* The property as the run checks it: both times.                          *)
THEOREM TransferTimesHold == TimingSpec => []TransferTimes
  BY OamDmaLengthHolds, DmcServedInTimeHolds, PTL DEF TransferTimes
=============================================================================
