------------------------------- MODULE OamCopy -------------------------------
(***************************************************************************)
(* What a write to $4014 promises: the Bytes bytes of a page are copied to *)
(* the sprite memory one after the other and in order, whatever else takes *)
(* the bus meanwhile, unless a reset ends the copy.                        *)
(***************************************************************************)
EXTENDS Naturals

CONSTANT Bytes    \* at least one, as CpuDma assumes

VARIABLES
    busy,       \* a copy is under way and the CPU waits for it
    copied      \* how many bytes it has copied

copyVars == <<busy, copied>>

CopyInit == busy = FALSE /\ copied = 0

Start == ~busy /\ busy' = TRUE /\ copied' = 0

CopyByte ==
    /\ busy
    /\ copied' = copied + 1
    /\ busy' = (copied' < Bytes)

\* Only a reset ends a copy before its last byte.
Cancel == busy /\ busy' = FALSE /\ UNCHANGED copied

CopyNext == Start \/ CopyByte \/ Cancel

CopySpec == CopyInit /\ [][CopyNext]_copyVars /\ WF_copyVars(CopyByte)
=============================================================================
