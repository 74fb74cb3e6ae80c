---------------------------- MODULE LinearCounter ----------------------------
(***************************************************************************)
(* The triangle's linear counter (src/src/LinearCounter.cpp) and the       *)
(* writes that reach it (src/src/Triangle.cpp).  Its reload flag is        *)
(* cleared by a clock, not by the reload, and only while the control bit   *)
(* is clear.                                                               *)
(***************************************************************************)
EXTENDS Naturals

CONSTANTS MaxLinear     \* 0x7f, the largest value of the counter

ASSUME LinearAssumption == MaxLinear \in Nat

VARIABLES
    lin_value,          \* value_
    lin_reload,         \* reload_
    lin_control,        \* control_ & 0x80
    lin_period          \* control_ & 0x7f

linVars == <<lin_value, lin_reload, lin_control, lin_period>>

LinInit ==
    /\ lin_value = 0 /\ lin_reload = FALSE
    /\ lin_control = FALSE /\ lin_period = 0

\* $4008
WriteControl ==
    /\ lin_control' \in BOOLEAN /\ lin_period' \in 0..MaxLinear
    /\ UNCHANGED <<lin_value, lin_reload>>

\* $400B
WriteReload ==
    /\ lin_reload' = TRUE
    /\ UNCHANGED <<lin_value, lin_control, lin_period>>

NextReload == lin_reload /\ lin_control

\* clock(), on quarter frames.
LinClock ==
    /\ lin_value' = IF lin_reload THEN lin_period
                    ELSE IF lin_value > 0 THEN lin_value - 1 ELSE 0
    /\ lin_reload' = NextReload
    /\ UNCHANGED <<lin_control, lin_period>>

LinNext == WriteControl \/ WriteReload \/ LinClock

LinSpec == LinInit /\ [][LinNext]_linVars /\ WF_linVars(LinClock)

-----------------------------------------------------------------------------
LinTypeOK ==
    /\ lin_value \in 0..MaxLinear /\ lin_period \in 0..MaxLinear
    /\ lin_reload \in BOOLEAN /\ lin_control \in BOOLEAN

(* A note whose control bit is clear ends: once the game leaves the        *)
(* registers alone, the counter stops the triangle for good.               *)
TriangleEnds ==
    <>[][~WriteControl /\ ~WriteReload]_linVars /\ <>[]~lin_control
        => <>[](lin_value = 0)
=============================================================================
