---------------------------- MODULE CycleCounter ----------------------------
(***************************************************************************)
(* The cycle counters of cyclic data frames: pf_ppm.c counts, pf_cpm.c     *)
(* checks.  A counter is 16 bits wide and advances by the number of        *)
(* timebases between two frames, send_clock_factor * reduction_ratio.      *)
(***************************************************************************)
EXTENDS Integers

CONSTANTS
    CycleMod,  \* the cycle counter wraps here (65536)
    Window     \* a counter that advances by 1 .. Window is new (61440)

ASSUME CycleAssumption ==
    CycleMod \in Nat /\ Window \in Nat /\ 0 < Window /\ Window < CycleMod

\* A mistake: the same counter passes.
Mut_CheckCycle(prev, now) == (now - prev) % CycleMod <= Window

\* pf_cpm_check_cycle: is the frame newer than the one before?  prev is -1
\* when there was none.
CheckCycle(prev, now) == (now - prev) % CycleMod \in 1 .. Window

\* A mistake: the multiple of the interval that prev itself is.
Mut_NextCycle(prev, interval) == (prev \div interval) * interval % CycleMod

\* pf_ppm_calculate_next_cyclecounter: the next multiple of the interval.
NextCycle(prev, interval) == (prev \div interval + 1) * interval % CycleMod
=============================================================================
