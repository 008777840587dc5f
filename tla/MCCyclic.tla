------------------------------ MODULE MCCyclic ------------------------------
(***************************************************************************)
(* A consumer and a provider.  They share no state: a behaviour of this    *)
(* instance moves one of them while the other is as it was created.        *)
(***************************************************************************)
EXTENDS Consumer, Provider, TLC

CONSTANTS b1, b2, b3
MCBufs == {b1, b2, b3}
MCSymmetry == Permutations(MCBufs)

CyclicInit == Init /\ ProviderInit
CyclicNext ==
    \/ Next /\ ppm = PpmOff /\ now = 0 /\ UNCHANGED pvars
    \/ ProviderNext /\ sent = 0 /\ cpm = Cleared /\ UNCHANGED vars
CyclicSpec == CyclicInit /\ [][CyclicNext]_<<vars, pvars>>
=============================================================================
