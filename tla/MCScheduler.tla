---------------------------- MODULE MCScheduler ----------------------------
(***************************************************************************)
(* Two threads, two timers of the main thread that share a name (as the    *)
(* timers of two ARs do) and one of the receive thread: the response to a  *)
(* DCP Identify, which is only ever added.                                 *)
(***************************************************************************)
EXTENDS Scheduler

CONSTANTS Rx, cmsm1, cmsm2, rxh

MCThreads == {Main, Rx}
MCHandles == {cmsm1, cmsm2, rxh}
MCName == [h \in MCHandles |-> IF h = rxh THEN "rx" ELSE "cmsm"]
MCOwner == [h \in MCHandles |-> IF h = rxh THEN Rx ELSE Main]
MCAddOnly == {rxh}
=============================================================================
