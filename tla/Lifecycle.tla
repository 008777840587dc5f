----------------------------- MODULE Lifecycle -----------------------------
(***************************************************************************)
(* What a controller and an application may rely on about a connection     *)
(* (the comments of pf_cmdev_state_values in pf_types.h): it is opened for *)
(* one AR UUID and keeps it; it is parameterised, then declared ready by   *)
(* the application, then confirmed by the controller, and only then does   *)
(* data exchange begin; it may end in any state, and nothing but its end   *)
(* takes it back.                                                          *)
(***************************************************************************)
EXTENDS Naturals

CONSTANTS Uuids, None

VARIABLES phase, uuid

vars == <<phase, uuid>>

Init == phase = "closed" /\ uuid = None

\* Connect, answered positively
Open(u) == phase = "closed" /\ phase' = "opened" /\ uuid' = u

Advance(from, to) == phase = from /\ phase' = to /\ UNCHANGED uuid

PrmEnd == Advance("opened", "parameterised")
ApplicationReady == Advance("parameterised", "ready")
\* The confirmation finds the cyclic data established or not.
Confirmed == Advance("ready", "confirmed") \/ Advance("ready", "data")
DataEstablished == Advance("confirmed", "data")

Close == phase # "closed" /\ phase' = "closed" /\ uuid' = None

Next ==
    \/ \E u \in Uuids : Open(u)
    \/ PrmEnd \/ ApplicationReady \/ Confirmed \/ DataEstablished
    \/ Close

Spec == Init /\ [][Next]_vars
=============================================================================
