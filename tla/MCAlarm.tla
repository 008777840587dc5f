------------------------------ MODULE MCAlarm -------------------------------
(***************************************************************************)
(* One AR with a controller; two alarms that can be told apart.            *)
(***************************************************************************)
EXTENDS Alarm

CONSTANTS x, y

MCAlarms == {x, y}
MCOneAlarm == {x}
MCHigh == {High}
MCLow == {Low}
MCBoth == {Low, High}
MCNone == {}
MCStrays == {f \in Frame : f.alarm = x /\ BeforeSeq \notin {f.send, f.ack}}
=============================================================================
