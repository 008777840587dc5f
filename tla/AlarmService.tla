---------------------------- MODULE AlarmService ----------------------------
(***************************************************************************)
(* What the sender of alarms in one direction and at one priority may rely *)
(* on (pnet_alarm_send_process_alarm, pnet_alarm_ind, pnet_alarm_cnf in    *)
(* pnet_api.h): alarms are indicated to the other side once each and in    *)
(* the order they were sent, the next one only when the one before has     *)
(* been answered and the answer confirmed to the sender; the end of the    *)
(* connection discards what is under way.                                  *)
(***************************************************************************)
EXTENDS Sequences

CONSTANTS Alarms, None

VARIABLES
    queue,     \* sent and not yet indicated
    current,   \* indicated, the answer not yet confirmed to the sender
    answered   \* has the receiver answered it?

vars == <<queue, current, answered>>

Init == queue = << >> /\ current = None /\ answered = FALSE

Send(a) == queue' = Append(queue, a) /\ UNCHANGED <<current, answered>>

Indicate ==
    /\ queue # << >> /\ current = None
    /\ current' = Head(queue) /\ queue' = Tail(queue)
    /\ UNCHANGED answered

Answer ==
    /\ current # None /\ ~answered
    /\ answered' = TRUE
    /\ UNCHANGED <<queue, current>>

Confirm ==
    /\ answered
    /\ current' = None /\ answered' = FALSE
    /\ UNCHANGED queue

End == queue' = << >> /\ current' = None /\ answered' = FALSE

Next == (\E a \in Alarms : Send(a)) \/ Indicate \/ Answer \/ Confirm \/ End

Spec == Init /\ [][Next]_vars
=============================================================================
