------------------------------- MODULE Alarm --------------------------------
(***************************************************************************)
(* The alarm channel of an AR (pf_alarm.c).  For each of the two           *)
(* priorities the device has APMS, which sends one frame at a time and     *)
(* repeats it until it is acknowledged (TACK), APMR, which receives and    *)
(* acknowledges, ALPMI, which sends an alarm and waits for its answer, and *)
(* ALPMR, which indicates the controller's alarm to the application and    *)
(* sends the answer.  Frames wait for the main thread in a receive queue   *)
(* that the Ethernet thread fills; alarms wait in a send queue.            *)
(*                                                                         *)
(* The handlers run on the main thread, one at a time.  An error ends the  *)
(* AR: its record is cleared (see Connection) while the callbacks that are *)
(* still scheduled go on pointing into it.                                 *)
(*                                                                         *)
(* The controller is external: it runs the same protocol over a link that  *)
(* loses frames but does not reorder them.                                 *)
(***************************************************************************)
EXTENDS Integers, Sequences

CONSTANTS
    QueueMax,     \* PNET_MAX_ALARMS, the size of the send and receive queues
    Retries,      \* rta_retries of the connection
    SeqMod,       \* 0x8000, the modulus of the frame sequence numbers
    Alarms,       \* what the two sides tell each other
    LinkMax,      \* bound on the frames on the way to the controller
    MaxLost,      \* bound on the orphaned timers explored
    SendMayFail,  \* may pf_eth_send_on_management_port fail?
    Eager,        \* does the application use both directions at once?
    Sends,        \* the priorities at which the application sends alarms,
    CtlSends,     \* those at which the controller sends them: both bound the traffic
    Strays,       \* what a controller that does not keep to the protocol sends; else {}
    None

Low == 0
High == 1
Prios == {Low, High}

ASSUME AlarmAssumption ==
    /\ QueueMax \in Nat \ {0} /\ Retries \in Nat /\ SeqMod \in Nat \ {0, 1}
    /\ LinkMax \in Nat /\ MaxLost \in Nat
    /\ None \notin Alarms
    /\ SendMayFail \in BOOLEAN /\ Eager \in BOOLEAN
    /\ Sends \subseteq Prios /\ CtlSends \subseteq Prios

\* Sequence numbers of frames: 0xffff and 0xfffe only before the first frame.
FirstSeq == 2 * SeqMod - 1
BeforeSeq == 2 * SeqMod - 2
NextSeq(n) == (n + 1) % SeqMod
SeqNo == 0 .. SeqMod - 1 \cup {FirstSeq, BeforeSeq}

\* Frames: an alarm notification and an answer (DATA, to be acknowledged), a
\* notification that cannot be parsed, an unknown DATA block, an
\* acknowledgement, a NACK (like anything else that is ignored), an error.
DataKinds == {"notify", "answer", "cut", "unknown"}
Kinds == DataKinds \cup {"tack", "nack", "err"}
Frame == [kind : Kinds, alarm : Alarms \cup {None}, send : SeqNo, ack : SeqNo]

ASSUME FrameAssumption == None \notin Frame /\ Strays \subseteq Frame

VARIABLES
    up,        \* is the AR in use, with its alarm machines activated?
    enabled,   \* p_ar->alarm_enable
    ap,        \* ap[p]: the four machines of a priority (apmx[p], alpmx[p])
    timer,     \* timer[p]: the scheduled pf_alarm_apms_timeout callbacks
    sendq,     \* alarm_send_q[p]
    recvq,     \* apmx[p].alarm_receive_q
    owed,      \* owed[p]: the alarm the application has been told of and owes an answer
    link,      \* link[p]: the frames on their way to the controller
    ctl,       \* ctl[p]: the controller
    halted     \* a null pointer was followed

vars == <<up, enabled, ap, timer, sendq, recvq, owed, link, ctl, halted>>

\* The machines in a cleared AR record, and after activation.
Closed == [apms |-> "CLOSED", apmr |-> "CLOSED", alpmi |-> "W_START", alpmr |-> "W_START",
           send |-> 0, send_o |-> 0, exp |-> 0, exp_o |-> 0, rta |-> None, left |-> 0]
Opened == [apms |-> "OPEN", apmr |-> "OPEN", alpmi |-> "W_ALARM", alpmr |-> "W_NOTIFY",
           send |-> FirstSeq, send_o |-> BeforeSeq, exp |-> FirstSeq, exp_o |-> BeforeSeq,
           rta |-> None, left |-> 0]

\* The controller at the start of a connection: the frame it repeats until it
\* is acknowledged, the alarm its user has not answered, the last one it got.
CtlStart == [send |-> FirstSeq, exp |-> FirstSeq, exp_o |-> BeforeSeq, out |-> None,
             left |-> 0, alpmi |-> "W_ALARM", asked |-> None, got |-> None, last |-> None]

NoTimer == [named |-> FALSE, lost |-> 0]
Count(b) == IF b THEN 1 ELSE 0

\* A handle that is overwritten, removed, written by pf_scheduler_add; an
\* expiry of one of the slots.
Orphan(t) == [named |-> FALSE, lost |-> t.lost + Count(t.named)]
Removed(t) == [t EXCEPT !.named = FALSE]
Added(t) == [Orphan(t) EXCEPT !.named = TRUE]
Expiring(t) == {u \in {[t EXCEPT !.named = FALSE], [t EXCEPT !.lost = t.lost - 1]} :
                  u # t /\ u.lost >= 0}

Each(x) == [p \in Prios |-> x]

Init ==
    /\ up = FALSE /\ enabled = FALSE /\ halted = FALSE
    /\ ap = Each(Closed) /\ timer = Each(NoTimer)
    /\ sendq = Each(<< >>) /\ recvq = Each(<< >>) /\ link = Each(<< >>)
    /\ owed = Each(None) /\ ctl = Each(CtlStart)

Dev == [up |-> up, enabled |-> enabled, ap |-> ap, timer |-> timer, sendq |-> sendq,
        recvq |-> recvq, owed |-> owed, link |-> link, ctl |-> ctl, halted |-> halted]
\* Once a null pointer has been followed there is no stack any more.
Becomes(d) ==
    /\ ~halted
    /\ up' = d.up /\ enabled' = d.enabled /\ ap' = d.ap /\ timer' = d.timer
    /\ sendq' = d.sendq /\ recvq' = d.recvq /\ owed' = d.owed /\ link' = d.link
    /\ ctl' = d.ctl /\ halted' = d.halted

\* The machines of a priority, its resend timer or its controller change.
With(d, p, m) == [d EXCEPT !.ap[p] = m]
WithTimer(d, p, t) == [d EXCEPT !.timer[p] = t]
WithCtl(d, p, c) == [d EXCEPT !.ctl[p] = c]

(***************************************************************************)
(* The AR: pf_alarm_activate, pf_alarm_enable, pf_alarm_close.             *)
(***************************************************************************)
\* Connect.
Activate ==
    /\ ~up
    /\ Becomes([Dev EXCEPT !.up = TRUE, !.ap = Each(Opened)])

\* The controller has confirmed Application Ready.
Enable ==
    /\ up /\ ~enabled
    /\ Becomes([Dev EXCEPT !.enabled = TRUE])

\* pf_alarm_close, and the AR record is cleared.  The controller learns of it;
\* what is still on the link reaches nobody.
Close(d) ==
    [d EXCEPT !.up = FALSE, !.enabled = FALSE, !.ap = Each(Closed),
              !.timer = [p \in Prios |-> Removed(@[p])],
              !.sendq = Each(<< >>), !.recvq = Each(<< >>), !.owed = Each(None),
              !.link = Each(<< >>), !.ctl = Each(CtlStart)]

\* The AR ends for another reason: Release, pnet_ar_abort, loss of data.
End == up /\ Becomes(Close(Dev))

(***************************************************************************)
(* APMS.                                                                   *)
(***************************************************************************)
\* A frame goes to the link, or is lost.
Put(d, p, f) ==
    IF Len(d.link[p]) < LinkMax THEN [d EXCEPT !.link[p] = Append(@, f)] ELSE d

Transmit(d, p, f, sent) == IF sent THEN Put(d, p, f) ELSE d

\* pf_alarm_apms_apms_a_data_req: a DATA frame, kept until it is acknowledged.
\* When APMS is not open, the first of two error indications clears the AR
\* and the second one follows its null p_alpmx.
DataReq(d, p, kind, a, sent) ==
    LET m == d.ap[p]
        f == [kind |-> kind, alarm |-> a, send |-> m.send, ack |-> m.exp_o]
        e == WithTimer(Transmit(d, p, f, sent), p, Added(d.timer[p]))
    IN  IF m.apms # "OPEN" THEN [Close(d) EXCEPT !.halted = TRUE]
        ELSE With(e, p, [m EXCEPT !.rta = IF @ = None THEN f ELSE @,
                                  !.left = Retries, !.apms = "WTACK"])

Acknowledged(m) ==
    [m EXCEPT !.apms = "OPEN", !.rta = None, !.send_o = m.send, !.send = NextSeq(@),
              !.alpmr = IF @ = "W_TACK" THEN "W_NOTIFY" ELSE @]

Mut_TackInd(d, p, f) ==
    IF d.ap[p].apms = "WTACK" THEN With(d, p, Acknowledged(d.ap[p])) ELSE d

\* pf_alarm_apms_a_data_ind: the acknowledgement in a frame.  The resend timer
\* goes on.  When it was an answer, pnet_alarm_ack_cnf is called.
TackInd(d, p, f) ==
    IF d.ap[p].apms = "WTACK" /\ f.ack = d.ap[p].send
    THEN With(d, p, Acknowledged(d.ap[p])) ELSE d

\* Two mistakes: the timer is not started again; giving up is forgotten.
Mut_Resent(d, p, sent) ==
    With(Transmit(d, p, d.ap[p].rta, sent), p, [d.ap[p] EXCEPT !.left = @ - 1])

\* The frame is sent again.
Resent(d, p, sent) ==
    With(WithTimer(Transmit(d, p, d.ap[p].rta, sent), p, Added(d.timer[p])), p,
         [d.ap[p] EXCEPT !.left = @ - 1])

Mut_Expired(d, p, sent) ==
    CASE d.ap[p].apms = "WTACK" /\ d.ap[p].rta # None /\ d.ap[p].left > 0 -> Resent(d, p, sent)
      [] d.ap[p].apms = "WTACK" /\ ~(d.ap[p].rta # None /\ d.ap[p].left > 0) -> d
      [] d.ap[p].apms # "WTACK" -> With(d, p, [d.ap[p] EXCEPT !.rta = None])

\* pf_alarm_apms_timeout
Expired(d, p, sent) ==
    CASE d.ap[p].apms = "WTACK" /\ d.ap[p].rta = None -> d
      [] d.ap[p].apms = "WTACK" /\ d.ap[p].rta # None ->
            IF d.ap[p].left > 0 THEN Resent(d, p, sent) ELSE Close(d)
      [] d.ap[p].apms # "WTACK" -> With(d, p, [d.ap[p] EXCEPT !.rta = None])

ApmsTimeout(p, sent) ==
    \E t \in Expiring(timer[p]) : Becomes(Expired(WithTimer(Dev, p, Orphan(t)), p, sent))

(***************************************************************************)
(* APMR.                                                                   *)
(***************************************************************************)
\* pf_alarm_apmr_send_ack, pf_alarm_apmr_send_nack
Reply(d, p, kind, sent) ==
    Transmit(d, p, [kind |-> kind, alarm |-> None,
                    send |-> d.ap[p].send_o, ack |-> d.ap[p].exp_o], sent)

\* pf_alarm_alpmr_apmr_a_data_ind: a notification for the application.
NotifyInd(d, p, f) ==
    CASE d.ap[p].alpmr = "W_START" -> d
      [] d.ap[p].alpmr = "W_NOTIFY" ->
            [With(d, p, [d.ap[p] EXCEPT !.alpmr = "W_USER_ACK"]) EXCEPT !.owed[p] = f.alarm]
      [] OTHER -> Close(d)

\* pf_alarm_alpmi_apmr_a_data_ind: the answer to the alarm of the device.
AnswerInd(d, p) ==
    IF d.ap[p].alpmi = "W_ACK" THEN With(d, p, [d.ap[p] EXCEPT !.alpmi = "W_ALARM"]) ELSE d

Counted(m) == [m EXCEPT !.exp_o = m.exp, !.exp = NextSeq(@)]

Mut_Accepted(d, p, f, sent) ==
    LET e == With(d, p, Counted(d.ap[p]))
        r == Reply(e, p, "tack", sent)
    IN  CASE f.kind = "unknown" -> Close(d)
          [] f.kind # "unknown" /\ ~sent -> r
          [] f.kind = "notify" /\ sent -> NotifyInd(r, p, f)
          [] f.kind = "answer" /\ sent -> AnswerInd(r, p)
          [] f.kind = "cut" /\ sent -> With(r, p, [r.ap[p] EXCEPT !.apmr = "WCNF"])

\* A DATA frame with the expected number: it is accepted and acknowledged.  If
\* the acknowledgement cannot be sent, the contents are dropped.
Accepted(d, p, f, sent) ==
    LET t == TackInd(d, p, f)
        e == With(t, p, Counted(t.ap[p]))
        r == Reply(e, p, "tack", sent)
    IN  CASE f.kind = "unknown" -> Close(d)
          [] f.kind # "unknown" /\ ~sent -> r
          [] f.kind = "notify" /\ sent -> NotifyInd(r, p, f)
          [] f.kind = "answer" /\ sent -> AnswerInd(r, p)
          [] f.kind = "cut" /\ sent -> With(r, p, [r.ap[p] EXCEPT !.apmr = "WCNF"])

Mut_DataInd(d, p, f, sent) ==
    CASE d.ap[p].apmr # "OPEN" -> d
      [] d.ap[p].apmr = "OPEN" /\ f.send \in {d.ap[p].exp, d.ap[p].exp_o} ->
            Accepted(d, p, f, sent)
      [] OTHER -> Reply(d, p, "nack", sent)

\* pf_alarm_apmr_a_data_ind
DataInd(d, p, f, sent) ==
    CASE d.ap[p].apmr # "OPEN" -> d
      [] d.ap[p].apmr = "OPEN" /\ f.send = d.ap[p].exp -> Accepted(d, p, f, sent)
      [] d.ap[p].apmr = "OPEN" /\ f.send # d.ap[p].exp /\ f.send = d.ap[p].exp_o ->
            Reply(TackInd(d, p, f), p, "tack", sent)
      [] OTHER -> Reply(d, p, "nack", sent)

\* pf_alarm_apmr_periodic: what it does with a frame of the queue.
Handle(d, p, f, sent) ==
    CASE f.kind \in DataKinds -> DataInd(d, p, f, sent)
      [] f.kind = "tack" -> TackInd(d, p, f)
      [] f.kind = "nack" -> d
      [] f.kind = "err" -> Close(d)

Fetch(p, sent) ==
    /\ up /\ recvq[p] # << >>
    /\ Becomes(Handle([Dev EXCEPT !.recvq[p] = Tail(@)], p, Head(recvq[p]), sent))

(***************************************************************************)
(* ALPMI and the application.                                              *)
(***************************************************************************)
CanSend(p) == ap[p].alpmi = "W_ALARM" /\ sendq[p] # << >>

\* pf_alarm_almpi_periodic: one alarm in every cycle, those of high priority
\* first.  When the frame could not be sent ALPMI does not wait for an answer.
Almpi(p, sent) ==
    LET d == DataReq([Dev EXCEPT !.sendq[p] = Tail(@)], p, "notify", Head(sendq[p]), sent)
    IN  /\ up /\ enabled /\ CanSend(p) /\ (p = Low => ~CanSend(High))
        /\ timer[p].lost < MaxLost
        /\ Becomes(IF sent /\ ~d.halted THEN With(d, p, [d.ap[p] EXCEPT !.alpmi = "W_ACK"]) ELSE d)

\* pf_alarm_send_alarm: process alarms have high priority, diagnosis and plug
\* and pull alarms low priority.  An application that is not eager sends a
\* process alarm only when it owes no answer and its last one is confirmed.
AppSend(p, a) ==
    /\ up /\ enabled /\ p \in Sends /\ Len(sendq[p]) < QueueMax
    /\ Eager \/ p = Low \/ (owed[High] = None /\ ap[High].alpmr # "W_TACK")
    /\ Becomes([Dev EXCEPT !.sendq[p] = Append(@, a)])

\* Two mistakes: ALPMR waits for TACK only if the frame was sent, or not at all.
Mut_AppAck(p, sent) ==
    LET e == [Dev EXCEPT !.owed[p] = None]
        d == DataReq(e, High, "answer", owed[p], sent)
    IN  /\ up /\ owed[p] # None
        /\ timer[High].lost < MaxLost
        /\ Eager \/ (sendq[High] = << >> /\ ap[High].alpmi = "W_ALARM")
        /\ Becomes(IF ap[High].alpmr # "W_USER_ACK" THEN e
                   ELSE IF d.halted \/ ~sent THEN d ELSE With(d, High, [d.ap[High] EXCEPT !.alpmr = "W_TACK"]))
Mut_NoTack(p, sent) ==
    LET e == [Dev EXCEPT !.owed[p] = None]
        d == DataReq(e, High, "answer", owed[p], sent)
    IN  /\ up /\ owed[p] # None
        /\ timer[High].lost < MaxLost
        /\ Eager \/ (sendq[High] = << >> /\ ap[High].alpmi = "W_ALARM")
        /\ Becomes(IF ap[High].alpmr # "W_USER_ACK" THEN e ELSE d)

\* pf_alarm_alpmr_alarm_ack: always with the machines of high priority.  An
\* application that is not eager waits for the confirmation of its own alarms.
AppAck(p, sent) ==
    LET e == [Dev EXCEPT !.owed[p] = None]
        d == DataReq(e, High, "answer", owed[p], sent)
    IN  /\ up /\ owed[p] # None
        /\ timer[High].lost < MaxLost
        /\ Eager \/ (sendq[High] = << >> /\ ap[High].alpmi = "W_ALARM")
        /\ Becomes(IF ap[High].alpmr # "W_USER_ACK" THEN e
                   ELSE IF d.halted THEN d ELSE With(d, High, [d.ap[High] EXCEPT !.alpmr = "W_TACK"]))

(***************************************************************************)
(* The controller: it runs the same protocol, and ends the connection when *)
(* its own resends run out.  Frames to the device are lost, or wait in the *)
(* receive queue unless that is full (pf_alarm_apmr_frame_handler).        *)
(***************************************************************************)
Receive(d, p, f, arrives) ==
    IF arrives /\ Len(d.recvq[p]) < QueueMax THEN [d EXCEPT !.recvq[p] = Append(@, f)] ELSE d

CtlData(p, c, kind, a, arrives) ==
    LET f == [kind |-> kind, alarm |-> a, send |-> c.send, ack |-> c.exp_o]
    IN  Receive(WithCtl(Dev, p, [c EXCEPT !.out = f, !.left = Retries]), p, f, arrives)

CtlNotify(p, a, arrives) ==
    /\ up /\ p \in CtlSends /\ ctl[p].out = None /\ ctl[p].alpmi = "W_ALARM"
    /\ Becomes(CtlData(p, [ctl[p] EXCEPT !.alpmi = "W_ACK", !.asked = a],
                       "notify", a, arrives))

CtlAnswer(p, arrives) ==
    /\ up /\ ctl[p].out = None /\ ctl[p].got # None
    /\ Becomes(CtlData(p, [ctl[p] EXCEPT !.got = None], "answer", ctl[p].got, arrives))

CtlResend(p, arrives) ==
    /\ up /\ ctl[p].out # None /\ ctl[p].left > 0
    /\ Becomes(Receive(WithCtl(Dev, p, [ctl[p] EXCEPT !.left = @ - 1]),
                       p, ctl[p].out, arrives))

CtlGiveUp(p) ==
    /\ up /\ ctl[p].out # None /\ ctl[p].left = 0
    /\ Len(recvq[p]) < QueueMax
    /\ Becomes(Receive(Dev, p, [ctl[p].out EXCEPT !.kind = "err"], TRUE))

\* The acknowledgement in a frame from the device.
CtlTacked(c, f) ==
    IF f.kind # "nack" /\ c.out # None /\ f.ack = c.send
    THEN [c EXCEPT !.out = None, !.send = NextSeq(@)] ELSE c

CtlAccepts(c, f) ==
    LET e == [c EXCEPT !.exp_o = c.exp, !.exp = NextSeq(c.exp)]
    IN  IF f.kind = "notify" THEN [e EXCEPT !.got = f.alarm, !.last = f.alarm]
        ELSE [e EXCEPT !.alpmi = "W_ALARM", !.asked = None]

CtlReceive(p, arrives) ==
    LET f == Head(link[p])
        c == CtlTacked(ctl[p], f)
        e == IF f.kind \in DataKinds /\ f.send = c.exp THEN CtlAccepts(c, f) ELSE c
        d == WithCtl([Dev EXCEPT !.link[p] = Tail(@)], p, e)
    IN  /\ up /\ link[p] # << >>
        /\ Becomes(IF f.kind \in DataKinds /\ f.send \in {c.exp, c.exp_o}
                   THEN Receive(d, p, [kind |-> "tack", alarm |-> None,
                                       send |-> e.send, ack |-> e.exp_o], arrives)
                   ELSE d)

LinkLoses(p) ==
    /\ link[p] # << >>
    /\ Becomes([Dev EXCEPT !.link[p] = Tail(@)])

\* Any frame at all, posted and fetched at once.
WildFrame(p, f, sent) ==
    /\ up
    /\ Becomes(Handle(Dev, p, f, sent))

-----------------------------------------------------------------------------
Sendings == IF SendMayFail THEN BOOLEAN ELSE {TRUE}

ArStep == Activate \/ Enable \/ End

MainStep ==
    \E p \in Prios :
      \/ \E sent \in Sendings :
           Fetch(p, sent) \/ Almpi(p, sent) \/ ApmsTimeout(p, sent) \/ AppAck(p, sent)
      \/ \E a \in Alarms : AppSend(p, a)

\* The controller keeps to the protocol, or it sends strays.
KeptTo == IF Strays = {} THEN Prios ELSE {}

ControllerStep ==
    \E p \in KeptTo :
      \/ \E arrives \in BOOLEAN :
           \/ \E a \in Alarms : CtlNotify(p, a, arrives)
           \/ CtlAnswer(p, arrives) \/ CtlResend(p, arrives) \/ CtlReceive(p, arrives)
      \/ CtlGiveUp(p) \/ LinkLoses(p)

WildStep == \E p \in CtlSends, f \in Strays, sent \in Sendings : WildFrame(p, f, sent)

Next == ArStep \/ MainStep \/ WildStep \/ ControllerStep

Spec == Init /\ [][Next]_vars

-----------------------------------------------------------------------------
Machines ==
    [apms : {"CLOSED", "OPEN", "WTACK"}, apmr : {"CLOSED", "OPEN", "WCNF"},
     alpmi : {"W_START", "W_ALARM", "W_ACK"},
     alpmr : {"W_START", "W_NOTIFY", "W_USER_ACK", "W_TACK"},
     send : SeqNo, send_o : SeqNo, exp : SeqNo, exp_o : SeqNo,
     rta : Frame \cup {None}, left : 0 .. Retries]

Controllers ==
    [send : SeqNo, exp : SeqNo, exp_o : SeqNo, out : Frame \cup {None}, left : 0 .. Retries,
     alpmi : {"W_ALARM", "W_ACK"}, asked : Alarms \cup {None}, got : Alarms \cup {None},
     last : Alarms \cup {None}]

TypeOK ==
    /\ up \in BOOLEAN /\ enabled \in BOOLEAN /\ halted \in BOOLEAN
    /\ ap \in [Prios -> Machines]
    /\ timer \in [Prios -> [named : BOOLEAN, lost : Nat]]
    /\ sendq \in [Prios -> Seq(Alarms)]
    /\ recvq \in [Prios -> Seq(Frame)]
    /\ owed \in [Prios -> Alarms \cup {None}]
    /\ link \in [Prios -> Seq(Frame)]
    /\ ctl \in [Prios -> Controllers]

\* A frame is retained exactly while its acknowledgement is awaited, so that
\* the buffer is neither lost nor sent again for the next frame, and then a
\* resend timer runs under the handle of the machine, whatever timers earlier
\* frames have left (pf_alarm_apms_a_data_req, pf_alarm_apms_timeout).
Retained ==
    \A p \in Prios :
        /\ (ap[p].apms = "WTACK") = (ap[p].rta # None)
        /\ ap[p].apms = "WTACK" => timer[p].named
        /\ ~up => ap[p] = Closed /\ sendq[p] = << >> /\ recvq[p] = << >> /\ ~timer[p].named

\* ALPMR waits for the acknowledgement of an answer exactly while APMS sends
\* one: ALPMI and ALPMR share APMS and its confirmations
\* (pf_alarm_alpmi_apms_a_data_cnf, pf_alarm_alpmr_apms_a_data_cnf).
AnswerUnderWay ==
    \A p \in Prios :
        ap[p].alpmr = "W_TACK" <=> ap[p].rta # None /\ ap[p].rta.kind = "answer"

\* The application is asked for an answer as long as ALPMR waits for one: an
\* alarm whose answer the application has given is answered
\* (pf_alarm_alpmr_alarm_ack, pnet_alarm_send_ack).
AnsweredIsAcked ==
    \A p \in Prios : ap[p].alpmr = "W_USER_ACK" => owed[p] # None

\* The controller sends alarms of high priority only, and each says something:
\* an answer is given with the machines of high priority whatever alarm it is
\* for, so that an alarm of low priority is never answered
\* (pf_alarm_alpmr_alarm_ack).
HighOnly ==
    /\ CtlSends \subseteq {High}
    /\ \A f \in Strays : f.kind = "notify" => f.alarm # None

\* The discipline under which WaitsForAck is meant, and the alarms of both
\* sides are services: the controller keeps to the protocol, its alarms have
\* high priority, frames may be lost but not refused by the device's own link,
\* and there are more than two sequence numbers.
Discipline ==
    CtlSends \subseteq {High} /\ Strays = {} /\ ~SendMayFail /\ SeqMod > 2

\* "Issues an Alarm Notification PDU, and waits for the Alarm ACK PDU": while
\* a notification is sent and repeated, ALPMI waits for its answer.
WaitsForAck ==
    \A p \in Prios :
        ap[p].rta # None /\ ap[p].rta.kind = "notify" => ap[p].alpmi = "W_ACK"

\* An answer, which "may be called in the context of this callback", does not
\* bring the stack down.
Survives == ~halted

\* The alarms of the device at priority p, as its application sees them: those
\* in the queue and the one on its way; the one the controller has got.
SendingTo(p) == ap[p].rta # None /\ ap[p].rta.kind = "notify" /\ ctl[p].exp = ap[p].send
OnTheWay(p) == IF SendingTo(p) THEN <<ap[p].rta.alarm>> ELSE << >>
Indicated(p) == ap[p].alpmi = "W_ACK" /\ ~SendingTo(p)
ToIndicate(p) == OnTheWay(p) \o sendq[p]
Current(p) == IF Indicated(p) THEN ctl[p].last ELSE None
Answered(p) == Indicated(p) /\ ctl[p].got = None

Process == INSTANCE AlarmService
    WITH queue <- ToIndicate(High), current <- Current(High), answered <- Answered(High)

\* The alarms of the controller, of high priority.
Asking == ctl[High].out # None /\ ctl[High].out.kind = "notify" /\ ap[High].exp = ctl[High].send
Asked == up /\ ctl[High].alpmi = "W_ACK" /\ ~Asking
FromController == INSTANCE AlarmService
    WITH queue <- IF up /\ Asking THEN <<ctl[High].out.alarm>> ELSE << >>,
         current <- IF Asked THEN ctl[High].asked ELSE None,
         answered <- Asked /\ owed[High] = None

\* Whatever is lost, repeated or crosses: each alarm of the application is
\* indicated to the controller once, in order, and confirmed only after the
\* controller has answered it (pf_alarm.c as a whole).
ProcessAlarmsReach == Process!Spec

\* The same for the alarms of the controller, of high priority.
AlarmsReachApplication == FromController!Spec

\* The main thread drains the receive queues and runs the timers in every cycle;
\* the controller follows the protocol.  Nothing else need happen: a frame may
\* rest on the link and the application may never answer.
Fairness ==
    \A p \in Sends \cup CtlSends :
        /\ WF_vars(\E sent \in Sendings : Fetch(p, sent))
        /\ WF_vars(\E sent \in Sendings : ApmsTimeout(p, sent))
        /\ WF_vars(\E arrives \in BOOLEAN : CtlAnswer(p, arrives))
        /\ WF_vars(\E arrives \in BOOLEAN : CtlResend(p, arrives))
        /\ WF_vars(CtlGiveUp(p))

FairSpec == Spec /\ Fairness

\* An alarm under way is answered or the connection ends: the channel does not
\* get stuck.
AlarmsSettle == \A p \in Prios : ap[p].alpmi = "W_ACK" ~> ap[p].alpmi # "W_ACK"
=============================================================================
